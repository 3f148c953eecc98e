------------------------- MODULE StoreBufferProofs -------------------------
(***************************************************************************)
(* Proofs about StoreBuffer, for every set of harts, addresses and values  *)
(* and every drain delay, and about its litmus runs, LitmusStoreBuffer.    *)
(* The harts share no register, so the invariant is one formula for each   *)
(* hart; that of the litmus runs joins both by a memory order.             *)
(***************************************************************************)
EXTENDS LitmusStoreBuffer, SequenceTheorems, FiniteSetTheorems, TLAPS

USE DEF Depth

(* The invariants of one hart.                                             *)
Ring(h) == /\ sb_tail[h] = Slot(h, sb_count[h])
           /\ \A n \in 0 .. 1 : n < sb_count[h] => sb[h][Slot(h, n)] # None

StoreFlight(h) ==
  StoreInFlight(h) =>
    /\ sb_count[h] > 0
    /\ InFlight(h) = [is_load |-> FALSE, addr |-> Oldest(h).addr, data |-> Oldest(h).data]

Fault(h) == store_fault_pending[h] => /\ sb_count[h] > 0
                                      /\ store_fault_addr[h] = Oldest(h).addr
                                      /\ ~StoreInFlight(h)

LoadInFlight(h) == \/ req[h] # None /\ req[h].is_load
                   \/ port[h] # None /\ port[h].is_load

LoadCurrent(h) ==
  apb_rsp[h] # None \/ LoadInFlight(h) =>
    /\ Active(h, "load") /\ ~Forwarded(h)
    /\ InFlight(h) # None => InFlight(h).addr = access[h].addr

(* The port carries one transaction at a time, and an answer belongs to    *)
(* it: what the assertion a_response_matches_active_port says.             *)
Phase(h) == /\ reply[h] # None => port[h] # None
            /\ port[h] # None <=> port_busy[h]
            /\ port[h] # None => req[h] = None /\ port_is_load[h] = port[h].is_load
            /\ apb_rsp[h] # None => req[h] = None /\ port[h] = None

HartInv(h) == Ring(h) /\ StoreFlight(h) /\ Fault(h) /\ LoadCurrent(h) /\ Phase(h)
IInv == TypeOK /\ \A h \in Hart : HartInv(h)

-----------------------------------------------------------------------------
LEMMA RingArithmetic ==
  \A x \in 0 .. 1 : /\ (x + 0) % 2 = x /\ (x + 1) % 2 = 1 - x /\ (x + 2) % 2 = x
                    /\ 1 - x \in 0 .. 1 /\ 1 - x # x /\ 1 - (1 - x) = x
  BY SMT

LEMMA StoreAccess ==
  ASSUME NEW a \in Access, a.op = "store"
  PROVE  [addr |-> a.addr, data |-> a.data] \in Entry
  BY DEF Access, Entry

LEMMA LoadAccess ==
  ASSUME NEW a \in Access, a.op = "load"
  PROVE  a.addr \in Addr
  BY DEF Access

LEMMA RequestFields ==
  ASSUME NEW r \in PortRequest
  PROVE  r.is_load \in BOOLEAN /\ r.addr \in Addr /\ (~r.is_load => r.data \in Value)
  BY DEF PortRequest

LEMMA NewRequest ==
  /\ \A a : LET r == [is_load |-> TRUE, addr |-> a] IN r.is_load /\ r.addr = a
  /\ \A a, d : LET r == [is_load |-> FALSE, addr |-> a, data |-> d]
              IN  ~r.is_load /\ r.addr = a /\ r.data = d
  OBVIOUS

LEMMA RequestTypes ==
  /\ \A a \in Addr : [is_load |-> TRUE, addr |-> a] \in PortRequest
  /\ \A e \in Entry : [is_load |-> FALSE, addr |-> e.addr, data |-> e.data] \in PortRequest
  BY DEF PortRequest, Entry

(* The ring without modulo: which slots hold entries, by the count.        *)
LEMMA RingShape ==
  ASSUME NEW head \in 0 .. 1, NEW tail, NEW count \in 0 .. 2, NEW f
  PROVE  (/\ tail = (head + count) % 2
          /\ \A n \in 0 .. 1 : n < count => f[(head + n) % 2] # None)
         <=> /\ count = 1 => tail = 1 - head
             /\ count # 1 => tail = head
             /\ count # 0 => f[head] # None
             /\ count = 2 => f[1 - head] # None
<1>1. count = 0 \/ count = 1 \/ count = 2
  OBVIOUS
<1>2. /\ (head + 0) % 2 = head /\ (head + 1) % 2 = 1 - head /\ (head + 2) % 2 = head
  BY RingArithmetic
<1>3. \A n \in 0 .. 1 : n = 0 \/ n = 1
  OBVIOUS
<1> QED
  BY <1>1, <1>2, <1>3

(* One edge, as it changes hart h's registers.                             *)
LEMMA EdgeRegisters ==
  ASSUME TypeOK, NEW h \in Hart, Edge(h)
  PROVE  /\ access'[h] = IF Ready(h) THEN None ELSE access[h]
         /\ penable'[h] = (access[h] # None /\ ~Ready(h))
         /\ sb'[h] = IF Enqueue(h)
                     THEN [sb[h] EXCEPT ![sb_tail[h]] =
                             [addr |-> access[h].addr, data |-> access[h].data]]
                     ELSE sb[h]
         /\ sb_tail'[h] = IF Enqueue(h) THEN 1 - sb_tail[h] ELSE sb_tail[h]
         /\ sb_head'[h] = IF Drained(h) THEN 1 - sb_head[h] ELSE sb_head[h]
         /\ sb_count'[h] = IF Enqueue(h) /\ ~Drained(h) THEN sb_count[h] + 1
                           ELSE IF Drained(h) /\ ~Enqueue(h) THEN sb_count[h] - 1
                           ELSE sb_count[h]
         /\ store_fault_pending'[h] =
              (Failed(h) \/ (store_fault_pending[h] /\ ~Active(h, "clear")))
         /\ store_fault_addr'[h] = IF Failed(h) THEN Oldest(h).addr ELSE store_fault_addr[h]
<1>1. sb_tail[h] \in 0 .. 1 /\ sb_head[h] \in 0 .. 1
  BY DEF TypeOK
<1>2. (sb_tail[h] + 1) % 2 = 1 - sb_tail[h] /\ (sb_head[h] + 1) % 2 = 1 - sb_head[h]
  BY <1>1, RingArithmetic
<1> USE DEF TypeOK, Edge
<1>3. access'[h] = IF Ready(h) THEN None ELSE access[h]
  BY DEF CoreEdge
<1>4. penable'[h] = (access[h] # None /\ ~Ready(h))
  BY DEF CoreEdge
<1>5. sb'[h] = IF Enqueue(h)
               THEN [sb[h] EXCEPT ![sb_tail[h]] =
                       [addr |-> access[h].addr, data |-> access[h].data]]
               ELSE sb[h]
  BY DEF RingEdge
<1>6. /\ sb_tail'[h] = IF Enqueue(h) THEN 1 - sb_tail[h] ELSE sb_tail[h]
      /\ sb_head'[h] = IF Drained(h) THEN 1 - sb_head[h] ELSE sb_head[h]
  BY <1>2 DEF RingEdge
<1>7. sb_count'[h] = IF Enqueue(h) /\ ~Drained(h) THEN sb_count[h] + 1
                     ELSE IF Drained(h) /\ ~Enqueue(h) THEN sb_count[h] - 1
                     ELSE sb_count[h]
  BY DEF RingEdge
<1>8. store_fault_pending'[h] =
        (Failed(h) \/ (store_fault_pending[h] /\ ~Active(h, "clear")))
  BY DEF FaultEdge
<1>9. store_fault_addr'[h] = IF Failed(h) THEN Oldest(h).addr ELSE store_fault_addr[h]
  BY DEF FaultEdge, Oldest
<1> QED
  BY <1>3, <1>4, <1>5, <1>6, <1>7, <1>8, <1>9

LEMMA EdgePort ==
  ASSUME TypeOK, NEW h \in Hart, Edge(h)
  PROVE  /\ req'[h] = IF IssueLoad(h) THEN [is_load |-> TRUE, addr |-> access[h].addr]
                      ELSE IF IssueDrain(h)
                      THEN [is_load |-> FALSE, addr |-> Oldest(h).addr, data |-> Oldest(h).data]
                      ELSE IF Accepted(h) THEN None ELSE req[h]
         /\ port_busy'[h] = (Accepted(h) \/ (port_busy[h] /\ reply[h] = None))
         /\ port_is_load'[h] = IF Accepted(h) THEN req[h].is_load ELSE port_is_load[h]
         /\ apb_rsp'[h] = IF apb_rsp[h] # None /\ Active(h, "load") /\ Ready(h) THEN None
                          ELSE IF reply[h] # None /\ port_busy[h] /\ port_is_load[h]
                          THEN reply[h] ELSE apb_rsp[h]
         /\ port'[h] = IF Accepted(h) THEN req[h]
                       ELSE IF reply[h] # None THEN None ELSE port[h]
         /\ reply'[h] = None
  BY DEF TypeOK, Edge, PortEdge, Oldest

(* An edge, an operation of the core or an answer leaves the other harts.  *)
Untouched(g) ==
  /\ access'[g] = access[g] /\ penable'[g] = penable[g]
  /\ sb'[g] = sb[g] /\ sb_head'[g] = sb_head[g] /\ sb_tail'[g] = sb_tail[g]
  /\ sb_count'[g] = sb_count[g]
  /\ req'[g] = req[g] /\ port_busy'[g] = port_busy[g] /\ port_is_load'[g] = port_is_load[g]
  /\ apb_rsp'[g] = apb_rsp[g]
  /\ store_fault_pending'[g] = store_fault_pending[g]
  /\ store_fault_addr'[g] = store_fault_addr[g]
  /\ port'[g] = port[g] /\ reply'[g] = reply[g]

LEMMA OtherHarts ==
  ASSUME TypeOK, NEW h \in Hart, Step(h), NEW g \in Hart, g # h
  PROVE  Untouched(g)
<1> USE DEF TypeOK, Untouched
<1>1. CASE Issue(h)
  BY <1>1 DEF Issue, bridgeVars, ringVars, faultVars
<1>2. CASE Perform(h) \/ Fail(h)
  BY <1>2 DEF Perform, Fail, bridgeVars, ringVars, faultVars
<1>3. CASE Edge(h)
  BY <1>3 DEF Edge, CoreEdge, RingEdge, FaultEdge, PortEdge
<1> QED
  BY <1>1, <1>2, <1>3 DEF Step

LEMMA UntouchedKeepsInv ==
  ASSUME NEW g \in Hart, HartInv(g), Untouched(g)
  PROVE  HartInv(g)'
<1> USE DEF Untouched
<1>1. Ring(g)'
  BY DEF HartInv, Ring, Slot
<1>2. StoreFlight(g)'
  BY DEF HartInv, StoreFlight, StoreInFlight, InFlight, Oldest
<1>3. Fault(g)'
  BY DEF HartInv, Fault, StoreInFlight, Oldest
<1>4. LoadCurrent(g)'
  BY DEF HartInv, LoadCurrent, LoadInFlight, InFlight, Active, Forwarded, Match, Slot
<1>5. Phase(g)'
  BY DEF HartInv, Phase
<1> QED
  BY <1>1, <1>2, <1>3, <1>4, <1>5 DEF HartInv

-----------------------------------------------------------------------------
(* Both directions of RingShape for a hart, before and after a step.       *)
LEMMA RingFlat ==
  ASSUME TypeOK, NEW h \in Hart
  PROVE  Ring(h) <=> /\ sb_count[h] = 1 => sb_tail[h] = 1 - sb_head[h]
                     /\ sb_count[h] # 1 => sb_tail[h] = sb_head[h]
                     /\ sb_count[h] # 0 => sb[h][sb_head[h]] # None
                     /\ sb_count[h] = 2 => sb[h][1 - sb_head[h]] # None
<1>1. sb_head[h] \in 0 .. 1 /\ sb_count[h] \in 0 .. 2
  BY DEF TypeOK
<1> QED
  BY <1>1, RingShape DEF Ring, Slot

(* The completion of a store is that of the oldest entry.                  *)
LEMMA CompletionOfOldest ==
  ASSUME TypeOK, NEW h \in Hart, HartInv(h), StoreComplete(h)
  PROVE  /\ port[h] # None /\ ~port[h].is_load /\ req[h] = None /\ reply[h] # None
         /\ StoreInFlight(h) /\ sb_count[h] > 0 /\ ~store_fault_pending[h]
<1>1. port[h] # None /\ ~port[h].is_load /\ req[h] = None /\ reply[h] # None
  BY DEF HartInv, Phase, StoreComplete
<1> QED
  BY <1>1 DEF HartInv, StoreFlight, Fault, StoreInFlight

(* A store enters the ring when it is not full.                            *)
LEMMA EnqueueRoom ==
  ASSUME TypeOK, NEW h \in Hart, Enqueue(h)
  PROVE  /\ Active(h, "store") /\ sb_count[h] < 2
         /\ [addr |-> access[h].addr, data |-> access[h].data] \in Entry
<1>1. access[h] \in Access /\ access[h].op = "store" /\ access[h] # None
  BY DEF TypeOK, Enqueue, Active
<1>2. sb_count[h] < 2
  BY <1>1 DEF Enqueue, Ready, Active
<1> QED
  BY <1>1, <1>2, StoreAccess DEF Enqueue

(* A load in flight keeps its core waiting, and the ring as it is.         *)
LEMMA LoadHolds ==
  ASSUME TypeOK, NEW h \in Hart, HartInv(h), LoadInFlight(h) \/ apb_rsp[h] # None
  PROVE  /\ Active(h, "load") /\ ~Forwarded(h) /\ ~Enqueue(h) /\ ~StoreComplete(h)
         /\ apb_rsp[h] = None => ~Ready(h)
<1>1. Active(h, "load") /\ ~Forwarded(h)
  BY DEF HartInv, LoadCurrent
<1>2. ~Enqueue(h)
  BY <1>1 DEF Enqueue, Active
<1>3. ~StoreComplete(h)
  BY DEF HartInv, Phase, StoreComplete, LoadInFlight
<1>4. apb_rsp[h] = None => ~Ready(h)
  BY <1>1 DEF Ready, Active
<1> QED
  BY <1>1, <1>2, <1>3, <1>4

LEMMA EdgeRing ==
  ASSUME TypeOK, TypeOK', NEW h \in Hart, HartInv(h), Edge(h)
  PROVE  Ring(h)'
<1> DEFINE entry == [addr |-> access[h].addr, data |-> access[h].data]
<1>1. /\ sb_head[h] \in 0 .. 1 /\ sb_tail[h] \in 0 .. 1 /\ sb_count[h] \in 0 .. 2
      /\ sb[h] \in [0 .. 1 -> Entry \cup {None}]
  BY DEF TypeOK
<1>2. /\ sb_count[h] = 1 => sb_tail[h] = 1 - sb_head[h]
      /\ sb_count[h] # 1 => sb_tail[h] = sb_head[h]
      /\ sb_count[h] # 0 => sb[h][sb_head[h]] # None
      /\ sb_count[h] = 2 => sb[h][1 - sb_head[h]] # None
  BY RingFlat DEF HartInv
<1>3. /\ Enqueue(h) => sb_count[h] < 2 /\ entry # None
      /\ Drained(h) => sb_count[h] > 0
  BY EnqueueRoom, CompletionOfOldest, NoneAssumption DEF Drained
<1>4. /\ sb'[h] = IF Enqueue(h) THEN [sb[h] EXCEPT ![sb_tail[h]] = entry] ELSE sb[h]
      /\ sb_tail'[h] = IF Enqueue(h) THEN 1 - sb_tail[h] ELSE sb_tail[h]
      /\ sb_head'[h] = IF Drained(h) THEN 1 - sb_head[h] ELSE sb_head[h]
      /\ sb_count'[h] = IF Enqueue(h) /\ ~Drained(h) THEN sb_count[h] + 1
                        ELSE IF Drained(h) /\ ~Enqueue(h) THEN sb_count[h] - 1
                        ELSE sb_count[h]
  BY EdgeRegisters
<1> HIDE DEF entry
<1>5. /\ sb_count'[h] = 1 => sb_tail'[h] = 1 - sb_head'[h]
      /\ sb_count'[h] # 1 => sb_tail'[h] = sb_head'[h]
      /\ sb_count'[h] # 0 => sb'[h][sb_head'[h]] # None
      /\ sb_count'[h] = 2 => sb'[h][1 - sb_head'[h]] # None
  <2>1. CASE Enqueue(h) /\ Drained(h)
    BY <2>1, <1>1, <1>2, <1>3, <1>4
  <2>2. CASE Enqueue(h) /\ ~Drained(h)
    BY <2>2, <1>1, <1>2, <1>3, <1>4
  <2>3. CASE ~Enqueue(h) /\ Drained(h)
    BY <2>3, <1>1, <1>2, <1>3, <1>4
  <2>4. CASE ~Enqueue(h) /\ ~Drained(h)
    BY <2>4, <1>1, <1>2, <1>3, <1>4
  <2> QED
    BY <2>1, <2>2, <2>3, <2>4
<1>6. sb_head'[h] \in 0 .. 1 /\ sb_count'[h] \in 0 .. 2
  BY DEF TypeOK
<1> QED
  BY <1>5, <1>6, RingShape DEF Ring, Slot

(* Until the oldest entry drains it keeps its slot.                        *)
LEMMA HeadKept ==
  ASSUME TypeOK, NEW h \in Hart, HartInv(h), Edge(h), ~Drained(h), sb_count[h] > 0
  PROVE  Oldest(h)' = Oldest(h) /\ sb_count'[h] > 0 /\ sb_head'[h] = sb_head[h]
<1>1. /\ sb_head[h] \in 0 .. 1 /\ sb_count[h] \in 0 .. 2
      /\ sb[h] \in [0 .. 1 -> Entry \cup {None}]
  BY DEF TypeOK
<1>2. sb_count[h] = 1 => sb_tail[h] = 1 - sb_head[h]
  BY RingFlat DEF HartInv
<1>3. Enqueue(h) => sb_count[h] < 2
  BY EnqueueRoom
<1>4. /\ sb'[h] = IF Enqueue(h)
                  THEN [sb[h] EXCEPT ![sb_tail[h]] =
                          [addr |-> access[h].addr, data |-> access[h].data]]
                  ELSE sb[h]
      /\ sb_head'[h] = sb_head[h]
      /\ sb_count'[h] = IF Enqueue(h) THEN sb_count[h] + 1 ELSE sb_count[h]
  BY EdgeRegisters
<1>5. sb'[h][sb_head[h]] = sb[h][sb_head[h]]
  BY <1>1, <1>2, <1>3, <1>4
<1>6. sb_count'[h] > 0
  BY <1>1, <1>4
<1> QED
  BY <1>4, <1>5, <1>6 DEF Oldest

LEMMA EdgePhase ==
  ASSUME TypeOK, NEW h \in Hart, HartInv(h), Edge(h)
  PROVE  Phase(h)'
<1>1. /\ reply[h] # None => port[h] # None
      /\ port[h] # None <=> port_busy[h]
      /\ port[h] # None => req[h] = None /\ port_is_load[h] = port[h].is_load
      /\ apb_rsp[h] # None => req[h] = None /\ port[h] = None
  BY DEF HartInv, Phase
<1>2. reply'[h] = None
  BY EdgePort
<1>3. port'[h] # None <=> port_busy'[h]
  BY <1>1, EdgePort DEF Accepted
<1>4. port'[h] # None => req'[h] = None /\ port_is_load'[h] = port'[h].is_load
  BY <1>1, EdgePort DEF Accepted, IssueLoad, IssueDrain
<1>5. ASSUME apb_rsp'[h] # None PROVE req'[h] = None /\ port'[h] = None
  <2>1. CASE apb_rsp[h] # None
    <3>1. Active(h, "load") /\ req[h] = None /\ port[h] = None
      BY <2>1, <1>1, LoadHolds
    <3> QED
      BY <2>1, <3>1, <1>1, EdgePort DEF Accepted, IssueLoad, IssueDrain
  <2>2. CASE apb_rsp[h] = None
    <3>1. reply[h] # None /\ port_busy[h] /\ port_is_load[h]
      BY <2>2, <1>5, EdgePort
    <3> QED
      BY <3>1, <1>1, EdgePort DEF Accepted, IssueLoad, IssueDrain
  <2> QED
    BY <2>1, <2>2
<1> QED
  BY <1>2, <1>3, <1>4, <1>5 DEF Phase

(* What is requested next is new, and what is in the port was accepted or  *)
(* was there and is not answered.                                          *)
LEMMA EdgeFlight ==
  ASSUME TypeOK, NEW h \in Hart, HartInv(h), Edge(h)
  PROVE  /\ req'[h] # None => IssueLoad(h) \/ IssueDrain(h)
         /\ IssueLoad(h) \/ IssueDrain(h) => port[h] = None /\ req[h] = None
         /\ IssueLoad(h) => req'[h].is_load /\ req'[h].addr = access[h].addr
         /\ ~IssueLoad(h) /\ IssueDrain(h) => ~req'[h].is_load
         /\ req'[h] # None => port'[h] = None
         /\ port'[h] # None => \/ req[h] # None /\ port[h] = None /\ port'[h] = req[h]
                               \/ port[h] # None /\ port'[h] = port[h] /\ reply[h] = None
<1>1. /\ port[h] # None <=> port_busy[h]
      /\ port[h] # None => req[h] = None
  BY DEF HartInv, Phase
<1>2. IssueLoad(h) \/ IssueDrain(h) => port[h] = None /\ req[h] = None
  BY <1>1 DEF IssueLoad, IssueDrain
<1>3. req'[h] # None => IssueLoad(h) \/ IssueDrain(h)
  BY <1>1, EdgePort DEF Accepted
<1>4. req'[h] # None => port'[h] = None
  BY <1>2, <1>3, EdgePort DEF Accepted
<1>5. port'[h] # None => \/ req[h] # None /\ port[h] = None /\ port'[h] = req[h]
                         \/ port[h] # None /\ port'[h] = port[h] /\ reply[h] = None
  BY EdgePort DEF Accepted
<1>6. IssueLoad(h) => req'[h].is_load /\ req'[h].addr = access[h].addr
  <2>1. IssueLoad(h) => req'[h] = [is_load |-> TRUE, addr |-> access[h].addr]
    BY EdgePort
  <2> QED
    BY <2>1, NewRequest
<1>7. ~IssueLoad(h) /\ IssueDrain(h) => ~req'[h].is_load
  <2>1. ~IssueLoad(h) /\ IssueDrain(h)
          => req'[h] = [is_load |-> FALSE, addr |-> Oldest(h).addr, data |-> Oldest(h).data]
    BY EdgePort
  <2> QED
    BY <2>1, NewRequest
<1> QED
  BY <1>2, <1>3, <1>4, <1>5, <1>6, <1>7

LEMMA EdgeStoreFlight ==
  ASSUME TypeOK, NEW h \in Hart, HartInv(h), Edge(h)
  PROVE  StoreFlight(h)'
<1> SUFFICES ASSUME StoreInFlight(h)'
             PROVE  /\ sb_count'[h] > 0
                    /\ InFlight(h)' = [is_load |-> FALSE, addr |-> Oldest(h)'.addr,
                                       data |-> Oldest(h)'.data]
  BY DEF StoreFlight
<1>1. sb_count[h] \in 0 .. 2
  BY DEF TypeOK
<1>2. CASE req'[h] # None
  <2>1. ~IssueLoad(h) /\ IssueDrain(h)
    BY <1>2, EdgeFlight DEF StoreInFlight
  <2>2. ~Drained(h) /\ sb_count[h] > 0
    BY <1>1, <2>1, EdgeFlight, CompletionOfOldest DEF IssueDrain, Drained
  <2>3. InFlight(h)' = [is_load |-> FALSE, addr |-> Oldest(h).addr, data |-> Oldest(h).data]
    BY <1>2, <2>1, EdgePort DEF InFlight
  <2> QED
    BY <2>2, <2>3, HeadKept
<1>3. CASE req'[h] = None
  <2>1. port'[h] # None /\ ~port'[h].is_load
    BY <1>3 DEF StoreInFlight
  <2>2. /\ StoreInFlight(h) /\ InFlight(h) = port'[h] /\ ~Drained(h)
    <3>1. CASE req[h] # None /\ port[h] = None /\ port'[h] = req[h]
      BY <2>1, <3>1, CompletionOfOldest DEF StoreInFlight, InFlight, Drained
    <3>2. CASE port[h] # None /\ port'[h] = port[h] /\ reply[h] = None
      <4>1. req[h] = None
        BY <3>2 DEF HartInv, Phase
      <4> QED
        BY <2>1, <3>2, <4>1 DEF StoreInFlight, InFlight, Drained, StoreComplete
    <3> QED
      BY <2>1, <3>1, <3>2, EdgeFlight
  <2>3. /\ sb_count[h] > 0
        /\ port'[h] = [is_load |-> FALSE, addr |-> Oldest(h).addr, data |-> Oldest(h).data]
    BY <2>2 DEF HartInv, StoreFlight
  <2>4. InFlight(h)' = port'[h]
    BY <1>3 DEF InFlight
  <2> QED
    BY <2>2, <2>3, <2>4, HeadKept
<1> QED
  BY <1>2, <1>3

LEMMA EdgeFault ==
  ASSUME TypeOK, NEW h \in Hart, HartInv(h), Edge(h)
  PROVE  Fault(h)'
<1> SUFFICES ASSUME store_fault_pending'[h]
             PROVE  /\ sb_count'[h] > 0 /\ store_fault_addr'[h] = Oldest(h)'.addr
                    /\ ~StoreInFlight(h)'
  BY DEF Fault
<1>1. CASE Failed(h)
  <2>1. /\ port[h] # None /\ req[h] = None /\ reply[h] # None /\ sb_count[h] > 0
        /\ ~Drained(h)
    BY <1>1, CompletionOfOldest DEF Failed, Drained
  <2>2. store_fault_addr'[h] = Oldest(h).addr
    BY <1>1, EdgeRegisters
  <2>3. req'[h] = None /\ port'[h] = None
    BY <2>1, EdgeFlight
  <2> QED
    BY <2>1, <2>2, <2>3, HeadKept DEF StoreInFlight
<1>2. CASE ~Failed(h)
  <2>1. store_fault_pending[h] /\ store_fault_addr'[h] = store_fault_addr[h]
    BY <1>2, EdgeRegisters
  <2>2. /\ sb_count[h] > 0 /\ store_fault_addr[h] = Oldest(h).addr
        /\ ~StoreInFlight(h) /\ ~Drained(h)
    BY <2>1, CompletionOfOldest DEF HartInv, Fault, Drained
  <2>3. ~IssueDrain(h)
    BY <2>1 DEF IssueDrain
  <2>4. req'[h] # None => req'[h].is_load
    BY <2>3, EdgeFlight
  <2>5. port'[h] # None => port'[h].is_load
    BY <2>2, EdgeFlight DEF StoreInFlight
  <2> QED
    BY <2>1, <2>2, <2>4, <2>5, HeadKept DEF StoreInFlight
<1> QED
  BY <1>1, <1>2

LEMMA EdgeLoadCurrent ==
  ASSUME TypeOK, NEW h \in Hart, HartInv(h), Edge(h)
  PROVE  LoadCurrent(h)'
<1> SUFFICES ASSUME apb_rsp'[h] # None \/ LoadInFlight(h)'
             PROVE  /\ Active(h, "load")' /\ ~Forwarded(h)'
                    /\ InFlight(h)' # None => InFlight(h)'.addr = access'[h].addr
  BY DEF LoadCurrent
<1>1. LoadInFlight(h) \/ IssueLoad(h)
  <2>1. CASE apb_rsp'[h] # None
    <3>1. CASE apb_rsp[h] # None
      <4>1. Active(h, "load") /\ reply[h] = None
        BY <3>1, LoadHolds DEF HartInv, Phase
      <4>2. Ready(h)
        BY <3>1, <4>1 DEF Ready
      <4> QED
        BY <2>1, <3>1, <4>1, <4>2, EdgePort
    <3>2. CASE apb_rsp[h] = None
      <4>1. reply[h] # None /\ port_busy[h] /\ port_is_load[h]
        BY <2>1, <3>2, EdgePort
      <4> QED
        BY <4>1 DEF HartInv, Phase, LoadInFlight
    <3> QED
      BY <3>1, <3>2
  <2>2. CASE req'[h] # None /\ req'[h].is_load
    <3>1. IssueLoad(h)
      BY <2>2, EdgeFlight
    <3> QED
      BY <3>1
  <2>3. CASE port'[h] # None /\ port'[h].is_load
    BY <2>3, EdgeFlight DEF LoadInFlight
  <2> QED
    BY <2>1, <2>2, <2>3 DEF LoadInFlight
<1>2. /\ Active(h, "load") /\ ~Forwarded(h) /\ ~Enqueue(h) /\ ~Drained(h) /\ ~Ready(h)
  <2>1. CASE LoadInFlight(h)
    <3>1. apb_rsp[h] = None
      BY <2>1 DEF HartInv, Phase, LoadInFlight
    <3> QED
      BY <2>1, <3>1, LoadHolds DEF Drained
  <2>2. CASE IssueLoad(h)
    <3>1. Active(h, "load") /\ ~Forwarded(h) /\ apb_rsp[h] = None /\ port[h] = None
      BY <2>2, EdgeFlight DEF IssueLoad
    <3>2. ~Ready(h)
      BY <3>1 DEF Ready, Active
    <3> QED
      BY <3>1, <3>2, CompletionOfOldest DEF Enqueue, Drained
  <2> QED
    BY <1>1, <2>1, <2>2
<1>3. /\ access'[h] = access[h] /\ penable'[h]
      /\ sb'[h] = sb[h] /\ sb_head'[h] = sb_head[h] /\ sb_count'[h] = sb_count[h]
  BY <1>2, EdgeRegisters DEF Active
<1>4. Active(h, "load")' /\ ~Forwarded(h)'
  BY <1>2, <1>3 DEF Active, Forwarded, Match, Slot
<1>5. ASSUME InFlight(h)' # None PROVE InFlight(h)'.addr = access'[h].addr
  <2>1. CASE req'[h] # None
    <3>1. IssueLoad(h)
      BY <1>2, <2>1, EdgeFlight DEF IssueDrain
    <3> QED
      BY <2>1, <3>1, <1>3, EdgeFlight DEF InFlight
  <2>2. CASE req'[h] = None
    <3>1. port'[h] # None
      BY <1>5, <2>2 DEF InFlight
    <3>2. LoadInFlight(h) /\ InFlight(h) = port'[h]
      <4>1. req[h] # None \/ port[h] # None
        BY <3>1, EdgeFlight
      <4>2. LoadInFlight(h)
        BY <4>1, <1>1, EdgeFlight
      <4>3. port[h] # None => req[h] = None
        BY DEF HartInv, Phase
      <4> QED
        BY <3>1, <4>2, <4>3, EdgeFlight DEF InFlight
    <3>3. InFlight(h).addr = access[h].addr
      BY <3>1, <3>2 DEF HartInv, LoadCurrent
    <3> QED
      BY <2>2, <3>2, <3>3, <1>3 DEF InFlight
  <2> QED
    BY <2>1, <2>2
<1> QED
  BY <1>4, <1>5

(* A forwarded load gets the data of the youngest entry with its address.  *)
LEMMA ForwardedEntry ==
  ASSUME TypeOK, NEW h \in Hart, Ring(h), Forwarded(h)
  PROVE  \E n \in Match(h) : /\ \A m \in Match(h) : m <= n
                            /\ sb[h][Slot(h, n)] \in Entry
                            /\ ForwardedData(h) = sb[h][Slot(h, n)].data
<1> DEFINE youngest == CHOOSE n \in Match(h) : \A m \in Match(h) : m <= n
<1>1. Match(h) \in SUBSET {0, 1} /\ Match(h) # {}
  BY DEF Match, Forwarded
<1>2. \E n \in Match(h) : \A m \in Match(h) : m <= n
  <2>1. CASE 1 \in Match(h)
    BY <1>1, <2>1
  <2>2. CASE 1 \notin Match(h)
    BY <1>1, <2>2
  <2> QED
    BY <2>1, <2>2
<1>3. youngest \in Match(h) /\ \A m \in Match(h) : m <= youngest
  BY <1>2
<1>4. ForwardedData(h) = sb[h][Slot(h, youngest)].data
  BY DEF ForwardedData
<1> HIDE DEF youngest
<1>5. sb[h][Slot(h, youngest)] \in Entry
  <2>1. youngest \in 0 .. 1 /\ youngest < sb_count[h]
    BY <1>3 DEF Match
  <2>2. sb[h][Slot(h, youngest)] # None
    BY <2>1 DEF Ring
  <2>3. Slot(h, youngest) \in 0 .. 1
    BY <2>1, RingArithmetic DEF Slot, TypeOK
  <2> QED
    BY <2>2, <2>3 DEF TypeOK
<1> QED
  BY <1>3, <1>4, <1>5

LEMMA OldestEntry ==
  ASSUME TypeOK, NEW h \in Hart, Ring(h), sb_count[h] > 0
  PROVE  Oldest(h) \in Entry /\ Oldest(h).addr \in Addr
<1>1. /\ sb_head[h] \in 0 .. 1 /\ sb_count[h] \in 0 .. 2
      /\ sb[h] \in [0 .. 1 -> Entry \cup {None}]
  BY DEF TypeOK
<1>2. Oldest(h) \in Entry
  BY <1>1, RingFlat DEF Oldest
<1> QED
  BY <1>2 DEF Entry

LEMMA EdgeTyped ==
  ASSUME TypeOK, NEW h \in Hart, HartInv(h), Edge(h)
  PROVE  TypeOK'
<1> USE DEF TypeOK
<1>1. /\ sb_head[h] \in 0 .. 1 /\ sb_tail[h] \in 0 .. 1 /\ sb_count[h] \in 0 .. 2
      /\ 1 - sb_head[h] \in 0 .. 1 /\ 1 - sb_tail[h] \in 0 .. 1
      /\ (sb_head[h] + 1) % 2 \in 0 .. 1 /\ (sb_tail[h] + 1) % 2 \in 0 .. 1
  BY RingArithmetic
<1>2. access' \in [Hart -> Access \cup {None}] /\ penable' \in [Hart -> BOOLEAN]
  BY DEF Edge, CoreEdge
<1>3. prdata' \in [Hart -> Value \cup {None, Error}]
  <2>1. Forwarded(h) => ForwardedData(h) \in Value
    BY ForwardedEntry DEF HartInv, Entry
  <2> QED
    BY <2>1 DEF Edge, CoreEdge
<1>4. sb' \in [Hart -> [0 .. 1 -> Entry \cup {None}]]
  <2>1. Enqueue(h) => [addr |-> access[h].addr, data |-> access[h].data] \in Entry
    BY EnqueueRoom
  <2> QED
    BY <1>1, <2>1 DEF Edge, RingEdge
<1>5. sb_tail' \in [Hart -> 0 .. 1] /\ sb_head' \in [Hart -> 0 .. 1]
  BY <1>1 DEF Edge, RingEdge
<1>6. sb_count' \in [Hart -> 0 .. 2]
  <2>1. /\ Enqueue(h) => sb_count[h] < 2
        /\ Drained(h) => sb_count[h] > 0
    BY EnqueueRoom, CompletionOfOldest DEF Drained
  <2>2. (IF Enqueue(h) /\ ~Drained(h) THEN sb_count[h] + 1
         ELSE IF Drained(h) /\ ~Enqueue(h) THEN sb_count[h] - 1 ELSE sb_count[h]) \in 0 .. 2
    BY <1>1, <2>1
  <2> QED
    BY <2>2 DEF Edge, RingEdge
<1>7. sb_age' \in [Hart -> 0 .. Delay]
  <2>1. sb_age[h] \in 0 .. Delay /\ Delay \in Nat
    BY DelayAssumption
  <2>2. (IF Drained(h) \/ (Enqueue(h) /\ sb_count[h] = 0) THEN 0
         ELSE IF Active(h, "clear") THEN Delay
         ELSE IF sb_count[h] # 0 /\ sb_age[h] < Delay THEN sb_age[h] + 1
         ELSE sb_age[h]) \in 0 .. Delay
    BY <2>1
  <2> QED
    BY <2>2 DEF Edge, AgeEdge
<1>8. sb_count[h] > 0 => Oldest(h) \in Entry /\ Oldest(h).addr \in Addr
  BY OldestEntry DEF HartInv
<1>9. /\ store_fault_pending' \in [Hart -> BOOLEAN]
      /\ store_fault_addr' \in [Hart -> Addr \cup {None}]
  <2>1. Failed(h) => sb[h][sb_head[h]].addr \in Addr
    BY <1>8, CompletionOfOldest DEF Failed, Oldest
  <2> QED
    BY <2>1 DEF Edge, FaultEdge
<1>10. req' \in [Hart -> PortRequest \cup {None}]
  <2>1. IssueLoad(h) => [is_load |-> TRUE, addr |-> access[h].addr] \in PortRequest
    <3>1. IssueLoad(h) => access[h] \in Access /\ access[h].op = "load"
      BY DEF IssueLoad, Active
    <3> QED
      BY <3>1, LoadAccess, RequestTypes
  <2>2. IssueDrain(h) => [is_load |-> FALSE, addr |-> sb[h][sb_head[h]].addr,
                          data |-> sb[h][sb_head[h]].data] \in PortRequest
    <3>1. IssueDrain(h) => Oldest(h) \in Entry
      BY <1>1, <1>8 DEF IssueDrain
    <3> QED
      BY <3>1, RequestTypes DEF Oldest
  <2> QED
    BY <2>1, <2>2 DEF Edge, PortEdge
<1>11. port_busy' \in [Hart -> BOOLEAN]
  BY DEF Edge, PortEdge
<1>12. port_is_load' \in [Hart -> BOOLEAN]
  <2>1. Accepted(h) => req[h].is_load \in BOOLEAN
    BY RequestFields DEF Accepted
  <2> QED
    BY <2>1 DEF Edge, PortEdge
<1>13. apb_rsp' \in [Hart -> Value \cup {None, Error}]
  BY DEF Edge, PortEdge
<1>14. port' \in [Hart -> PortRequest \cup {None}] /\ reply' \in [Hart -> Value \cup {None, Error}]
  BY DEF Edge, PortEdge
<1>15. mem' \in [Addr -> Value]
  BY DEF Edge
<1> QED
  BY <1>2, <1>3, <1>4, <1>5, <1>6, <1>7, <1>9, <1>10, <1>11, <1>12, <1>13, <1>14, <1>15

(* An edge keeps the invariant of its hart.                                *)
LEMMA EdgeKeepsInv ==
  ASSUME TypeOK, NEW h \in Hart, HartInv(h), Edge(h)
  PROVE  TypeOK' /\ HartInv(h)'
<1>1. TypeOK'
  BY EdgeTyped
<1> QED
  BY <1>1, EdgeRing, EdgeStoreFlight, EdgeFault, EdgeLoadCurrent, EdgePhase DEF HartInv

LEMMA IssueKeepsInv ==
  ASSUME TypeOK, NEW h \in Hart, HartInv(h), Issue(h)
  PROVE  TypeOK' /\ HartInv(h)'
<1> USE DEF bridgeVars, ringVars, faultVars
<1>1. TypeOK'
  BY DEF Issue, TypeOK
<1>2. Ring(h)' /\ Phase(h)'
  BY DEF Issue, HartInv, Ring, Slot, Phase
<1>3. StoreFlight(h)' /\ Fault(h)'
  BY DEF Issue, HartInv, StoreFlight, Fault, StoreInFlight, InFlight, Oldest
<1>4. LoadCurrent(h)'
  <2>1. ~(apb_rsp[h] # None \/ LoadInFlight(h))
    BY DEF Issue, HartInv, LoadCurrent, Active
  <2> QED
    BY <2>1 DEF Issue, LoadCurrent, LoadInFlight
<1> QED
  BY <1>1, <1>2, <1>3, <1>4 DEF HartInv

LEMMA AnswerKeepsInv ==
  ASSUME TypeOK, NEW h \in Hart, HartInv(h), Perform(h) \/ Fail(h)
  PROVE  TypeOK' /\ HartInv(h)'
<1> USE DEF bridgeVars, ringVars, faultVars
<1>1. TypeOK'
  <2>1. port[h] \in PortRequest
    BY DEF TypeOK, Perform, Fail
  <2>2. port[h].is_load \in BOOLEAN /\ port[h].addr \in Addr
        /\ (~port[h].is_load => port[h].data \in Value)
    BY <2>1, RequestFields
  <2>3. CASE Perform(h)
    <3>1. mem' \in [Addr -> Value] /\ reply' \in [Hart -> Value \cup {None, Error}]
      BY <2>2, <2>3 DEF Perform, TypeOK
    <3> QED
      BY <2>3, <3>1 DEF Perform, TypeOK
  <2>4. CASE Fail(h)
    BY <2>4 DEF Fail, TypeOK
  <2> QED
    BY <2>3, <2>4
<1>2. /\ UNCHANGED <<access, penable, sb, sb_head, sb_tail, sb_count, req, port_busy,
                     port_is_load, apb_rsp, store_fault_pending, store_fault_addr, port>>
      /\ port[h] # None
  BY DEF Perform, Fail
<1>3. Ring(h)' /\ Phase(h)'
  BY <1>2 DEF HartInv, Ring, Slot, Phase
<1>4. StoreFlight(h)' /\ Fault(h)'
  BY <1>2 DEF HartInv, StoreFlight, Fault, StoreInFlight, InFlight, Oldest
<1>5. LoadCurrent(h)'
  BY <1>2 DEF HartInv, LoadCurrent, LoadInFlight, InFlight, Active, Forwarded, Match, Slot
<1> QED
  BY <1>1, <1>3, <1>4, <1>5 DEF HartInv

(* With the counters at zero and nothing in flight, all of it holds.       *)
LEMMA IdleInv ==
  ASSUME NEW h \in Hart, sb_head[h] = 0, sb_tail[h] = 0, sb_count[h] = 0,
         req[h] = None, port[h] = None, reply[h] = None, apb_rsp[h] = None,
         port_busy[h] = FALSE, store_fault_pending[h] = FALSE
  PROVE  HartInv(h)
<1>1. Ring(h)
  <2>1. (0 + 0) % 2 = 0
    BY RingArithmetic
  <2> QED
    BY <2>1 DEF Ring, Slot
<1> QED
  BY <1>1 DEF HartInv, StoreFlight, Fault, LoadCurrent, LoadInFlight, Phase, StoreInFlight

(* The invariant holds of every hart, whatever the order of the edges,     *)
(* answers, failures and resets.                                           *)
THEOREM Invariance == Spec => []IInv
<1>1. Init => IInv
  <2> SUFFICES ASSUME Init PROVE IInv
    OBVIOUS
  <2>1. TypeOK
    BY DelayAssumption DEF Init, TypeOK
  <2>2. ASSUME NEW h \in Hart PROVE HartInv(h)
    BY IdleInv DEF Init
  <2> QED
    BY <2>1, <2>2 DEF IInv
<1>2. IInv /\ [Next]_vars => IInv'
  <2> SUFFICES ASSUME IInv, [Next]_vars PROVE IInv'
    OBVIOUS
  <2>1. TypeOK /\ \A h \in Hart : HartInv(h)
    BY DEF IInv
  <2>2. CASE Reset
    <3>1. TypeOK'
      BY <2>1, <2>2, DelayAssumption DEF Reset, TypeOK
    <3>2. ASSUME NEW h \in Hart PROVE HartInv(h)'
      <4>1. (0 + 0) % 2 = 0
        BY RingArithmetic
      <4>2. /\ sb_head'[h] = 0 /\ sb_tail'[h] = 0 /\ sb_count'[h] = 0
            /\ req'[h] = None /\ port'[h] = None /\ reply'[h] = None /\ apb_rsp'[h] = None
            /\ port_busy'[h] = FALSE /\ store_fault_pending'[h] = FALSE
        BY <2>2 DEF Reset
      <4>3. Ring(h)'
        BY <4>1, <4>2 DEF Ring, Slot
      <4> QED
        BY <4>2, <4>3
        DEF HartInv, StoreFlight, Fault, LoadCurrent, LoadInFlight, Phase, StoreInFlight
    <3> QED
      BY <3>1, <3>2 DEF IInv
  <2>3. ASSUME NEW h \in Hart, Step(h) PROVE IInv'
    <3>1. TypeOK' /\ HartInv(h)'
      BY <2>1, <2>3, EdgeKeepsInv, IssueKeepsInv, AnswerKeepsInv DEF Step
    <3>2. ASSUME NEW g \in Hart, g # h PROVE HartInv(g)'
      BY <2>1, <2>3, <3>2, OtherHarts, UntouchedKeepsInv
    <3> QED
      BY <3>1, <3>2 DEF IInv
  <2>4. CASE UNCHANGED vars
    <3> USE DEF vars, bridgeVars, ringVars, faultVars
    <3>1. TypeOK'
      BY <2>1, <2>4 DEF TypeOK
    <3>2. ASSUME NEW h \in Hart PROVE HartInv(h)'
      <4>1. Untouched(h)
        BY <2>4 DEF Untouched
      <4> QED
        BY <2>1, <4>1, UntouchedKeepsInv
    <3> QED
      BY <3>1, <3>2 DEF IInv
  <2> QED
    BY <2>2, <2>3, <2>4 DEF Next
<1> QED
  BY <1>1, <1>2, PTL DEF Spec

(* Every register keeps its type.                                          *)
THEOREM TypeCorrect == Spec => []TypeOK
<1>1. IInv => TypeOK
  BY DEF IInv
<1> QED
  BY <1>1, Invariance, PTL

(* The counters of a ring agree and its occupied slots hold entries ...    *)
THEOREM RingsConsistent == Spec => []RingConsistent
<1>1. IInv => RingConsistent
  BY DEF IInv, HartInv, Ring, RingConsistent
<1> QED
  BY <1>1, Invariance, PTL

(* ... a store in flight is a copy of the oldest entry ...                 *)
THEOREM DrainsOldest == Spec => []StoreInFlightIsOldest
<1>1. IInv => StoreInFlightIsOldest
  BY DEF IInv, HartInv, StoreFlight, StoreInFlightIsOldest
<1> QED
  BY <1>1, Invariance, PTL

(* ... so stores drain in the order of the ring ...                        *)
THEOREM OrderedDrains == Spec => []DrainsInOrder
BY RingsConsistent, DrainsOldest, PTL DEF DrainsInOrder

(* ... as is a store whose failure is pending, which nothing overtakes ... *)
THEOREM FaultIsPrecise == Spec => []FaultNamesOldest
<1>1. IInv => FaultNamesOldest
  BY DEF IInv, HartInv, Fault, FaultNamesOldest
<1> QED
  BY <1>1, Invariance, PTL

(* ... and a load's answer reaches that load.                              *)
THEOREM LoadsAreCurrent == Spec => []LoadReplyIsCurrent
<1>1. IInv => LoadReplyIsCurrent
  BY DEF IInv, HartInv, LoadCurrent, LoadInFlight, LoadReplyIsCurrent
<1> QED
  BY <1>1, Invariance, PTL

-----------------------------------------------------------------------------
(* Sequences of at most two entries.                                       *)
LEMMA ShortSequences ==
  /\ \A a : Append(<<>>, a) = <<a>> /\ Tail(<<a>>) = <<>> /\ Head(<<a>>) = a
  /\ \A a, b : Tail(<<a, b>>) = <<b>> /\ Head(<<a, b>>) = a
  /\ \A a, b : Append(<<a>>, b) = <<a, b>>
<1>1. ASSUME NEW a PROVE Append(<<>>, a) = <<a>> /\ Tail(<<a>>) = <<>> /\ Head(<<a>>) = a
  OBVIOUS
<1>2. \A a, b : Tail(<<a, b>>) = <<b>>
  OBVIOUS
<1>3. \A a, b : Head(<<a, b>>) = a
  OBVIOUS
<1>4. ASSUME NEW a, NEW b PROVE Append(<<a>>, b) = <<a, b>>
  <2>1. /\ <<a>> \in Seq({a, b}) /\ b \in {a, b} /\ <<a, b>> \in Seq({a, b})
        /\ Len(<<a>>) = 1 /\ Len(<<a, b>>) = 2
    OBVIOUS
  <2>2. /\ Append(<<a>>, b) \in Seq({a, b}) /\ Len(Append(<<a>>, b)) = 2
        /\ Append(<<a>>, b)[1] = a /\ Append(<<a>>, b)[2] = b
    BY <2>1
  <2>3. \A i \in 1 .. 2 : Append(<<a>>, b)[i] = <<a, b>>[i]
    BY <2>2
  <2> QED
    BY <2>1, <2>2, <2>3, SeqEqual
<1> QED
  BY <1>1, <1>2, <1>3, <1>4

LEMMA BufferShape ==
  ASSUME NEW head \in 0 .. 1, NEW f
  PROVE  /\ [n \in 1 .. 0 |-> f[(head + (n - 1)) % 2]] = <<>>
         /\ [n \in 1 .. 1 |-> f[(head + (n - 1)) % 2]] = <<f[head]>>
         /\ [n \in 1 .. 2 |-> f[(head + (n - 1)) % 2]] = <<f[head], f[1 - head]>>
<1>1. [n \in 1 .. 0 |-> f[(head + (n - 1)) % 2]] = <<>>
  OBVIOUS
<1>2. [n \in 1 .. 1 |-> f[(head + (n - 1)) % 2]] = <<f[head]>>
  <2>1. \A n \in 1 .. 1 : n = 1 /\ n - 1 = 0
    OBVIOUS
  <2> QED
    BY <2>1, RingArithmetic
<1>3. [n \in 1 .. 2 |-> f[(head + (n - 1)) % 2]] = <<f[head], f[1 - head]>>
  <2>1. \A n \in 1 .. 2 : (n = 1 /\ n - 1 = 0) \/ (n = 2 /\ n - 1 = 1)
    OBVIOUS
  <2> QED
    BY <2>1, RingArithmetic
<1> QED
  BY <1>1, <1>2, <1>3

LEMMA BufferOf ==
  ASSUME TypeOK, NEW h \in Hart
  PROVE  /\ sb_count[h] = 0 => Buffer[h] = <<>>
         /\ sb_count[h] = 1 => Buffer[h] = <<Oldest(h)>>
         /\ sb_count[h] = 2 => Buffer[h] = <<Oldest(h), sb[h][1 - sb_head[h]]>>
<1>1. sb_head[h] \in 0 .. 1
  BY DEF TypeOK
<1>2. Buffer[h] = [n \in 1 .. sb_count[h] |-> sb[h][(sb_head[h] + (n - 1)) % 2]]
  BY DEF Buffer, Slot
<1>3. /\ [n \in 1 .. 0 |-> sb[h][(sb_head[h] + (n - 1)) % 2]] = <<>>
      /\ [n \in 1 .. 1 |-> sb[h][(sb_head[h] + (n - 1)) % 2]] = <<sb[h][sb_head[h]]>>
      /\ [n \in 1 .. 2 |-> sb[h][(sb_head[h] + (n - 1)) % 2]]
           = <<sb[h][sb_head[h]], sb[h][1 - sb_head[h]]>>
  BY <1>1, BufferShape
<1>4. CASE sb_count[h] = 0
  BY <1>2, <1>3, <1>4
<1>5. CASE sb_count[h] = 1
  BY <1>2, <1>3, <1>5 DEF Oldest
<1>6. CASE sb_count[h] = 2
  BY <1>2, <1>3, <1>6 DEF Oldest
<1> QED
  BY <1>4, <1>5, <1>6

LEMMA OccupiedBuffer ==
  ASSUME TypeOK, NEW h \in Hart, sb_count[h] = 1 \/ sb_count[h] = 2
  PROVE  Buffer[h] # <<>> /\ Head(Buffer[h]) = Oldest(h)
<1>1. CASE sb_count[h] = 1
  <2>1. Buffer[h] = <<Oldest(h)>>
    BY <1>1, BufferOf
  <2> QED
    BY <2>1, ShortSequences
<1>2. CASE sb_count[h] = 2
  <2>1. Buffer[h] = <<Oldest(h), sb[h][1 - sb_head[h]]>>
    BY <1>2, BufferOf
  <2> QED
    BY <2>1, ShortSequences
<1> QED
  BY <1>1, <1>2

LEMMA BufferOfNext ==
  ASSUME TypeOK', NEW h \in Hart
  PROVE  /\ sb_count'[h] = 0 => Buffer'[h] = <<>>
         /\ sb_count'[h] = 1 => Buffer'[h] = <<sb'[h][sb_head'[h]]>>
         /\ sb_count'[h] = 2 => Buffer'[h] = <<sb'[h][sb_head'[h]], sb'[h][1 - sb_head'[h]]>>
<1>1. sb_head'[h] \in 0 .. 1
  BY DEF TypeOK
<1>2. Buffer'[h] = [n \in 1 .. sb_count'[h] |-> sb'[h][(sb_head'[h] + (n - 1)) % 2]]
  BY DEF Buffer, Slot
<1>3. /\ [n \in 1 .. 0 |-> sb'[h][(sb_head'[h] + (n - 1)) % 2]] = <<>>
      /\ [n \in 1 .. 1 |-> sb'[h][(sb_head'[h] + (n - 1)) % 2]] = <<sb'[h][sb_head'[h]]>>
      /\ [n \in 1 .. 2 |-> sb'[h][(sb_head'[h] + (n - 1)) % 2]]
           = <<sb'[h][sb_head'[h]], sb'[h][1 - sb_head'[h]]>>
  BY <1>1, BufferShape
<1>4. CASE sb_count'[h] = 0
  BY <1>2, <1>3, <1>4
<1>5. CASE sb_count'[h] = 1
  BY <1>2, <1>3, <1>5
<1>6. CASE sb_count'[h] = 2
  BY <1>2, <1>3, <1>6
<1> QED
  BY <1>4, <1>5, <1>6

(* What one edge does to the ring it does to the sequence: the head leaves *)
(* when it has drained, a store arrives at the end, or both.               *)
LEMMA EdgeBuffer ==
  ASSUME TypeOK, TypeOK', NEW h \in Hart, HartInv(h), Edge(h)
  PROVE  LET entry == [addr |-> access[h].addr, data |-> access[h].data]
             rest  == IF Drained(h) THEN Tail(Buffer[h]) ELSE Buffer[h]
         IN  Buffer'[h] = IF Enqueue(h) THEN Append(rest, entry) ELSE rest
<1> DEFINE entry == [addr |-> access[h].addr, data |-> access[h].data]
<1>1. /\ sb_head[h] \in 0 .. 1 /\ sb_tail[h] \in 0 .. 1
      /\ sb_count[h] = 0 \/ sb_count[h] = 1 \/ sb_count[h] = 2
      /\ sb[h] \in [0 .. 1 -> Entry \cup {None}]
  BY DEF TypeOK
<1>2. /\ sb_count[h] = 1 => sb_tail[h] = 1 - sb_head[h]
      /\ sb_count[h] # 1 => sb_tail[h] = sb_head[h]
  BY RingFlat DEF HartInv
<1>3. /\ Enqueue(h) => sb_count[h] < 2
      /\ Drained(h) => sb_count[h] > 0
  BY EnqueueRoom, CompletionOfOldest DEF Drained
<1>4. /\ sb'[h] = IF Enqueue(h) THEN [sb[h] EXCEPT ![sb_tail[h]] = entry] ELSE sb[h]
      /\ sb_head'[h] = IF Drained(h) THEN 1 - sb_head[h] ELSE sb_head[h]
      /\ sb_count'[h] = IF Enqueue(h) /\ ~Drained(h) THEN sb_count[h] + 1
                        ELSE IF Drained(h) /\ ~Enqueue(h) THEN sb_count[h] - 1
                        ELSE sb_count[h]
  BY EdgeRegisters
<1> HIDE DEF entry
<1> DEFINE old == sb[h][sb_head[h]]
           young == sb[h][1 - sb_head[h]]
<1>5. /\ sb_count[h] = 0 => Buffer[h] = <<>>
      /\ sb_count[h] = 1 => Buffer[h] = <<old>>
      /\ sb_count[h] = 2 => Buffer[h] = <<old, young>>
  BY BufferOf DEF Oldest
<1>6. CASE Enqueue(h) /\ Drained(h)
  <2>1. sb_count[h] = 1 /\ sb_count'[h] = 1 /\ sb'[h][sb_head'[h]] = entry
    BY <1>1, <1>2, <1>3, <1>4, <1>6
  <2>2. Buffer[h] = <<old>> /\ Buffer'[h] = <<entry>>
    BY <1>5, <2>1, BufferOfNext
  <2> QED
    BY <1>6, <2>2, ShortSequences DEF entry
<1>7. CASE Enqueue(h) /\ ~Drained(h)
  <2>1. CASE sb_count[h] = 0
    <3>1. sb_count'[h] = 1 /\ sb'[h][sb_head'[h]] = entry
      BY <1>1, <1>2, <1>4, <1>7, <2>1
    <3>2. Buffer[h] = <<>> /\ Buffer'[h] = <<entry>>
      BY <1>5, <2>1, <3>1, BufferOfNext
    <3> QED
      BY <1>7, <3>2, ShortSequences DEF entry
  <2>2. CASE sb_count[h] = 1
    <3>1. /\ sb_count'[h] = 2 /\ sb'[h][sb_head'[h]] = old
          /\ sb'[h][1 - sb_head'[h]] = entry
      BY <1>1, <1>2, <1>4, <1>7, <2>2
    <3>2. Buffer[h] = <<old>> /\ Buffer'[h] = <<old, entry>>
      BY <1>5, <2>2, <3>1, BufferOfNext
    <3> QED
      BY <1>7, <3>2, ShortSequences DEF entry
  <2> QED
    BY <1>1, <1>3, <1>7, <2>1, <2>2
<1>8. CASE ~Enqueue(h) /\ Drained(h)
  <2>1. CASE sb_count[h] = 1
    <3>1. sb_count'[h] = 0
      BY <1>4, <1>8, <2>1
    <3>2. Buffer[h] = <<old>> /\ Buffer'[h] = <<>>
      BY <1>5, <2>1, <3>1, BufferOfNext
    <3> QED
      BY <1>8, <3>2, ShortSequences
  <2>2. CASE sb_count[h] = 2
    <3>1. sb_count'[h] = 1 /\ sb'[h][sb_head'[h]] = young
      BY <1>1, <1>4, <1>8, <2>2
    <3>2. Buffer[h] = <<old, young>> /\ Buffer'[h] = <<young>>
      BY <1>5, <2>2, <3>1, BufferOfNext
    <3> QED
      BY <1>8, <3>2, ShortSequences
  <2> QED
    BY <1>1, <1>3, <1>8, <2>1, <2>2
<1>9. CASE ~Enqueue(h) /\ ~Drained(h)
  <2>1. sb'[h] = sb[h] /\ sb_head'[h] = sb_head[h] /\ sb_count'[h] = sb_count[h]
    BY <1>4, <1>9
  <2>2. Buffer'[h] = Buffer[h]
    BY <2>1 DEF Buffer, Slot
  <2> QED
    BY <1>9, <2>2
<1> QED
  BY <1>6, <1>7, <1>8, <1>9

(* The load's matching entries, counted from one as in the sequence.       *)
LEMMA MatchesOf ==
  ASSUME TypeOK, NEW h \in Hart, Ring(h)
  PROVE  /\ Tso!Matches(h) = {} <=> ~Forwarded(h)
         /\ Forwarded(h) => Buffer[h][Tso!Youngest(h)].data = ForwardedData(h)
<1>1. sb_count[h] \in 0 .. 2 /\ Len(Buffer[h]) = sb_count[h]
  <2>1. sb_count[h] \in 0 .. 2 /\ Buffer[h] = [n \in 1 .. sb_count[h] |-> sb[h][Slot(h, n - 1)]]
    BY DEF TypeOK, Buffer
  <2> QED
    BY <2>1
<1>2. \A n \in 1 .. sb_count[h] : Buffer[h][n] = sb[h][Slot(h, n - 1)]
  BY DEF Buffer
<1>3. Tso!Matches(h) = {n \in 1 .. sb_count[h] : sb[h][Slot(h, n - 1)].addr = access[h].addr}
  BY <1>1, <1>2 DEF Tso!Matches
<1>4. \A n \in 1 .. 2 : n \in Tso!Matches(h) <=> n - 1 \in Match(h)
  BY <1>1, <1>3 DEF Match
<1>5. Tso!Matches(h) \in SUBSET (1 .. 2) /\ Match(h) \in SUBSET (0 .. 1)
  BY <1>1, <1>3 DEF Match
<1>6. \A n \in 0 .. 1 : n + 1 \in 1 .. 2 /\ (n + 1) - 1 = n
  OBVIOUS
<1>7. Tso!Matches(h) = {} <=> ~Forwarded(h)
  BY <1>4, <1>5, <1>6 DEF Forwarded
<1>8. ASSUME Forwarded(h) PROVE Buffer[h][Tso!Youngest(h)].data = ForwardedData(h)
  <2> PICK m \in Match(h) : /\ \A k \in Match(h) : k <= m
                            /\ ForwardedData(h) = sb[h][Slot(h, m)].data
    BY <1>8, ForwardedEntry
  <2>1. m \in 0 .. 1 /\ m + 1 \in Tso!Matches(h)
    BY <1>4, <1>5, <1>6
  <2>2. ASSUME NEW n \in Tso!Matches(h) PROVE n <= m + 1 /\ n \in Nat
    <3>1. n \in 1 .. 2 /\ n - 1 \in Match(h) /\ n - 1 \in 0 .. 1
      BY <1>4, <1>5
    <3>2. n - 1 <= m
      BY <3>1
    <3> QED
      BY <2>1, <3>1, <3>2
  <2>3. ASSUME NEW n \in Tso!Matches(h), \A k \in Tso!Matches(h) : k <= n PROVE n = m + 1
    <3>1. n \in Nat /\ n <= m + 1 /\ m + 1 <= n
      BY <2>1, <2>2, <2>3
    <3> QED
      BY <2>1, <3>1
  <2>4. Tso!Youngest(h) = m + 1
    BY <2>1, <2>2, <2>3 DEF Tso!Youngest
  <2>5. m + 1 \in 1 .. sb_count[h] /\ (m + 1) - 1 = m
    BY <2>1, <1>3
  <2> QED
    BY <2>4, <2>5, <1>2
<1> QED
  BY <1>7, <1>8

(* What an edge does to the hart's part of the abstract state.             *)
LEMMA EdgePerformed ==
  ASSUME TypeOK, NEW h \in Hart, HartInv(h), Edge(h)
  PROVE  Performed[h] = Drained(h) /\ Performed'[h] = FALSE
<1>1. Performed[h] = (port[h] # None /\ ~port[h].is_load /\ reply[h] \notin {None, Error})
  BY DEF Performed
<1>2. Performed'[h] = (port'[h] # None /\ ~port'[h].is_load /\ reply'[h] \notin {None, Error})
  BY DEF Performed
<1>3. reply'[h] = None
  BY EdgePort
<1> QED
  BY <1>1, <1>2, <1>3 DEF Drained, StoreComplete, HartInv, Phase

LEMMA EdgeFetched ==
  ASSUME TypeOK, NEW h \in Hart, HartInv(h), Edge(h)
  PROVE  /\ Fetched'[h] = IF Active(h, "load") /\ Ready(h) THEN None ELSE Fetched[h]
         /\ Active(h, "load") /\ Ready(h) /\ ~Forwarded(h) =>
              Fetched[h] # None /\ Fetched[h] = apb_rsp[h]
         /\ Active(h, "load") /\ Ready(h) /\ Forwarded(h) => Fetched[h] = None
<1>1. Fetched[h] = IF port[h] # None /\ port[h].is_load THEN reply[h] ELSE apb_rsp[h]
  BY DEF Fetched
<1>2. Fetched'[h] = IF port'[h] # None /\ port'[h].is_load THEN reply'[h] ELSE apb_rsp'[h]
  BY DEF Fetched
<1>3. /\ reply[h] # None => port[h] # None
      /\ port[h] # None <=> port_busy[h]
      /\ port[h] # None => req[h] = None /\ port_is_load[h] = port[h].is_load
      /\ apb_rsp[h] # None => req[h] = None /\ port[h] = None
  BY DEF HartInv, Phase
<1>4. CASE port[h] # None /\ port[h].is_load
  <2>1. Active(h, "load") /\ ~Forwarded(h) /\ apb_rsp[h] = None /\ ~Ready(h)
    BY <1>3, <1>4, LoadHolds DEF LoadInFlight
  <2>2. CASE reply[h] # None
    <3>1. port'[h] = None /\ apb_rsp'[h] = reply[h]
      BY <1>3, <1>4, <2>1, <2>2, EdgePort DEF Accepted
    <3> QED
      BY <1>1, <1>2, <1>4, <2>1, <3>1
  <2>3. CASE reply[h] = None
    <3>1. port'[h] = port[h] /\ reply'[h] = None
      BY <1>3, <1>4, <2>3, EdgePort DEF Accepted
    <3> QED
      BY <1>1, <1>2, <1>4, <2>1, <2>3, <3>1
  <2> QED
    BY <2>2, <2>3
<1>5. CASE ~(port[h] # None /\ port[h].is_load) /\ apb_rsp[h] # None
  <2>1. /\ Active(h, "load") /\ Ready(h) /\ ~Forwarded(h)
        /\ req[h] = None /\ port[h] = None
    <3>1. Active(h, "load") /\ ~Forwarded(h)
      BY <1>5, LoadHolds
    <3> QED
      BY <1>3, <1>5, <3>1 DEF Ready
  <2>2. port'[h] = None /\ apb_rsp'[h] = None
    BY <1>3, <1>5, <2>1, EdgePort DEF Accepted
  <2> QED
    BY <1>1, <1>2, <1>5, <2>1, <2>2
<1>6. CASE ~(port[h] # None /\ port[h].is_load) /\ apb_rsp[h] = None
  <2>1. Fetched[h] = None
    BY <1>1, <1>6
  <2>2. apb_rsp'[h] = None /\ reply'[h] = None
    BY <1>3, <1>6, EdgePort
  <2>3. Fetched'[h] = None
    BY <1>2, <2>2
  <2>4. Active(h, "load") /\ Ready(h) => Forwarded(h)
    BY <1>6 DEF Ready, Active
  <2> QED
    BY <2>1, <2>3, <2>4
<1> QED
  BY <1>4, <1>5, <1>6

LEMMA MappedOthers ==
  ASSUME NEW g \in Hart, Untouched(g)
  PROVE  Buffer'[g] = Buffer[g] /\ Performed'[g] = Performed[g] /\ Fetched'[g] = Fetched[g]
BY DEF Untouched, Buffer, Slot, Performed, Fetched

(* The abstract state is changed for one hart only.                        *)
LEMMA MappedFunctions ==
  ASSUME TypeOK, NEW h \in Hart, Step(h)
  PROVE  /\ Buffer' = [Buffer EXCEPT ![h] = Buffer'[h]]
         /\ Performed' = [Performed EXCEPT ![h] = Performed'[h]]
         /\ Fetched' = [Fetched EXCEPT ![h] = Fetched'[h]]
<1>1. \A g \in Hart : g # h => /\ Buffer'[g] = Buffer[g] /\ Performed'[g] = Performed[g]
                               /\ Fetched'[g] = Fetched[g]
  BY OtherHarts, MappedOthers
<1>2. Buffer = [g \in Hart |-> Buffer[g]] /\ Buffer' = [g \in Hart |-> Buffer'[g]]
  BY DEF Buffer
<1>3. Performed = [g \in Hart |-> Performed[g]] /\ Performed' = [g \in Hart |-> Performed'[g]]
  BY DEF Performed
<1>4. Fetched = [g \in Hart |-> Fetched[g]] /\ Fetched' = [g \in Hart |-> Fetched'[g]]
  BY DEF Fetched
<1> QED
  BY <1>1, <1>2, <1>3, <1>4

(* The operation an edge completes, completes in the abstract memory.      *)
LEMMA EdgeCompletes ==
  ASSUME TypeOK, TypeOK', NEW h \in Hart, HartInv(h), Edge(h), Ready(h)
  PROVE  Tso!Completes(h, IF Drained(h) THEN Tail(Buffer[h]) ELSE Buffer[h])
<1> DEFINE rest == IF Drained(h) THEN Tail(Buffer[h]) ELSE Buffer[h]
           entry == [addr |-> access[h].addr, data |-> access[h].data]
<1>1. /\ access[h] # None /\ penable[h]
      /\ access[h].op \in {"store", "load", "clear", "fence"}
  BY DEF Ready, Active
<1>2. access' = [access EXCEPT ![h] = None]
  BY DEF Edge, CoreEdge
<1>3. Buffer'[h] = IF Enqueue(h) THEN Append(rest, entry) ELSE rest
  BY EdgeBuffer
<1>4. Enqueue(h) <=> access[h].op = "store"
  BY <1>1 DEF Enqueue, Active
<1>5. /\ Buffer' = [Buffer EXCEPT ![h] = Buffer'[h]]
      /\ Fetched' = [Fetched EXCEPT ![h] = Fetched'[h]]
  BY MappedFunctions DEF Step
<1>6. Fetched = [Fetched EXCEPT ![h] = Fetched[h]]
  BY DEF Fetched
<1>7. prdata' = IF access[h].op = "load"
                THEN [prdata EXCEPT ![h] = IF Forwarded(h) THEN ForwardedData(h) ELSE apb_rsp[h]]
                ELSE prdata
  BY <1>1 DEF Edge, CoreEdge, Active
<1>8. Fetched'[h] = IF access[h].op = "load" THEN None ELSE Fetched[h]
  BY <1>1, EdgeFetched DEF Active
<1>9. access[h].op # "load" => UNCHANGED <<Fetched, prdata>>
  BY <1>5, <1>6, <1>7, <1>8
<1> HIDE DEF rest, entry
<1>10. CASE access[h].op = "store"
  <2>1. Len(Buffer[h]) < 2
    <3>1. sb_count[h] < 2 /\ sb_count[h] \in 0 .. 2
      BY <1>4, <1>10, EnqueueRoom DEF TypeOK
    <3>2. Len(Buffer[h]) = sb_count[h]
      BY <3>1 DEF Buffer
    <3> QED
      BY <3>1, <3>2
  <2>2. Buffer' = [Buffer EXCEPT ![h] = Append(rest, entry)]
    BY <1>3, <1>4, <1>5, <1>10
  <2>3. Tso!Completes(h, rest)
    BY <1>1, <1>2, <1>9, <1>10, <2>1, <2>2 DEF Tso!Completes, entry
  <2> QED
    BY <2>3 DEF rest
<1>11. CASE access[h].op = "load"
  <2>1. Active(h, "load") /\ Buffer' = [Buffer EXCEPT ![h] = rest]
    BY <1>1, <1>3, <1>4, <1>5, <1>11 DEF Active
  <2>2. Fetched' = [Fetched EXCEPT ![h] = None]
    BY <1>5, <1>8, <1>11
  <2>3. /\ Tso!Matches(h) = {} <=> ~Forwarded(h)
        /\ Forwarded(h) => Buffer[h][Tso!Youngest(h)].data = ForwardedData(h)
    BY MatchesOf DEF HartInv
  <2>4. ~Forwarded(h) => Fetched[h] # None /\ Fetched[h] = apb_rsp[h]
    BY <2>1, EdgeFetched
  <2>5. IF Tso!Matches(h) # {} THEN prdata' = [prdata EXCEPT ![h] = Buffer[h][Tso!Youngest(h)].data]
        ELSE Fetched[h] # None /\ prdata' = [prdata EXCEPT ![h] = Fetched[h]]
    BY <1>7, <1>11, <2>3, <2>4
  <2>6. Tso!Completes(h, rest)
    BY <1>1, <1>2, <1>11, <2>1, <2>2, <2>5 DEF Tso!Completes
  <2> QED
    BY <2>6 DEF rest
<1>12. CASE access[h].op = "fence"
  <2>1. sb_count[h] = 0 /\ ~Drained(h)
    BY <1>1, <1>12, CompletionOfOldest DEF Ready, Active, FenceDone, Drained
  <2>2. Buffer[h] = <<>> /\ rest = Buffer[h]
    BY <2>1, BufferOf DEF rest
  <2>3. UNCHANGED Buffer
    <3>1. Buffer'[h] = Buffer[h] /\ Buffer = [Buffer EXCEPT ![h] = Buffer[h]]
      BY <1>3, <1>4, <1>12, <2>2 DEF Buffer
    <3> QED
      BY <1>5, <3>1
  <2>4. Tso!Completes(h, rest)
    BY <1>1, <1>2, <1>9, <1>12, <2>2, <2>3 DEF Tso!Completes
  <2> QED
    BY <2>4 DEF rest
<1>13. CASE access[h].op = "clear"
  <2>1. Buffer' = [Buffer EXCEPT ![h] = rest]
    BY <1>3, <1>4, <1>5, <1>13
  <2>2. Tso!Completes(h, rest)
    BY <1>1, <1>2, <1>9, <1>13, <2>1 DEF Tso!Completes
  <2> QED
    BY <2>2 DEF rest
<1> QED
  BY <1>1, <1>10, <1>11, <1>12, <1>13

(* One edge is one step of the abstract buffer.                            *)
LEMMA EdgeSteps ==
  ASSUME TypeOK, TypeOK', NEW h \in Hart, HartInv(h), Edge(h)
  PROVE  Tso!TStep(h)
<1> DEFINE rest == IF Drained(h) THEN Tail(Buffer[h]) ELSE Buffer[h]
<1>1. UNCHANGED mem
  BY DEF Edge
<1>2. Drained(h) => Buffer[h] # <<>>
  <2>1. Drained(h) => sb_count[h] = 1 \/ sb_count[h] = 2
    BY CompletionOfOldest DEF Drained, TypeOK
  <2> QED
    BY SMTT(30), <2>1, BufferOf
<1>3. Tso!Completion(h, rest)
  <2>1. Performed[h] = Drained(h) /\ Performed' = [Performed EXCEPT ![h] = FALSE]
    BY EdgePerformed, MappedFunctions DEF Step
  <2>2. Performed = [Performed EXCEPT ![h] = Performed[h]]
    BY DEF Performed
  <2>3. CASE Drained(h)
    BY <2>1, <2>3 DEF Tso!Completion
  <2>4. CASE ~Drained(h)
    <3>1. UNCHANGED Performed
      BY <2>1, <2>2, <2>4
    <3> QED
      BY <2>4, <3>1 DEF Tso!Completion
  <2> QED
    BY <2>3, <2>4
<1>4. ASSUME ~Ready(h) PROVE Tso!Waits(h, rest)
  <2>1. ~Enqueue(h)
    BY <1>4 DEF Enqueue
  <2>2. Buffer' = [Buffer EXCEPT ![h] = rest]
    BY <2>1, EdgeBuffer, MappedFunctions DEF Step
  <2>3. UNCHANGED <<access, prdata>>
    BY <1>4 DEF Edge, CoreEdge, TypeOK
  <2>4. UNCHANGED Fetched
    <3>1. Fetched'[h] = Fetched[h]
      BY <1>4, EdgeFetched
    <3>2. Fetched = [Fetched EXCEPT ![h] = Fetched[h]]
      BY DEF Fetched
    <3> QED
      BY <3>1, <3>2, MappedFunctions DEF Step
  <2> QED
    BY <2>2, <2>3, <2>4 DEF Tso!Waits
<1>5. Ready(h) => Tso!Completes(h, rest)
  BY EdgeCompletes
<1>6. \/ Tso!Waits(h, rest) /\ UNCHANGED store_fault_pending
      \/ /\ Tso!Completes(h, rest)
         /\ store_fault_pending' = [store_fault_pending EXCEPT ![h] = @ /\ access[h].op # "clear"]
      \/ (Tso!Waits(h, rest) \/ Tso!Completes(h, rest)) /\ Tso!Failure(h)
  <2>1. store_fault_pending' =
          [store_fault_pending EXCEPT ![h] = Failed(h) \/ (@ /\ ~Active(h, "clear"))]
    BY DEF Edge, FaultEdge
  <2>2. store_fault_pending = [store_fault_pending EXCEPT ![h] = store_fault_pending[h]]
        /\ store_fault_pending[h] \in BOOLEAN
    BY DEF TypeOK
  <2>3. CASE Failed(h)
    <3>1. /\ sb_count[h] = 1 \/ sb_count[h] = 2
          /\ ~Drained(h)
      BY <2>3, CompletionOfOldest DEF Failed, Drained, TypeOK
    <3>2. Buffer[h] # <<>> /\ ~Performed[h]
      BY <3>1, OccupiedBuffer, EdgePerformed
    <3>3. store_fault_pending' = [store_fault_pending EXCEPT ![h] = TRUE]
      BY <2>1, <2>3
    <3>4. Tso!Failure(h)
      BY <3>2, <3>3 DEF Tso!Failure
    <3> QED
      BY <3>4, <1>4, <1>5
  <2>4. CASE ~Failed(h) /\ ~Ready(h)
    <3>1. ~Active(h, "clear")
      BY <2>4 DEF Ready
    <3>2. UNCHANGED store_fault_pending
      BY <2>1, <2>2, <2>4, <3>1
    <3> QED
      BY <2>4, <3>2, <1>4
  <2>5. CASE ~Failed(h) /\ Ready(h)
    <3>1. Active(h, "clear") <=> access[h].op = "clear"
      BY <2>5 DEF Ready, Active
    <3>2. store_fault_pending' = [store_fault_pending EXCEPT ![h] = @ /\ access[h].op # "clear"]
      BY <2>1, <2>5, <3>1
    <3> QED
      BY <2>5, <3>2, <1>5
  <2> QED
    BY <2>3, <2>4, <2>5
<1>7. rest \in {Buffer[h]} \cup (IF Buffer[h] = <<>> THEN {} ELSE {Tail(Buffer[h])})
  BY <1>2
<1> HIDE DEF rest
<1> QED
  BY <1>1, <1>3, <1>6, <1>7 DEF Tso!TStep

(* The home performs the oldest store, or the load that is waiting ...     *)
LEMMA PerformSteps ==
  ASSUME TypeOK, NEW h \in Hart, HartInv(h), Perform(h)
  PROVE  Tso!TPerform(h) \/ Tso!TFetch(h)
<1>1. /\ port[h] # None /\ port[h] \in PortRequest /\ reply[h] = None /\ req[h] = None
      /\ UNCHANGED <<access, penable, prdata, sb, sb_head, sb_count, store_fault_pending,
                     apb_rsp, port>>
      /\ InFlight(h) = port[h] /\ Performed[h] = FALSE
  BY DEF Perform, bridgeVars, ringVars, faultVars, TypeOK, HartInv, Phase, InFlight, Performed
<1>2. UNCHANGED Buffer
  BY <1>1 DEF Buffer, Slot
<1>3. /\ Performed' = [Performed EXCEPT ![h] = Performed'[h]]
      /\ Fetched' = [Fetched EXCEPT ![h] = Fetched'[h]]
  BY MappedFunctions DEF Step
<1>4. /\ Performed'[h] = (port[h] # None /\ ~port[h].is_load /\ reply'[h] \notin {None, Error})
      /\ Fetched'[h] = IF port[h] # None /\ port[h].is_load THEN reply'[h] ELSE apb_rsp[h]
      /\ Fetched[h] = IF port[h] # None /\ port[h].is_load THEN reply[h] ELSE apb_rsp[h]
  BY <1>1 DEF Performed, Fetched
<1>5. CASE ~port[h].is_load
  <2>1. /\ sb_count[h] = 1 \/ sb_count[h] = 2
        /\ port[h] = [is_load |-> FALSE, addr |-> Oldest(h).addr, data |-> Oldest(h).data]
        /\ ~store_fault_pending[h]
    BY <1>1, <1>5 DEF HartInv, StoreFlight, Fault, StoreInFlight, TypeOK
  <2>2. port[h].addr = Oldest(h).addr /\ port[h].data = Oldest(h).data
    BY <2>1, NewRequest
  <2>3. Buffer[h] # <<>> /\ Head(Buffer[h]) = Oldest(h)
    BY <2>1, OccupiedBuffer
  <2>4. mem' = [mem EXCEPT ![Head(Buffer[h]).addr] = Head(Buffer[h]).data]
    BY <1>5, <2>2, <2>3 DEF Perform
  <2>5. Performed'[h] = TRUE
    <3>1. reply'[h] = port[h].data /\ port[h].data \in Value
      BY <1>1, <1>5, RequestFields DEF Perform, TypeOK
    <3> QED
      BY <1>1, <1>4, <1>5, <3>1, DistinctAssumption
  <2>6. UNCHANGED Fetched
    <3>1. Fetched'[h] = Fetched[h] /\ Fetched = [Fetched EXCEPT ![h] = Fetched[h]]
      BY <1>4, <1>5 DEF Fetched
    <3> QED
      BY <1>3, <3>1
  <2>7. Tso!TPerform(h)
    BY <1>1, <1>2, <1>3, <2>1, <2>3, <2>4, <2>5, <2>6 DEF Tso!TPerform
  <2> QED
    BY <2>7
<1>6. CASE port[h].is_load
  <2>1. /\ Active(h, "load") /\ ~Forwarded(h) /\ port[h].addr = access[h].addr
    BY <1>1, <1>6 DEF HartInv, LoadCurrent, LoadInFlight
  <2>2. Tso!Matches(h) = {}
    BY <2>1, MatchesOf DEF HartInv
  <2>3. mem' = mem /\ reply'[h] = mem[access[h].addr]
    BY <1>6, <2>1 DEF Perform, TypeOK
  <2>4. UNCHANGED Performed
    <3>1. Performed'[h] = FALSE /\ Performed = [Performed EXCEPT ![h] = Performed[h]]
      BY <1>4, <1>6 DEF Performed
    <3> QED
      BY <1>1, <1>3, <3>1
  <2>5. Fetched[h] = None /\ Fetched' = [Fetched EXCEPT ![h] = mem[access[h].addr]]
    BY <1>1, <1>3, <1>4, <1>6, <2>3
  <2>6. Tso!TFetch(h)
    BY <1>1, <1>2, <2>1, <2>2, <2>3, <2>4, <2>5 DEF Tso!TFetch, Active
  <2> QED
    BY <2>6
<1> QED
  BY <1>5, <1>6

(* ... or neither: an error leaves memory alone.                           *)
LEMMA FailSteps ==
  ASSUME TypeOK, NEW h \in Hart, HartInv(h), Fail(h)
  PROVE  Tso!TFetch(h) \/ UNCHANGED Tso!tVars
<1>1. /\ port[h] # None /\ reply[h] = None /\ req[h] = None /\ reply'[h] = Error
      /\ UNCHANGED <<access, penable, prdata, sb, sb_head, sb_count, store_fault_pending,
                     apb_rsp, port, mem>>
      /\ InFlight(h) = port[h] /\ Performed[h] = FALSE
  BY DEF Fail, bridgeVars, ringVars, faultVars, TypeOK, HartInv, Phase, InFlight, Performed
<1>2. UNCHANGED Buffer
  BY <1>1 DEF Buffer, Slot
<1>3. /\ Performed' = [Performed EXCEPT ![h] = Performed'[h]]
      /\ Fetched' = [Fetched EXCEPT ![h] = Fetched'[h]]
  BY MappedFunctions DEF Step
<1>4. /\ Performed'[h] = (port[h] # None /\ ~port[h].is_load /\ reply'[h] \notin {None, Error})
      /\ Fetched'[h] = IF port[h] # None /\ port[h].is_load THEN reply'[h] ELSE apb_rsp[h]
      /\ Fetched[h] = IF port[h] # None /\ port[h].is_load THEN reply[h] ELSE apb_rsp[h]
  BY <1>1 DEF Performed, Fetched
<1>5. UNCHANGED Performed
  <2>1. Performed'[h] = FALSE /\ Performed = [Performed EXCEPT ![h] = Performed[h]]
    BY <1>1, <1>4 DEF Performed
  <2> QED
    BY <1>1, <1>3, <2>1
<1>6. CASE ~port[h].is_load
  <2>1. Fetched'[h] = Fetched[h] /\ Fetched = [Fetched EXCEPT ![h] = Fetched[h]]
    BY <1>4, <1>6 DEF Fetched
  <2> QED
    BY <1>1, <1>2, <1>3, <1>5, <2>1 DEF Tso!tVars
<1>7. CASE port[h].is_load
  <2>1. Active(h, "load") /\ ~Forwarded(h)
    BY <1>1, <1>7 DEF HartInv, LoadCurrent, LoadInFlight
  <2>2. Tso!Matches(h) = {}
    BY <2>1, MatchesOf DEF HartInv
  <2>3. Fetched[h] = None /\ Fetched' = [Fetched EXCEPT ![h] = Error]
    BY <1>1, <1>3, <1>4, <1>7
  <2>4. Tso!TFetch(h)
    BY <1>1, <1>2, <1>5, <2>1, <2>2, <2>3 DEF Tso!TFetch, Active
  <2> QED
    BY <2>4
<1> QED
  BY <1>6, <1>7

(* The two store buffers implement TSO: a store issued by an edge enters   *)
(* the sequence, the home's answer performs its head, and every other edge *)
(* completes or waits.                                                     *)
THEOREM Refinement == Spec => RefinesTsoMemory
<1>1. Init => Tso!TInit
  <2> SUFFICES ASSUME Init PROVE Tso!TInit
    OBVIOUS
  <2>1. Buffer = [h \in Hart |-> <<>>]
    BY DEF Init, Buffer
  <2>2. Performed = [h \in Hart |-> FALSE] /\ Fetched = [h \in Hart |-> None]
    BY DEF Init, Performed, Fetched
  <2> QED
    BY <2>1, <2>2 DEF Init, Tso!TInit
<1>2. IInv /\ IInv' /\ [Next]_vars => [Tso!TNext]_(Tso!tVars)
  <2> SUFFICES ASSUME IInv, IInv', [Next]_vars
               PROVE  Tso!TNext \/ UNCHANGED Tso!tVars
    OBVIOUS
  <2>1. TypeOK /\ TypeOK' /\ \A h \in Hart : HartInv(h)
    BY DEF IInv
  <2>2. CASE Reset
    <3>1. Buffer' = [h \in Hart |-> <<>>]
      BY <2>2 DEF Reset, Buffer
    <3>2. Performed' = [h \in Hart |-> FALSE] /\ Fetched' = [h \in Hart |-> None]
      BY <2>2 DEF Reset, Performed, Fetched
    <3>3. Tso!TReset
      BY <2>2, <3>1, <3>2 DEF Reset, Tso!TReset
    <3> QED
      BY <3>3 DEF Tso!TNext
  <2>3. ASSUME NEW h \in Hart, Issue(h) PROVE Tso!TNext
    <3>1. UNCHANGED <<Buffer, Performed, Fetched, prdata, mem, store_fault_pending>>
      BY <2>3 DEF Issue, bridgeVars, ringVars, faultVars, Buffer, Slot, Performed, Fetched
    <3>2. Tso!Operation = Access
      BY DEF Tso!Operation, Access
    <3>3. Tso!TIssue(h)
      BY <2>3, <3>1, <3>2 DEF Issue, Tso!TIssue
    <3> QED
      BY <3>3 DEF Tso!TNext
  <2>4. ASSUME NEW h \in Hart, Edge(h) PROVE Tso!TNext
    BY <2>1, <2>4, EdgeSteps DEF Tso!TNext
  <2>5. ASSUME NEW h \in Hart, Perform(h) PROVE Tso!TNext
    BY <2>1, <2>5, PerformSteps DEF Tso!TNext
  <2>6. ASSUME NEW h \in Hart, Fail(h) PROVE Tso!TNext \/ UNCHANGED Tso!tVars
    BY <2>1, <2>6, FailSteps DEF Tso!TNext
  <2>7. CASE UNCHANGED vars
    BY <2>7
    DEF vars, bridgeVars, ringVars, faultVars, Tso!tVars, Buffer, Slot, Performed, Fetched
  <2> QED
    BY <2>2, <2>3, <2>4, <2>5, <2>6, <2>7 DEF Next, Step
<1> QED
  BY <1>1, <1>2, Invariance, PTL DEF Spec, RefinesTsoMemory, Tso!TSpec

-----------------------------------------------------------------------------
(***************************************************************************)
(* The litmus tests: every outcome of the store buffers is one RVWMO       *)
(* allows, for every drain delay.  The invariant is that there is a global *)
(* memory order g of the loads and stores performed so far which explains  *)
(* what the loads have returned and what memory holds, together with, for  *)
(* each hart, the positions s of the stores in its buffer.                 *)
(*                                                                         *)
(* A store is performed when it reaches memory, a load when it reads       *)
(* memory.  A load that is forwarded is performed when it completes, but   *)
(* if the hart's oldest store has reached memory and is still in the       *)
(* buffer, the load takes its place right after what this hart performed   *)
(* last: the other hart may have overwritten the store since.              *)
(***************************************************************************)
(* A program both harts can run, of four instructions at most.             *)
WellFormed(p) ==
  /\ DOMAIN p = {1, 2}
  /\ \A h \in {1, 2} :
       /\ Len(p[h]) \in 0 .. 4
       /\ \A k \in 1 .. Len(p[h]) :
            /\ p[h][k].op \in {"store", "load", "fence"}
            /\ p[h][k].op # "fence" => p[h][k].addr \in Location

-----------------------------------------------------------------------------
(* Invariants of a global order g of performed events.                     *)
Distinct(g) == \A m, n \in DOMAIN g : g[m] = g[n] => m = n

(* The stores to a load's word that come before it in program order, and   *)
(* not in memory order: it takes the newest from the buffer.               *)
Buffered(p, g, e) == {s \in Kind(p, "store") : /\ Op(p, s).addr = Op(p, e).addr
                                               /\ PoBefore(s, e) /\ ~GmoBefore(g, s, e)}
StoresBefore(p, g, e) == {s \in Kind(p, "store") : /\ Op(p, s).addr = Op(p, e).addr
                                                   /\ GmoBefore(g, s, e)}
Source(p, g, e) ==
  IF Buffered(p, g, e) # {}
  THEN {s \in Buffered(p, g, e) : \A r \in Buffered(p, g, e) : r[2] <= s[2]}
  ELSE {s \in StoresBefore(p, g, e) :
          \A r \in StoresBefore(p, g, e) : r = s \/ GmoBefore(g, r, s)}

(* The last store to a word.                                               *)
StoresTo(p, g, a) == {s \in Kind(p, "store") : Op(p, s).addr = a /\ s \in ToSet(g)}
Latest(p, g, a) == {s \in StoresTo(p, g, a) :
                      \A r \in StoresTo(p, g, a) : r = s \/ GmoBefore(g, r, s)}

(* Program order that total store order keeps.                             *)
Kept(p, d, e) ==
  /\ PoBefore(d, e)
  /\ \/ Op(p, d).op = "load"
     \/ Op(p, e).op = "store"
     \/ \E f \in Kind(p, "fence") : PoBefore(d, f) /\ PoBefore(f, e)

Ordered(p, g) ==
  \A d \in Events(p), e \in ToSet(g) : Kept(p, d, e) => GmoBefore(g, d, e)

-----------------------------------------------------------------------------
(* One hart: s are the positions of its buffered stores, m says that the   *)
(* oldest has reached memory, n instructions have retired, and f says that *)
(* the next one is a load that has read memory.                            *)
Positions(p, h, s, n) ==
  /\ s \in Seq(1 .. 4)
  /\ \A i \in DOMAIN s : s[i] <= n /\ p[h][s[i]].op = "store"
  /\ \A i, j \in DOMAIN s : i < j => s[i] < s[j]
  /\ \A k \in 1 .. n : p[h][k].op # "load" => \/ \E i \in DOMAIN s : s[i] = k
                                             \/ \A i \in DOMAIN s : k < s[i]

InMemory(p, h, s, m, n, f, k) ==
  IF p[h][k].op = "store"
  THEN k <= n /\ \A i \in DOMAIN s : s[i] = k => m /\ i = 1
  ELSE k <= n \/ (f /\ k = n + 1)

(* What the other hart performed after this hart's oldest buffered store   *)
(* comes after everything this hart performed.                             *)
Block(g, h, s, m) ==
  m => \A d, e \in ToSet(g) :
         d[1] # h /\ GmoBefore(g, <<h, s[1]>>, d) /\ e[1] = h => GmoBefore(g, e, d)

HartOrder(p, g, h, s, m, n, f) ==
  /\ n \in 0 .. Len(p[h]) /\ f \in BOOLEAN /\ m \in BOOLEAN
  /\ Positions(p, h, s, n)
  /\ m => s # <<>>
  /\ f => n < Len(p[h]) /\ p[h][n + 1].op = "load"
  /\ \A k \in 1 .. Len(p[h]) : p[h][k].op # "fence" =>
       (<<h, k>> \in ToSet(g) <=> InMemory(p, h, s, m, n, f, k))
  /\ Block(g, h, s, m)

Order(p, g) == g \in Seq(Events(p)) /\ Distinct(g) /\ Ordered(p, g)

-----------------------------------------------------------------------------
(* The machine's state, explained by g and s.                              *)
Retired(h) == IF access[h] = None THEN pc[h] - 1 ELSE pc[h] - 2

Entries(p, h, s) == [i \in DOMAIN s |-> [addr |-> p[h][s[i]].addr, data |-> p[h][s[i]].data]]

HartExplained(p, g, h, s) ==
  /\ pc[h] \in 1 .. Len(p[h]) + 1
  /\ access[h] # None => pc[h] > 1 /\ access[h] = p[h][pc[h] - 1]
  /\ HartOrder(p, g, h, s, Performed[h], Retired(h), Fetched[h] # None)
  /\ Buffer[h] = Entries(p, h, s)
  /\ Fetched[h] # None => Fetched[h] = ValueOf(p, Source(p, g, <<h, Retired(h) + 1>>))
  /\ \A k \in 1 .. Len(p[h]) :
       /\ <<h, k>> \in DOMAIN loads <=> k <= Retired(h) /\ p[h][k].op = "load"
       /\ <<h, k>> \in DOMAIN loads => loads[<<h, k>>] = ValueOf(p, Source(p, g, <<h, k>>))

Explained(p, g) ==
  /\ Order(p, g)
  /\ \A h \in {1, 2} : \E s \in Seq(1 .. 4) : HartExplained(p, g, h, s)
  /\ \A a \in Location : mem[a] = ValueOf(p, Latest(p, g, a))
  /\ DOMAIN loads \subseteq Kind(p, "load")
  /\ loads = [e \in DOMAIN loads |-> loads[e]]

LInv == /\ test \in Test /\ pc \in [Hart -> Nat]
        /\ \E g \in Seq(Events(Program[test])) : Explained(Program[test], g)

-----------------------------------------------------------------------------
(* Memory orders: a strict total order of their events.                    *)
LEMMA BeforeIn ==
  ASSUME NEW g, NEW d, NEW e, GmoBefore(g, d, e)
  PROVE  d \in ToSet(g) /\ e \in ToSet(g)
BY DEF GmoBefore, ToSet

(* No event comes before itself, nor two before each other.                *)
LEMMA BeforeStrict ==
  ASSUME NEW E, NEW g \in Seq(E), Distinct(g), NEW d, NEW e, GmoBefore(g, d, e)
  PROVE  d # e /\ ~GmoBefore(g, e, d)
BY DEF GmoBefore, Distinct

(* Of two performed events one comes before the other.                     *)
LEMMA BeforeTotal ==
  ASSUME NEW E, NEW g \in Seq(E), NEW d \in ToSet(g), NEW e \in ToSet(g), d # e
  PROVE  GmoBefore(g, d, e) \/ GmoBefore(g, e, d)
<1>1. PICK m \in DOMAIN g, n \in DOMAIN g : g[m] = d /\ g[n] = e
  BY DEF ToSet
<1>2. m < n \/ n < m
  BY <1>1
<1> QED
  BY <1>1, <1>2 DEF GmoBefore

(* What comes before what comes before comes before.                       *)
LEMMA BeforeTransitive ==
  ASSUME NEW E, NEW g \in Seq(E), Distinct(g), NEW c, NEW d, NEW e,
         GmoBefore(g, c, d), GmoBefore(g, d, e)
  PROVE  GmoBefore(g, c, e)
<1>1. PICK i \in DOMAIN g, j \in DOMAIN g : i < j /\ g[i] = c /\ g[j] = d
  BY DEF GmoBefore
<1>2. PICK m \in DOMAIN g, n \in DOMAIN g : m < n /\ g[m] = d /\ g[n] = e
  BY DEF GmoBefore
<1>3. j = m
  BY <1>1, <1>2 DEF Distinct
<1>4. i < n
  BY <1>1, <1>2, <1>3
<1> QED
  BY <1>1, <1>2, <1>4 DEF GmoBefore

(* g2 is g with x put right after the events b.                            *)
Extends(E, g, g2, x, b) ==
  /\ g2 \in Seq(E) /\ Distinct(g2)
  /\ ToSet(g2) = ToSet(g) \cup {x} /\ x \notin ToSet(g) /\ b \subseteq ToSet(g)
  /\ \A d, e \in ToSet(g) : GmoBefore(g2, d, e) <=> GmoBefore(g, d, e)
  /\ \A d \in ToSet(g) : /\ GmoBefore(g2, d, x) <=> d \in b
                         /\ GmoBefore(g2, x, d) <=> d \notin b

(* A new event may be inserted after any first k events of an order.       *)
LEMMA Insertion ==
  ASSUME NEW E, NEW g \in Seq(E), Distinct(g), NEW x \in E, x \notin ToSet(g),
         NEW k \in 0 .. Len(g)
  PROVE  \E g2 : Extends(E, g, g2, x, {g[i] : i \in 1 .. k})
<1> DEFINE N == Len(g)
           b == {g[i] : i \in 1 .. k}
           g2 == [i \in 1 .. N + 1 |-> IF i <= k THEN g[i] ELSE IF i = k + 1 THEN x ELSE g[i - 1]]
           At(i) == IF i <= k THEN i ELSE i + 1
<1>1. N \in Nat /\ DOMAIN g = 1 .. N /\ \A i \in 1 .. N : g[i] \in E /\ g[i] # x
  BY DEF ToSet
<1>2. g2 \in Seq(E) /\ DOMAIN g2 = 1 .. N + 1
  <2>1. \A i \in 1 .. N + 1 : g2[i] \in E
    BY <1>1
  <2>2. N + 1 \in Nat
    BY <1>1
  <2> QED
    BY <2>1, <2>2
<1>3. /\ k + 1 \in DOMAIN g2 /\ g2[k + 1] = x
      /\ \A i \in 1 .. N : At(i) \in DOMAIN g2 /\ g2[At(i)] = g[i]
  BY <1>1
<1>4. \A j \in DOMAIN g2 : j = k + 1 \/ \E i \in 1 .. N : j = At(i)
  <2> SUFFICES ASSUME NEW j \in 1 .. N + 1, j # k + 1
               PROVE  \E i \in 1 .. N : j = At(i)
    BY <1>2
  <2>1. CASE j <= k
    <3>1. j \in 1 .. N /\ At(j) = j
      BY <1>1, <2>1
    <3> QED
      BY <3>1
  <2>2. CASE j > k
    <3>1. j - 1 \in 1 .. N /\ At(j - 1) = j
      BY <1>1, <2>2
    <3> QED
      BY <3>1
  <2> QED
    BY <2>1, <2>2
<1>5. \A i, j \in 1 .. N : At(i) < At(j) <=> i < j
  BY <1>1
<1>6. \A i \in 1 .. N : (At(i) < k + 1 <=> i <= k) /\ (k + 1 < At(i) <=> k < i)
                        /\ (i <= k <=> ~(k < i)) /\ At(i) # k + 1
  BY <1>1
<1> HIDE DEF N, g2, At
<1>7. ToSet(g2) = ToSet(g) \cup {x}
  <2>1. ASSUME NEW y \in ToSet(g2) PROVE y \in ToSet(g) \cup {x}
    <3>1. PICK j \in DOMAIN g2 : y = g2[j]
      BY DEF ToSet
    <3> QED
      BY <1>1, <1>3, <1>4, <3>1 DEF ToSet
  <2>2. ASSUME NEW y \in ToSet(g) PROVE y \in ToSet(g2)
    <3>1. PICK i \in 1 .. N : y = g[i]
      BY <1>1 DEF ToSet
    <3> QED
      BY <1>3, <3>1 DEF ToSet
  <2>3. x \in ToSet(g2)
    BY <1>3 DEF ToSet
  <2> QED
    BY <2>1, <2>2, <2>3
<1>8. Distinct(g2)
  <2> SUFFICES ASSUME NEW m \in DOMAIN g2, NEW n \in DOMAIN g2, g2[m] = g2[n]
               PROVE  m = n
    BY DEF Distinct
  <2>1. CASE m = k + 1 \/ n = k + 1
    BY <1>1, <1>3, <1>4, <2>1
  <2>2. CASE m # k + 1 /\ n # k + 1
    <3>1. PICK i \in 1 .. N, j \in 1 .. N : m = At(i) /\ n = At(j)
      BY <1>4, <2>2
    <3>2. g[i] = g[j]
      BY <1>3, <3>1
    <3> QED
      BY <1>1, <3>1, <3>2 DEF Distinct
  <2> QED
    BY <2>1, <2>2
<1>9. \A i \in 1 .. N : g[i] \in b <=> i <= k
  BY <1>1 DEF Distinct
<1>10. b \subseteq ToSet(g)
  BY <1>1 DEF ToSet, N
<1> HIDE DEF b
<1>11. \A i, j \in 1 .. N : /\ GmoBefore(g2, g[i], g[j]) <=> i < j
                            /\ GmoBefore(g, g[i], g[j]) <=> i < j
  <2> SUFFICES ASSUME NEW i \in 1 .. N, NEW j \in 1 .. N
               PROVE  /\ GmoBefore(g2, g[i], g[j]) <=> i < j
                      /\ GmoBefore(g, g[i], g[j]) <=> i < j
    OBVIOUS
  <2>1. \A m \in DOMAIN g2 : /\ g2[m] = g[i] => m = At(i)
                             /\ g2[m] = g[j] => m = At(j)
    BY <1>1, <1>3, <1>8 DEF Distinct
  <2>2. \A m \in DOMAIN g : /\ g[m] = g[i] => m = i
                            /\ g[m] = g[j] => m = j
    BY <1>1 DEF Distinct
  <2>3. GmoBefore(g2, g[i], g[j]) <=> At(i) < At(j)
    BY <1>3, <2>1 DEF GmoBefore
  <2>4. GmoBefore(g, g[i], g[j]) <=> i < j
    BY <1>1, <2>2 DEF GmoBefore
  <2> QED
    BY <1>5, <2>3, <2>4
<1>12. \A i \in 1 .. N : /\ GmoBefore(g2, g[i], x) <=> i <= k
                         /\ GmoBefore(g2, x, g[i]) <=> k < i
  <2> SUFFICES ASSUME NEW i \in 1 .. N
               PROVE  /\ GmoBefore(g2, g[i], x) <=> i <= k
                      /\ GmoBefore(g2, x, g[i]) <=> k < i
    OBVIOUS
  <2>1. \A m \in DOMAIN g2 : /\ g2[m] = g[i] => m = At(i)
                             /\ g2[m] = x => m = k + 1
    BY <1>1, <1>3, <1>8 DEF Distinct
  <2>2. GmoBefore(g2, g[i], x) <=> At(i) < k + 1
    BY <1>3, <2>1 DEF GmoBefore
  <2>3. GmoBefore(g2, x, g[i]) <=> k + 1 < At(i)
    BY <1>3, <2>1 DEF GmoBefore
  <2> QED
    BY <1>6, <2>2, <2>3
<1>13. \A d \in ToSet(g) : \E i \in 1 .. N : d = g[i]
  BY <1>1 DEF ToSet
<1>14. \A d \in ToSet(g) : /\ GmoBefore(g2, d, x) <=> d \in b
                           /\ GmoBefore(g2, x, d) <=> d \notin b
  BY <1>6, <1>9, <1>12, <1>13
<1>15. \A d, e \in ToSet(g) : GmoBefore(g2, d, e) <=> GmoBefore(g, d, e)
  BY <1>11, <1>13
<1>16. Extends(E, g, g2, x, b)
  BY <1>2, <1>7, <1>8, <1>10, <1>14, <1>15 DEF Extends
<1> QED
  BY <1>16 DEF b

(* A new event may come last.                                              *)
LEMMA AtTheEnd ==
  ASSUME NEW E, NEW g \in Seq(E), Distinct(g), NEW x \in E, x \notin ToSet(g)
  PROVE  \E g2 : Extends(E, g, g2, x, ToSet(g))
<1>1. Len(g) \in 0 .. Len(g) /\ {g[i] : i \in 1 .. Len(g)} = ToSet(g)
  BY DEF ToSet
<1>2. \E g2 : Extends(E, g, g2, x, {g[i] : i \in 1 .. Len(g)})
  BY <1>1, Insertion
<1> QED
  BY <1>1, <1>2

(* Right after the last event of a hart whose oldest store has reached     *)
(* memory.                                                                 *)
Behind(g, h, s) == {d \in ToSet(g) : d[1] = h \/ GmoBefore(g, d, <<h, s[1]>>)}

(* A new event may come right after what its hart performed last, before   *)
(* what the other hart performed since its oldest buffered store.          *)
LEMMA InTheBlock ==
  ASSUME NEW E, NEW g \in Seq(E), Distinct(g), NEW x \in E, x \notin ToSet(g),
         NEW h, NEW s, <<h, s[1]>> \in ToSet(g), Block(g, h, s, TRUE)
  PROVE  \E g2 : Extends(E, g, g2, x, Behind(g, h, s))
<1> DEFINE N == Len(g)
           T == {k \in 0 .. N : \A i \in 1 .. N : g[i][1] = h => i <= k}
<1>1. N \in Nat /\ DOMAIN g = 1 .. N
  OBVIOUS
<1>2. T \subseteq Nat /\ N \in T
  BY <1>1
<1>3. PICK k \in T : \A j \in T : ~(<<j, k>> \in OpToRel(<, Nat))
  BY <1>2, WFMin, NatLessThanWellFounded
<1>4. \A j \in T : ~(j < k)
  BY <1>2, <1>3 DEF OpToRel
<1>5. PICK o \in 1 .. N : g[o] = <<h, s[1]>>
  BY <1>1 DEF ToSet
<1>6. k \in 1 .. N /\ o <= k
  <2>1. g[o][1] = h
    BY <1>5
  <2>2. k \in 0 .. N /\ o <= k
    BY <2>1
  <2> QED
    BY <1>1, <2>2
<1>7. g[k][1] = h
  <2> SUFFICES ASSUME g[k][1] # h PROVE FALSE
    OBVIOUS
  <2>1. \A i \in 1 .. N : g[i][1] = h => i <= k - 1
    <3> SUFFICES ASSUME NEW i \in 1 .. N, g[i][1] = h PROVE i <= k - 1
      OBVIOUS
    <3>1. i <= k /\ i # k
      OBVIOUS
    <3> QED
      BY <1>6, <3>1
  <2>2. k - 1 \in 0 .. N /\ k - 1 < k
    BY <1>6
  <2>3. k - 1 \in T
    BY <2>1, <2>2
  <2> QED
    BY <1>4, <2>2, <2>3
<1>8. ASSUME NEW i \in 1 .. N
      PROVE  i <= k <=> g[i][1] = h \/ GmoBefore(g, g[i], <<h, s[1]>>)
  <2>1. CASE g[i][1] = h
    BY <1>3, <2>1
  <2>2. CASE g[i][1] # h /\ GmoBefore(g, g[i], <<h, s[1]>>)
    <3>1. PICK m \in 1 .. N, n \in 1 .. N : m < n /\ g[m] = g[i] /\ g[n] = g[o]
      BY <1>1, <1>5, <2>2 DEF GmoBefore
    <3>2. m = i /\ n = o
      BY <1>1, <3>1 DEF Distinct
    <3> QED
      BY <1>6, <2>2, <3>1, <3>2
  <2>3. CASE g[i][1] # h /\ ~GmoBefore(g, g[i], <<h, s[1]>>)
    <3>1. g[i] # <<h, s[1]>>
      BY <2>3
    <3>2. g[i] \in ToSet(g) /\ g[k] \in ToSet(g)
      BY <1>1, <1>6 DEF ToSet
    <3>3. GmoBefore(g, <<h, s[1]>>, g[i])
      BY <2>3, <3>1, <3>2, BeforeTotal
    <3>4. GmoBefore(g, g[k], g[i])
      BY <1>7, <2>3, <3>2, <3>3 DEF Block
    <3>5. PICK m \in 1 .. N, n \in 1 .. N : m < n /\ g[m] = g[k] /\ g[n] = g[i]
      BY <1>1, <3>4 DEF GmoBefore
    <3>6. m = k /\ n = i
      BY <1>1, <1>6, <3>5 DEF Distinct
    <3> QED
      BY <1>6, <2>3, <3>5, <3>6
  <2> QED
    BY <2>1, <2>2, <2>3
<1>9. {g[i] : i \in 1 .. k} = Behind(g, h, s)
  <2>1. ASSUME NEW i \in 1 .. k PROVE g[i] \in Behind(g, h, s)
    <3>1. i \in 1 .. N /\ i <= k
      BY <1>6
    <3>2. g[i] \in ToSet(g)
      BY <1>1, <3>1 DEF ToSet
    <3> QED
      BY <1>8, <3>1, <3>2 DEF Behind
  <2>2. ASSUME NEW d \in Behind(g, h, s) PROVE d \in {g[i] : i \in 1 .. k}
    <3>1. PICK i \in 1 .. N : d = g[i]
      BY <1>1 DEF Behind, ToSet
    <3>2. i <= k
      BY <1>8, <3>1 DEF Behind
    <3>3. i \in 1 .. k
      BY <1>6, <3>2
    <3> QED
      BY <3>1, <3>3
  <2> QED
    BY <2>1, <2>2
<1>10. k \in 0 .. Len(g)
  BY <1>6
<1>11. \E g2 : Extends(E, g, g2, x, {g[i] : i \in 1 .. k})
  BY <1>10, Insertion
<1> QED
  BY <1>9, <1>11

-----------------------------------------------------------------------------
(* What an order explains stays explained when it is extended.             *)
LEMMA SourceStays ==
  ASSUME NEW E, NEW p, NEW g, NEW g2, NEW x, NEW b, Extends(E, g, g2, x, b),
         x \in Kind(p, "store") => b = ToSet(g),
         NEW e \in ToSet(g)
  PROVE  Source(p, g2, e) = Source(p, g, e)
<1>1. \A t \in Kind(p, "store") : GmoBefore(g2, t, e) <=> GmoBefore(g, t, e)
  <2> SUFFICES ASSUME NEW t \in Kind(p, "store")
               PROVE  GmoBefore(g2, t, e) <=> GmoBefore(g, t, e)
    OBVIOUS
  <2>1. CASE t \in ToSet(g)
    BY <2>1 DEF Extends
  <2>2. CASE t = x
    <3>1. ~GmoBefore(g2, x, e)
      <4>1. /\ e \in b /\ GmoBefore(g2, e, x) /\ g2 \in Seq(E) /\ Distinct(g2)
        BY <2>2 DEF Extends
      <4> QED
        BY <4>1, BeforeStrict
    <3>2. ~GmoBefore(g, x, e)
      BY BeforeIn DEF Extends
    <3> QED
      BY <2>2, <3>1, <3>2
  <2>3. CASE t \notin ToSet(g) /\ t # x
    <3>1. t \notin ToSet(g2)
      BY <2>3 DEF Extends
    <3> QED
      BY <2>3, <3>1, BeforeIn
  <2> QED
    BY <2>1, <2>2, <2>3
<1>2. Buffered(p, g2, e) = Buffered(p, g, e)
  BY <1>1 DEF Buffered
<1>3. StoresBefore(p, g2, e) = StoresBefore(p, g, e)
  BY <1>1 DEF StoresBefore
<1>4. StoresBefore(p, g, e) \subseteq ToSet(g)
  BY BeforeIn DEF StoresBefore
<1>5. \A r, t \in StoresBefore(p, g, e) : GmoBefore(g2, r, t) <=> GmoBefore(g, r, t)
  BY <1>4 DEF Extends
<1>6. {t \in StoresBefore(p, g, e) :
         \A r \in StoresBefore(p, g, e) : r = t \/ GmoBefore(g2, r, t)} =
      {t \in StoresBefore(p, g, e) :
         \A r \in StoresBefore(p, g, e) : r = t \/ GmoBefore(g, r, t)}
  BY <1>5
<1> QED
  BY <1>2, <1>3, <1>6 DEF Source

(* An access to another word leaves the last store to a word as it was.    *)
LEMMA LatestOfOther ==
  ASSUME NEW E, NEW p, NEW g, NEW g2, NEW x, NEW b, Extends(E, g, g2, x, b), NEW a,
         Op(p, x).addr # a
  PROVE  Latest(p, g2, a) = Latest(p, g, a)
<1>1. StoresTo(p, g2, a) = StoresTo(p, g, a)
  BY DEF StoresTo, Extends
<1>2. \A r, t \in StoresTo(p, g, a) : GmoBefore(g2, r, t) <=> GmoBefore(g, r, t)
  BY DEF StoresTo, Extends
<1> QED
  BY <1>1, <1>2 DEF Latest

(* So does a load, wherever it is inserted.                                *)
LEMMA LatestOfLoad ==
  ASSUME NEW E, NEW p, NEW g, NEW g2, NEW x, NEW b, Extends(E, g, g2, x, b), NEW a,
         x \notin Kind(p, "store")
  PROVE  Latest(p, g2, a) = Latest(p, g, a)
<1>1. StoresTo(p, g2, a) = StoresTo(p, g, a)
  BY DEF StoresTo, Extends
<1>2. \A r, t \in StoresTo(p, g, a) : GmoBefore(g2, r, t) <=> GmoBefore(g, r, t)
  BY DEF StoresTo, Extends
<1> QED
  BY <1>1, <1>2 DEF Latest

(* A store that comes last is the last store to its word.                  *)
LEMMA LatestNew ==
  ASSUME NEW E, NEW p, NEW g, NEW g2, NEW x, Extends(E, g, g2, x, ToSet(g)), NEW a,
         x \in StoresTo(p, g2, a)
  PROVE  Latest(p, g2, a) = {x}
<1>1. \A r : r \in StoresTo(p, g2, a) <=> r \in StoresTo(p, g, a) \/ r = x
  BY DEF StoresTo, Extends
<1>2. \A r \in StoresTo(p, g, a) : GmoBefore(g2, r, x) /\ ~GmoBefore(g2, x, r) /\ r # x
  BY DEF StoresTo, Extends
<1> QED
  BY <1>1, <1>2 DEF Latest

(* A load that reads memory returns its last store.                        *)
LEMMA ReadsLatest ==
  ASSUME NEW E, NEW p, NEW g, NEW g2, NEW x, Extends(E, g, g2, x, ToSet(g)),
         x \notin Kind(p, "store"), Buffered(p, g2, x) = {}
  PROVE  Source(p, g2, x) = Latest(p, g, Op(p, x).addr)
<1>1. \A r : GmoBefore(g2, r, x) <=> r \in ToSet(g)
  <2> SUFFICES ASSUME NEW r, GmoBefore(g2, r, x) PROVE r \in ToSet(g)
    BY DEF Extends
  <2>1. r # x /\ r \in ToSet(g2)
    BY BeforeIn, BeforeStrict DEF Extends
  <2> QED
    BY <2>1 DEF Extends
<1>2. StoresBefore(p, g2, x) = StoresTo(p, g, Op(p, x).addr)
  BY <1>1 DEF StoresBefore, StoresTo
<1>3. \A r, t \in StoresTo(p, g, Op(p, x).addr) : GmoBefore(g2, r, t) <=> GmoBefore(g, r, t)
  BY DEF StoresTo, Extends
<1> QED
  BY <1>2, <1>3 DEF Source, Latest

(* The longer order keeps program order if everything the new event must   *)
(* follow is before it.                                                    *)
LEMMA OrderedStep ==
  ASSUME NEW p, NEW g, Order(p, g), NEW g2, NEW x, NEW b, Extends(Events(p), g, g2, x, b),
         \A d \in Events(p) : Kept(p, d, x) => d \in b
  PROVE  Order(p, g2)
<1>1. ASSUME NEW d \in Events(p), NEW e \in ToSet(g2), Kept(p, d, e)
      PROVE  GmoBefore(g2, d, e)
  <2>1. CASE e = x
    BY <1>1, <2>1 DEF Extends
  <2>2. CASE e \in ToSet(g)
    <3>1. GmoBefore(g, d, e)
      BY <1>1, <2>2 DEF Order, Ordered
    <3>2. d \in ToSet(g)
      BY <3>1, BeforeIn
    <3> QED
      BY <2>2, <3>1, <3>2 DEF Extends
  <2> QED
    BY <2>1, <2>2 DEF Extends
<1> QED
  BY <1>1 DEF Order, Ordered, Extends

(* Nothing changes for the other hart.                                     *)
LEMMA OtherHartOrder ==
  ASSUME NEW p, NEW g, Order(p, g), NEW g2, NEW x, NEW b, Extends(Events(p), g, g2, x, b),
         NEW h, NEW s, x[1] = h, b = ToSet(g) \/ (<<h, s[1]>> \in ToSet(g) /\ b = Behind(g, h, s)),
         NEW o, o # h, NEW t, NEW m, NEW n, NEW f, HartOrder(p, g, o, t, m, n, f)
  PROVE  HartOrder(p, g2, o, t, m, n, f)
<1>1. \A k : <<o, k>> \in ToSet(g2) <=> <<o, k>> \in ToSet(g)
  BY DEF Extends
<1>2. ASSUME m, NEW d \in ToSet(g2), NEW e \in ToSet(g2), d[1] # o, e[1] = o,
             GmoBefore(g2, <<o, t[1]>>, d)
      PROVE  GmoBefore(g2, e, d)
  <2>1. e \in ToSet(g)
    BY <1>2 DEF Extends
  <2>2. <<o, t[1]>> \in ToSet(g)
    <3>1. <<o, t[1]>> \in ToSet(g2)
      BY <1>2, BeforeIn
    <3> QED
      BY <1>1, <3>1
  <2>3. CASE d \in ToSet(g)
    <3>1. GmoBefore(g, <<o, t[1]>>, d)
      BY <1>2, <2>2, <2>3 DEF Extends
    <3>2. GmoBefore(g, e, d)
      BY <1>2, <2>1, <2>3, <3>1 DEF HartOrder, Block
    <3> QED
      BY <2>1, <2>3, <3>2 DEF Extends
  <2>4. CASE d = x
    <3>1. <<o, t[1]>> \in b
      BY <1>2, <2>2, <2>4 DEF Extends
    <3>2. e \in b
      <4>1. CASE b = ToSet(g)
        BY <2>1, <4>1
      <4>2. CASE <<h, s[1]>> \in ToSet(g) /\ b = Behind(g, h, s)
        <5>1. GmoBefore(g, <<o, t[1]>>, <<h, s[1]>>)
          BY <3>1, <4>2 DEF Behind
        <5>2. GmoBefore(g, e, <<h, s[1]>>)
          BY <1>2, <2>1, <4>2, <5>1 DEF HartOrder, Block
        <5> QED
          BY <2>1, <4>2, <5>2 DEF Behind
      <4> QED
        BY <4>1, <4>2
    <3> QED
      BY <2>1, <2>4, <3>2 DEF Extends
  <2> QED
    BY <2>3, <2>4 DEF Extends
<1>3. Block(g2, o, t, m)
  BY <1>2 DEF Block
<1> QED
  BY <1>1, <1>3 DEF HartOrder

-----------------------------------------------------------------------------
(* The steps of a hart: its oldest store leaves the buffer ...             *)
LEMMA DrainOrder ==
  ASSUME NEW p, NEW g, NEW h, NEW s, NEW n, NEW f, HartOrder(p, g, h, s, TRUE, n, f)
  PROVE  HartOrder(p, g, h, Tail(s), FALSE, n, f)
<1>1. s \in Seq(1 .. 4) /\ s # <<>>
  BY DEF HartOrder, Positions
<1>2. /\ Tail(s) \in Seq(1 .. 4) /\ Len(s) \in Nat \ {0} /\ Len(Tail(s)) = Len(s) - 1
      /\ DOMAIN s = 1 .. Len(s)
      /\ \A i \in 1 .. Len(s) - 1 : Tail(s)[i] = s[i + 1]
  BY <1>1
<1>3. DOMAIN Tail(s) = 1 .. Len(s) - 1
  BY <1>2
<1>4. \A i \in DOMAIN Tail(s) : i + 1 \in DOMAIN s /\ i + 1 # 1 /\ Tail(s)[i] = s[i + 1]
  BY <1>2, <1>3
<1>5. \A j \in DOMAIN s : j # 1 => j - 1 \in DOMAIN Tail(s) /\ s[j] = Tail(s)[j - 1]
  BY <1>2, <1>3
<1>6. 1 \in DOMAIN s
  BY <1>2
<1>7. Positions(p, h, Tail(s), n)
  <2>1. \A i \in DOMAIN Tail(s) : Tail(s)[i] <= n /\ p[h][Tail(s)[i]].op = "store"
    BY <1>4 DEF HartOrder, Positions
  <2>2. \A i, j \in DOMAIN Tail(s) : i < j => Tail(s)[i] < Tail(s)[j]
    BY <1>2, <1>3 DEF HartOrder, Positions
  <2>3. ASSUME NEW k \in 1 .. n, p[h][k].op # "load"
        PROVE  (\E i \in DOMAIN Tail(s) : Tail(s)[i] = k) \/ \A i \in DOMAIN Tail(s) : k < Tail(s)[i]
    <3>1. CASE \A i \in DOMAIN s : k < s[i]
      BY <1>4, <3>1
    <3>2. CASE \E i \in DOMAIN s : s[i] = k
      <4>1. PICK i \in DOMAIN s : s[i] = k
        BY <3>2
      <4>2. CASE i = 1
        <5>1. \A j \in DOMAIN s : 1 < j => s[1] < s[j]
          BY <1>6 DEF HartOrder, Positions
        <5>2. \A j \in DOMAIN Tail(s) : 1 < j + 1
          BY <1>3
        <5> QED
          BY <1>4, <4>1, <4>2, <5>1, <5>2
      <4>3. CASE i # 1
        BY <1>5, <4>1, <4>3
      <4> QED
        BY <4>2, <4>3
    <3> QED
      BY <2>3, <3>1, <3>2 DEF HartOrder, Positions
  <2> QED
    BY <1>2, <2>1, <2>2, <2>3 DEF Positions
<1>8. ASSUME NEW k
      PROVE  (\A i \in DOMAIN s : s[i] = k => i = 1) <=> \A i \in DOMAIN Tail(s) : Tail(s)[i] # k
  BY <1>4, <1>5
<1>9. \A k : InMemory(p, h, s, TRUE, n, f, k) <=> InMemory(p, h, Tail(s), FALSE, n, f, k)
  BY <1>8 DEF InMemory
<1>10. Block(g, h, Tail(s), FALSE)
  BY DEF Block
<1> QED
  BY <1>7, <1>9, <1>10 DEF HartOrder

(* ... a store enters it ...                                               *)
LEMMA EnqueueOrder ==
  ASSUME NEW p, NEW g, NEW h, NEW s, NEW m, NEW n, NEW f, HartOrder(p, g, h, s, m, n, f),
         Len(p[h]) \in 0 .. 4, n < Len(p[h]), p[h][n + 1].op = "store"
  PROVE  HartOrder(p, g, h, Append(s, n + 1), m, n + 1, FALSE)
<1> DEFINE t == Append(s, n + 1)
<1>1. s \in Seq(1 .. 4) /\ n \in Nat /\ n + 1 \in 1 .. 4 /\ n + 1 \in 0 .. Len(p[h])
  BY DEF HartOrder, Positions
<1>2. /\ t \in Seq(1 .. 4) /\ Len(s) \in Nat /\ Len(t) = Len(s) + 1
      /\ DOMAIN s = 1 .. Len(s) /\ DOMAIN t = 1 .. Len(s) + 1
      /\ t[Len(s) + 1] = n + 1 /\ \A i \in 1 .. Len(s) : t[i] = s[i]
  BY <1>1
<1> HIDE DEF t
<1>3. \A i \in DOMAIN t : (i \in DOMAIN s /\ t[i] = s[i]) \/ (i = Len(s) + 1 /\ t[i] = n + 1)
  BY <1>2
<1>4. \A i \in DOMAIN s : i \in DOMAIN t /\ t[i] = s[i] /\ i < Len(s) + 1
  BY <1>2
<1>5. Len(s) + 1 \in DOMAIN t
  BY <1>2
<1>6. \A i \in DOMAIN s : s[i] \in 1 .. 4 /\ s[i] <= n
  BY <1>1 DEF HartOrder, Positions
<1>7. Positions(p, h, t, n + 1)
  <2>1. \A i \in DOMAIN t : t[i] <= n + 1 /\ p[h][t[i]].op = "store"
    BY <1>1, <1>3, <1>6 DEF HartOrder, Positions
  <2>2. ASSUME NEW i \in DOMAIN t, NEW j \in DOMAIN t, i < j PROVE t[i] < t[j]
    <3>1. i \in DOMAIN s /\ t[i] = s[i] /\ s[i] <= n /\ s[i] \in 1 .. 4
      BY <1>2, <1>3, <1>6, <2>2
    <3>2. CASE j \in DOMAIN s /\ t[j] = s[j]
      BY <2>2, <3>1, <3>2 DEF HartOrder, Positions
    <3>3. CASE t[j] = n + 1
      BY <1>1, <3>1, <3>3
    <3> QED
      BY <1>3, <3>2, <3>3
  <2>3. ASSUME NEW k \in 1 .. n + 1, p[h][k].op # "load"
        PROVE  (\E i \in DOMAIN t : t[i] = k) \/ \A i \in DOMAIN t : k < t[i]
    <3>1. CASE k = n + 1
      BY <1>2, <1>5, <3>1
    <3>2. CASE k # n + 1
      <4>1. k \in 1 .. n
        BY <1>1, <3>2
      <4>2. (\E i \in DOMAIN s : s[i] = k) \/ \A i \in DOMAIN s : k < s[i]
        BY <2>3, <4>1 DEF HartOrder, Positions
      <4>3. CASE \E i \in DOMAIN s : s[i] = k
        BY <1>4, <4>3
      <4>4. CASE \A i \in DOMAIN s : k < s[i]
        BY <1>1, <1>3, <4>1, <4>4
      <4> QED
        BY <4>2, <4>3, <4>4
    <3> QED
      BY <3>1, <3>2
  <2> QED
    BY <1>2, <2>1, <2>2, <2>3 DEF Positions
<1>8. ASSUME NEW k \in 1 .. Len(p[h])
      PROVE  InMemory(p, h, s, m, n, f, k) <=> InMemory(p, h, t, m, n + 1, FALSE, k)
  <2>1. CASE p[h][k].op = "store" /\ k # n + 1
    <3>1. k <= n <=> k <= n + 1
      BY <1>1, <2>1
    <3>2. (\A i \in DOMAIN s : s[i] = k => m /\ i = 1) <=> \A i \in DOMAIN t : t[i] = k => m /\ i = 1
      BY <1>3, <1>4, <2>1
    <3> QED
      BY <2>1, <3>1, <3>2 DEF InMemory
  <2>2. CASE p[h][k].op = "store" /\ k = n + 1
    <3>1. ~(k <= n)
      BY <1>1, <2>2
    <3>2. ~\A i \in DOMAIN t : t[i] = k => m /\ i = 1
      <4>1. m => Len(s) + 1 # 1
        BY <1>1, <1>2 DEF HartOrder
      <4> QED
        BY <1>2, <1>5, <2>2, <4>1
    <3> QED
      BY <2>2, <3>1, <3>2 DEF InMemory
  <2>3. CASE p[h][k].op # "store"
    <3>1. k # n + 1 /\ ~f
      BY <2>3 DEF HartOrder
    <3>2. k <= n <=> k <= n + 1
      BY <1>1, <3>1
    <3> QED
      BY <2>3, <3>1, <3>2 DEF InMemory
  <2> QED
    BY <2>1, <2>2, <2>3
<1>9. Block(g, h, t, m) /\ t # <<>>
  <2>1. m => t[1] = s[1]
    BY <1>1, <1>2 DEF HartOrder
  <2> QED
    BY <1>2, <2>1 DEF HartOrder, Block
<1> QED
  BY <1>1, <1>7, <1>8, <1>9 DEF HartOrder, t

(* ... a FENCE passes the empty buffer ...                                 *)
LEMMA FenceOrder ==
  ASSUME NEW p, NEW g, NEW h, NEW m, NEW n, NEW f, HartOrder(p, g, h, <<>>, m, n, f),
         Len(p[h]) \in 0 .. 4, n < Len(p[h]), p[h][n + 1].op = "fence"
  PROVE  HartOrder(p, g, h, <<>>, m, n + 1, FALSE)
<1>1. n \in Nat /\ n + 1 \in 0 .. Len(p[h]) /\ ~f /\ ~m
  BY DEF HartOrder
<1>2. Positions(p, h, <<>>, n + 1)
  BY DEF Positions
<1>3. ASSUME NEW k \in 1 .. Len(p[h]), p[h][k].op # "fence"
      PROVE  InMemory(p, h, <<>>, m, n, f, k) <=> InMemory(p, h, <<>>, m, n + 1, FALSE, k)
  <2>1. k # n + 1
    BY <1>3
  <2>2. k <= n <=> k <= n + 1
    BY <1>1, <2>1
  <2> QED
    BY <1>1, <2>2 DEF InMemory
<1> QED
  BY <1>1, <1>2, <1>3 DEF HartOrder, Block

(* ... or a load that has read memory completes.                           *)
LEMMA LoadedOrder ==
  ASSUME NEW p, NEW g, NEW h, NEW s, NEW m, NEW n, HartOrder(p, g, h, s, m, n, TRUE),
         Len(p[h]) \in 0 .. 4
  PROVE  HartOrder(p, g, h, s, m, n + 1, FALSE)
<1>1. n \in Nat /\ n + 1 \in 0 .. Len(p[h]) /\ p[h][n + 1].op = "load"
  BY DEF HartOrder
<1>2. Positions(p, h, s, n + 1)
  <2>1. ASSUME NEW k \in 1 .. n + 1, p[h][k].op # "load" PROVE k \in 1 .. n
    BY <1>1, <2>1
  <2>2. \A i \in DOMAIN s : s[i] \in 1 .. 4 /\ s[i] <= n
    BY DEF HartOrder, Positions
  <2>3. \A i \in DOMAIN s : s[i] <= n + 1
    BY <1>1, <2>2
  <2> QED
    BY <2>1, <2>3 DEF HartOrder, Positions
<1>3. ASSUME NEW k \in 1 .. Len(p[h])
      PROVE  InMemory(p, h, s, m, n, TRUE, k) <=> InMemory(p, h, s, m, n + 1, FALSE, k)
  <2>1. k <= n + 1 <=> k <= n \/ k = n + 1
    BY <1>1
  <2>2. p[h][k].op = "store" => k # n + 1
    BY <1>1
  <2> QED
    BY <2>1, <2>2 DEF InMemory
<1> QED
  BY <1>1, <1>2, <1>3 DEF HartOrder

-----------------------------------------------------------------------------
(* What has to be in memory before an event is.                            *)
LEMMA EventIn ==
  ASSUME NEW p, NEW e
  PROVE  e \in Events(p) <=> /\ e \in {1, 2} \X (1 .. 4) /\ e[2] <= Len(p[e[1]])
                             /\ p[e[1]][e[2]].op \in {"load", "store"}
BY DEF Events, Kind, Op

(* An instruction of a program that is not a FENCE is an event.            *)
LEMMA NewEvent ==
  ASSUME NEW p, WellFormed(p), NEW h \in {1, 2}, NEW k \in 1 .. Len(p[h]),
         p[h][k].op # "fence"
  PROVE  <<h, k>> \in Events(p) /\ Op(p, <<h, k>>) = p[h][k]
<1>1. k \in 1 .. 4
  BY DEF WellFormed
<1>2. p[h][k].op \in {"store", "load"}
  BY DEF WellFormed
<1> QED
  BY <1>1, <1>2, EventIn DEF Op

(* Earlier loads have completed; earlier stores, unless they are buffered, *)
(* have reached memory, and those before a FENCE are not buffered.         *)
LEMMA KeptIsIn ==
  ASSUME NEW p, WellFormed(p), NEW g, NEW h \in {1, 2}, NEW s, NEW m, NEW n, NEW f,
         HartOrder(p, g, h, s, m, n, f),
         NEW k \in 1 .. Len(p[h]), NEW d \in Events(p), Kept(p, d, <<h, k>>),
         \/ p[h][k].op = "load" /\ k = n + 1
         \/ p[h][k].op = "store" /\ s # <<>> /\ k = s[1]
  PROVE  d \in ToSet(g)
<1> DEFINE j == d[2]
<1>1. d = <<h, j>> /\ j \in 1 .. Len(p[h]) /\ j < k /\ p[h][j].op \in {"load", "store"}
  BY EventIn DEF Kept, PoBefore
<1> HIDE DEF j
<1>2. n \in 0 .. Len(p[h]) /\ Len(p[h]) \in 0 .. 4 /\ s \in Seq(1 .. 4)
  BY DEF HartOrder, Positions, WellFormed
<1>3. s # <<>> => 1 \in DOMAIN s /\ s[1] <= n /\ \A i \in DOMAIN s : i = 1 \/ s[1] < s[i]
  <2> SUFFICES ASSUME s # <<>>
               PROVE  1 \in DOMAIN s /\ s[1] <= n /\ \A i \in DOMAIN s : i = 1 \/ s[1] < s[i]
    OBVIOUS
  <2>1. 1 \in DOMAIN s /\ \A i \in DOMAIN s : i = 1 \/ 1 < i
    BY <1>2
  <2> QED
    BY <2>1 DEF HartOrder, Positions
<1>4. \A i \in DOMAIN s : s[i] \in 1 .. 4
  BY <1>2
<1>5. j <= n
  <2>1. CASE k = n + 1
    BY <1>1, <1>2, <2>1
  <2>2. CASE s # <<>> /\ k = s[1]
    BY <1>1, <1>2, <1>3, <2>2
  <2> QED
    BY <2>1, <2>2
<1>6. CASE p[h][j].op = "load"
  BY <1>1, <1>5, <1>6 DEF HartOrder, InMemory
<1>7. CASE p[h][j].op = "store"
  <2>1. \A i \in DOMAIN s : s[i] # j
    <3>1. CASE p[h][k].op = "store"
      <4>1. s # <<>> /\ j < s[1] /\ s[1] \in 1 .. 4
        BY <1>1, <1>3, <1>4, <3>1
      <4>2. \A i \in DOMAIN s : i = 1 \/ s[1] < s[i]
        BY <1>3, <4>1
      <4> QED
        BY <1>1, <1>2, <1>4, <4>1, <4>2
    <3>2. CASE p[h][k].op = "load"
      <4>1. Op(p, d).op = "store" /\ Op(p, <<h, k>>).op = "load"
        BY <1>1, <1>7, <3>2 DEF Op
      <4>2. PICK u \in Kind(p, "fence") : PoBefore(d, u) /\ PoBefore(u, <<h, k>>)
        BY <4>1 DEF Kept
      <4>3. PICK l \in 1 .. 4 : l = u[2] /\ p[h][l].op = "fence" /\ j < l /\ l < k
        BY <1>1, <4>2 DEF Kind, Op, PoBefore
      <4>4. l \in 1 .. n
        BY <1>2, <3>2, <4>3
      <4>5. (\E i \in DOMAIN s : s[i] = l) \/ \A i \in DOMAIN s : l < s[i]
        BY <4>3, <4>4 DEF HartOrder, Positions
      <4>6. \A i \in DOMAIN s : s[i] # l
        BY <4>3 DEF HartOrder, Positions
      <4>7. \A i \in DOMAIN s : l < s[i]
        BY <4>5, <4>6
      <4> QED
        BY <1>1, <1>4, <4>3, <4>7
    <3> QED
      BY <3>1, <3>2
  <2> QED
    BY <1>1, <1>5, <1>7, <2>1 DEF HartOrder, InMemory
<1> QED
  BY <1>1, <1>6, <1>7

(* The stores a load would find in the buffer.                             *)
LEMMA BufferedIsIn ==
  ASSUME NEW p, WellFormed(p), NEW g, NEW h \in {1, 2}, NEW s, NEW m, NEW n, NEW f,
         HartOrder(p, g, h, s, m, n, f), NEW t \in Kind(p, "store"), t[1] = h, t[2] \in 1 .. n
  PROVE  t \in ToSet(g) \/ \E i \in DOMAIN s : s[i] = t[2]
<1>1. n \in 0 .. Len(p[h]) /\ Len(p[h]) \in 0 .. 4
  BY DEF HartOrder, WellFormed
<1>2. t \in {1, 2} \X (1 .. 4) /\ p[h][t[2]].op = "store"
  BY DEF Kind, Op
<1>3. PICK k \in 1 .. n : k = t[2]
  OBVIOUS
<1>4. k \in 1 .. Len(p[h]) /\ k <= n /\ t = <<h, k>>
  BY <1>1, <1>2, <1>3
<1>5. t \in ToSet(g) \/ \E i \in DOMAIN s : s[i] = k
  <2>1. <<h, k>> \in ToSet(g) <=> InMemory(p, h, s, m, n, f, k)
    BY <1>2, <1>3, <1>4 DEF HartOrder
  <2> QED
    BY <1>2, <1>3, <1>4, <2>1 DEF InMemory
<1> QED
  BY <1>3, <1>5

(* The longer order has one position of the hart more.                     *)
LEMMA NewIn ==
  ASSUME NEW E, NEW g, NEW g2, NEW h, NEW k, NEW b, Extends(E, g, g2, <<h, k>>, b), NEW l
  PROVE  <<h, l>> \in ToSet(g2) <=> <<h, l>> \in ToSet(g) \/ l = k
BY DEF Extends

(* A load reads memory.                                                    *)
(* No buffered store serves the load after n instructions.                 *)
Misses(p, h, s, n) ==
  /\ n < Len(p[h]) /\ p[h][n + 1].op = "load"
  /\ \A i \in DOMAIN s : p[h][s[i]].addr # p[h][n + 1].addr

(* The load reads memory and takes its place at the end of the order.      *)
Fetches(p, g, g2, h, s, n) ==
  /\ Extends(Events(p), g, g2, <<h, n + 1>>, ToSet(g))
  /\ Order(p, g2)
  /\ HartOrder(p, g2, h, s, FALSE, n, TRUE)
  /\ Source(p, g2, <<h, n + 1>>) = Latest(p, g, p[h][n + 1].addr)

(* A load that misses the buffer is performed when it reads memory: it     *)
(* comes last in the order.                                                *)
LEMMA FetchOrder ==
  ASSUME NEW p, WellFormed(p), NEW g, Order(p, g), NEW h \in {1, 2}, NEW s, NEW n,
         HartOrder(p, g, h, s, FALSE, n, FALSE), Misses(p, h, s, n)
  PROVE  \E g2 : Fetches(p, g, g2, h, s, n)
<1> DEFINE x == <<h, n + 1>>
<1> USE DEF Misses, Fetches
<1>1. n \in 0 .. Len(p[h]) /\ n + 1 \in 1 .. Len(p[h]) /\ Len(p[h]) \in 0 .. 4
  BY DEF HartOrder, WellFormed
<1>2. x \in Events(p) /\ Op(p, x) = p[h][n + 1] /\ x \notin Kind(p, "store")
  BY <1>1, NewEvent DEF Kind
<1>3. x \notin ToSet(g)
  BY <1>1 DEF HartOrder, InMemory
<1>4. PICK g2 : Extends(Events(p), g, g2, x, ToSet(g))
  BY <1>2, <1>3, AtTheEnd DEF Order
<1>5. Order(p, g2)
  <2>1. \A d \in Events(p) : Kept(p, d, x) => d \in ToSet(g)
    BY <1>1, KeptIsIn
  <2> QED
    BY <1>4, <2>1, OrderedStep
<1>6. Buffered(p, g2, x) = {}
  <2> SUFFICES ASSUME NEW t \in Buffered(p, g2, x) PROVE FALSE
    OBVIOUS
  <2>1. /\ t \in Kind(p, "store") /\ PoBefore(t, x) /\ ~GmoBefore(g2, t, x)
        /\ Op(p, t).addr = p[h][n + 1].addr
    BY <1>2 DEF Buffered
  <2>2. t[1] = h /\ t[2] \in 1 .. n
    BY <1>1, <2>1 DEF PoBefore, Kind
  <2>3. t \in ToSet(g) \/ \E i \in DOMAIN s : s[i] = t[2]
    <3>1. PICK m, f : HartOrder(p, g, h, s, m, n, f)
      OBVIOUS
    <3> HIDE DEF x
    <3> QED
      BY <2>1, <2>2, <3>1, BufferedIsIn
  <2>4. p[h][t[2]].addr = p[h][n + 1].addr
    BY <2>1, <2>2 DEF Op
  <2>5. t \in ToSet(g)
    BY <2>3, <2>4
  <2> QED
    BY <1>4, <2>1, <2>5 DEF Extends
<1>7. Source(p, g2, x) = Latest(p, g, p[h][n + 1].addr)
  BY <1>2, <1>4, <1>6, ReadsLatest
<1>8. HartOrder(p, g2, h, s, FALSE, n, TRUE)
  <2>1. ASSUME NEW k \in 1 .. Len(p[h]), p[h][k].op # "fence"
        PROVE  <<h, k>> \in ToSet(g2) <=> InMemory(p, h, s, FALSE, n, TRUE, k)
    <3>1. <<h, k>> \in ToSet(g2) <=> <<h, k>> \in ToSet(g) \/ k = n + 1
      BY <1>4, NewIn
    <3>2. <<h, k>> \in ToSet(g) <=> InMemory(p, h, s, FALSE, n, FALSE, k)
      BY <2>1 DEF HartOrder
    <3> QED
      BY <1>1, <3>1, <3>2 DEF InMemory
  <2> QED
    BY <2>1 DEF HartOrder, Block
<1> QED
  BY <1>4, <1>5, <1>7, <1>8

(* A store reaches memory.                                                 *)
LEMMA PerformOrder ==
  ASSUME NEW p, WellFormed(p), NEW g, Order(p, g), NEW h \in {1, 2}, NEW s, NEW n, NEW f,
         HartOrder(p, g, h, s, FALSE, n, f), s # <<>>
  PROVE  \E g2 : /\ Extends(Events(p), g, g2, <<h, s[1]>>, ToSet(g))
                 /\ Order(p, g2)
                 /\ HartOrder(p, g2, h, s, TRUE, n, f)
<1> DEFINE x == <<h, s[1]>>
<1>1. /\ n \in 0 .. Len(p[h]) /\ Len(p[h]) \in 0 .. 4 /\ s \in Seq(1 .. 4)
      /\ 1 \in DOMAIN s
  BY DEF HartOrder, Positions, WellFormed
<1>2. s[1] \in 1 .. n /\ s[1] \in 1 .. Len(p[h]) /\ p[h][s[1]].op = "store"
  BY <1>1 DEF HartOrder, Positions
<1>3. x \in Events(p) /\ x \notin ToSet(g)
  BY <1>1, <1>2, NewEvent DEF HartOrder, InMemory
<1>4. PICK g2 : Extends(Events(p), g, g2, x, ToSet(g))
  BY <1>3, AtTheEnd DEF Order
<1>5. Order(p, g2)
  <2>1. PICK k \in 1 .. Len(p[h]) : k = s[1] /\ p[h][k].op = "store" /\ x = <<h, k>>
    BY <1>2
  <2>2. ASSUME NEW d \in Events(p), Kept(p, d, <<h, k>>) PROVE d \in ToSet(g)
    <3>1. p[h][k].op = "store" /\ s # <<>> /\ k = s[1]
      BY <2>1
    <3> HIDE DEF x
    <3>2. PICK m : HartOrder(p, g, h, s, m, n, f)
      OBVIOUS
    <3> QED
      BY <2>2, <3>1, <3>2, KeptIsIn
  <2> QED
    BY <1>4, <2>1, <2>2, OrderedStep
<1>6. ASSUME NEW k \in 1 .. Len(p[h]), p[h][k].op # "fence"
      PROVE  <<h, k>> \in ToSet(g2) <=> InMemory(p, h, s, TRUE, n, f, k)
  <2>1. <<h, k>> \in ToSet(g2) <=> <<h, k>> \in ToSet(g) \/ k = s[1]
    BY <1>4, NewIn
  <2>2. <<h, k>> \in ToSet(g) <=> InMemory(p, h, s, FALSE, n, f, k)
    BY <1>6 DEF HartOrder
  <2>3. \A i \in DOMAIN s : s[i] = s[1] => i = 1
    <3>1. ASSUME NEW i \in DOMAIN s, i # 1 PROVE s[i] # s[1]
      <4>1. 1 < i
        BY <1>1, <3>1
      <4>2. s[1] < s[i] /\ s[1] \in 1 .. 4 /\ s[i] \in 1 .. 4
        BY <1>1, <4>1 DEF HartOrder, Positions
      <4> QED
        BY <4>2
    <3> QED
      BY <3>1
  <2> QED
    BY <1>1, <1>2, <2>1, <2>2, <2>3 DEF InMemory
<1>7. Block(g2, h, s, TRUE)
  <2> SUFFICES ASSUME NEW d \in ToSet(g2), d[1] # h, GmoBefore(g2, x, d) PROVE FALSE
    BY DEF Block
  <2>1. d # x /\ d \in ToSet(g)
    BY <1>4 DEF Extends
  <2> QED
    BY <1>4, <2>1 DEF Extends
<1> QED
  BY <1>4, <1>5, <1>6, <1>7 DEF HartOrder

(* A hart's oldest buffered store that has reached memory is in the order. *)
LEMMA OldestIn ==
  ASSUME NEW p, WellFormed(p), NEW g, NEW h \in {1, 2}, NEW s, NEW m, NEW n, NEW f,
         HartOrder(p, g, h, s, m, n, f), m
  PROVE  <<h, s[1]>> \in ToSet(g)
<1>1. n \in 0 .. Len(p[h]) /\ Len(p[h]) \in 0 .. 4
  BY DEF HartOrder, WellFormed
<1>2. s \in Seq(1 .. 4) /\ s # <<>> /\ 1 \in DOMAIN s
  BY DEF HartOrder, Positions
<1>3. s[1] \in 1 .. n /\ s[1] \in 1 .. Len(p[h]) /\ p[h][s[1]].op = "store"
  BY <1>1, <1>2 DEF HartOrder, Positions
<1>4. \A i \in DOMAIN s : s[i] = s[1] => i = 1
  <2>1. ASSUME NEW i \in DOMAIN s, i # 1 PROVE s[i] # s[1]
    <3>1. 1 < i
      BY <1>2, <2>1
    <3>2. s[1] < s[i] /\ s[1] \in 1 .. 4 /\ s[i] \in 1 .. 4
      BY <1>2, <3>1 DEF HartOrder, Positions
    <3> QED
      BY <3>2
  <2> QED
    BY <2>1
<1> QED
  BY <1>3, <1>4 DEF HartOrder, InMemory


-----------------------------------------------------------------------------
(* A load is forwarded the newest buffered store to its word.              *)
LEMMA ForwardPlace ==
  ASSUME NEW p, WellFormed(p), NEW g, Order(p, g), NEW h \in {1, 2}, NEW s, NEW m, NEW n,
         HartOrder(p, g, h, s, m, n, FALSE), n < Len(p[h]), p[h][n + 1].op = "load"
  PROVE  \E g2, b : /\ Extends(Events(p), g, g2, <<h, n + 1>>, b)
                    /\ b = IF m THEN Behind(g, h, s) ELSE ToSet(g)
                    /\ Order(p, g2)
                    /\ HartOrder(p, g2, h, s, m, n + 1, FALSE)
<1> DEFINE x == <<h, n + 1>>
           b == IF m THEN Behind(g, h, s) ELSE ToSet(g)
<1>1. n \in 0 .. Len(p[h]) /\ n + 1 \in 1 .. Len(p[h]) /\ Len(p[h]) \in 0 .. 4 /\ m \in BOOLEAN
  BY DEF HartOrder, WellFormed
<1>2. x \in Events(p) /\ x \notin ToSet(g)
  BY <1>1, NewEvent DEF HartOrder, InMemory
<1>3. m => <<h, s[1]>> \in ToSet(g)
  <2>1. PICK f : HartOrder(p, g, h, s, m, n, f)
    OBVIOUS
  <2> QED
    BY <2>1, OldestIn
<1>4. PICK g2 : Extends(Events(p), g, g2, x, b)
  <2>1. CASE m
    BY <1>2, <1>3, <2>1, InTheBlock DEF Order, HartOrder
  <2>2. CASE ~m
    BY <1>2, <2>2, AtTheEnd DEF Order
  <2> QED
    BY <2>1, <2>2
<1>5. Order(p, g2)
  <2>1. ASSUME NEW d \in Events(p), Kept(p, d, x) PROVE d \in b
    <3>1. d \in ToSet(g)
      <4>1. PICK f : HartOrder(p, g, h, s, m, n, f)
        OBVIOUS
      <4> HIDE DEF b
      <4> QED
        BY <1>1, <2>1, <4>1, KeptIsIn
    <3>2. d[1] = h
      BY <2>1 DEF Kept, PoBefore
    <3> QED
      BY <3>1, <3>2 DEF Behind
  <2> QED
    BY <1>4, <2>1, OrderedStep
<1>6. Positions(p, h, s, n + 1)
  <2>1. ASSUME NEW k \in 1 .. n + 1, p[h][k].op # "load" PROVE k \in 1 .. n
    BY <1>1, <2>1
  <2>2. \A i \in DOMAIN s : s[i] \in 1 .. 4 /\ s[i] <= n
    BY DEF HartOrder, Positions
  <2>3. \A i \in DOMAIN s : s[i] <= n + 1
    BY <1>1, <2>2
  <2> QED
    BY <2>1, <2>3 DEF HartOrder, Positions
<1>7. ASSUME NEW k \in 1 .. Len(p[h]), p[h][k].op # "fence"
      PROVE  <<h, k>> \in ToSet(g2) <=> InMemory(p, h, s, m, n + 1, FALSE, k)
  <2>1. <<h, k>> \in ToSet(g2) <=> <<h, k>> \in ToSet(g) \/ k = n + 1
    BY <1>4, NewIn
  <2>2. <<h, k>> \in ToSet(g) <=> InMemory(p, h, s, m, n, FALSE, k)
    BY <1>7 DEF HartOrder
  <2>3. k <= n + 1 <=> k <= n \/ k = n + 1
    BY <1>1
  <2>4. p[h][k].op = "store" => k # n + 1
    BY <1>1
  <2> QED
    BY <2>1, <2>2, <2>3, <2>4 DEF InMemory
<1>8. Block(g2, h, s, m)
  <2> SUFFICES ASSUME m, NEW d \in ToSet(g2), NEW e \in ToSet(g2), d[1] # h, e[1] = h,
                      GmoBefore(g2, <<h, s[1]>>, d)
               PROVE  GmoBefore(g2, e, d)
    BY DEF Block
  <2>1. d \in ToSet(g) /\ GmoBefore(g, <<h, s[1]>>, d)
    BY <1>3, <1>4 DEF Extends
  <2>2. d \notin b
    BY <2>1, BeforeStrict DEF Behind, Order
  <2>3. CASE e = x
    BY <1>4, <2>1, <2>2, <2>3 DEF Extends
  <2>4. CASE e \in ToSet(g)
    <3>1. GmoBefore(g, e, d)
      BY <2>1, <2>4 DEF HartOrder, Block
    <3> QED
      BY <1>4, <2>1, <2>4, <3>1 DEF Extends
  <2> QED
    BY <1>4, <2>3, <2>4 DEF Extends
<1>9. HartOrder(p, g2, h, s, m, n + 1, FALSE)
  <2>1. n + 1 \in 0 .. Len(p[h])
    BY <1>1
  <2>2. m => s # <<>>
    BY DEF HartOrder
  <2> QED
    BY <1>1, <1>6, <1>7, <1>8, <2>1, <2>2 DEF HartOrder
<1> QED
  BY <1>4, <1>5, <1>9

(* The i-th buffered store serves the load after n instructions.           *)
Serves(p, h, s, n, i) ==
  /\ n < Len(p[h]) /\ p[h][n + 1].op = "load"
  /\ i \in DOMAIN s /\ p[h][s[i]].addr = p[h][n + 1].addr
  /\ \A j \in DOMAIN s : p[h][s[j]].addr = p[h][n + 1].addr => j <= i

(* It reads the buffered store it is served from, whether or not that store*)
(* is in memory.                                                           *)
LEMMA ForwardSource ==
  ASSUME NEW p, WellFormed(p), NEW g, Order(p, g), NEW h \in {1, 2}, NEW s, NEW m, NEW n, NEW f,
         HartOrder(p, g, h, s, m, n, f), NEW i, Serves(p, h, s, n, i),
         NEW g2, NEW b, Extends(Events(p), g, g2, <<h, n + 1>>, b),
         b = IF m THEN Behind(g, h, s) ELSE ToSet(g)
  PROVE  Source(p, g2, <<h, n + 1>>) = {<<h, s[i]>>}
<1> DEFINE x == <<h, n + 1>>
           y == <<h, s[i]>>
           a == p[h][n + 1].addr
<1>0. /\ n < Len(p[h]) /\ p[h][n + 1].op = "load"
      /\ i \in DOMAIN s /\ p[h][s[i]].addr = a
      /\ \A j \in DOMAIN s : p[h][s[j]].addr = a => j <= i
  BY DEF Serves
<1>1. /\ n \in 0 .. Len(p[h]) /\ n + 1 \in 1 .. Len(p[h]) /\ Len(p[h]) \in 0 .. 4
      /\ m \in BOOLEAN /\ s \in Seq(1 .. 4)
  BY <1>0 DEF HartOrder, Positions, WellFormed
<1>2. s[i] \in 1 .. n /\ s[i] \in 1 .. Len(p[h]) /\ p[h][s[i]].op = "store"
  BY <1>0, <1>1 DEF HartOrder, Positions
<1>3. /\ y \in Kind(p, "store") /\ Op(p, y).addr = a /\ Op(p, x).addr = a
      /\ PoBefore(y, x) /\ x # y
  <2>1. h \in {1, 2} /\ s[i] \in 1 .. 4 /\ s[i] < n + 1
    <3>1. PICK k \in 1 .. n : k = s[i]
      BY <1>2
    <3>2. n \in 0 .. 4
      <4>1. PICK l \in 0 .. 4 : l = Len(p[h])
        BY <1>1
      <4>2. n \in 0 .. l
        BY <1>1, <4>1
      <4> QED
        BY <4>2
    <3>3. k \in 1 .. 4 /\ k < n + 1
      BY <3>2
    <3> QED
      BY <3>1, <3>3
  <2>2. Op(p, y) = p[h][s[i]] /\ Op(p, x) = p[h][n + 1]
    BY DEF Op
  <2>3. y \in {1, 2} \X (1 .. 4) /\ y[2] <= Len(p[y[1]])
    BY <1>2, <2>1
  <2>4. y \in Kind(p, "store")
    BY <1>2, <2>2, <2>3 DEF Kind
  <2>5. PoBefore(y, x) /\ x # y
    BY <1>1, <2>1 DEF PoBefore
  <2> QED
    BY <1>0, <2>2, <2>4, <2>5
<1>4. \A j \in DOMAIN s : s[j] = s[i] => j = i
  <2>1. ASSUME NEW j \in DOMAIN s, j # i PROVE s[j] # s[i]
    <3>1. j < i \/ i < j
      BY <1>0, <1>1, <2>1
    <3>2. s[i] < s[j] \/ s[j] < s[i]
      BY <1>0, <3>1 DEF HartOrder, Positions
    <3> QED
      BY <1>0, <1>1, <3>2
  <2> QED
    BY <2>1
<1>5. y \in ToSet(g) <=> m /\ i = 1
  BY <1>0, <1>2, <1>4 DEF HartOrder, InMemory
<1>6. \A d \in ToSet(g) : d[1] = h => d \in b /\ GmoBefore(g2, d, x)
  BY DEF Behind, Extends
<1>7. ASSUME NEW r \in Buffered(p, g2, x)
      PROVE  r \notin ToSet(g) /\ r[1] = h /\ \E j \in DOMAIN s : j <= i /\ s[j] = r[2]
  <2>1. /\ r \in Kind(p, "store") /\ PoBefore(r, x) /\ ~GmoBefore(g2, r, x)
        /\ Op(p, r).addr = a
    BY <1>3 DEF Buffered
  <2>2. r[1] = h /\ r[2] \in 1 .. n
    BY <1>1, <2>1 DEF PoBefore, Kind
  <2>3. r \notin ToSet(g)
    BY <1>6, <2>1, <2>2
  <2>4. r \in ToSet(g) \/ \E j \in DOMAIN s : s[j] = r[2]
    <3> HIDE DEF x, y, a
    <3> QED
      BY <2>1, <2>2, BufferedIsIn
  <2>5. PICK j \in DOMAIN s : s[j] = r[2]
    BY <2>3, <2>4
  <2>6. j <= i
    BY <1>0, <2>1, <2>2, <2>5 DEF Op
  <2> QED
    BY <2>2, <2>3, <2>5, <2>6
<1>8. CASE ~(m /\ i = 1)
  <2>1. y \in Buffered(p, g2, x)
    <3>1. y \notin ToSet(g2)
      BY <1>3, <1>5, <1>8 DEF Extends
    <3> QED
      BY <1>3, <3>1, BeforeIn DEF Buffered
  <2>2. ASSUME NEW r \in Buffered(p, g2, x) PROVE r[2] <= s[i]
    <3>1. PICK j \in DOMAIN s : j <= i /\ s[j] = r[2]
      BY <1>7
    <3>2. j = i \/ j < i
      BY <1>0, <1>1, <3>1
    <3>3. s[j] = s[i] \/ s[j] < s[i]
      BY <1>0, <3>2 DEF HartOrder, Positions
    <3>4. s[i] \in 1 .. 4 /\ s[j] \in 1 .. 4
      BY <1>0, <1>1
    <3> QED
      BY <3>1, <3>3, <3>4
  <2>3. ASSUME NEW r \in Buffered(p, g2, x), s[i] <= r[2] PROVE r = y
    <3>1. r \in {1, 2} \X (1 .. 4) /\ r[1] = h
      BY <1>7 DEF Buffered, Kind
    <3>2. r[2] = s[i]
      <4>1. r[2] <= s[i] /\ s[i] <= r[2]
        BY <2>2, <2>3
      <4>2. r[2] \in 1 .. 4 /\ s[i] \in 1 .. 4
        BY <1>0, <1>1, <3>1
      <4> QED
        BY <4>1, <4>2
    <3> QED
      BY <3>1, <3>2
  <2>4. \A r : (r \in Buffered(p, g2, x) /\ \A t \in Buffered(p, g2, x) : t[2] <= r[2]) <=> r = y
    BY <2>1, <2>2, <2>3
  <2>5. {r \in Buffered(p, g2, x) : \A t \in Buffered(p, g2, x) : t[2] <= r[2]} = {y}
    BY <2>4
  <2> QED
    BY <2>1, <2>5 DEF Source
<1>9. CASE m /\ i = 1
  <2>1. Buffered(p, g2, x) = {}
    <3> SUFFICES ASSUME NEW r \in Buffered(p, g2, x) PROVE FALSE
      OBVIOUS
    <3>1. PICK j \in DOMAIN s : j <= 1 /\ s[j] = r[2]
      BY <1>7, <1>9
    <3>2. j = 1
      BY <1>1, <3>1
    <3>3. r = y
      BY <1>7, <1>9, <3>1, <3>2 DEF Buffered, Kind
    <3> QED
      BY <1>5, <1>7, <1>9, <3>3
  <2>2. y \in ToSet(g) /\ y \in StoresBefore(p, g2, x)
    BY <1>3, <1>5, <1>6, <1>9 DEF StoresBefore
  <2>3. ASSUME NEW r \in StoresBefore(p, g2, x), r # y PROVE GmoBefore(g2, r, y) /\ ~GmoBefore(g2, y, r)
    <3>1. r \in Kind(p, "store") /\ GmoBefore(g2, r, x)
      BY <2>3 DEF StoresBefore
    <3>2. r \in ToSet(g) /\ r \in b
      BY <3>1, BeforeIn, BeforeStrict DEF Extends
    <3>3. GmoBefore(g, r, y)
      <4>1. CASE r[1] = h
        <5>1. PICK k \in 1 .. 4 : r = <<h, k>> /\ p[h][k].op = "store" /\ k <= Len(p[h])
          BY <3>1, <4>1 DEF Kind, Op
        <5>2. k \in 1 .. n /\ \A j \in DOMAIN s : s[j] # k
          <6>1. InMemory(p, h, s, m, n, f, k)
            <7>1. k \in 1 .. Len(p[h])
              BY <1>1, <5>1
            <7> QED
              BY <3>2, <5>1, <7>1 DEF HartOrder
          <6> QED
            BY <1>1, <1>9, <2>3, <5>1, <6>1 DEF InMemory
        <5>3. k < s[i]
          BY <1>0, <5>1, <5>2 DEF HartOrder, Positions
        <5>4. Kept(p, r, y) /\ r \in Events(p)
          BY <1>2, <3>1, <5>1, <5>3 DEF Kept, PoBefore, Op, Events
        <5> QED
          BY <2>2, <5>4 DEF Order, Ordered
      <4>2. CASE r[1] # h
        BY <1>9, <3>2, <4>2 DEF Behind
      <4> QED
        BY <4>1, <4>2
    <3>4. GmoBefore(g2, r, y)
      BY <2>2, <3>2, <3>3 DEF Extends
    <3> QED
      BY <3>4, BeforeStrict DEF Extends
  <2>4. {r \in StoresBefore(p, g2, x) :
           \A t \in StoresBefore(p, g2, x) : t = r \/ GmoBefore(g2, t, r)} = {y}
    BY <2>2, <2>3
  <2> QED
    BY <2>1, <2>4 DEF Source
<1> QED
  BY <1>8, <1>9

-----------------------------------------------------------------------------
(* The buffer's entries at a hart's positions.                             *)
LEMMA EntriesTail ==
  ASSUME NEW p, NEW h, NEW s \in Seq(1 .. 4), s # <<>>
  PROVE  Entries(p, h, Tail(s)) = Tail(Entries(p, h, s))
<1> DEFINE E(i) == [addr |-> p[h][s[i]].addr, data |-> p[h][s[i]].data]
           N == Len(s)
<1>1. N \in Nat \ {0} /\ DOMAIN s = 1 .. N
  OBVIOUS
<1>2. Entries(p, h, s) = [i \in 1 .. N |-> E(i)] /\ Len(Entries(p, h, s)) = N
  BY <1>1 DEF Entries
<1>3. Tail(Entries(p, h, s)) = [i \in 1 .. N - 1 |-> E(i + 1)]
  <2> HIDE DEF N, E
  <2>1. PICK e : e = [i \in 1 .. N |-> E(i)] /\ Len(e) = N /\ DOMAIN e = 1 .. N
    BY <1>2
  <2>2. Tail(e) = [i \in 1 .. N - 1 |-> e[i + 1]]
    BY <1>1, <2>1
  <2>3. \A i \in 1 .. N - 1 : e[i + 1] = E(i + 1)
    BY <1>1, <2>1
  <2> QED
    BY <1>2, <2>1, <2>2, <2>3
<1>4. Tail(s) = [i \in 1 .. N - 1 |-> s[i + 1]] /\ DOMAIN Tail(s) = 1 .. N - 1
  <2> HIDE DEF N, E
  <2>1. s = [i \in 1 .. N |-> s[i]] /\ Len(s) = N
    BY <1>1 DEF N
  <2>2. PICK e : e = [i \in 1 .. N |-> s[i]] /\ Len(e) = N /\ DOMAIN e = 1 .. N
    BY <1>1, <2>1
  <2>3. Tail(e) = [i \in 1 .. N - 1 |-> e[i + 1]]
    BY <1>1, <2>2
  <2>4. e = s
    BY <2>1, <2>2
  <2>5. Tail(s) = [i \in 1 .. N - 1 |-> s[i + 1]]
    BY <2>3, <2>4
  <2> QED
    BY <2>5
<1>5. \A i \in 1 .. N - 1 : Tail(s)[i] = s[i + 1]
  BY <1>4
<1>6. Entries(p, h, Tail(s)) = [i \in 1 .. N - 1 |-> E(i + 1)]
  BY <1>4, <1>5 DEF Entries
<1> QED
  BY <1>3, <1>6

(* A store entering the buffer is the entry at its position.               *)
LEMMA EntriesAppend ==
  ASSUME NEW p, NEW h, NEW s \in Seq(1 .. 4), NEW k \in 1 .. 4
  PROVE  Entries(p, h, Append(s, k)) =
           Append(Entries(p, h, s), [addr |-> p[h][k].addr, data |-> p[h][k].data])
<1> DEFINE E(n) == [addr |-> p[h][n].addr, data |-> p[h][n].data]
           N == Len(s)
<1>1. N \in Nat /\ DOMAIN s = 1 .. N
  OBVIOUS
<1>2. PICK t : t = Append(s, k)
  OBVIOUS
<1>3. /\ DOMAIN t = 1 .. N + 1 /\ t[N + 1] = k /\ \A i \in 1 .. N : t[i] = s[i]
  BY <1>1, <1>2
<1>4. PICK e : e = Entries(p, h, s)
  OBVIOUS
<1>5. e = [i \in 1 .. N |-> E(s[i])] /\ Len(e) = N /\ DOMAIN e = 1 .. N
  BY <1>1, <1>4 DEF Entries
<1>6. Entries(p, h, t) = [i \in 1 .. N + 1 |-> E(t[i])]
  BY <1>3 DEF Entries
<1> HIDE DEF E, N
<1>7. Append(e, E(k)) = [i \in 1 .. N + 1 |-> IF i = N + 1 THEN E(k) ELSE e[i]]
  BY <1>1, <1>5
<1>8. \A i \in 1 .. N + 1 : E(t[i]) = IF i = N + 1 THEN E(k) ELSE e[i]
  <2> SUFFICES ASSUME NEW i \in 1 .. N + 1
               PROVE  E(t[i]) = IF i = N + 1 THEN E(k) ELSE e[i]
    OBVIOUS
  <2>1. CASE i = N + 1
    BY <1>3, <2>1
  <2>2. CASE i # N + 1
    <3>1. i \in 1 .. N
      BY <1>1, <2>2
    <3> QED
      BY <1>3, <1>5, <2>2, <3>1
  <2> QED
    BY <2>1, <2>2
<1> QED
  BY <1>2, <1>4, <1>6, <1>7, <1>8 DEF E

(* The order of a hart after the edge that takes its performed store out.  *)
LEMMA SettledOrder ==
  ASSUME NEW p, NEW g, NEW h, NEW s, NEW m \in BOOLEAN, NEW n, NEW f,
         HartOrder(p, g, h, s, m, n, f)
  PROVE  HartOrder(p, g, h, IF m THEN Tail(s) ELSE s, FALSE, n, f)
<1>1. CASE m = TRUE
  BY <1>1, DrainOrder
<1>2. CASE m = FALSE
  BY <1>2
<1> QED
  BY <1>1, <1>2

(* The value a load gets from its only source.                             *)
LEMMA ValueOfOne ==
  ASSUME NEW p, NEW y
  PROVE  ValueOf(p, {y}) = Op(p, y).data
<1>1. (CHOOSE t \in {y} : TRUE) = y
  OBVIOUS
<1> QED
  BY <1>1 DEF ValueOf

(* What an edge does to the hart's orders, before its oldest store leaves. *)
Completed(h) == Retired(h) + (IF Ready(h) THEN 1 ELSE 0)

(* g2 is g, or g with an event of hart h put at its end or in the block.   *)
Extended(p, g, g2, h, s) ==
  \/ g2 = g
  \/ \E x, b : /\ Extends(Events(p), g, g2, x, b) /\ x[1] = h
               /\ b = ToSet(g) \/ (<<h, s[1]>> \in ToSet(g) /\ b = Behind(g, h, s))
               /\ x \in Kind(p, "store") => b = ToSet(g)

(* The access in flight is the instruction after the retired ones.         *)
LEMMA AccessIs ==
  ASSUME NEW p, WellFormed(p), NEW g, NEW h \in {1, 2}, NEW s, HartExplained(p, g, h, s),
         access[h] # None
  PROVE  /\ Retired(h) \in 0 .. Len(p[h]) /\ Retired(h) + 1 \in 1 .. Len(p[h])
         /\ pc[h] - 1 = Retired(h) + 1
         /\ access[h] = p[h][Retired(h) + 1]
         /\ access[h].op \in {"store", "load", "fence"}
<1>1. pc[h] \in 1 .. Len(p[h]) + 1 /\ pc[h] > 1 /\ access[h] = p[h][pc[h] - 1]
  BY DEF HartExplained
<1>2. Retired(h) = pc[h] - 2 /\ Len(p[h]) \in 0 .. 4
  BY DEF Retired, WellFormed
<1>3. pc[h] - 1 = Retired(h) + 1 /\ Retired(h) \in 0 .. Len(p[h]) /\ Retired(h) + 1 \in 1 .. Len(p[h])
  BY <1>1, <1>2
<1> QED
  BY <1>1, <1>3 DEF WellFormed

(* After an edge, g2 explains hart h with the positions s of its buffer    *)
(* before the oldest store leaves it, and what a load returns.             *)
EdgeExplained(p, g2, h, s) ==
  /\ Order(p, g2)
  /\ s \in Seq(1 .. 4)
  /\ HartOrder(p, g2, h, s, Performed[h], Completed(h), Fetched'[h] # None)
  /\ Entries(p, h, s) = IF Enqueue(h)
                        THEN Append(Buffer[h], [addr |-> access[h].addr, data |-> access[h].data])
                        ELSE Buffer[h]
  /\ Active(h, "load") /\ Ready(h) =>
       prdata'[h] = ValueOf(p, Source(p, g2, <<h, Retired(h) + 1>>))

(* The order of a hart, its parts as constants.                            *)
LEMMA HartParts ==
  ASSUME NEW p, NEW g, NEW h, NEW s, HartExplained(p, g, h, s)
  PROVE  \E m, f, n :
           /\ m \in BOOLEAN /\ f \in BOOLEAN
           /\ m = Performed[h] /\ f = (Fetched[h] # None) /\ n = Retired(h)
           /\ HartOrder(p, g, h, s, m, n, f)
<1>1. PICK m, f, n : m = Performed[h] /\ f = (Fetched[h] # None) /\ n = Retired(h)
  OBVIOUS
<1>2. HartOrder(p, g, h, s, m, n, f)
  BY <1>1 DEF HartExplained
<1>3. m \in BOOLEAN /\ f \in BOOLEAN
  BY <1>2 DEF HartOrder
<1> QED
  BY <1>1, <1>2, <1>3

(* An edge without PREADY retires nothing.                                 *)
LEMMA EdgeWaits ==
  ASSUME NEW p, WellFormed(p), NEW g, Order(p, g), NEW h \in {1, 2}, NEW s \in Seq(1 .. 4),
         HartExplained(p, g, h, s), TypeOK, h \in Hart, HartInv(h), Edge(h), ~Ready(h)
  PROVE  EdgeExplained(p, g, h, s)
<1>1. Fetched'[h] = Fetched[h]
  BY EdgeFetched
<1>2. Completed(h) = Retired(h)
  <2>1. Retired(h) \in Int
    BY DEF HartExplained, HartOrder
  <2> QED
    BY <2>1 DEF Completed
<1>3. PICK m, f, n : /\ m = Performed[h] /\ f = (Fetched[h] # None) /\ n = Retired(h)
                     /\ HartOrder(p, g, h, s, m, n, f)
  BY HartParts
<1>4. HartOrder(p, g, h, s, Performed[h], Completed(h), Fetched'[h] # None)
  <2>1. f = (Fetched'[h] # None) /\ n = Completed(h)
    BY <1>1, <1>2, <1>3
  <2> QED
    BY <1>3, <2>1
<1> QED
  BY <1>4 DEF EdgeExplained, Enqueue, HartExplained

(* PREADY answers an access in its access phase: a store by entering the   *)
(* ring, a load or a FENCE without.                                        *)
LEMMA ReadyAccess ==
  ASSUME NEW h, Ready(h)
  PROVE  /\ access[h] # None /\ penable[h]
         /\ access[h].op = "store" => Enqueue(h)
         /\ access[h].op = "load" <=> Active(h, "load")
         /\ access[h].op # "store" => ~Enqueue(h)
BY DEF Ready, Active, Enqueue

(* The edge that retires a store puts it in the buffer.                    *)
LEMMA EdgeStores ==
  ASSUME NEW p, WellFormed(p), NEW g, Order(p, g), NEW h \in {1, 2}, NEW s \in Seq(1 .. 4),
         HartExplained(p, g, h, s), TypeOK, h \in Hart, HartInv(h), Edge(h), Ready(h),
         access[h].op = "store"
  PROVE  EdgeExplained(p, g, h, Append(s, Retired(h) + 1))
<1>1. access[h] # None /\ Enqueue(h) /\ ~Active(h, "load")
  BY ReadyAccess
<1>2. PICK m, f, n :
        /\ m \in BOOLEAN /\ f \in BOOLEAN
        /\ m = Performed[h] /\ f = (Fetched[h] # None) /\ n = Retired(h)
        /\ HartOrder(p, g, h, s, m, n, f)
  BY HartParts
<1>3. /\ n \in 0 .. Len(p[h]) /\ n + 1 \in 1 .. Len(p[h])
      /\ access[h] = p[h][n + 1] /\ p[h][n + 1].op = "store"
  BY <1>1, <1>2, AccessIs
<1>4. Len(p[h]) \in 0 .. 4 /\ n < Len(p[h]) /\ n + 1 \in 1 .. 4
  BY <1>3 DEF WellFormed
<1>5. Fetched[h] = None /\ Fetched'[h] = None
  <2>1. f = FALSE
    BY <1>2, <1>3 DEF HartOrder
  <2> QED
    BY <1>1, <1>2, <2>1, EdgeFetched
<1>6. Completed(h) = n + 1
  BY <1>2 DEF Completed
<1>7. HartOrder(p, g, h, Append(s, n + 1), m, n + 1, FALSE)
  BY <1>2, <1>3, <1>4, EnqueueOrder
<1>8. PICK bit \in BOOLEAN : bit = FALSE
  OBVIOUS
<1>9. bit = (Fetched'[h] # None)
  BY <1>5, <1>8
<1>10. HartOrder(p, g, h, Append(s, n + 1), Performed[h], Completed(h), Fetched'[h] # None)
  BY <1>2, <1>6, <1>7, <1>8, <1>9
<1>11. Append(s, n + 1) \in Seq(1 .. 4)
  BY <1>4
<1>12. Entries(p, h, Append(s, n + 1)) =
         Append(Buffer[h], [addr |-> access[h].addr, data |-> access[h].data])
  <2>1. Entries(p, h, s) = Buffer[h]
    BY DEF HartExplained
  <2>2. Entries(p, h, Append(s, n + 1)) =
          Append(Entries(p, h, s), [addr |-> p[h][n + 1].addr, data |-> p[h][n + 1].data])
    BY <1>4, EntriesAppend
  <2> QED
    BY <1>3, <2>1, <2>2
<1> QED
  BY <1>1, <1>2, <1>10, <1>11, <1>12 DEF EdgeExplained

(* The edge that retires a FENCE finds the buffer empty.                   *)
LEMMA EdgeFences ==
  ASSUME NEW p, WellFormed(p), NEW g, Order(p, g), NEW h \in {1, 2}, NEW s \in Seq(1 .. 4),
         HartExplained(p, g, h, s), TypeOK, h \in Hart, HartInv(h), Edge(h), Ready(h),
         access[h].op = "fence"
  PROVE  EdgeExplained(p, g, h, s)
<1>1. access[h] # None /\ ~Enqueue(h) /\ ~Active(h, "load") /\ FenceDone(h)
  BY ReadyAccess DEF Ready, Active
<1>2. PICK m, f, n :
        /\ m \in BOOLEAN /\ f \in BOOLEAN
        /\ m = Performed[h] /\ f = (Fetched[h] # None) /\ n = Retired(h)
        /\ HartOrder(p, g, h, s, m, n, f)
  BY HartParts
<1>3. /\ n \in 0 .. Len(p[h]) /\ n + 1 \in 1 .. Len(p[h])
      /\ access[h] = p[h][n + 1] /\ p[h][n + 1].op = "fence"
  BY <1>1, <1>2, AccessIs
<1>4. Len(p[h]) \in 0 .. 4 /\ n < Len(p[h])
  BY <1>3 DEF WellFormed
<1>5. Fetched[h] = None /\ Fetched'[h] = None
  <2>1. f = FALSE
    BY <1>2, <1>3 DEF HartOrder
  <2> QED
    BY <1>1, <1>2, <2>1, EdgeFetched
<1>6. Completed(h) = n + 1
  BY <1>2 DEF Completed
<1>7. s = <<>>
  <2>1. Buffer[h] = <<>>
    BY <1>1, BufferOf DEF FenceDone
  <2>2. Entries(p, h, s) = <<>>
    BY <2>1 DEF HartExplained
  <2>3. DOMAIN s = {}
    <3>1. DOMAIN Entries(p, h, s) = DOMAIN s
      BY DEF Entries
    <3>2. DOMAIN <<>> = {}
      OBVIOUS
    <3> QED
      BY <2>2, <3>1, <3>2
  <2> QED
    BY <2>3
<1>8. HartOrder(p, g, h, s, m, n + 1, FALSE)
  <2>1. HartOrder(p, g, h, <<>>, m, n, f)
    BY <1>2, <1>7
  <2> QED
    BY <1>3, <1>4, <1>7, <2>1, FenceOrder
<1>9. PICK bit \in BOOLEAN : bit = FALSE
  OBVIOUS
<1>10. bit = (Fetched'[h] # None)
  BY <1>5, <1>9
<1>11. HartOrder(p, g, h, s, Performed[h], Completed(h), Fetched'[h] # None)
  BY <1>2, <1>6, <1>8, <1>9, <1>10
<1> QED
  BY <1>1, <1>2, <1>11 DEF EdgeExplained, HartExplained

(* The hart's matching entries, and the one it is served from.             *)
LEMMA MatchedEntries ==
  ASSUME TypeOK, NEW h \in Hart
  PROVE  /\ DOMAIN Buffer[h] = 1 .. sb_count[h] /\ sb_count[h] \in 0 .. 2
         /\ \A i \in DOMAIN Buffer[h] : Buffer[h][i] = sb[h][Slot(h, i - 1)]
         /\ \A i \in DOMAIN Buffer[h] :
              Buffer[h][i].addr = access[h].addr <=> i - 1 \in Match(h)
<1>1. sb_count[h] \in 0 .. 2 /\ Buffer[h] = [n \in 1 .. sb_count[h] |-> sb[h][Slot(h, n - 1)]]
  BY DEF TypeOK, Buffer, Depth
<1>2. DOMAIN Buffer[h] = 1 .. sb_count[h]
  BY <1>1
<1>3. \A i \in DOMAIN Buffer[h] : Buffer[h][i] = sb[h][Slot(h, i - 1)]
  BY <1>1
<1>4. ASSUME NEW i \in DOMAIN Buffer[h]
      PROVE  Buffer[h][i].addr = access[h].addr <=> i - 1 \in Match(h)
  <2>1. i \in 1 .. sb_count[h] /\ i - 1 \in 0 .. 1 /\ i - 1 < sb_count[h]
    BY <1>1, <1>2
  <2> QED
    BY <1>3, <2>1 DEF Match
<1> QED
  BY <1>1, <1>2, <1>3, <1>4

(* Forwarded data is that of the newest buffered store to the word.        *)
LEMMA YoungestMatch ==
  ASSUME TypeOK, NEW h \in Hart, Ring(h), Forwarded(h)
  PROVE  \E i \in DOMAIN Buffer[h] :
           /\ Buffer[h][i].addr = access[h].addr
           /\ \A j \in DOMAIN Buffer[h] : Buffer[h][j].addr = access[h].addr => j <= i
           /\ ForwardedData(h) = Buffer[h][i].data
<1>1. PICK k \in Match(h) : /\ \A j \in Match(h) : j <= k
                            /\ ForwardedData(h) = sb[h][Slot(h, k)].data
  BY ForwardedEntry
<1>2. k \in 0 .. 1 /\ k < sb_count[h] /\ sb_count[h] \in 0 .. 2
  BY MatchedEntries DEF Match
<1>3. k + 1 \in DOMAIN Buffer[h] /\ (k + 1) - 1 = k
  BY <1>2, MatchedEntries
<1>4. Buffer[h][k + 1].addr = access[h].addr
  BY <1>3, MatchedEntries
<1>5. Buffer[h][k + 1] = sb[h][Slot(h, k)]
  BY <1>3, MatchedEntries
<1>6. ASSUME NEW j \in DOMAIN Buffer[h], Buffer[h][j].addr = access[h].addr PROVE j <= k + 1
  <2>1. j - 1 \in Match(h)
    BY <1>6, MatchedEntries
  <2>2. j \in 1 .. sb_count[h]
    BY MatchedEntries
  <2>3. j - 1 <= k
    BY <1>1, <2>1
  <2> QED
    BY <1>2, <2>2, <2>3
<1> QED
  BY <1>1, <1>3, <1>4, <1>5, <1>6

(* The edge that retires a forwarded load performs it.                     *)
LEMMA EdgeForwards ==
  ASSUME NEW p, WellFormed(p), NEW g, Order(p, g), NEW h \in {1, 2}, NEW s \in Seq(1 .. 4),
         HartExplained(p, g, h, s), TypeOK, h \in Hart, HartInv(h), Edge(h), Ready(h),
         access[h].op = "load", Forwarded(h)
  PROVE  \E g2 : /\ Extended(p, g, g2, h, s) /\ EdgeExplained(p, g2, h, s)
                /\ \A a : Latest(p, g2, a) = Latest(p, g, a)
<1>1. access[h] # None /\ ~Enqueue(h) /\ Active(h, "load")
  BY ReadyAccess
<1>2. PICK m, f, n :
        /\ m \in BOOLEAN /\ f \in BOOLEAN
        /\ m = Performed[h] /\ f = (Fetched[h] # None) /\ n = Retired(h)
        /\ HartOrder(p, g, h, s, m, n, f)
  BY HartParts
<1>3. /\ n \in 0 .. Len(p[h]) /\ n + 1 \in 1 .. Len(p[h])
      /\ access[h] = p[h][n + 1] /\ p[h][n + 1].op = "load"
  BY <1>1, <1>2, AccessIs
<1>4. Len(p[h]) \in 0 .. 4 /\ n < Len(p[h])
  BY <1>3 DEF WellFormed
<1>5. Fetched[h] = None /\ Fetched'[h] = None
  BY <1>1, EdgeFetched
<1>6. HartOrder(p, g, h, s, m, n, FALSE)
  <2>1. f = FALSE
    BY <1>2, <1>5
  <2> QED
    BY <1>2, <2>1
<1>7. Completed(h) = n + 1
  BY <1>2 DEF Completed
<1>8. PICK g2, b : /\ Extends(Events(p), g, g2, <<h, n + 1>>, b)
                   /\ b = IF m THEN Behind(g, h, s) ELSE ToSet(g)
                   /\ Order(p, g2)
                   /\ HartOrder(p, g2, h, s, m, n + 1, FALSE)
  BY <1>3, <1>4, <1>6, ForwardPlace
<1>9. Extended(p, g, g2, h, s) /\ \A a : Latest(p, g2, a) = Latest(p, g, a)
  <2>1. m => <<h, s[1]>> \in ToSet(g)
    BY <1>2, OldestIn
  <2>2. PICK x : x = <<h, n + 1>>
    OBVIOUS
  <2>3. x[1] = h /\ Op(p, x).op = "load"
    BY <1>3, <2>2 DEF Op
  <2>4. x \notin Kind(p, "store")
    BY <2>3 DEF Kind
  <2>5. Extends(Events(p), g, g2, x, b)
    BY <1>8, <2>2
  <2>6. b = ToSet(g) \/ (<<h, s[1]>> \in ToSet(g) /\ b = Behind(g, h, s))
    BY <1>8, <2>1
  <2>7. Extended(p, g, g2, h, s)
    <3>1. /\ Extends(Events(p), g, g2, x, b) /\ x[1] = h
          /\ b = ToSet(g) \/ (<<h, s[1]>> \in ToSet(g) /\ b = Behind(g, h, s))
          /\ x \in Kind(p, "store") => b = ToSet(g)
      BY <2>3, <2>4, <2>5, <2>6
    <3> QED
      BY <3>1, Zenon DEF Extended
  <2>8. \A a : Latest(p, g2, a) = Latest(p, g, a)
    <3> SUFFICES ASSUME NEW a PROVE Latest(p, g2, a) = Latest(p, g, a)
      OBVIOUS
    <3>1. PICK E : E = Events(p)
      OBVIOUS
    <3>2. Extends(E, g, g2, x, b)
      BY <2>5, <3>1
    <3> QED
      BY <2>4, <3>2, LatestOfLoad
  <2> QED
    BY <2>7, <2>8
<1>10. Buffer[h] = Entries(p, h, s)
  BY DEF HartExplained
<1>11. PICK i \in DOMAIN s :
         /\ p[h][s[i]].addr = p[h][n + 1].addr
         /\ \A j \in DOMAIN s : p[h][s[j]].addr = p[h][n + 1].addr => j <= i
         /\ ForwardedData(h) = p[h][s[i]].data
  <2>1. DOMAIN Buffer[h] = DOMAIN s
    BY <1>10 DEF Entries
  <2>2. \A i \in DOMAIN s : /\ Buffer[h][i].addr = p[h][s[i]].addr
                            /\ Buffer[h][i].data = p[h][s[i]].data
    BY <1>10 DEF Entries
  <2>3. PICK i \in DOMAIN Buffer[h] :
          /\ Buffer[h][i].addr = access[h].addr
          /\ \A j \in DOMAIN Buffer[h] : Buffer[h][j].addr = access[h].addr => j <= i
          /\ ForwardedData(h) = Buffer[h][i].data
    BY YoungestMatch DEF HartInv
  <2>4. i \in DOMAIN s /\ p[h][s[i]].addr = p[h][n + 1].addr
        /\ ForwardedData(h) = p[h][s[i]].data
    BY <1>3, <2>1, <2>2, <2>3
  <2>5. \A j \in DOMAIN s : p[h][s[j]].addr = p[h][n + 1].addr => j <= i
    BY <1>3, <2>1, <2>2, <2>3
  <2> QED
    BY <2>4, <2>5
<1>12. Source(p, g2, <<h, n + 1>>) = {<<h, s[i]>>}
  <2>1. Serves(p, h, s, n, i)
    BY <1>3, <1>4, <1>11 DEF Serves
  <2> QED
    BY <1>2, <1>8, <2>1, ForwardSource
<1>13. prdata'[h] = ForwardedData(h)
  BY <1>1 DEF Edge, CoreEdge, TypeOK
<1>14. prdata'[h] = ValueOf(p, Source(p, g2, <<h, n + 1>>))
  <2>1. PICK y : y = <<h, s[i]>>
    OBVIOUS
  <2>2. ValueOf(p, {y}) = Op(p, y).data
    BY ValueOfOne
  <2>3. Op(p, y).data = p[h][s[i]].data
    BY <2>1 DEF Op
  <2> QED
    BY <1>11, <1>12, <1>13, <2>1, <2>2, <2>3
<1>15. PICK bit \in BOOLEAN : bit = FALSE
  OBVIOUS
<1>16. bit = (Fetched'[h] # None)
  BY <1>5, <1>15
<1>17. HartOrder(p, g2, h, s, Performed[h], Completed(h), Fetched'[h] # None)
  BY <1>2, <1>7, <1>8, <1>15, <1>16
<1>18. EdgeExplained(p, g2, h, s)
  BY <1>1, <1>2, <1>8, <1>10, <1>14, <1>17 DEF EdgeExplained
<1> QED
  BY <1>2, <1>9, <1>18

(* The edge that retires a load that read memory.                          *)
LEMMA EdgeLoads ==
  ASSUME NEW p, WellFormed(p), NEW g, Order(p, g), NEW h \in {1, 2}, NEW s \in Seq(1 .. 4),
         HartExplained(p, g, h, s), TypeOK, h \in Hart, HartInv(h), Edge(h), Ready(h),
         access[h].op = "load", ~Forwarded(h)
  PROVE  EdgeExplained(p, g, h, s)
<1>1. access[h] # None /\ ~Enqueue(h) /\ Active(h, "load")
  BY ReadyAccess
<1>2. PICK m, f, n :
        /\ m \in BOOLEAN /\ f \in BOOLEAN
        /\ m = Performed[h] /\ f = (Fetched[h] # None) /\ n = Retired(h)
        /\ HartOrder(p, g, h, s, m, n, f)
  BY HartParts
<1>3. n \in 0 .. Len(p[h])
  BY <1>1, <1>2, AccessIs
<1>4. Fetched[h] # None /\ Fetched[h] = apb_rsp[h] /\ Fetched'[h] = None
  BY <1>1, EdgeFetched
<1>5. HartOrder(p, g, h, s, m, n, TRUE)
  <2>1. f = TRUE
    BY <1>2, <1>4
  <2> QED
    BY <1>2, <2>1
<1>6. Completed(h) = n + 1
  BY <1>2 DEF Completed
<1>7. HartOrder(p, g, h, s, m, n + 1, FALSE)
  <2>1. Len(p[h]) \in 0 .. 4
    BY DEF WellFormed
  <2> QED
    BY <1>5, <2>1, LoadedOrder
<1>8. prdata'[h] = Fetched[h]
  BY <1>1, <1>4 DEF Edge, CoreEdge, TypeOK
<1>9. PICK bit \in BOOLEAN : bit = FALSE
  OBVIOUS
<1>10. bit = (Fetched'[h] # None)
  BY <1>4, <1>9
<1>11. HartOrder(p, g, h, s, Performed[h], Completed(h), Fetched'[h] # None)
  BY <1>2, <1>6, <1>7, <1>9, <1>10
<1> QED
  BY <1>1, <1>4, <1>8, <1>11 DEF EdgeExplained, HartExplained

(* Every edge of the bridge extends the order, and changes no last store.  *)
LEMMA EdgeOrder ==
  ASSUME NEW p, WellFormed(p), NEW g, Order(p, g), NEW h \in {1, 2}, NEW s \in Seq(1 .. 4),
         HartExplained(p, g, h, s), TypeOK, h \in Hart, HartInv(h), Edge(h)
  PROVE  \E g2, s1 : /\ Extended(p, g, g2, h, s) /\ EdgeExplained(p, g2, h, s1)
                     /\ ~Ready(h) => g2 = g
                     /\ \A a : Latest(p, g2, a) = Latest(p, g, a)
<1>1. Extended(p, g, g, h, s)
  BY DEF Extended
<1>2. CASE ~Ready(h)
  BY <1>1, <1>2, EdgeWaits
<1>3. CASE Ready(h)
  <2>1. access[h].op \in {"store", "load", "fence"}
    BY <1>3, ReadyAccess, AccessIs
  <2>2. CASE access[h].op = "store"
    BY <1>1, <1>3, <2>2, EdgeStores
  <2>3. CASE access[h].op = "fence"
    BY <1>1, <1>3, <2>3, EdgeFences
  <2>4. CASE access[h].op = "load" /\ Forwarded(h)
    BY <1>3, <2>4, EdgeForwards
  <2>5. CASE access[h].op = "load" /\ ~Forwarded(h)
    BY <1>1, <1>3, <2>5, EdgeLoads
  <2> QED
    BY <2>1, <2>2, <2>3, <2>4, <2>5
<1> QED
  BY <1>2, <1>3

(* What the loads of a hart have returned is explained by the longer order.*)
LEMMA SourcesStay ==
  ASSUME NEW p, WellFormed(p), NEW g, NEW g2, NEW h, NEW s, Extended(p, g, g2, h, s),
         NEW e \in ToSet(g)
  PROVE  Source(p, g2, e) = Source(p, g, e)
<1>1. CASE g2 = g
  BY <1>1
<1>2. CASE g2 # g
  <2>1. PICK x, b : Extends(Events(p), g, g2, x, b) /\ (x \in Kind(p, "store") => b = ToSet(g))
    BY <1>2 DEF Extended
  <2> QED
    BY <2>1, SourceStays
<1> QED
  BY <1>1, <1>2

(* A retired load, or one that has read memory, is performed.              *)
LEMMA LoadIsIn ==
  ASSUME NEW p, WellFormed(p), NEW g, NEW h \in {1, 2}, NEW s, HartExplained(p, g, h, s),
         NEW k \in 1 .. Len(p[h]), p[h][k].op = "load",
         \/ k <= Retired(h)
         \/ k = Retired(h) + 1 /\ Fetched[h] # None
  PROVE  <<h, k>> \in ToSet(g)
<1>1. PICK m, f, n :
        /\ m \in BOOLEAN /\ f \in BOOLEAN
        /\ m = Performed[h] /\ f = (Fetched[h] # None) /\ n = Retired(h)
        /\ HartOrder(p, g, h, s, m, n, f)
  BY HartParts
<1>2. <<h, k>> \in ToSet(g) <=> InMemory(p, h, s, m, n, f, k)
  BY <1>1 DEF HartOrder
<1>3. InMemory(p, h, s, m, n, f, k)
  BY <1>1 DEF InMemory
<1> QED
  BY <1>2, <1>3

(* The data returned so far are those of the same stores.                  *)
LEMMA ValuesStay ==
  ASSUME NEW p, WellFormed(p), NEW g, NEW g2, NEW h, NEW s, Extended(p, g, g2, h, s),
         NEW o \in {1, 2}, NEW t, HartExplained(p, g, o, t)
  PROVE  /\ \A k \in 1 .. Len(p[o]) : <<o, k>> \in DOMAIN loads =>
              loads[<<o, k>>] = ValueOf(p, Source(p, g2, <<o, k>>))
         /\ Fetched[o] # None => Fetched[o] = ValueOf(p, Source(p, g2, <<o, Retired(o) + 1>>))
<1>1. ASSUME NEW k \in 1 .. Len(p[o]), <<o, k>> \in DOMAIN loads
      PROVE  loads[<<o, k>>] = ValueOf(p, Source(p, g2, <<o, k>>))
  <2>1. /\ k <= Retired(o) /\ p[o][k].op = "load"
        /\ loads[<<o, k>>] = ValueOf(p, Source(p, g, <<o, k>>))
    BY <1>1 DEF HartExplained
  <2>2. <<o, k>> \in ToSet(g)
    BY <2>1, LoadIsIn
  <2>3. Source(p, g2, <<o, k>>) = Source(p, g, <<o, k>>)
    BY <2>2, SourcesStay
  <2> QED
    BY <2>1, <2>3
<1>2. ASSUME Fetched[o] # None
      PROVE  Fetched[o] = ValueOf(p, Source(p, g2, <<o, Retired(o) + 1>>))
  <2>1. PICK n : n = Retired(o) + 1
    OBVIOUS
  <2>2. Fetched[o] = ValueOf(p, Source(p, g, <<o, n>>))
    BY <1>2, <2>1 DEF HartExplained
  <2>3. n \in 1 .. Len(p[o]) /\ p[o][n].op = "load"
    <3>1. PICK m, f, r :
            /\ m \in BOOLEAN /\ f \in BOOLEAN
            /\ m = Performed[o] /\ f = (Fetched[o] # None) /\ r = Retired(o)
            /\ HartOrder(p, g, o, t, m, r, f)
      BY HartParts
    <3>2. r \in 0 .. Len(p[o]) /\ r < Len(p[o]) /\ p[o][r + 1].op = "load"
      BY <1>2, <3>1 DEF HartOrder
    <3>3. r + 1 \in 1 .. Len(p[o])
      BY <3>2 DEF WellFormed
    <3> QED
      BY <2>1, <3>1, <3>2, <3>3
  <2>4. <<o, n>> \in ToSet(g)
    BY <1>2, <2>1, <2>3, LoadIsIn
  <2>5. Source(p, g2, <<o, n>>) = Source(p, g, <<o, n>>)
    BY <2>4, SourcesStay
  <2> QED
    BY <2>1, <2>2, <2>5
<1> QED
  BY <1>1, <1>2

(* A step of one hart leaves the other explained by the longer order.      *)
LEMMA OtherExplained ==
  ASSUME NEW p, WellFormed(p), NEW g, Order(p, g), NEW g2, NEW h, NEW s,
         Extended(p, g, g2, h, s),
         NEW o \in {1, 2}, o # h, NEW t, HartExplained(p, g, o, t),
         o \in Hart, Untouched(o), pc'[o] = pc[o],
         \A k : <<o, k>> \in DOMAIN loads' <=> <<o, k>> \in DOMAIN loads,
         \A k : <<o, k>> \in DOMAIN loads => loads'[<<o, k>>] = loads[<<o, k>>]
  PROVE  HartExplained(p, g2, o, t)'
<1>1. PICK m, f, n :
        /\ m \in BOOLEAN /\ f \in BOOLEAN
        /\ m = Performed[o] /\ f = (Fetched[o] # None) /\ n = Retired(o)
        /\ HartOrder(p, g, o, t, m, n, f)
  BY HartParts
<1>2. HartOrder(p, g2, o, t, m, n, f)
  <2>1. CASE g2 = g
    BY <1>1, <2>1
  <2>2. CASE g2 # g
    <3>1. PICK x, b : /\ Extends(Events(p), g, g2, x, b) /\ x[1] = h
                      /\ b = ToSet(g) \/ (<<h, s[1]>> \in ToSet(g) /\ b = Behind(g, h, s))
      BY <2>2 DEF Extended
    <3> QED
      BY <1>1, <3>1, OtherHartOrder
  <2> QED
    BY <2>1, <2>2
<1>3. /\ access'[o] = access[o] /\ Buffer'[o] = Buffer[o] /\ Performed'[o] = Performed[o]
      /\ Fetched'[o] = Fetched[o]
  BY MappedOthers DEF Untouched
<1>4. Retired(o)' = Retired(o)
  BY <1>3 DEF Retired
<1>5. HartOrder(p, g2, o, t, Performed'[o], Retired(o)', Fetched'[o] # None)
  BY <1>1, <1>2, <1>3, <1>4
<1>6. Fetched[o] # None => Fetched[o] = ValueOf(p, Source(p, g2, <<o, Retired(o) + 1>>))
  BY ValuesStay
<1>7. Fetched'[o] # None => Fetched'[o] = ValueOf(p, Source(p, g2, <<o, Retired(o)' + 1>>))
  BY <1>3, <1>4, <1>6
<1>8. ASSUME NEW k \in 1 .. Len(p[o])
      PROVE  /\ <<o, k>> \in DOMAIN loads' <=> k <= Retired(o)' /\ p[o][k].op = "load"
             /\ <<o, k>> \in DOMAIN loads' =>
                  loads'[<<o, k>>] = ValueOf(p, Source(p, g2, <<o, k>>))
  <2>1. <<o, k>> \in DOMAIN loads <=> k <= Retired(o) /\ p[o][k].op = "load"
    BY DEF HartExplained
  <2>2. <<o, k>> \in DOMAIN loads => loads[<<o, k>>] = ValueOf(p, Source(p, g2, <<o, k>>))
    BY ValuesStay
  <2> QED
    BY <1>4, <2>1, <2>2
<1>9. /\ pc'[o] \in 1 .. Len(p[o]) + 1
      /\ access'[o] # None => pc'[o] > 1 /\ access'[o] = p[o][pc'[o] - 1]
      /\ Buffer'[o] = Entries(p, o, t)
  BY <1>3 DEF HartExplained
<1> QED
  BY <1>5, <1>7, <1>8, <1>9 DEF HartExplained

(* A queue that loses its head and gains a last element.                   *)
LEMMA TailOfAppend ==
  ASSUME NEW E, NEW b \in Seq(E), b # <<>>, NEW e
  PROVE  Tail(Append(b, e)) = Append(Tail(b), e)
OBVIOUS

(* An edge retires the access it answers.                                  *)
LEMMA RetiredNext ==
  ASSUME NEW h, TypeOK, h \in Hart, HartInv(h), Edge(h), pc'[h] = pc[h], pc[h] \in Int
  PROVE  Retired(h)' = Completed(h)
<1>1. access'[h] = IF Ready(h) THEN None ELSE access[h]
  BY EdgeRegisters
<1>2. Ready(h) => access[h] # None
  BY ReadyAccess
<1>3. Retired(h)' = IF access'[h] = None THEN pc'[h] - 1 ELSE pc'[h] - 2
  BY DEF Retired
<1>4. Retired(h) = IF access[h] = None THEN pc[h] - 1 ELSE pc[h] - 2
  BY DEF Retired
<1>5. CASE Ready(h)
  BY <1>1, <1>2, <1>3, <1>4, <1>5 DEF Completed
<1>6. CASE ~Ready(h)
  BY <1>1, <1>3, <1>4, <1>6 DEF Completed
<1> QED
  BY <1>5, <1>6

(* The oldest store leaves at the edge that may also enqueue another.      *)
LEMMA BufferNext ==
  ASSUME NEW p, NEW g, NEW h, NEW s, h \in Hart, TypeOK, TypeOK', HartInv(h), Edge(h),
         EdgeExplained(p, g, h, s)
  PROVE  Buffer'[h] = Entries(p, h, IF Performed[h] THEN Tail(s) ELSE s)
<1> DEFINE e == [addr |-> access[h].addr, data |-> access[h].data]
<1>1. Performed[h] = Drained(h)
  BY EdgePerformed
<1>2. Buffer'[h] = LET rest == IF Drained(h) THEN Tail(Buffer[h]) ELSE Buffer[h]
                   IN  IF Enqueue(h) THEN Append(rest, e) ELSE rest
  BY EdgeBuffer
<1>3. Entries(p, h, s) = IF Enqueue(h) THEN Append(Buffer[h], e) ELSE Buffer[h]
  BY DEF EdgeExplained
<1>4. s \in Seq(1 .. 4)
  BY DEF EdgeExplained
<1> HIDE DEF e
<1>5. CASE ~Drained(h)
  BY <1>1, <1>2, <1>3, <1>5
<1>6. CASE Drained(h)
  <2>1. s # <<>>
    <3>1. PICK m, n, f : HartOrder(p, g, h, s, m, n, f) /\ m = Performed[h]
      BY DEF EdgeExplained
    <3> QED
      BY <1>1, <1>6, <3>1 DEF HartOrder
  <2>2. Entries(p, h, Tail(s)) = Tail(Entries(p, h, s))
    BY <1>4, <2>1, EntriesTail
  <2>3. CASE ~Enqueue(h)
    BY <1>1, <1>2, <1>3, <1>6, <2>2, <2>3
  <2>4. CASE Enqueue(h)
    <3>1. PICK b : b = Buffer[h]
      OBVIOUS
    <3>2. Tail(Append(b, e)) = Append(Tail(b), e)
      <4>1. sb_count[h] > 0 /\ sb_count[h] \in 0 .. 2
        BY <1>6, CompletionOfOldest DEF Drained, TypeOK, Depth
      <4>2. b \in Seq({sb[h][Slot(h, n - 1)] : n \in 1 .. sb_count[h]})
        <5>1. b = [n \in 1 .. sb_count[h] |-> sb[h][Slot(h, n - 1)]]
          BY <3>1 DEF Buffer
        <5> QED
          BY <4>1, <5>1
      <4>3. b # <<>>
        BY <3>1, <4>1, OccupiedBuffer
      <4> QED
        BY <4>2, <4>3, TailOfAppend
    <3> QED
      BY <1>1, <1>2, <1>3, <1>6, <2>2, <2>4, <3>1, <3>2
  <2> QED
    BY <2>3, <2>4
<1> QED
  BY <1>5, <1>6

(* An edge leaves its hart explained.                                      *)
LEMMA EdgeHart ==
  ASSUME NEW p, WellFormed(p), NEW g, Order(p, g), NEW h \in {1, 2}, NEW s \in Seq(1 .. 4),
         HartExplained(p, g, h, s), TypeOK, TypeOK', h \in Hart, HartInv(h), LEdge(h)
  PROVE  \E g2, s2 : /\ Extended(p, g, g2, h, s) /\ Order(p, g2)
                     /\ s2 \in Seq(1 .. 4) /\ HartExplained(p, g2, h, s2)'
                     /\ \A a : Latest(p, g2, a) = Latest(p, g, a)
<1>1. Edge(h) /\ pc' = pc
  BY DEF LEdge
<1>2. PICK g2, s1 : /\ Extended(p, g, g2, h, s) /\ EdgeExplained(p, g2, h, s1)
                    /\ ~Ready(h) => g2 = g
                    /\ \A a : Latest(p, g2, a) = Latest(p, g, a)
  BY <1>1, EdgeOrder
<1>3. /\ Order(p, g2) /\ s1 \in Seq(1 .. 4)
      /\ HartOrder(p, g2, h, s1, Performed[h], Completed(h), Fetched'[h] # None)
      /\ Active(h, "load") /\ Ready(h) =>
           prdata'[h] = ValueOf(p, Source(p, g2, <<h, Retired(h) + 1>>))
  BY <1>2 DEF EdgeExplained
<1>4. PICK s2 : s2 = IF Performed[h] THEN Tail(s1) ELSE s1
  OBVIOUS
<1>5. Retired(h)' = Completed(h)
  BY <1>1, RetiredNext DEF HartExplained
<1>6. PICK m, n, f : m = Performed[h] /\ n = Completed(h) /\ f = (Fetched'[h] # None)
  OBVIOUS
<1>7. HartOrder(p, g2, h, s1, m, n, f)
  BY <1>3, <1>6
<1>8. m \in BOOLEAN /\ (m => s1 # <<>>)
  BY <1>7 DEF HartOrder
<1>9. s2 \in Seq(1 .. 4)
  BY <1>3, <1>4, <1>6, <1>8
<1>10. HartOrder(p, g2, h, s2, Performed'[h], Retired(h)', Fetched'[h] # None)
  <2>1. HartOrder(p, g2, h, s2, FALSE, n, f)
    <3>1. s2 = IF m THEN Tail(s1) ELSE s1
      BY <1>4, <1>6
    <3>2. HartOrder(p, g2, h, IF m THEN Tail(s1) ELSE s1, FALSE, n, f)
      BY <1>7, <1>8, SettledOrder
    <3> QED
      BY <3>1, <3>2
  <2>2. Performed'[h] = FALSE
    BY <1>1, EdgePerformed
  <2> QED
    BY <1>5, <1>6, <2>1, <2>2
<1>11. Buffer'[h] = Entries(p, h, s2)
  BY <1>1, <1>2, <1>4, BufferNext
<1>12. /\ pc'[h] \in 1 .. Len(p[h]) + 1
       /\ access'[h] # None => pc'[h] > 1 /\ access'[h] = p[h][pc'[h] - 1]
  <2>1. access'[h] # None => access'[h] = access[h]
    BY <1>1, EdgeRegisters
  <2> QED
    BY <1>1, <2>1 DEF HartExplained
<1>13. Fetched'[h] # None => Fetched'[h] = ValueOf(p, Source(p, g2, <<h, Retired(h)' + 1>>))
  <2> SUFFICES ASSUME Fetched'[h] # None
               PROVE  Fetched'[h] = ValueOf(p, Source(p, g2, <<h, Retired(h)' + 1>>))
    OBVIOUS
  <2>1. Fetched'[h] = Fetched[h] /\ ~(Active(h, "load") /\ Ready(h))
    BY <1>1, EdgeFetched
  <2>2. ~Ready(h)
    <3> SUFFICES ASSUME Ready(h) PROVE FALSE
      OBVIOUS
    <3>1. access[h] # None /\ access[h].op # "load"
      BY <2>1, ReadyAccess
    <3>2. access[h] = p[h][Retired(h) + 1]
      BY <3>1, AccessIs
    <3>3. PICK q, e, r :
            /\ q \in BOOLEAN /\ e \in BOOLEAN
            /\ q = Performed[h] /\ e = (Fetched[h] # None) /\ r = Retired(h)
            /\ HartOrder(p, g, h, s, q, r, e)
      BY HartParts
    <3>4. e /\ p[h][r + 1].op = "load"
      BY <2>1, <3>3 DEF HartOrder
    <3> QED
      BY <3>1, <3>2, <3>3, <3>4
  <2>3. Completed(h) = Retired(h) /\ g2 = g
    <3>1. Retired(h) \in Int
      BY DEF HartExplained, HartOrder
    <3> QED
      BY <1>2, <2>2, <3>1 DEF Completed
  <2> QED
    BY <1>5, <2>1, <2>3 DEF HartExplained
<1>14. ASSUME NEW k \in 1 .. Len(p[h])
       PROVE  /\ <<h, k>> \in DOMAIN loads' <=> k <= Retired(h)' /\ p[h][k].op = "load"
              /\ <<h, k>> \in DOMAIN loads' =>
                   loads'[<<h, k>>] = ValueOf(p, Source(p, g2, <<h, k>>))
  <2>1. /\ <<h, k>> \in DOMAIN loads <=> k <= Retired(h) /\ p[h][k].op = "load"
        /\ <<h, k>> \in DOMAIN loads => loads[<<h, k>>] = ValueOf(p, Source(p, g2, <<h, k>>))
    <3>1. <<h, k>> \in DOMAIN loads <=> k <= Retired(h) /\ p[h][k].op = "load"
      BY DEF HartExplained
    <3>2. <<h, k>> \in DOMAIN loads => loads[<<h, k>>] = ValueOf(p, Source(p, g2, <<h, k>>))
      BY <1>2, ValuesStay
    <3> QED
      BY <3>1, <3>2
  <2>2. Retired(h) \in Nat
    BY DEF HartExplained, HartOrder
  <2>3. CASE ~Ready(h)
    <3>1. loads' = loads /\ Retired(h)' = Retired(h)
      BY <1>5, <2>2, <2>3 DEF LEdge, Completed
    <3> QED
      BY <2>1, <3>1
  <2>4. CASE Ready(h) /\ ~Active(h, "load")
    <3>1. loads' = loads /\ Retired(h)' = Retired(h) + 1
      BY <1>5, <2>2, <2>4 DEF LEdge, Completed
    <3>2. access[h] # None /\ access[h].op # "load"
      BY <2>4, ReadyAccess
    <3>3. access[h] = p[h][Retired(h) + 1]
      BY <3>2, AccessIs
    <3>4. PICK r \in Nat : r = Retired(h)
      BY <2>2
    <3>5. p[h][k].op = "load" => k # r + 1
      BY <3>2, <3>3, <3>4
    <3>6. k <= r + 1 <=> k <= r \/ k = r + 1
      BY <3>4
    <3> QED
      BY <2>1, <3>1, <3>4, <3>5, <3>6
  <2>5. CASE Ready(h) /\ Active(h, "load")
    <3>1. PICK r \in Nat : r = Retired(h)
      BY <2>2
    <3>2. access[h] # None /\ access[h].op = "load"
      BY <2>5, ReadyAccess
    <3>3. access[h] = p[h][r + 1] /\ pc[h] - 1 = r + 1
      BY <3>1, <3>2, AccessIs
    <3>4. PICK x : x = <<h, r + 1>>
      OBVIOUS
    <3>5. loads' = [e \in DOMAIN loads \cup {x} |-> IF e = x THEN prdata'[h] ELSE loads[e]]
      BY <2>5, <3>3, <3>4 DEF LEdge
    <3>6. Retired(h)' = r + 1
      BY <1>5, <2>5, <3>1 DEF Completed
    <3>7. prdata'[h] = ValueOf(p, Source(p, g2, x))
      BY <1>3, <2>5, <3>1, <3>4
    <3>8. k <= r + 1 <=> k <= r \/ k = r + 1
      BY <3>1
    <3>9. <<h, k>> = x <=> k = r + 1
      BY <3>4
    <3>10. CASE k = r + 1
      <4>1. <<h, k>> = x /\ p[h][k].op = "load" /\ k <= r + 1
        BY <3>2, <3>3, <3>8, <3>9, <3>10
      <4>2. x \in DOMAIN loads' /\ loads'[x] = prdata'[h]
        BY <3>5
      <4> QED
        BY <3>6, <3>7, <4>1, <4>2
    <3>11. CASE k # r + 1
      <4>1. PICK y : y = <<h, k>>
        OBVIOUS
      <4>2. y # x
        BY <3>9, <3>11, <4>1
      <4>3. /\ y \in DOMAIN loads' <=> y \in DOMAIN loads
            /\ y \in DOMAIN loads => loads'[y] = loads[y]
        BY <3>5, <4>2
      <4> QED
        BY <2>1, <3>1, <3>6, <3>8, <3>11, <4>1, <4>3
    <3> QED
      BY <3>10, <3>11
  <2> QED
    BY <2>3, <2>4, <2>5
<1>15. HartExplained(p, g2, h, s2)'
  BY <1>10, <1>11, <1>12, <1>13, <1>14 DEF HartExplained
<1> QED
  BY <1>2, <1>3, <1>9, <1>15

(* An order is a sequence of the program's events.                         *)
LEMMA OrderIsSeq ==
  ASSUME NEW p, NEW g, Order(p, g)
  PROVE  g \in Seq(Events(p))
BY DEF Order

(* An edge leaves both harts and memory explained.                         *)
LEMMA EdgeExplains ==
  ASSUME NEW p, WellFormed(p), NEW g, Explained(p, g), TypeOK, TypeOK',
         Hart = {1, 2}, NEW h \in Hart, HartInv(h), LEdge(h), Addr = Location
  PROVE  \E g2 \in Seq(Events(p)) : Explained(p, g2)'
<1>1. PICK s \in Seq(1 .. 4) : HartExplained(p, g, h, s)
  BY DEF Explained
<1>2. PICK g2, s2 : /\ Extended(p, g, g2, h, s) /\ Order(p, g2)
                    /\ s2 \in Seq(1 .. 4) /\ HartExplained(p, g2, h, s2)'
                    /\ \A a : Latest(p, g2, a) = Latest(p, g, a)
  <2>1. Order(p, g) /\ h \in {1, 2}
    BY DEF Explained
  <2> QED
    BY <1>1, <2>1, EdgeHart
<1>3. ASSUME NEW o \in {1, 2}, o # h
      PROVE  \E t \in Seq(1 .. 4) : HartExplained(p, g2, o, t)'
  <2>1. PICK t \in Seq(1 .. 4) : HartExplained(p, g, o, t)
    BY DEF Explained
  <2>2. o \in Hart /\ Untouched(o) /\ pc'[o] = pc[o]
    BY <1>3, OtherHarts DEF LEdge, Step
  <2>3. PICK x : x = <<h, pc[h] - 1>>
    OBVIOUS
  <2>4. loads' = loads \/
          loads' = [e \in DOMAIN loads \cup {x} |-> IF e = x THEN prdata'[h] ELSE loads[e]]
    BY <2>3 DEF LEdge
  <2>5. \A k : <<o, k>> # x
    BY <1>3, <2>3
  <2>6. /\ \A k : <<o, k>> \in DOMAIN loads' <=> <<o, k>> \in DOMAIN loads
        /\ \A k : <<o, k>> \in DOMAIN loads => loads'[<<o, k>>] = loads[<<o, k>>]
    BY <2>4, <2>5
  <2>7. Order(p, g)
    BY DEF Explained
  <2>8. HartExplained(p, g2, o, t)'
    BY <1>2, <1>3, <2>1, <2>2, <2>6, <2>7, OtherExplained
  <2> QED
    BY <2>8
<1>4. \A a \in Location : mem'[a] = ValueOf(p, Latest(p, g2, a))
  <2>1. mem' = mem
    BY DEF LEdge, Edge
  <2> QED
    BY <1>2, <2>1 DEF Explained
<1>5. DOMAIN loads' \subseteq Kind(p, "load")
  <2>1. CASE Active(h, "load") /\ Ready(h)
    <3>1. access[h] # None /\ access[h].op = "load"
      BY <2>1, ReadyAccess
    <3>2. PICK k : k = pc[h] - 1
      OBVIOUS
    <3>3. k \in 1 .. Len(p[h]) /\ p[h][k].op = "load"
      BY <1>1, <3>1, <3>2, AccessIs
    <3>4. <<h, k>> \in Events(p) /\ Op(p, <<h, k>>) = p[h][k]
      BY <3>3, NewEvent
    <3>5. <<h, k>> \in Kind(p, "load")
      BY <3>3, <3>4 DEF Events, Kind
    <3>6. DOMAIN loads' = DOMAIN loads \cup {<<h, k>>}
      BY <2>1, <3>2 DEF LEdge
    <3> QED
      BY <3>5, <3>6 DEF Explained
  <2>2. CASE ~(Active(h, "load") /\ Ready(h))
    BY <2>2 DEF LEdge, Explained
  <2> QED
    BY <2>1, <2>2
<1>6. loads' = [e \in DOMAIN loads' |-> loads'[e]]
  <2>1. PICK x : x = <<h, pc[h] - 1>>
    OBVIOUS
  <2>2. CASE loads' = [e \in DOMAIN loads \cup {x} |-> IF e = x THEN prdata'[h] ELSE loads[e]]
    BY <2>2
  <2>3. CASE loads' = loads
    BY <2>3 DEF Explained
  <2> QED
    BY <2>1, <2>2, <2>3 DEF LEdge
<1>7. Explained(p, g2)'
  <2>1. \A o \in {1, 2} : \E t \in Seq(1 .. 4) : HartExplained(p, g2, o, t)'
    BY <1>2, <1>3
  <2> QED
    BY <1>2, <1>4, <1>5, <1>6, <2>1 DEF Explained
<1> QED
  BY <1>2, <1>7, OrderIsSeq

(* A new access changes no event, and no order.                            *)
LEMMA IssueExplains ==
  ASSUME NEW p, WellFormed(p), p = Program[test], NEW g, Explained(p, g), TypeOK,
         Hart = {1, 2}, NEW h \in Hart, LIssue(h), pc \in [Hart -> Nat]
  PROVE  Explained(p, g)'
<1>1. /\ pc[h] <= Len(p[h]) /\ access[h] = None /\ access'[h] = p[h][pc[h]]
      /\ access' \in [Hart -> Access \cup {None}] /\ access'[h] # None
      /\ pc' = [pc EXCEPT ![h] = @ + 1]
      /\ UNCHANGED <<penable, prdata, bridgeVars, port, reply, mem, loads>>
  <2>1. PICK a \in Access : access' = [access EXCEPT ![h] = a]
    BY DEF LIssue, Issue
  <2>2. a # None
    BY NoneAssumption
  <2> QED
    BY <2>1, <2>2 DEF LIssue, Issue, TypeOK
<1>2. Buffer' = Buffer /\ Performed' = Performed /\ Fetched' = Fetched
  BY <1>1 DEF Buffer, Performed, Fetched, Slot, bridgeVars, ringVars
<1>3. ASSUME NEW o \in {1, 2}, NEW s \in Seq(1 .. 4), HartExplained(p, g, o, s)
      PROVE  HartExplained(p, g, o, s)'
  <2>1. Retired(o)' = Retired(o)
    <3>1. CASE o = h
      <4>1. access[h] = None /\ access'[h] # None /\ pc'[h] = pc[h] + 1 /\ pc[h] \in Nat
        BY <1>1
      <4> QED
        BY <3>1, <4>1 DEF Retired
    <3>2. CASE o # h
      <4>1. access'[o] = access[o] /\ pc'[o] = pc[o]
        BY <1>1, <3>2 DEF LIssue, Issue, TypeOK
      <4> QED
        BY <4>1 DEF Retired
    <3> QED
      BY <3>1, <3>2
  <2>2. /\ pc'[o] \in 1 .. Len(p[o]) + 1
        /\ access'[o] # None => pc'[o] > 1 /\ access'[o] = p[o][pc'[o] - 1]
    <3>1. CASE o = h
      <4>1. pc'[h] = pc[h] + 1 /\ pc[h] \in Nat /\ pc[h] <= Len(p[h])
        BY <1>1
      <4>2. pc[h] \in 1 .. Len(p[h]) + 1 /\ Len(p[h]) \in 0 .. 4
        BY <1>3, <3>1 DEF HartExplained, WellFormed
      <4>3. pc'[h] \in 1 .. Len(p[h]) + 1 /\ pc'[h] > 1 /\ pc'[h] - 1 = pc[h]
        BY <4>1, <4>2
      <4> QED
        BY <1>1, <3>1, <4>3
    <3>2. CASE o # h
      <4>1. access'[o] = access[o] /\ pc'[o] = pc[o]
        BY <1>1, <3>2 DEF LIssue, Issue, TypeOK
      <4> QED
        BY <1>3, <4>1 DEF HartExplained
    <3> QED
      BY <3>1, <3>2
  <2>3. loads' = loads
    BY <1>1
  <2> QED
    BY <1>2, <1>3, <2>1, <2>2, <2>3 DEF HartExplained
<1>4. mem' = mem /\ loads' = loads
  BY <1>1
<1> QED
  BY <1>3, <1>4 DEF Explained

(* What an answer does to its hart's part of the abstract state.           *)
LEMMA AnswerFacts ==
  ASSUME TypeOK, NEW h \in Hart, HartInv(h), Perform(h)
  PROVE  /\ Performed[h] = FALSE
         /\ Performed'[h] = ~port[h].is_load
         /\ Buffer' = Buffer /\ access' = access
<1>1. /\ port[h] # None /\ port[h] \in PortRequest /\ reply[h] = None
      /\ UNCHANGED <<access, sb, sb_head, sb_count, port>>
  BY DEF Perform, bridgeVars, ringVars, TypeOK
<1>2. port[h].is_load \in BOOLEAN
  BY <1>1, RequestFields
<1>3. reply'[h] \in Value
  BY <1>1, RequestFields DEF Perform, TypeOK
<1>4. Performed[h] = (port[h] # None /\ ~port[h].is_load /\ reply[h] \notin {None, Error})
  BY DEF Performed
<1>5. Performed'[h] = (port'[h] # None /\ ~port'[h].is_load /\ reply'[h] \notin {None, Error})
  BY DEF Performed
<1>6. reply'[h] \notin {None, Error}
  BY <1>3, DistinctAssumption
<1>7. Buffer' = Buffer
  BY <1>1 DEF Buffer, Slot
<1> QED
  BY <1>1, <1>2, <1>4, <1>5, <1>6, <1>7

(* An answered drain writes the oldest buffered store to memory.           *)
LEMMA StorePerforms ==
  ASSUME TypeOK, NEW h \in Hart, HartInv(h), Perform(h), ~port[h].is_load
  PROVE  /\ Fetched'[h] = Fetched[h] /\ Buffer[h] # <<>>
         /\ mem' = [mem EXCEPT ![Head(Buffer[h]).addr] = Head(Buffer[h]).data]
<1>1. Performed[h] = FALSE /\ Performed'[h] = TRUE
  BY AnswerFacts
<1>2. ~Tso!TFetch(h)
  BY <1>1 DEF Tso!TFetch
<1>3. Tso!TPerform(h)
  BY <1>2, PerformSteps
<1> QED
  BY <1>3 DEF Tso!TPerform

(* An answered load has fetched its word from memory, which no buffered    *)
(* store writes.                                                           *)
LEMMA LoadFetches ==
  ASSUME TypeOK, NEW h \in Hart, HartInv(h), Perform(h), port[h].is_load
  PROVE  /\ access[h] # None /\ access[h].op = "load" /\ access[h].addr \in Addr
         /\ Performed'[h] = FALSE /\ Fetched[h] = None
         /\ Fetched'[h] = mem[access[h].addr] /\ Fetched'[h] # None /\ mem' = mem
         /\ \A i \in DOMAIN Buffer[h] : Buffer[h][i].addr # access[h].addr
<1>1. Performed[h] = FALSE /\ Performed'[h] = FALSE
  BY AnswerFacts
<1>2. port[h] # None /\ reply[h] = None /\ port'[h] = port[h] /\ req[h] = None
  BY DEF Perform, HartInv, Phase
<1>3. Active(h, "load") /\ ~Forwarded(h) /\ port[h].addr = access[h].addr
  BY <1>2 DEF HartInv, LoadCurrent, LoadInFlight, InFlight
<1>4. access[h] # None /\ access[h].op = "load"
  BY <1>3 DEF Active
<1>5. access[h].addr \in Addr
  BY <1>4, LoadAccess DEF TypeOK
<1>6. mem' = mem /\ reply'[h] = mem[access[h].addr]
  BY <1>3 DEF Perform, TypeOK
<1>7. /\ Fetched'[h] = IF port'[h] # None /\ port'[h].is_load THEN reply'[h] ELSE apb_rsp'[h]
      /\ Fetched[h] = IF port[h] # None /\ port[h].is_load THEN reply[h] ELSE apb_rsp[h]
  BY DEF Fetched
<1>8. Fetched'[h] = mem[access[h].addr] /\ Fetched[h] = None
  BY <1>2, <1>6, <1>7
<1>9. Fetched'[h] # None
  <2>1. mem[access[h].addr] \in Value
    BY <1>5 DEF TypeOK
  <2> QED
    BY <1>8, <2>1, DistinctAssumption
<1>10. Match(h) = {}
  BY <1>3 DEF Forwarded
<1>11. \A i \in DOMAIN Buffer[h] : Buffer[h][i].addr # access[h].addr
  BY <1>10, MatchedEntries
<1> QED
  BY <1>1, <1>4, <1>5, <1>6, <1>8, <1>9, <1>11

(* An answer to a hart, from what it does to the hart's orders.            *)
LEMMA AnswerHart ==
  ASSUME NEW p, WellFormed(p), NEW g, NEW g2, NEW h \in {1, 2}, NEW s \in Seq(1 .. 4),
         HartExplained(p, g, h, s), TypeOK, h \in Hart, HartInv(h), LPerform(h),
         Extended(p, g, g2, h, s),
         HartOrder(p, g2, h, s, Performed'[h], Retired(h), Fetched'[h] # None),
         Fetched'[h] # None => Fetched'[h] = ValueOf(p, Source(p, g2, <<h, Retired(h) + 1>>))
  PROVE  HartExplained(p, g2, h, s)'
<1>1. access' = access /\ pc' = pc /\ loads' = loads /\ Buffer' = Buffer
  BY AnswerFacts DEF LPerform
<1>2. Retired(h)' = Retired(h)
  BY <1>1 DEF Retired
<1>3. HartOrder(p, g2, h, s, Performed'[h], Retired(h)', Fetched'[h] # None)
  BY <1>2
<1>4. Fetched'[h] # None => Fetched'[h] = ValueOf(p, Source(p, g2, <<h, Retired(h)' + 1>>))
  BY <1>2
<1>5. ASSUME NEW k \in 1 .. Len(p[h])
      PROVE  /\ <<h, k>> \in DOMAIN loads' <=> k <= Retired(h)' /\ p[h][k].op = "load"
             /\ <<h, k>> \in DOMAIN loads' =>
                  loads'[<<h, k>>] = ValueOf(p, Source(p, g2, <<h, k>>))
  <2>1. <<h, k>> \in DOMAIN loads <=> k <= Retired(h) /\ p[h][k].op = "load"
    BY DEF HartExplained
  <2>2. <<h, k>> \in DOMAIN loads => loads[<<h, k>>] = ValueOf(p, Source(p, g2, <<h, k>>))
    BY ValuesStay
  <2> QED
    BY <1>1, <1>2, <2>1, <2>2
<1>6. /\ pc'[h] \in 1 .. Len(p[h]) + 1
      /\ access'[h] # None => pc'[h] > 1 /\ access'[h] = p[h][pc'[h] - 1]
      /\ Buffer'[h] = Entries(p, h, s)
  BY <1>1 DEF HartExplained
<1> QED
  BY <1>3, <1>4, <1>5, <1>6 DEF HartExplained

(* A hart's answer explains both harts, if the longer order explains its   *)
(* own and memory.                                                         *)
LEMMA AnswerExplains ==
  ASSUME NEW p, WellFormed(p), NEW g, Explained(p, g), NEW g2, Order(p, g2), TypeOK,
         Hart = {1, 2}, NEW h \in Hart, HartInv(h), LPerform(h),
         NEW s \in Seq(1 .. 4), Extended(p, g, g2, h, s), HartExplained(p, g2, h, s)',
         \A a \in Location : mem'[a] = ValueOf(p, Latest(p, g2, a))
  PROVE  Explained(p, g2)'
<1>1. loads' = loads /\ pc' = pc
  BY DEF LPerform
<1>2. ASSUME NEW o \in {1, 2}, o # h
      PROVE  \E t \in Seq(1 .. 4) : HartExplained(p, g2, o, t)'
  <2>1. PICK t \in Seq(1 .. 4) : HartExplained(p, g, o, t)
    BY DEF Explained
  <2>2. o \in Hart /\ Untouched(o)
    BY <1>2, OtherHarts DEF LPerform, Step
  <2>3. Order(p, g)
    BY DEF Explained
  <2>4. HartExplained(p, g2, o, t)'
    BY <1>1, <1>2, <2>1, <2>2, <2>3, OtherExplained
  <2> QED
    BY <2>4
<1>3. \A o \in {1, 2} : \E t \in Seq(1 .. 4) : HartExplained(p, g2, o, t)'
  BY <1>2
<1> QED
  BY <1>1, <1>3 DEF Explained

(* A drained store comes last in the order and becomes the last store to   *)
(* its word.                                                               *)
LEMMA StoreExplains ==
  ASSUME NEW p, WellFormed(p), NEW g, Explained(p, g), TypeOK,
         Hart = {1, 2}, NEW h \in Hart, HartInv(h), LPerform(h), Addr = Location,
         ~port[h].is_load
  PROVE  \E g2 \in Seq(Events(p)) : Explained(p, g2)'
<1>1. Perform(h) /\ Order(p, g) /\ h \in {1, 2}
  BY DEF LPerform, Explained
<1>2. PICK s \in Seq(1 .. 4) : HartExplained(p, g, h, s)
  BY <1>1 DEF Explained
<1>3. PICK m, f, n : /\ m = Performed[h] /\ f = (Fetched[h] # None) /\ n = Retired(h)
                     /\ HartOrder(p, g, h, s, m, n, f)
  BY <1>2, HartParts
<1>4. /\ Performed[h] = FALSE /\ Performed'[h] = TRUE /\ Fetched'[h] = Fetched[h]
      /\ Buffer[h] # <<>>
      /\ mem' = [mem EXCEPT ![Head(Buffer[h]).addr] = Head(Buffer[h]).data]
  BY <1>1, AnswerFacts, StorePerforms
<1>5. s # <<>> /\ 1 \in DOMAIN s
  <2>1. Buffer[h] = Entries(p, h, s)
    BY <1>2 DEF HartExplained
  <2>2. ASSUME s = <<>> PROVE FALSE
    <3>1. Entries(p, h, s) = <<>>
      BY <2>2 DEF Entries
    <3> QED
      BY <1>4, <2>1, <3>1
  <2> QED
    BY <2>2
<1>6. Head(Buffer[h]).addr = p[h][s[1]].addr /\ Head(Buffer[h]).data = p[h][s[1]].data
  <2>1. Buffer[h] = Entries(p, h, s)
    BY <1>2 DEF HartExplained
  <2>2. Head(Buffer[h]) = Buffer[h][1]
    OBVIOUS
  <2>3. Entries(p, h, s)[1] = [addr |-> p[h][s[1]].addr, data |-> p[h][s[1]].data]
    BY <1>5 DEF Entries
  <2> QED
    BY <2>1, <2>2, <2>3
<1>7. PICK g2 : /\ Extends(Events(p), g, g2, <<h, s[1]>>, ToSet(g))
                /\ Order(p, g2)
                /\ HartOrder(p, g2, h, s, TRUE, n, f)
  <2>1. HartOrder(p, g, h, s, FALSE, n, f)
    BY <1>3, <1>4
  <2> QED
    BY <1>1, <1>5, <2>1, PerformOrder
<1>8. PICK x : x = <<h, s[1]>>
  OBVIOUS
<1>9. x \in Kind(p, "store") /\ Op(p, x) = p[h][s[1]]
  <2>1. n \in 0 .. Len(p[h]) /\ Len(p[h]) \in 0 .. 4
    BY <1>3 DEF HartOrder, WellFormed
  <2>2. s[1] \in 1 .. n /\ s[1] \in 1 .. Len(p[h]) /\ p[h][s[1]].op = "store"
    BY <1>3, <1>5, <2>1 DEF HartOrder, Positions
  <2>3. PICK k \in 1 .. Len(p[h]) : k = s[1]
    BY <2>2
  <2>4. <<h, k>> \in Events(p) /\ Op(p, <<h, k>>) = p[h][k]
    BY <1>1, <2>2, <2>3, NewEvent
  <2> QED
    BY <1>8, <2>2, <2>3, <2>4 DEF Events, Kind
<1>10. Extends(Events(p), g, g2, x, ToSet(g)) /\ x[1] = h
  BY <1>7, <1>8
<1>11. Extended(p, g, g2, h, s)
  BY <1>10, Zenon DEF Extended
<1>12. HartExplained(p, g2, h, s)'
  <2>1. HartOrder(p, g2, h, s, Performed'[h], Retired(h), Fetched'[h] # None)
    BY <1>3, <1>4, <1>7
  <2>2. Fetched[h] # None => Fetched[h] = ValueOf(p, Source(p, g2, <<h, Retired(h) + 1>>))
    BY <1>1, <1>2, <1>11, ValuesStay
  <2>3. Fetched'[h] # None => Fetched'[h] = ValueOf(p, Source(p, g2, <<h, Retired(h) + 1>>))
    BY <1>4, <2>2
  <2> QED
    BY <1>1, <1>2, <1>11, <2>1, <2>3, AnswerHart
<1>13. ASSUME NEW a \in Location PROVE mem'[a] = ValueOf(p, Latest(p, g2, a))
  <2>1. DOMAIN mem = Location /\ mem[a] = ValueOf(p, Latest(p, g, a))
    BY DEF TypeOK, Explained
  <2>2. mem'[a] = IF a = p[h][s[1]].addr THEN p[h][s[1]].data ELSE mem[a]
    BY <1>4, <1>6, <2>1
  <2>3. CASE a = p[h][s[1]].addr
    <3>1. Latest(p, g2, a) = {x}
      <4>1. x \in StoresTo(p, g2, a)
        BY <1>9, <1>10, <2>3 DEF StoresTo, Extends
      <4> QED
        BY <1>10, <4>1, LatestNew
    <3>2. ValueOf(p, {x}) = Op(p, x).data
      BY ValueOfOne
    <3> QED
      BY <1>9, <2>2, <2>3, <3>1, <3>2
  <2>4. CASE a # p[h][s[1]].addr
    <3>1. Latest(p, g2, a) = Latest(p, g, a)
      BY <1>9, <1>10, <2>4, LatestOfOther
    <3> QED
      BY <2>1, <2>2, <2>4, <3>1
  <2> QED
    BY <2>3, <2>4
<1>14. Explained(p, g2)'
  BY <1>7, <1>11, <1>12, <1>13, AnswerExplains
<1> QED
  BY <1>7, <1>14, OrderIsSeq

(* A load that reads memory comes last in the order and takes the last     *)
(* store to its word.                                                      *)
LEMMA FetchExplains ==
  ASSUME NEW p, WellFormed(p), NEW g, Explained(p, g), TypeOK,
         Hart = {1, 2}, NEW h \in Hart, HartInv(h), LPerform(h), Addr = Location,
         port[h].is_load
  PROVE  \E g2 \in Seq(Events(p)) : Explained(p, g2)'
<1>1. Perform(h) /\ Order(p, g) /\ h \in {1, 2}
  BY DEF LPerform, Explained
<1>2. PICK s \in Seq(1 .. 4) : HartExplained(p, g, h, s)
  BY <1>1 DEF Explained
<1>3. PICK m, f, n : /\ m = Performed[h] /\ f = (Fetched[h] # None) /\ n = Retired(h)
                     /\ HartOrder(p, g, h, s, m, n, f)
  BY <1>2, HartParts
<1>4. /\ access[h] # None /\ access[h].op = "load" /\ access[h].addr \in Addr
      /\ Performed[h] = FALSE /\ Performed'[h] = FALSE /\ Fetched[h] = None
      /\ Fetched'[h] = mem[access[h].addr] /\ Fetched'[h] # None /\ mem' = mem
      /\ \A i \in DOMAIN Buffer[h] : Buffer[h][i].addr # access[h].addr
  BY <1>1, AnswerFacts, LoadFetches
<1>5. /\ n \in 0 .. Len(p[h]) /\ n + 1 \in 1 .. Len(p[h])
      /\ access[h] = p[h][n + 1]
  BY <1>1, <1>2, <1>3, <1>4, AccessIs
<1>6. n < Len(p[h]) /\ p[h][n + 1].op = "load"
  <2>1. Len(p[h]) \in 0 .. 4
    BY <1>1 DEF WellFormed
  <2> QED
    BY <1>4, <1>5, <2>1
<1>7. \A i \in DOMAIN s : p[h][s[i]].addr # p[h][n + 1].addr
  <2>1. Buffer[h] = Entries(p, h, s)
    BY <1>2 DEF HartExplained
  <2> QED
    BY <1>4, <1>5, <2>1 DEF Entries
<1>8. PICK g2 : /\ Extends(Events(p), g, g2, <<h, n + 1>>, ToSet(g))
                /\ Order(p, g2)
                /\ HartOrder(p, g2, h, s, FALSE, n, TRUE)
                /\ Source(p, g2, <<h, n + 1>>) = Latest(p, g, p[h][n + 1].addr)
  <2>1. m = FALSE /\ f = FALSE
    BY <1>3, <1>4
  <2>2. HartOrder(p, g, h, s, FALSE, n, FALSE)
    BY <1>3, <2>1
  <2>3. Misses(p, h, s, n)
    BY <1>6, <1>7 DEF Misses
  <2>4. \E g2 : Fetches(p, g, g2, h, s, n)
    BY <1>1, <2>2, <2>3, FetchOrder
  <2> QED
    BY <2>4 DEF Fetches
<1>9. PICK x : x = <<h, n + 1>>
  OBVIOUS
<1>10. x \notin Kind(p, "store") /\ x[1] = h
  BY <1>6, <1>9 DEF Kind, Op
<1>11. Extends(Events(p), g, g2, x, ToSet(g))
  BY <1>8, <1>9
<1>12. Extended(p, g, g2, h, s)
  BY <1>10, <1>11, Zenon DEF Extended
<1>13. HartExplained(p, g2, h, s)'
  <2>1. HartOrder(p, g2, h, s, Performed'[h], Retired(h), Fetched'[h] # None)
    <3>1. PICK bit : bit = (Fetched'[h] # None)
      OBVIOUS
    <3>2. bit = TRUE
      BY <1>4, <3>1
    <3> QED
      BY <1>3, <1>4, <1>8, <3>1, <3>2
  <2>2. Fetched'[h] = ValueOf(p, Source(p, g2, <<h, Retired(h) + 1>>))
    <3>1. mem[access[h].addr] = ValueOf(p, Latest(p, g, access[h].addr))
      BY <1>4 DEF Explained
    <3> QED
      BY <1>3, <1>4, <1>5, <1>8, <3>1
  <2> QED
    BY <1>1, <1>2, <1>12, <2>1, <2>2, AnswerHart
<1>14. ASSUME NEW a \in Location PROVE mem'[a] = ValueOf(p, Latest(p, g2, a))
  <2>1. Latest(p, g2, a) = Latest(p, g, a)
    BY <1>10, <1>11, LatestOfLoad
  <2> QED
    BY <1>4, <2>1 DEF Explained
<1>15. Explained(p, g2)'
  BY <1>8, <1>12, <1>13, <1>14, AnswerExplains
<1> QED
  BY <1>8, <1>15, OrderIsSeq

(* Nothing is performed at first.                                          *)
LEMMA EmptyOrder ==
  ASSUME NEW p
  PROVE  /\ Order(p, <<>>) /\ ToSet(<<>>) = {}
         /\ \A a : Latest(p, <<>>, a) = {}
<1>1. ToSet(<<>>) = {} /\ DOMAIN <<>> = {}
  BY DEF ToSet
<1>2. <<>> \in Seq(Events(p))
  OBVIOUS
<1>3. Order(p, <<>>)
  BY <1>1, <1>2 DEF Order, Distinct, Ordered
<1> QED
  BY <1>1, <1>3 DEF Latest, StoresTo

(* A hart starts at its first instruction with an empty buffer.            *)
LEMMA InitHart ==
  ASSUME NEW p, WellFormed(p), LInit, NEW h \in {1, 2}, Hart = {1, 2}
  PROVE  HartExplained(p, <<>>, h, <<>>)
<1>1. /\ access[h] = None /\ pc[h] = 1 /\ sb_count[h] = 0 /\ port[h] = None
      /\ apb_rsp[h] = None /\ DOMAIN loads = {}
  BY DEF LInit, Init
<1>2. Len(p[h]) \in 0 .. 4
  BY DEF WellFormed
<1>3. Retired(h) = 0 /\ pc[h] \in 1 .. Len(p[h]) + 1
  BY <1>1, <1>2 DEF Retired
<1>4. Performed[h] = FALSE /\ Fetched[h] = None
  BY <1>1 DEF Performed, Fetched
<1>5. Buffer[h] = <<>> /\ Entries(p, h, <<>>) = <<>>
  <2>1. Buffer[h] = [n \in 1 .. 0 |-> sb[h][Slot(h, n - 1)]]
    BY <1>1 DEF Buffer
  <2> QED
    BY <2>1 DEF Entries
<1>6. Positions(p, h, <<>>, 0)
  BY DEF Positions
<1>7. ASSUME NEW k \in 1 .. Len(p[h])
      PROVE  <<h, k>> \notin ToSet(<<>>) /\ ~InMemory(p, h, <<>>, FALSE, 0, FALSE, k)
  <2>1. ~(k <= 0)
    BY <1>2
  <2> QED
    BY <2>1, EmptyOrder DEF InMemory
<1>8. HartOrder(p, <<>>, h, <<>>, FALSE, 0, FALSE)
  <2>1. 0 \in 0 .. Len(p[h])
    BY <1>2
  <2>2. Block(<<>>, h, <<>>, FALSE)
    BY DEF Block
  <2>3. \A k \in 1 .. Len(p[h]) : p[h][k].op # "fence" =>
          (<<h, k>> \in ToSet(<<>>) <=> InMemory(p, h, <<>>, FALSE, 0, FALSE, k))
    BY <1>7
  <2> QED
    BY <1>6, <2>1, <2>2, <2>3 DEF HartOrder
<1>9. HartOrder(p, <<>>, h, <<>>, Performed[h], Retired(h), Fetched[h] # None)
  <2>1. PICK bit : bit = (Fetched[h] # None)
    OBVIOUS
  <2>2. bit = FALSE
    BY <1>4, <2>1
  <2> QED
    BY <1>3, <1>4, <1>8, <2>1, <2>2
<1>10. ASSUME NEW k \in 1 .. Len(p[h])
       PROVE  <<h, k>> \notin DOMAIN loads /\ ~(k <= Retired(h))
  BY <1>1, <1>2, <1>3
<1> QED
  BY <1>1, <1>3, <1>4, <1>5, <1>9, <1>10 DEF HartExplained

(* The empty order explains the initial state.                             *)
LEMMA InitExplains ==
  ASSUME NEW p, WellFormed(p), LInit, Hart = {1, 2}, Addr = Location
  PROVE  Explained(p, <<>>)
<1>1. \A a \in Location : mem[a] = ValueOf(p, Latest(p, <<>>, a))
  BY EmptyOrder DEF LInit, ValueOf
<1>2. DOMAIN loads = {} /\ loads = [e \in DOMAIN loads |-> loads[e]]
  BY DEF LInit
<1>3. \A h \in {1, 2} : \E s \in Seq(1 .. 4) : HartExplained(p, <<>>, h, s)
  <2>1. <<>> \in Seq(1 .. 4)
    OBVIOUS
  <2> QED
    BY <2>1, InitHart
<1> QED
  BY <1>1, <1>2, <1>3, EmptyOrder DEF Explained

-----------------------------------------------------------------------------
(* A complete order is one RVWMO allows, and its outcome the machine's.    *)
LEMMA CompleteSource ==
  ASSUME NEW p, NEW g, Order(p, g), ToSet(g) = Events(p), NEW e \in Kind(p, "load")
  PROVE  ReadsFrom(p, g, e) = Source(p, g, e)
<1> DEFINE B == Buffered(p, g, e)
           P == StoresBefore(p, g, e)
           seen == {s \in Kind(p, "store") :
                      Op(p, s).addr = Op(p, e).addr /\ (GmoBefore(g, s, e) \/ PoBefore(s, e))}
<1>1. ReadsFrom(p, g, e) = {s \in seen : \A r \in seen : r = s \/ GmoBefore(g, r, s)}
  BY DEF ReadsFrom
<1>2. \A s : s \in seen <=> s \in B \/ s \in P
  BY DEF Buffered, StoresBefore
<1>3. CASE B = {}
  <2>1. seen = P
    BY <1>2, <1>3
  <2> QED
    BY <1>1, <1>3, <2>1 DEF Source
<1>4. CASE B # {}
  <2>1. g \in Seq(Events(p)) /\ Distinct(g)
    BY DEF Order
  <2>2. \A s \in B : /\ s \in Kind(p, "store") /\ s \in ToSet(g) /\ s # e
                     /\ PoBefore(s, e) /\ ~GmoBefore(g, s, e)
                     /\ s \in {1, 2} \X (1 .. 4) /\ s[1] = e[1]
    BY DEF Buffered, Events, Kind, PoBefore
  <2>3. e \in ToSet(g)
    BY DEF Events
  <2>4. \A s \in B : GmoBefore(g, e, s)
    BY <2>1, <2>2, <2>3, BeforeTotal
  <2>5. \A s \in B, t \in P : GmoBefore(g, t, s)
    BY <2>1, <2>4, BeforeTransitive DEF StoresBefore
  <2>6. \A r, s \in B : r[2] < s[2] => GmoBefore(g, r, s)
    <3> SUFFICES ASSUME NEW r \in B, NEW s \in B, r[2] < s[2] PROVE GmoBefore(g, r, s)
      OBVIOUS
    <3>1. Kept(p, r, s)
      BY <2>2 DEF Kept, PoBefore, Kind
    <3>2. r \in Events(p)
      BY <2>2 DEF Events
    <3> QED
      BY <2>2, <3>1, <3>2 DEF Order, Ordered
  <2>7. \A r, s \in B : r = s \/ r[2] < s[2] \/ s[2] < r[2]
    <3> SUFFICES ASSUME NEW r \in B, NEW s \in B, r # s PROVE r[2] < s[2] \/ s[2] < r[2]
      OBVIOUS
    <3>1. r = <<r[1], r[2]>> /\ s = <<s[1], s[2]>> /\ r[1] = s[1]
      BY <2>2
    <3>2. r[2] \in 1 .. 4 /\ s[2] \in 1 .. 4 /\ r[2] # s[2]
      BY <2>2, <3>1
    <3> QED
      BY <3>2
  <2>8. \A r, s \in B : GmoBefore(g, r, s) => ~(s[2] < r[2])
    BY <2>1, <2>6, BeforeStrict
  <2>9. \A r, s \in B : (r = s \/ GmoBefore(g, r, s)) <=> r[2] <= s[2]
    <3> SUFFICES ASSUME NEW r \in B, NEW s \in B
                 PROVE  (r = s \/ GmoBefore(g, r, s)) <=> r[2] <= s[2]
      OBVIOUS
    <3>1. r[2] \in 1 .. 4 /\ s[2] \in 1 .. 4
      BY <2>2
    <3>2. CASE r = s
      BY <3>1, <3>2
    <3>3. CASE r[2] < s[2]
      BY <2>6, <3>1, <3>3
    <3>4. CASE s[2] < r[2]
      <4>1. r # s /\ ~GmoBefore(g, r, s) /\ ~(r[2] <= s[2])
        BY <2>8, <3>1, <3>4
      <4> QED
        BY <4>1
    <3> QED
      BY <2>7, <3>2, <3>3, <3>4
  <2>10. ASSUME NEW s \in seen
         PROVE  (\A r \in seen : r = s \/ GmoBefore(g, r, s))
                  <=> s \in B /\ \A r \in B : r[2] <= s[2]
    <3>1. CASE s \in B
      <4>1. (\A r \in seen : r = s \/ GmoBefore(g, r, s))
              <=> \A r \in B : r = s \/ GmoBefore(g, r, s)
        BY <1>2, <2>5, <3>1
      <4> HIDE DEF B, seen
      <4> QED
        BY <2>9, <3>1, <4>1
    <3>2. CASE s \notin B
      <4>1. s \in P
        BY <1>2, <3>2
      <4>2. PICK b : b \in B
        BY <1>4
      <4>3. b \in seen /\ b # s /\ GmoBefore(g, s, b)
        BY <1>2, <2>5, <3>2, <4>1, <4>2
      <4>4. ~GmoBefore(g, b, s)
        BY <2>1, <4>3, BeforeStrict
      <4> QED
        BY <3>2, <4>3, <4>4
    <3> QED
      BY <3>1, <3>2
  <2>11. {s \in seen : \A r \in seen : r = s \/ GmoBefore(g, r, s)} =
           {s \in B : \A r \in B : r[2] <= s[2]}
    <3> HIDE DEF B, seen, P
    <3> QED
      BY <1>2, <2>10
  <2> QED
    BY <1>1, <1>4, <2>11 DEF Source
<1> QED
  BY <1>3, <1>4

(* A complete order meets the load value axiom's and the preserved program *)
(* order's conditions.                                                     *)
LEMMA CompleteOrder ==
  ASSUME NEW p, NEW g, Order(p, g), ToSet(g) = Events(p)
  PROVE  g \in SetToSeqs(Events(p)) /\ Consistent(p, g)
<1> DEFINE E == Events(p)
           N == Len(g)
<1>1. g \in Seq(E) /\ N \in Nat /\ g \in [1 .. N -> E]
  BY DEF Order
<1>2. \A i, j \in 1 .. N : i # j => g[i] # g[j]
  BY <1>1 DEF Order, Distinct
<1>3. \A e \in E : \E i \in 1 .. N : g[i] = e
  BY <1>1 DEF ToSet
<1>4. Cardinality(E) = N
  <2>1. g \in Bijection(1 .. N, E)
    BY <1>1, <1>2, <1>3 DEF Bijection, Injection, Surjection, IsInjective
  <2>2. ExistsBijection(1 .. N, E)
    BY <2>1 DEF ExistsBijection
  <2> QED
    BY <1>1, <2>2, FS_CountingElements
<1>5. g \in SetToSeqs(E)
  BY <1>1, <1>2, <1>4 DEF SetToSeqs
<1>6. ASSUME NEW d \in E, NEW e \in E, Ppo(p, g, d, e) PROVE GmoBefore(g, d, e)
  <2>1. \A x \in E : Op(p, x).op = "load" \/ Op(p, x).op = "store"
    BY DEF Events, Kind
  <2>2. Kept(p, d, e)
    BY <1>6, <2>1 DEF Ppo, Kept
  <2> QED
    BY <2>2 DEF Order, Ordered
<1> QED
  BY <1>5, <1>6 DEF Consistent

(* A finished hart has performed all of its loads and stores.              *)
LEMMA FinishedHart ==
  ASSUME NEW p, WellFormed(p), p = Program[test], NEW g, TypeOK, Hart = {1, 2}, Finished,
         NEW h \in {1, 2}, NEW s \in Seq(1 .. 4), HartExplained(p, g, h, s)
  PROVE  /\ Retired(h) = Len(p[h])
         /\ \A k \in 1 .. Len(p[h]) : p[h][k].op # "fence" => <<h, k>> \in ToSet(g)
<1>1. pc[h] > Len(p[h]) /\ access[h] = None /\ sb_count[h] = 0
  BY DEF Finished, FenceDone
<1>2. pc[h] \in 1 .. Len(p[h]) + 1 /\ Len(p[h]) \in 0 .. 4
  BY DEF HartExplained, WellFormed
<1>3. Retired(h) = Len(p[h])
  <2>1. pc[h] = Len(p[h]) + 1
    BY <1>1, <1>2
  <2> QED
    BY <1>1, <1>2, <2>1 DEF Retired
<1>4. s = <<>>
  <2>1. Entries(p, h, s) = <<>>
    BY <1>1, BufferOf DEF HartExplained
  <2>2. DOMAIN s = {}
    <3>1. DOMAIN Entries(p, h, s) = DOMAIN s
      BY DEF Entries
    <3>2. DOMAIN <<>> = {}
      OBVIOUS
    <3> QED
      BY <2>1, <3>1, <3>2
  <2> QED
    BY <2>2
<1>5. PICK m, f, n : /\ m = Performed[h] /\ f = (Fetched[h] # None) /\ n = Retired(h)
                     /\ HartOrder(p, g, h, s, m, n, f)
  BY HartParts
<1>6. ASSUME NEW k \in 1 .. Len(p[h]), p[h][k].op # "fence" PROVE <<h, k>> \in ToSet(g)
  <2>1. k <= n
    BY <1>2, <1>3, <1>5
  <2>2. DOMAIN s = {}
    BY <1>4
  <2>3. InMemory(p, h, s, m, n, f, k)
    BY <2>1, <2>2 DEF InMemory
  <2> QED
    BY <1>5, <1>6, <2>3 DEF HartOrder
<1> QED
  BY <1>3, <1>6

(* The outcome of a finished run is one of its test's allowed outcomes.    *)
LEMMA FinishedAllowed ==
  ASSUME NEW p, WellFormed(p), p = Program[test], NEW g, Explained(p, g), TypeOK, test \in Test,
         Hart = {1, 2}, Addr = Location, Finished
  PROVE  [loads |-> loads, final |-> mem] \in Allowed[test]
<1>1. Order(p, g)
  BY DEF Explained
<1>2. ToSet(g) = Events(p)
  <2>1. ToSet(g) \subseteq Events(p)
    BY <1>1 DEF Order, ToSet
  <2>2. ASSUME NEW e \in Events(p) PROVE e \in ToSet(g)
    <3>1. e \in {1, 2} \X (1 .. 4) /\ e[2] <= Len(p[e[1]]) /\ p[e[1]][e[2]].op \in {"load", "store"}
      BY EventIn
    <3>2. PICK h \in {1, 2}, k \in 1 .. 4 : e = <<h, k>>
      BY <3>1
    <3>3. k <= Len(p[h]) /\ p[h][k].op # "fence"
      BY <3>1, <3>2
    <3>4. k \in 1 .. Len(p[h])
      BY <3>3 DEF WellFormed
    <3>5. PICK s \in Seq(1 .. 4) : HartExplained(p, g, h, s)
      BY DEF Explained
    <3> QED
      BY <3>2, <3>3, <3>4, <3>5, FinishedHart
  <2> QED
    BY <2>1, <2>2
<1>3. g \in SetToSeqs(Events(p)) /\ Consistent(p, g)
  BY <1>1, <1>2, CompleteOrder
<1>4. loads = [e \in Kind(p, "load") |-> ValueOf(p, ReadsFrom(p, g, e))]
  <2>1. ASSUME NEW e \in Kind(p, "load")
        PROVE  e \in DOMAIN loads /\ loads[e] = ValueOf(p, ReadsFrom(p, g, e))
    <3>1. e \in {1, 2} \X (1 .. 4) /\ e[2] <= Len(p[e[1]]) /\ p[e[1]][e[2]].op = "load"
      BY DEF Kind, Op
    <3>2. PICK h \in {1, 2}, k \in 1 .. 4 : e = <<h, k>>
      BY <3>1
    <3>3. k <= Len(p[h]) /\ p[h][k].op = "load"
      BY <3>1, <3>2
    <3>4. k \in 1 .. Len(p[h])
      BY <3>3 DEF WellFormed
    <3>5. PICK s \in Seq(1 .. 4) : HartExplained(p, g, h, s)
      BY DEF Explained
    <3>6. Retired(h) = Len(p[h])
      BY <3>5, FinishedHart
    <3>7. <<h, k>> \in DOMAIN loads /\ loads[<<h, k>>] = ValueOf(p, Source(p, g, <<h, k>>))
      BY <3>3, <3>4, <3>5, <3>6 DEF HartExplained
    <3>8. ReadsFrom(p, g, e) = Source(p, g, e)
      BY <1>1, <1>2, CompleteSource
    <3> QED
      BY <3>2, <3>7, <3>8
  <2>2. DOMAIN loads = Kind(p, "load")
    BY <2>1 DEF Explained
  <2>3. loads = [e \in DOMAIN loads |-> loads[e]]
    BY DEF Explained
  <2> QED
    BY <2>1, <2>2, <2>3
<1>5. mem = [a \in Location |->
               LET to == {s \in Kind(p, "store") : Op(p, s).addr = a}
               IN  ValueOf(p, {s \in to : \A r \in to : r = s \/ GmoBefore(g, r, s)})]
  <2>1. mem = [a \in Location |-> ValueOf(p, Latest(p, g, a))]
    BY DEF TypeOK, Explained
  <2>2. ASSUME NEW a \in Location
        PROVE  StoresTo(p, g, a) = {s \in Kind(p, "store") : Op(p, s).addr = a}
    BY <1>2 DEF StoresTo, Events
  <2> QED
    BY <2>1, <2>2 DEF Latest
<1>6. [loads |-> loads, final |-> mem] = Outcome(p, g)
  BY <1>4, <1>5 DEF Outcome
<1>7. Outcome(p, g) \in AllowedFor(p)
  BY <1>3 DEF AllowedFor
<1> QED
  BY <1>6, <1>7 DEF Allowed

-----------------------------------------------------------------------------
(* The litmus programs.                                                    *)
Instruction(i) == /\ i.op \in {"store", "load", "fence"}
                  /\ i.op # "fence" => i.addr \in Location

(* The instructions of the litmus programs are ones the harts can run.     *)
LEMMA Instructions ==
  /\ \A v : Instruction(W("x", v)) /\ Instruction(W("y", v))
  /\ Instruction(R("x")) /\ Instruction(R("y")) /\ Instruction(F)
BY LocationAssumption DEF Instruction, W, R, F

(* A pair of short runs of instructions is a program.                      *)
LEMMA PairRuns ==
  ASSUME NEW a, NEW b,
         \A q \in {a, b} : /\ Len(q) \in 0 .. 4
                           /\ \A k \in 1 .. Len(q) : Instruction(q[k])
  PROVE  WellFormed(<<a, b>>)
<1>1. DOMAIN <<a, b>> = {1, 2} /\ <<a, b>>[1] = a /\ <<a, b>>[2] = b
  OBVIOUS
<1> QED
  BY <1>1 DEF WellFormed, Instruction

(* Two or three instructions are a short run.                              *)
LEMMA ShortRuns ==
  /\ \A i, j : Instruction(i) /\ Instruction(j) =>
       /\ Len(<<i, j>>) \in 0 .. 4
       /\ \A k \in 1 .. Len(<<i, j>>) : Instruction(<<i, j>>[k])
  /\ \A i, j, l : Instruction(i) /\ Instruction(j) /\ Instruction(l) =>
       /\ Len(<<i, j, l>>) \in 0 .. 4
       /\ \A k \in 1 .. Len(<<i, j, l>>) : Instruction(<<i, j, l>>[k])
OBVIOUS

(* Two instructions on each hart.                                          *)
LEMMA TwoByTwo ==
  ASSUME NEW i, Instruction(i), NEW j, Instruction(j), NEW c, Instruction(c), NEW d, Instruction(d)
  PROVE  WellFormed(<< <<i, j>>, <<c, d>> >>)
BY PairRuns, ShortRuns

(* Three instructions on each hart.                                        *)
LEMMA ThreeByThree ==
  ASSUME NEW i, Instruction(i), NEW j, Instruction(j), NEW l, Instruction(l),
         NEW c, Instruction(c), NEW d, Instruction(d), NEW e, Instruction(e)
  PROVE  WellFormed(<< <<i, j, l>>, <<c, d, e>> >>)
BY PairRuns, ShortRuns

(* Three instructions on the first hart, two on the second.                *)
LEMMA ThreeByTwo ==
  ASSUME NEW i, Instruction(i), NEW j, Instruction(j), NEW l, Instruction(l),
         NEW c, Instruction(c), NEW d, Instruction(d)
  PROVE  WellFormed(<< <<i, j, l>>, <<c, d>> >>)
BY PairRuns, ShortRuns

(* Each of the sixteen litmus programs is one both harts can run.          *)
LEMMA ProgramsRun ==
  ASSUME NEW t \in Test
  PROVE  WellFormed(Program[t])
<1>1. CASE t = "SB"
  BY <1>1, TwoByTwo, Instructions DEF Program
<1>2. CASE t = "MP"
  BY <1>2, TwoByTwo, Instructions DEF Program
<1>3. CASE t = "LB"
  BY <1>3, TwoByTwo, Instructions DEF Program
<1>4. CASE t = "RW"
  BY <1>4, TwoByTwo, Instructions DEF Program
<1>5. CASE t = "WR"
  BY <1>5, TwoByTwo, Instructions DEF Program
<1>6. CASE t = "CO_WW"
  BY <1>6, TwoByTwo, Instructions DEF Program
<1>7. CASE t = "WRC"
  BY <1>7, TwoByTwo, Instructions DEF Program
<1>8. CASE t = "SB_FENCE"
  BY <1>8, ThreeByThree, Instructions DEF Program
<1>9. CASE t = "MP_FENCE"
  BY <1>9, ThreeByThree, Instructions DEF Program
<1>10. CASE t = "LB_FENCE"
  BY <1>10, ThreeByThree, Instructions DEF Program
<1>11. CASE t = "RW_FENCE"
  BY <1>11, ThreeByThree, Instructions DEF Program
<1>12. CASE t = "WR_FENCE"
  BY <1>12, ThreeByThree, Instructions DEF Program
<1>13. CASE t = "CO_RR_FENCE"
  BY <1>13, ThreeByThree, Instructions DEF Program
<1>14. CASE t = "CO_WW_FENCE"
  BY <1>14, ThreeByThree, Instructions DEF Program
<1>15. CASE t = "WRC_FENCE"
  BY <1>15, ThreeByThree, Instructions DEF Program
<1>16. CASE t = "CO_RR"
  BY <1>16, ThreeByTwo, Instructions DEF Program
<1> QED
  BY <1>1, <1>2, <1>3, <1>4, <1>5, <1>6, <1>7, <1>8, <1>9, <1>10, <1>11,
     <1>12, <1>13, <1>14, <1>15, <1>16 DEF Test, Program

(* A stuttering step changes nothing the order explains.                   *)
LEMMA StutterExplains ==
  ASSUME NEW p, NEW g, Explained(p, g), UNCHANGED lVars
  PROVE  Explained(p, g)'
<1>1. /\ access' = access /\ pc' = pc /\ loads' = loads /\ mem' = mem
      /\ Buffer' = Buffer /\ Performed' = Performed /\ Fetched' = Fetched
  BY DEF lVars, vars, bridgeVars, ringVars, Buffer, Performed, Fetched, Slot
<1>2. \A h : Retired(h)' = Retired(h)
  BY <1>1 DEF Retired
<1>3. ASSUME NEW h \in {1, 2}, NEW s, HartExplained(p, g, h, s)
      PROVE  HartExplained(p, g, h, s)'
  BY <1>1, <1>2, <1>3 DEF HartExplained
<1> QED
  BY <1>1, <1>3 DEF Explained

(* Every step of a litmus run keeps it explained.                          *)
LEMMA StepExplains ==
  ASSUME TwoHarts, LInv, IInv, IInv', [LNext]_lVars
  PROVE  LInv'
<1>1. Hart = {1, 2} /\ Addr = Location
  BY DEF TwoHarts
<1>2. PICK p : p = Program[test]
  OBVIOUS
<1>3. WellFormed(p) /\ test \in Test
  BY <1>2, ProgramsRun DEF LInv
<1>4. PICK g \in Seq(Events(p)) : Explained(p, g)
  BY <1>2 DEF LInv
<1>5. TypeOK /\ TypeOK' /\ \A h \in Hart : HartInv(h)
  BY DEF IInv
<1>6. pc \in [Hart -> Nat]
  BY DEF LInv
<1>7. test' = test /\ pc' \in [Hart -> Nat]
  <2>1. ASSUME NEW h \in Hart, LIssue(h) PROVE test' = test /\ pc' \in [Hart -> Nat]
    <3>1. test' = test /\ pc' = [pc EXCEPT ![h] = pc[h] + 1]
      BY <2>1 DEF LIssue
    <3>2. pc[h] + 1 \in Nat
      BY <1>6
    <3> QED
      BY <1>6, <3>1, <3>2
  <2>2. ASSUME NEW h \in Hart, LEdge(h) \/ LPerform(h) PROVE test' = test /\ pc' = pc
    BY <2>2 DEF LEdge, LPerform
  <2>3. ASSUME UNCHANGED lVars PROVE test' = test /\ pc' = pc
    BY <2>3 DEF lVars
  <2> QED
    BY <1>6, <2>1, <2>2, <2>3 DEF LNext
<1>8. \E g2 \in Seq(Events(p)) : Explained(p, g2)'
  <2>1. ASSUME NEW h \in Hart, LIssue(h) PROVE Explained(p, g)'
    BY <1>1, <1>2, <1>3, <1>4, <1>5, <1>6, <2>1, IssueExplains
  <2>2. ASSUME NEW h \in Hart, LEdge(h) PROVE \E g2 \in Seq(Events(p)) : Explained(p, g2)'
    BY <1>1, <1>3, <1>4, <1>5, <2>2, EdgeExplains
  <2>3. ASSUME NEW h \in Hart, LPerform(h)
        PROVE  \E g2 \in Seq(Events(p)) : Explained(p, g2)'
    <3>1. CASE port[h].is_load
      BY <1>1, <1>3, <1>4, <1>5, <2>3, <3>1, FetchExplains
    <3>2. CASE ~port[h].is_load
      BY <1>1, <1>3, <1>4, <1>5, <2>3, <3>2, StoreExplains
    <3> QED
      BY <3>1, <3>2
  <2>4. ASSUME UNCHANGED lVars PROVE Explained(p, g)'
    BY <1>4, <2>4, StutterExplains
  <2> QED
    BY <1>4, <2>1, <2>2, <2>3, <2>4 DEF LNext
<1>9. PICK g2 \in Seq(Events(p)) : Explained(p, g2)'
  BY <1>8
<1> QED
  BY <1>2, <1>3, <1>7, <1>9 DEF LInv

(* A litmus run is a run of the store buffers, so their invariant holds.   *)
LEMMA LitmusRuns == LSpec => Spec
<1>1. LInit => Init
  BY DEF LInit
<1>2. [LNext]_lVars => [Next]_vars
  BY DEF LNext, LIssue, LEdge, LPerform, lVars, Next, Step
<1> QED
  BY <1>1, <1>2, PTL DEF LSpec, Spec

(* Some memory order of RVWMO explains all that has happened, whatever the *)
(* drain delay and the schedule.                                           *)
THEOREM LitmusInvariance ==
  ASSUME TwoHarts
  PROVE  LSpec => []LInv
<1>1. LInit => LInv
  <2> SUFFICES ASSUME LInit PROVE LInv
    OBVIOUS
  <2>1. test \in Test /\ pc \in [Hart -> Nat]
    BY DEF LInit
  <2>2. PICK p : p = Program[test]
    OBVIOUS
  <2>3. Explained(p, <<>>)
    BY <2>1, <2>2, ProgramsRun, InitExplains DEF TwoHarts
  <2>4. <<>> \in Seq(Events(p))
    OBVIOUS
  <2> QED
    BY <2>1, <2>2, <2>3, <2>4 DEF LInv
<1>2. LInv /\ IInv /\ IInv' /\ [LNext]_lVars => LInv'
  BY StepExplains
<1>3. LSpec => []IInv
  BY LitmusRuns, Invariance, PTL
<1> QED
  BY <1>1, <1>2, <1>3, PTL DEF LSpec

(* "exact allowed-set membership": the outcome of every finished run of    *)
(* every litmus test is one RVWMO allows, for every drain delay.           *)
THEOREM OutcomesAllowed ==
  ASSUME TwoHarts
  PROVE  LSpec => []OutcomeAllowed
<1>1. LInv /\ IInv => OutcomeAllowed
  <2> SUFFICES ASSUME LInv, IInv, Finished
               PROVE  [loads |-> loads, final |-> mem] \in Allowed[test]
    BY DEF OutcomeAllowed
  <2>1. PICK p : p = Program[test]
    OBVIOUS
  <2>2. WellFormed(p) /\ test \in Test
    BY <2>1, ProgramsRun DEF LInv
  <2>3. PICK g \in Seq(Events(p)) : Explained(p, g)
    BY <2>1 DEF LInv
  <2>4. TypeOK
    BY DEF IInv
  <2> QED
    BY <2>1, <2>2, <2>3, <2>4, FinishedAllowed DEF TwoHarts
<1>2. LSpec => []IInv
  BY LitmusRuns, Invariance, PTL
<1> QED
  BY <1>1, <1>2, LitmusInvariance, PTL
=============================================================================
