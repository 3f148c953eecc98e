----------------------------- MODULE StoreBuffer -----------------------------
(***************************************************************************)
(* integration/rv32_coherent/rtl/dual_hart_apb_store_buffer.sv: each hart  *)
(* retires its shared stores into a two-entry ring that drains, one entry  *)
(* at a time, through the port its loads also use.                         *)
(*                                                                         *)
(* One action is one clock edge seen by one hart's half of the bridge (the *)
(* halves share no register), a core raising its next access, or the       *)
(* transport and home completing a port's transaction.  Mailbox words      *)
(* other than the fault status, and the statistics, are left out.          *)
(***************************************************************************)
EXTENDS Naturals, Sequences

CONSTANTS Hart,
          Addr,     \* aligned words of SHARED_BASE .. SHARED_END
          Value,
          Delay,    \* STORE_DRAIN_DELAY, below 8'hff
          None, Error

ASSUME DelayAssumption == Delay \in 0 .. 254
ASSUME DistinctAssumption == None # Error /\ {None, Error} \cap Value = {}

Depth == 2
Entry == [addr : Addr, data : Value]
Access == [op : {"store"}, addr : Addr, data : Value]
            \cup [op : {"load"}, addr : Addr]
            \cup [op : {"clear", "fence"}]
PortRequest == [is_load : {FALSE}, addr : Addr, data : Value]
                 \cup [is_load : {TRUE}, addr : Addr]

ASSUME NoneAssumption == None \notin Access \cup PortRequest \cup Entry \cup Addr

VARIABLES
  access,       \* psel, paddr, pwrite, pwdata; or the FENCE at the feeder
  penable,
  prdata,       \* what the hart's last load returned: a value or Error
  sb,           \* sb_addr, sb_data
  sb_head, sb_tail, sb_count,
  sb_age,       \* saturates at Delay: only sb_age >= Delay is ever tested
  req,          \* req_is_load, req_addr_q, req_data_q while req_pending
  port_busy, port_is_load,
  apb_rsp,      \* apb_rsp_data or Error, while apb_rsp_valid
  store_fault_pending, store_fault_addr,
  port,         \* the transaction in the transport: None or a request
  reply,        \* coh_rsp_rdata or Error, while coh_rsp_valid; nothing
                \* reads the data of a store's reply
  mem           \* the shared memory behind the transport

ringVars  == <<sb, sb_head, sb_tail, sb_count, sb_age>>
faultVars == <<store_fault_pending, store_fault_addr>>
bridgeVars == <<ringVars, faultVars, req, port_busy, port_is_load, apb_rsp>>
vars == <<access, penable, prdata, bridgeVars, port, reply, mem>>

TypeOK == /\ access \in [Hart -> Access \cup {None}]
          /\ penable \in [Hart -> BOOLEAN]
          /\ prdata \in [Hart -> Value \cup {None, Error}]
          /\ sb \in [Hart -> [0 .. 1 -> Entry \cup {None}]]
          /\ sb_head \in [Hart -> 0 .. 1]
          /\ sb_tail \in [Hart -> 0 .. 1]
          /\ sb_count \in [Hart -> 0 .. Depth]
          /\ sb_age \in [Hart -> 0 .. Delay]
          /\ req \in [Hart -> PortRequest \cup {None}]
          /\ port_busy \in [Hart -> BOOLEAN]
          /\ port_is_load \in [Hart -> BOOLEAN]
          /\ apb_rsp \in [Hart -> Value \cup {None, Error}]
          /\ store_fault_pending \in [Hart -> BOOLEAN]
          /\ store_fault_addr \in [Hart -> Addr \cup {None}]
          /\ port \in [Hart -> PortRequest \cup {None}]
          /\ reply \in [Hart -> Value \cup {None, Error}]
          /\ mem \in [Addr -> Value]

Init == /\ access = [h \in Hart |-> None]
        /\ penable = [h \in Hart |-> FALSE]
        /\ prdata = [h \in Hart |-> None]
        /\ sb = [h \in Hart |-> [n \in 0 .. 1 |-> None]]
        /\ sb_head = [h \in Hart |-> 0]
        /\ sb_tail = [h \in Hart |-> 0]
        /\ sb_count = [h \in Hart |-> 0]
        /\ sb_age = [h \in Hart |-> 0]
        /\ req = [h \in Hart |-> None]
        /\ port_busy = [h \in Hart |-> FALSE]
        /\ port_is_load = [h \in Hart |-> FALSE]
        /\ apb_rsp = [h \in Hart |-> None]
        /\ store_fault_pending = [h \in Hart |-> FALSE]
        /\ store_fault_addr = [h \in Hart |-> None]
        /\ port = [h \in Hart |-> None]
        /\ reply = [h \in Hart |-> None]
        /\ mem \in [Addr -> Value]

(* rst_n also resets the transport and invalidates the caches behind it,   *)
(* so words that were dirty there go back to older values.                 *)
Reset == /\ access' = [h \in Hart |-> None]
         /\ penable' = [h \in Hart |-> FALSE]
         /\ prdata' = [h \in Hart |-> None]
         /\ sb_head' = [h \in Hart |-> 0]
         /\ sb_tail' = [h \in Hart |-> 0]
         /\ sb_count' = [h \in Hart |-> 0]
         /\ sb_age' = [h \in Hart |-> 0]
         /\ req' = [h \in Hart |-> None]
         /\ port_busy' = [h \in Hart |-> FALSE]
         /\ port_is_load' = [h \in Hart |-> FALSE]
         /\ apb_rsp' = [h \in Hart |-> None]
         /\ store_fault_pending' = [h \in Hart |-> FALSE]
         /\ store_fault_addr' = [h \in Hart |-> None]
         /\ port' = [h \in Hart |-> None]
         /\ reply' = [h \in Hart |-> None]
         /\ mem' \in [Addr -> Value]
         /\ UNCHANGED sb

-----------------------------------------------------------------------------
(* The core raises psel for its next load or store, a store of 1 to its    *)
(* fault status word ("clear"), or its feeder meets a FENCE.               *)
Issue(h) == /\ access[h] = None
            /\ \E a \in Access : access' = [access EXCEPT ![h] = a]
            /\ UNCHANGED <<penable, prdata, bridgeVars, port, reply, mem>>

(* psel && penable for an access of kind k.                                *)
Active(h, k) == access[h] # None /\ access[h].op = k /\ penable[h]

Slot(h, n) == (sb_head[h] + n) % Depth

(* The ring positions, counted from the head, that hold the load's word.   *)
Match(h) == {n \in 0 .. 1 : n < sb_count[h] /\ sb[h][Slot(h, n)].addr = access[h].addr}

Forwarded(h) == Match(h) # {}
(* Defect (COH_MUT_FORWARD_OLDEST).                                        *)
ForwardedOldest(h) ==
  sb[h][Slot(h, CHOOSE n \in Match(h) : \A m \in Match(h) : n <= m)].data

ForwardedData(h) ==
  sb[h][Slot(h, CHOOSE n \in Match(h) : \A m \in Match(h) : m <= n)].data

(* Defect (COH_MUT_FENCE_IGNORES_BUFFER).                                  *)
FenceDoneEarly(h) == req[h] = None /\ ~port_busy[h]

FenceDone(h) == sb_count[h] = 0 /\ req[h] = None /\ ~port_busy[h]

(* Defect: a store is taken into a full ring.                              *)
ReadyWhenFull(h) == \/ Active(h, "store") \/ Active(h, "clear")
                    \/ Active(h, "load")  /\ (Forwarded(h) \/ apb_rsp[h] # None)
                    \/ Active(h, "fence") /\ FenceDone(h)

(* pready, or the feeder handing over a FENCE.                             *)
Ready(h) == \/ Active(h, "store") /\ sb_count[h] < Depth
            \/ Active(h, "load")  /\ (Forwarded(h) \/ apb_rsp[h] # None)
            \/ Active(h, "clear")
            \/ Active(h, "fence") /\ FenceDone(h)

Enqueue(h) == Active(h, "store") /\ Ready(h)

StoreComplete(h) == reply[h] # None /\ port_busy[h] /\ ~port_is_load[h]
Drained(h) == StoreComplete(h) /\ reply[h] # Error
Failed(h)  == StoreComplete(h) /\ reply[h] = Error

-----------------------------------------------------------------------------
(* What one clock edge does to each group of hart h's registers.           *)
CoreEdge(h) ==
  /\ access'  = [access EXCEPT ![h] = IF Ready(h) THEN None ELSE @]
  /\ penable' = [penable EXCEPT ![h] = access[h] # None /\ ~Ready(h)]
  /\ prdata'  = IF Active(h, "load") /\ Ready(h)
                THEN [prdata EXCEPT ![h] = IF Forwarded(h) THEN ForwardedData(h)
                                           ELSE apb_rsp[h]]
                ELSE prdata

RingEdge(h) ==
  /\ sb' = IF Enqueue(h)
           THEN [sb EXCEPT ![h][sb_tail[h]] =
                   [addr |-> access[h].addr, data |-> access[h].data]]
           ELSE sb
  /\ sb_tail' = [sb_tail EXCEPT ![h] = IF Enqueue(h) THEN (@ + 1) % 2 ELSE @]
  /\ sb_head' = [sb_head EXCEPT ![h] = IF Drained(h) THEN (@ + 1) % 2 ELSE @]
  /\ sb_count' = [sb_count EXCEPT ![h] =
       IF Enqueue(h) /\ ~Drained(h) THEN @ + 1
       ELSE IF Drained(h) /\ ~Enqueue(h) THEN @ - 1 ELSE @]

(* The later assignments of the block win.                                 *)
AgeEdge(h) ==
  sb_age' = [sb_age EXCEPT ![h] =
    IF Drained(h) \/ (Enqueue(h) /\ sb_count[h] = 0) THEN 0
    ELSE IF Active(h, "clear") THEN Delay
    ELSE IF sb_count[h] # 0 /\ @ < Delay THEN @ + 1 ELSE @]

FaultEdge(h) ==
  /\ store_fault_pending' = [store_fault_pending EXCEPT ![h] =
       Failed(h) \/ (@ /\ ~Active(h, "clear"))]
  /\ store_fault_addr' = [store_fault_addr EXCEPT ![h] =
       IF Failed(h) THEN sb[h][sb_head[h]].addr ELSE @]

(* Defect: a load takes the port although a store is forwarded to it.      *)
IssueLoadAlways(h) == /\ Active(h, "load") /\ apb_rsp[h] = None
                      /\ req[h] = None /\ ~port_busy[h]

(* A load that nothing forwards takes the port ...                         *)
IssueLoad(h) == /\ Active(h, "load")
                /\ ~Forwarded(h) /\ apb_rsp[h] = None
                /\ req[h] = None /\ ~port_busy[h]

(* Defects: a drain during a drain; a drain in spite of the fault          *)
(* (COH_MUT_IGNORE_STORE_FAULT); no drain beside any access.               *)
IssueDrainTwice(h) == /\ ~Active(h, "load") /\ req[h] = None
                      /\ ~store_fault_pending[h]
                      /\ sb_count[h] # 0 /\ sb_age[h] >= Delay
IssueDrainFaulted(h) == /\ ~Active(h, "load")
                        /\ req[h] = None /\ ~port_busy[h]
                        /\ sb_count[h] # 0 /\ sb_age[h] >= Delay
IssueDrainIdle(h) == /\ ~penable[h]
                     /\ req[h] = None /\ ~port_busy[h]
                     /\ ~store_fault_pending[h]
                     /\ sb_count[h] # 0 /\ sb_age[h] >= Delay

(* ... ahead of the oldest store, which drains when its age allows.        *)
IssueDrain(h) == /\ ~Active(h, "load")
                 /\ req[h] = None /\ ~port_busy[h]
                 /\ ~store_fault_pending[h]
                 /\ sb_count[h] # 0 /\ sb_age[h] >= Delay

Accepted(h) == req[h] # None /\ port[h] = None

PortEdge(h) ==
  /\ req' = [req EXCEPT ![h] =
       IF IssueLoad(h) THEN [is_load |-> TRUE, addr |-> access[h].addr]
       ELSE IF IssueDrain(h)
       THEN [is_load |-> FALSE, addr |-> sb[h][sb_head[h]].addr,
             data |-> sb[h][sb_head[h]].data]
       ELSE IF Accepted(h) THEN None ELSE @]
  /\ port_busy' = [port_busy EXCEPT ![h] =
       Accepted(h) \/ (@ /\ reply[h] = None)]
  /\ port_is_load' = [port_is_load EXCEPT ![h] =
       IF Accepted(h) THEN req[h].is_load ELSE @]
  /\ apb_rsp' = [apb_rsp EXCEPT ![h] =
       IF @ # None /\ Active(h, "load") /\ Ready(h) THEN None
       ELSE IF reply[h] # None /\ port_busy[h] /\ port_is_load[h] THEN reply[h]
       ELSE @]
  /\ port'  = [port EXCEPT ![h] = IF Accepted(h) THEN req[h]
                                  ELSE IF reply[h] # None THEN None ELSE @]
  /\ reply' = [reply EXCEPT ![h] = None]

Edge(h) == /\ CoreEdge(h) /\ RingEdge(h) /\ AgeEdge(h) /\ FaultEdge(h) /\ PortEdge(h)
           /\ UNCHANGED mem

-----------------------------------------------------------------------------
(* The transport and the coherent home answer a port's transaction: they   *)
(* perform it on memory ...                                                *)
Perform(h) == /\ port[h] # None /\ reply[h] = None
              /\ mem' = IF port[h].is_load THEN mem
                        ELSE [mem EXCEPT ![port[h].addr] = port[h].data]
              /\ reply' = [reply EXCEPT ![h] =
                   IF port[h].is_load THEN mem[port[h].addr] ELSE port[h].data]
              /\ UNCHANGED <<access, penable, prdata, bridgeVars, port>>

(* ... or report an error, and then memory never sees it.                  *)
Fail(h) == /\ port[h] # None /\ reply[h] = None
           /\ reply' = [reply EXCEPT ![h] = Error]
           /\ UNCHANGED <<access, penable, prdata, bridgeVars, port, mem>>

Step(h) == Issue(h) \/ Edge(h) \/ Perform(h) \/ Fail(h)

Next == Reset \/ \E h \in Hart : Step(h)

Spec == Init /\ [][Next]_vars

(* The clock never stops and the transport answers every transaction.      *)
(* No core has to issue an access, and a reset may come at any time.       *)
LiveSpec == /\ Spec
            /\ \A h \in Hart : WF_vars(Edge(h)) /\ WF_vars(Perform(h) \/ Fail(h))
-----------------------------------------------------------------------------
StoreInFlight(h) == \/ req[h] # None /\ ~req[h].is_load
                    \/ port[h] # None /\ ~port[h].is_load
InFlight(h) == IF req[h] # None THEN req[h] ELSE port[h]

Oldest(h) == sb[h][sb_head[h]]

(* The ring's three counters agree and its occupied slots hold entries,    *)
(* also when a store arrives at the edge at which the oldest one completes *)
(* or fails (lines 214-243).                                               *)
RingConsistent ==
  \A h \in Hart : /\ sb_tail[h] = Slot(h, sb_count[h])
                  /\ \A n \in 0 .. 1 : n < sb_count[h] => sb[h][Slot(h, n)] # None

(* A store in flight is a copy of the ring's oldest entry, which stays in  *)
(* its slot until the reply: a later store never takes the slot meanwhile, *)
(* and loads of that word are still forwarded.                             *)
StoreInFlightIsOldest ==
  \A h \in Hart : StoreInFlight(h) =>
    /\ sb_count[h] > 0
    /\ InFlight(h) = [is_load |-> FALSE, addr |-> Oldest(h).addr, data |-> Oldest(h).data]

(* The ring is sound and drains from its oldest entry.                     *)
DrainsInOrder == RingConsistent /\ StoreInFlightIsOldest

(* While a fault is pending the failed store is still the oldest entry,    *)
(* store_fault_addr names it, and nothing of this hart is draining.        *)
FaultNamesOldest ==
  \A h \in Hart : store_fault_pending[h] =>
    /\ sb_count[h] > 0 /\ store_fault_addr[h] = Oldest(h).addr
    /\ ~StoreInFlight(h)

(* A load's reply is returned to that load: from its issue to pready the   *)
(* core waits on the same address and no store to forward appears, so the  *)
(* reply is neither stale nor taken by a later access.                     *)
LoadReplyIsCurrent ==
  \A h \in Hart :
    \/ apb_rsp[h] # None
    \/ req[h] # None /\ req[h].is_load
    \/ port[h] # None /\ port[h].is_load
    => /\ Active(h, "load") /\ ~Forwarded(h)
       /\ InFlight(h) # None => InFlight(h).addr = access[h].addr

(* Every access completes or is reset, whatever the other accesses, except *)
(* that a full ring or a FENCE may wait on a pending store fault: a load is *)
(* never blocked, and a stream of loads never blocks the drain, because a  *)
(* load takes the port at its own access cycle only (lines 245-257).       *)
EveryAccessCompletes ==
  \A h \in Hart : access[h] # None ~>
    \/ access[h] = None
    \/ store_fault_pending[h] /\ access[h].op \in {"store", "fence"}

(* The documented recovery from a failed store, firmware that clears the   *)
(* fault, needs a hart that gets to its next instruction.                  *)
FaultedHartReachesItsNextAccess ==
  \A h \in Hart : store_fault_pending[h] ~> access[h] = None

-----------------------------------------------------------------------------
(* The ring as a sequence, whether its oldest entry is in memory, and what *)
(* a load has fetched.                                                     *)
Buffer == [h \in Hart |-> [n \in 1 .. sb_count[h] |-> sb[h][Slot(h, n - 1)]]]
Performed == [h \in Hart |-> /\ port[h] # None /\ ~port[h].is_load
                             /\ reply[h] \notin {None, Error}]
Fetched == [h \in Hart |-> IF port[h] # None /\ port[h].is_load
                           THEN reply[h] ELSE apb_rsp[h]]

Tso == INSTANCE TsoMemory WITH buf <- Buffer, performed <- Performed,
         fault <- store_fault_pending, op <- access, fetched <- Fetched, result <- prdata

(* Each hart's stores take effect once, in program order, and are seen by  *)
(* its own loads from the moment they retire.                              *)
RefinesTsoMemory == Tso!TSpec
=============================================================================
