----------------------------- MODULE Transport -----------------------------
(***************************************************************************)
(* integration/rv32_coherent/rtl/coherent_axi_qos_transport.sv, the fabric *)
(* and the arbiters inside it, and banked_msi_home.sv behind it.           *)
(*                                                                         *)
(* An Edge is one clock edge of all of it.  Between edges a store buffer   *)
(* raises a request, and a bank of the home performs the one it accepted.  *)
(* Each bank is an MSI subsystem that keeps the promise of SerialMemory.   *)
(*                                                                         *)
(* QoS values and rotation decide only which of two fresh requests is      *)
(* granted: `favoured' stands for both.  A register that is written before *)
(* it is read again returns to its reset value.  The response lock of the  *)
(* fabric (for bursts), its answer to an unmapped address and the          *)
(* statistics are left out.                                                *)
(***************************************************************************)
EXTENDS Naturals, Sequences

CONSTANTS Word,         \* the words of one bank
          Value, None, Error,
          Access,       \* the requests the store buffers make
          Image,        \* the memory images the home may start with
          Fault         \* the injected faults: None, or a direction and an address

Hart == {0, 1}
Bank == {0, 1}          \* bit 4 of the address
Addr == [bank : Bank, word : Word]
Request == [write : BOOLEAN, addr : Addr, data : Value]

ASSUME ValueAssumption == 0 \in Value /\ {None, Error} \cap Value = {} /\ None # Error
ASSUME AccessAssumption == Access \subseteq Request
ASSUME ImageAssumption == Image \subseteq [Addr -> Value]
ASSUME FaultAssumption == Fault \subseteq [write : BOOLEAN, addr : Addr] \cup {None}
ASSUME NoneAssumption ==
  None \notin Hart \cup Addr \cup Request \cup [write : BOOLEAN, addr : Addr]

RouteDepth == 2
TargetRouteDepth == 2 * RouteDepth   \* for both masters
MaxAge == 63

VARIABLES
  master,     \* per hart: mstate, aw_done, the request and rsp_*
  target,     \* per bank: tstate, *_latched, target_*
  select,     \* select_write_channel
  route,      \* route_target: where the data of a hart's accepted writes goes
  w_order,    \* target_w_owner_q: whose data a bank expects, in order
  writing, reading, \* wr_id_active, rd_id_active
  hold,       \* the arbiters' hold_idx while hold_valid
  age,        \* of a hart at the arbiter it asks; 0 at the others
  fault, consumed,  \* fault_*, fault_consumed
  home,       \* per bank: the request it has accepted, with its reply when performed
  response_bank,
  mem, durable \* the memory of the home, and what of it a reset leaves

vars == <<master, target, select, route, w_order, writing, reading, hold, age,
          fault, consumed, home, response_bank, mem, durable>>

Channel == {"AW", "AR"}
Master == [state : {"IDLE", "WRITE", "B", "READ", "R", "RESP"}, aw_done : BOOLEAN,
           req : Request \cup {None}, rdata : Value, error : BOOLEAN]
Target == [state : {"IDLE", "REQ", "WAIT", "B", "R"}, aw_latched : BOOLEAN, w_latched : BOOLEAN,
           owner : Hart \cup {None}, id : Hart \cup {None}, write : BOOLEAN,
           addr : Addr \cup {None}, wdata : Value, rdata : Value, error : BOOLEAN]
Accepted == [owner : Hart, write : BOOLEAN, addr : Addr, wdata : Value,
             reply : Value \cup {None}]
ASSUME AcceptedAssumption == None \notin Accepted

IdleMaster == [state |-> "IDLE", aw_done |-> FALSE, req |-> None, rdata |-> 0, error |-> FALSE]
IdleTarget == [state |-> "IDLE", aw_latched |-> FALSE, w_latched |-> FALSE, owner |-> None,
               id |-> None, write |-> FALSE, addr |-> None, wdata |-> 0, rdata |-> 0,
               error |-> FALSE]

ResetState ==
  [master |-> [h \in Hart |-> IdleMaster], target |-> [b \in Bank |-> IdleTarget],
   select |-> [b \in Bank |-> FALSE], route |-> [h \in Hart |-> <<>>],
   w_order |-> [b \in Bank |-> <<>>], hold |-> [b \in Bank |-> [c \in Channel |-> None]],
   age |-> [h \in Hart |-> 0], home |-> [b \in Bank |-> None],
   response_bank |-> [h \in Hart |-> 0]]

Init == /\ master = ResetState.master /\ target = ResetState.target
        /\ select = ResetState.select /\ route = ResetState.route
        /\ w_order = ResetState.w_order /\ writing = {} /\ reading = {}
        /\ hold = ResetState.hold /\ age = ResetState.age
        /\ fault \in Fault /\ consumed = FALSE
        /\ home = ResetState.home /\ response_bank = ResetState.response_bank
        /\ mem \in Image /\ durable = mem

(* One reset for all parts; modified lines are lost.                       *)
Reset == /\ master' = ResetState.master /\ target' = ResetState.target
         /\ select' = ResetState.select /\ route' = ResetState.route
         /\ w_order' = ResetState.w_order /\ writing' = {} /\ reading' = {}
         /\ hold' = ResetState.hold /\ age' = ResetState.age
         /\ consumed' = FALSE
         /\ home' = ResetState.home /\ response_bank' = ResetState.response_bank
         /\ mem' = durable
         /\ UNCHANGED <<fault, durable>>

-----------------------------------------------------------------------------
fabricVars == <<route, w_order, writing, reading, hold, age>>
homeVars == <<home, response_bank, mem, durable>>

(* A client raises client_req_valid.                                       *)
Present(h, r) ==
  /\ master[h].state = "IDLE" /\ master[h].req = None
  /\ master' = [master EXCEPT ![h].req = r]
  /\ UNCHANGED <<target, select, fabricVars, fault, consumed, homeVars>>

(* A bank performs its request; lines of the bank may be committed.        *)
Perform(b) ==
  /\ home[b] # None /\ home[b].reply = None
  /\ mem' = IF home[b].write THEN [mem EXCEPT ![home[b].addr] = home[b].wdata] ELSE mem
  /\ home' = [home EXCEPT ![b].reply = mem'[home[b].addr]]
  /\ \E C \in SUBSET Word :
       durable' = [a \in Addr |-> IF a.bank = b /\ a.word \in C THEN mem[a] ELSE durable[a]]
  /\ UNCHANGED <<master, target, select, fabricVars, fault, consumed, response_bank>>

-----------------------------------------------------------------------------
(* The fabric.  W follows its accepted AW, so it has a route.              *)
Presents(h, c) ==
  IF c = "AW"
  THEN /\ master[h].state = "WRITE" /\ ~master[h].aw_done
       /\ Len(route[h]) < RouteDepth /\ h \notin writing
  ELSE master[h].state = "READ" /\ h \notin reading

Requests(b, c) == {h \in Hart : Presents(h, c) /\ master[h].req.addr.bank = b}

(* Defect: a grant that was not taken is decided anew.                     *)
GrantFresh(b, c, favoured) ==
  IF Requests(b, c) = {} THEN None
  ELSE IF favoured \in Requests(b, c) THEN favoured ELSE CHOOSE h \in Requests(b, c) : TRUE

(* A grant is held until the target takes it.                              *)
Grant(b, c, favoured) ==
  IF hold[b][c] # None THEN hold[b][c]
  ELSE IF Requests(b, c) = {} THEN None
  ELSE IF favoured \in Requests(b, c) THEN favoured ELSE CHOOSE h \in Requests(b, c) : TRUE

(* The targets alternate between writes and reads while they wait.         *)
AwReady(b) == target[b].state = "IDLE" /\ select[b] /\ ~target[b].aw_latched
WReady(b)  == target[b].state = "IDLE" /\ select[b] /\ ~target[b].w_latched
ArReady(b) == /\ target[b].state = "IDLE" /\ ~select[b]
              /\ ~target[b].aw_latched /\ ~target[b].w_latched

Selected(b) == /\ w_order[b] # <<>> /\ route[Head(w_order[b])] # <<>>
               /\ Head(route[Head(w_order[b])]) = b
WValid(h) == master[h].state = "WRITE" /\ master[h].aw_done

(* The handshakes of an edge: which hart's beat each bank takes.           *)
AwBeat(b, allow, favoured) == IF b \in allow /\ AwReady(b) THEN Grant(b, "AW", favoured) ELSE None
ArBeat(b, allow, favoured) == IF b \in allow /\ ArReady(b) THEN Grant(b, "AR", favoured) ELSE None
WBeat(b, allow) == IF b \in allow /\ WReady(b) /\ Selected(b) /\ WValid(Head(w_order[b]))
                   THEN Head(w_order[b]) ELSE None

(* The bank whose answer a hart sees: the lower one.                       *)
Answering(h, s) == {b \in Bank : target[b].state = s /\ target[b].id = h}
Answer(h, s) == IF 0 \in Answering(h, s) THEN 0 ELSE 1
Answered(b) == /\ target[b].state \in {"B", "R"}
               /\ target[b].id \in Hart
               /\ master[target[b].id].state = target[b].state
               /\ b = Answer(target[b].id, target[b].state)

(* The home's ports: a port carries the request of one bank's adapter.     *)
Asking(h) == {b \in Bank : target[b].state = "REQ" /\ target[b].owner = h}
Asked(h) == target[IF 1 \in Asking(h) THEN 1 ELSE 0]
Waiting(h) == \E b \in Bank : target[b].state = "WAIT" /\ target[b].owner = h

HomeBeat(b, favoured) ==
  LET asking == {h \in Hart : Asking(h) # {} /\ Asked(h).addr.bank = b}
  IN  IF home[b] # None \/ asking = {} THEN None
      ELSE IF favoured \in asking THEN favoured ELSE CHOOSE h \in asking : TRUE

RspValid(b, h) == home[b] # None /\ home[b].owner = h /\ home[b].reply # None
RspData(h) == IF RspValid(response_bank[h], h) THEN home[response_bank[h]].reply ELSE 0

-----------------------------------------------------------------------------
(* What an edge does to each register file, given the beats it transfers.  *)
Moves(beat, h) == \E b \in Bank : beat[b] = h

MasterEdge(h, aw, w, ar, taken) ==
  LET m == master[h]
      b == Answer(h, m.state)
  IN  CASE m.state = "IDLE" /\ m.req # None ->
             [m EXCEPT !.state = IF m.req.write THEN "WRITE" ELSE "READ"]
        [] m.state = "WRITE" /\ Moves(w, h)  -> [m EXCEPT !.state = "B"]
        [] m.state = "WRITE" /\ Moves(aw, h) -> [m EXCEPT !.aw_done = TRUE]
        [] m.state = "READ" /\ Moves(ar, h)  -> [m EXCEPT !.state = "R"]
        [] m.state = "B" /\ Answering(h, "B") # {} ->
             [m EXCEPT !.state = "RESP", !.error = target[b].error]
        [] m.state = "R" /\ Answering(h, "R") # {} ->
             [m EXCEPT !.state = "RESP", !.error = target[b].error, !.rdata = target[b].rdata]
        [] m.state = "RESP" /\ h \in taken -> IdleMaster
        [] OTHER -> m

Faulty(write, addr) == fault = [write |-> write, addr |-> addr] /\ ~consumed

(* Defect: a failing write reaches the home all the same.                  *)
BegunInSpite(t, hit) == [t EXCEPT !.state = "REQ", !.error = hit]

(* A complete request is answered with an error or goes to the home.       *)
Begun(t, hit) == [t EXCEPT !.state = IF ~hit THEN "REQ" ELSE IF t.write THEN "B" ELSE "R",
                           !.error = hit]

(* Defect (COH_MUT_SWAP_BANK1_OWNER): bank 1 serves the other hart's port. *)
AddressedSwapped(t, h, write) ==
  LET a == master[h].req.addr
  IN  [t EXCEPT !.owner = IF a.bank = 1 THEN 1 - h ELSE h, !.id = h, !.write = write, !.addr = a]

Addressed(t, h, write) ==
  [t EXCEPT !.owner = h, !.id = h, !.write = write, !.addr = master[h].req.addr]

(* What the write channels have latched, and this edge's beats.            *)
Latched(b, aw, w) ==
  LET t == IF aw[b] # None
           THEN [Addressed(target[b], aw[b], TRUE) EXCEPT !.aw_latched = TRUE] ELSE target[b]
  IN  IF w[b] # None THEN [t EXCEPT !.w_latched = TRUE, !.wdata = master[w[b]].req.data] ELSE t

Complete(t) == t.aw_latched /\ t.w_latched

(* Defect: the home's answer is taken before it has come.                  *)
AnsweredHome(t) == Waiting(t.owner) /\ home[t.addr.bank] # None

HomeAnswers(t) == \E b \in Bank : RspValid(b, t.owner)

TargetEdge(b, aw, w, ar, asked) ==
  LET t == target[b]
      l == Latched(b, aw, w)
  IN  CASE t.state = "IDLE" /\ ar[b] # None ->
             LET r == Addressed(t, ar[b], FALSE) IN Begun(r, Faulty(FALSE, r.addr))
        [] t.state = "IDLE" /\ ar[b] = None /\ Complete(l) ->
             Begun([l EXCEPT !.aw_latched = FALSE, !.w_latched = FALSE], Faulty(TRUE, l.addr))
        [] t.state = "IDLE" /\ ar[b] = None /\ ~Complete(l) -> l
        [] t.state = "REQ" /\ Moves(asked, t.owner) -> [t EXCEPT !.state = "WAIT"]
        [] t.state = "WAIT" /\ HomeAnswers(t) ->
             [t EXCEPT !.state = IF t.write THEN "B" ELSE "R", !.rdata = RspData(t.owner)]
        [] t.state \in {"B", "R"} /\ Answered(b) -> IdleTarget
        [] OTHER -> t

(* Defect: the target stays with the writes.                               *)
SelectEdgeWrites(b, aw, w) == TRUE

SelectEdge(b, aw, w) ==
  IF target[b].state # "IDLE" THEN select[b]
  ELSE IF aw[b] # None \/ w[b] # None THEN TRUE
  ELSE IF target[b].aw_latched \/ target[b].w_latched THEN select[b] ELSE ~select[b]

(* fault_consumed: the edge at which the fault answers a request.          *)
Hit(b, aw, w, ar) ==
  /\ target[b].state = "IDLE"
  /\ IF ar[b] # None THEN Faulty(FALSE, master[ar[b]].req.addr)
     ELSE Complete(Latched(b, aw, w)) /\ Faulty(TRUE, Latched(b, aw, w).addr)

RouteEdge(h, aw, w) ==
  LET kept == IF Moves(w, h) THEN Tail(route[h]) ELSE route[h]
  IN  IF Moves(aw, h) THEN Append(kept, master[h].req.addr.bank) ELSE kept

(* Defect: the data of a write leaves its turn behind.                     *)
OrderEdgeKept(b, aw, w) == IF aw[b] # None THEN Append(w_order[b], aw[b]) ELSE w_order[b]

OrderEdge(b, aw, w) ==
  LET kept == IF w[b] # None THEN Tail(w_order[b]) ELSE w_order[b]
  IN  IF aw[b] # None THEN Append(kept, aw[b]) ELSE kept

(* The identifiers whose answer this edge delivers.                        *)
Finished(s) == {h \in Hart : \E b \in Bank : Answered(b) /\ target[b].id = h /\ target[b].state = s}

HoldEdge(b, c, favoured, beat) ==
  IF beat[b] # None THEN None
  ELSE IF hold[b][c] # None THEN hold[b][c] ELSE Grant(b, c, favoured)

AgeEdge(h, aw, ar) ==
  LET b == master[h].req.addr.bank
      beat == IF master[h].state = "READ" THEN ar[b] ELSE aw[b]
  IN  IF ~(\E c \in Channel : Presents(h, c)) \/ beat = h THEN 0
      ELSE IF beat # None /\ age[h] < MaxAge THEN age[h] + 1 ELSE age[h]

HomeEdge(b, asked) ==
  IF asked[b] # None
  THEN LET t == Asked(asked[b])
       IN  [owner |-> asked[b], write |-> t.write, addr |-> t.addr, wdata |-> t.wdata,
            reply |-> None]
  ELSE IF /\ home[b] # None /\ home[b].reply # None
          /\ Waiting(home[b].owner) /\ response_bank[home[b].owner] = b
  THEN None ELSE home[b]

(* One clock edge; target_allow holds for the banks in `allow', and        *)
(* client_rsp_ready for the harts in `taken'.                              *)
Edge(allow, favoured, taken) ==
  LET aw == [b \in Bank |-> AwBeat(b, allow, favoured)]
      ar == [b \in Bank |-> ArBeat(b, allow, favoured)]
      w  == [b \in Bank |-> WBeat(b, allow)]
      asked == [b \in Bank |-> HomeBeat(b, favoured)]
  IN  /\ master' = [h \in Hart |-> MasterEdge(h, aw, w, ar, taken)]
      /\ target' = [b \in Bank |-> TargetEdge(b, aw, w, ar, asked)]
      /\ select' = [b \in Bank |-> SelectEdge(b, aw, w)]
      /\ route' = [h \in Hart |-> RouteEdge(h, aw, w)]
      /\ w_order' = [b \in Bank |-> OrderEdge(b, aw, w)]
      /\ writing' = (writing \cup {h \in Hart : Moves(aw, h)}) \ Finished("B")
      /\ reading' = (reading \cup {h \in Hart : Moves(ar, h)}) \ Finished("R")
      /\ hold' = [b \in Bank |-> [c \in Channel |->
                   HoldEdge(b, c, favoured, IF c = "AW" THEN aw ELSE ar)]]
      /\ age' = [h \in Hart |-> AgeEdge(h, aw, ar)]
      /\ consumed' = (consumed \/ \E b \in Bank : Hit(b, aw, w, ar))
      /\ home' = [b \in Bank |-> HomeEdge(b, asked)]
      /\ response_bank' = [h \in Hart |->
           IF \E b \in Bank : asked[b] = h THEN CHOOSE b \in Bank : asked[b] = h
           ELSE response_bank[h]]
      /\ UNCHANGED <<fault, mem, durable>>

(* Where the inputs of an edge make a difference.                          *)
Listening == {b \in Bank : target[b].state = "IDLE"}
Rivals == IF \E b \in Bank, c \in Channel : Requests(b, c) = Hart THEN Hart ELSE {0}
Answerable == {h \in Hart : master[h].state = "RESP"}

Next == \/ Reset
        \/ \E h \in Hart, r \in Access : Present(h, r)
        \/ \E b \in Bank : Perform(b)
        \/ \E allow \in SUBSET Listening, favoured \in Rivals, taken \in SUBSET Answerable :
             Edge(allow, favoured, taken)

Spec == Init /\ [][Next]_vars

(* The clock runs and the store buffers take their answers; the home       *)
(* performs what it accepted; and the stall generator does not spare one   *)
(* phase of a bank's target for ever, because its period is odd and the    *)
(* phases alternate (backpressure below 100, seed other than its constant):*)
(* what is offered then and asked for is taken again and again.            *)
FreeEdge == \E favoured \in Rivals : Edge(Listening, favoured, Answerable)
Asks(b, writes) ==
  IF writes THEN \/ Requests(b, "AW") # {} /\ ~target[b].aw_latched
                 \/ Selected(b) /\ WValid(Head(w_order[b]))
            ELSE Requests(b, "AR") # {}
Offers(b, writes) == target[b].state = "IDLE" /\ select[b] = writes
TakesWhatIsAsked(b, writes) ==
  Offers(b, writes) /\ (Asks(b, writes) => target'[b] # target[b])
LiveSpec ==
  /\ Spec
  /\ []<><<FreeEdge>>_vars
  /\ \A b \in Bank : /\ []<>(home[b] = None \/ home[b].reply # None)
                     /\ \A writes \in BOOLEAN :
                          []<>Offers(b, writes) => []<><<TakesWhatIsAsked(b, writes)>>_vars

-----------------------------------------------------------------------------
(* The variables keep their types.  The queues stay within their depth.    *)
TypeOK ==
  /\ master \in [Hart -> Master] /\ target \in [Bank -> Target]
  /\ select \in [Bank -> BOOLEAN]
  /\ route \in [Hart -> Seq(Bank)] /\ \A h \in Hart : Len(route[h]) <= RouteDepth
  /\ w_order \in [Bank -> Seq(Hart)] /\ \A b \in Bank : Len(w_order[b]) <= TargetRouteDepth
  /\ writing \subseteq Hart /\ reading \subseteq Hart
  /\ hold \in [Bank -> [Channel -> Hart \cup {None}]] /\ age \in [Hart -> 0 .. MaxAge]
  /\ fault \in Fault /\ consumed \in BOOLEAN
  /\ home \in [Bank -> Accepted \cup {None}] /\ response_bank \in [Hart -> Bank]
  /\ mem \in [Addr -> Value] /\ durable \in [Addr -> Value]

(* While a bank serves a hart it carries that hart's whole request, is the *)
(* bank of its address, and answers to it: the address and the data of a   *)
(* write, latched at different edges, belong together (lines 264-314, with *)
(* the assertions of 331-336).                                             *)
TargetCarriesRequest ==
  \A b \in Bank : target[b].state # "IDLE" =>
    LET t == target[b]
        m == master[t.id]
    IN  /\ t.owner \in Hart /\ t.owner = t.id
        /\ m.state = IF t.write THEN "B" ELSE "R"
        /\ m.req.write = t.write /\ m.req.addr = t.addr /\ t.addr.bank = b
        /\ t.write => m.req.data = t.wdata

(* A hart's port of the home is used by one bank at a time, so no request  *)
(* hides another and no answer goes to the wrong bank (the assertions of   *)
(* 344-349, and banked_msi_home.sv:80-83).                                 *)
OnePortOneBank ==
  \A b, c \in Bank, h \in Hart :
    /\ {target[b].state, target[c].state} \subseteq {"REQ", "WAIT"}
       /\ target[b].owner = h /\ target[c].owner = h => b = c
    /\ RspValid(b, h) /\ RspValid(c, h) => b = c
    /\ RspValid(b, h) => response_bank[h] = b /\ Waiting(h)

(* So every bank serves one request, and its answer finds the way back.    *)
ServesOneRequest == TargetCarriesRequest /\ OnePortOneBank

(* Whatever the QoS values are, a waiting request is overtaken at most     *)
(* once: one transaction for each hart and the held grant see to it, and   *)
(* the aging of qos_arbiter.sv:58-70 never has to.                         *)
OvertakenOnce == \A h \in Hart : age[h] <= 1

(* Every request is answered, whatever the other hart keeps asking for.    *)
EveryRequestAnswered ==
  \A h \in Hart : master[h].req # None ~> master[h].req = None

(* ---- The refinement: where the transaction of a hart is ----            *)
At(h) == master[h].req.addr.bank
Done(h) == \/ master[h].state = "RESP"
           \/ /\ master[h].state \in {"B", "R"}
              /\ \/ target[At(h)].state \in {"B", "R"}
                 \/ target[At(h)].state = "WAIT" /\ home[At(h)].reply # None
Op == [h \in Hart |-> IF Done(h) THEN None ELSE master[h].req]
Failed(h) == IF master[h].state = "RESP" THEN master[h].error
             ELSE target[At(h)].state # "WAIT" /\ target[At(h)].error
Read(h) == IF master[h].state = "RESP" THEN master[h].rdata
           ELSE IF target[At(h)].state = "WAIT" THEN home[At(h)].reply ELSE target[At(h)].rdata
Reply == [h \in Hart |->
  IF ~Done(h) THEN None ELSE IF Failed(h) THEN Error
  ELSE IF master[h].req.write THEN master[h].req.data ELSE Read(h)]

Port == INSTANCE PortMemory WITH op <- Op, reply <- Reply

(* Each request takes effect once, between its acceptance and its reply,   *)
(* or fails without an effect; a read returns the current word.            *)
RefinesPortMemory == Port!PSpec
=============================================================================
