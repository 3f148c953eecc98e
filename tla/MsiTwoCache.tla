----------------------------- MODULE MsiTwoCache -----------------------------
(***************************************************************************)
(* rtl/coherence/msi_two_cache_subsystem.sv: two private direct-mapped     *)
(* caches behind one controller, which takes a request, executes it on the *)
(* line states and the backing memory, and returns the response.           *)
(*                                                                         *)
(* One action is one rising clock edge of the always_ff block (or the      *)
(* asynchronous reset, or a requester raising its request between edges).  *)
(* A word address is a triple of tag, set index and word in the line.  The *)
(* five stat_* outputs, which no logic reads, are left out.                *)
(***************************************************************************)
EXTENDS Naturals

CONSTANTS Index,   \* 0 .. LINES-1, the sets
          Tag,     \* the tags whose lines lie inside MEM_WORDS
          Word,    \* 0 .. WORDS_PER_LINE-1
          Value,   \* 32-bit words, 0 among them
          None     \* no request

ASSUME ZeroAssumption == 0 \in Value
ASSUME ZeroTagAssumption == 0 \in Tag
ASSUME NonEmptyAssumption == Index # {} /\ Word # {}

Cache == {0, 1}
Other(c) == 1 - c
LineData == [Word -> Value]
Addr == [tag : Tag, index : Index, word : Word]
Request == [write : BOOLEAN, addr : Addr, data : Value]
Line == [state : {"I", "S", "M"}, tag : Tag, data : LineData]

ASSUME NoneAssumption == None \notin Value \cup Request

VARIABLES
  request,     \* [Cache -> Request or None]: c0_req_*, c1_req_*
  ctrl_state,  \* "IDLE", "EXECUTE" or "RESPOND"
  rr_select,   \* the cache that wins when both request
  owner,       \* req_owner_q
  req,         \* req_write_q, req_addr_q, req_wdata_q
  rsp_data,    \* rsp_data_q
  rsp_valid,   \* c0_rsp_valid, c1_rsp_valid
  rsp_rdata,   \* c0_rsp_rdata, c1_rsp_rdata
  line,        \* line_state, line_tag, line_data
  backing_mem  \* [Tag -> [Index -> LineData]]

ctrlVars == <<ctrl_state, rr_select, owner, req>>
rspVars  == <<rsp_data, rsp_valid, rsp_rdata>>
vars == <<request, ctrl_state, rr_select, owner, req, rsp_data, rsp_valid,
          rsp_rdata, line, backing_mem>>

(* Every register holds one of the values the controller knows: line_state *)
(* is never 2'b11, which the hit logic takes for a valid line and the      *)
(* victim and intervention logic for a clean one, and ctrl_state is never  *)
(* the fourth value of its two bits.                                       *)
TypeOK == /\ request \in [Cache -> Request \cup {None}]
          /\ ctrl_state \in {"IDLE", "EXECUTE", "RESPOND"}
          /\ rr_select \in Cache
          /\ owner \in Cache
          /\ req \in Request
          /\ rsp_data \in Value
          /\ rsp_valid \in [Cache -> BOOLEAN]
          /\ rsp_rdata \in [Cache -> Value]
          /\ line \in [Cache -> [Index -> Line]]
          /\ backing_mem \in [Tag -> [Index -> LineData]]

-----------------------------------------------------------------------------
ZeroLine == [state |-> "I", tag |-> 0, data |-> [w \in Word |-> 0]]
ZeroRequest == [write |-> FALSE, data |-> 0,
                addr |-> [tag |-> 0, index |-> CHOOSE i \in Index : TRUE,
                          word |-> CHOOSE w \in Word : TRUE]]

(* The registers start as rst_n leaves them; the backing memory has no     *)
(* reset value and powers up with any contents.                            *)
Init == /\ request = [c \in Cache |-> None]
        /\ ctrl_state = "IDLE"
        /\ rr_select = 0
        /\ owner = 0
        /\ req = ZeroRequest
        /\ rsp_data = 0
        /\ rsp_valid = [c \in Cache |-> FALSE]
        /\ rsp_rdata = [c \in Cache |-> 0]
        /\ line = [c \in Cache |-> [i \in Index |-> ZeroLine]]
        /\ backing_mem \in [Tag -> [Index -> LineData]]

(* A reset at any time: every register, but not the backing memory.        *)
Reset == /\ request' = [c \in Cache |-> None]
         /\ ctrl_state' = "IDLE"
         /\ rr_select' = 0
         /\ owner' = 0
         /\ req' = ZeroRequest
         /\ rsp_data' = 0
         /\ rsp_valid' = [c \in Cache |-> FALSE]
         /\ rsp_rdata' = [c \in Cache |-> 0]
         /\ line' = [c \in Cache |-> [i \in Index |-> ZeroLine]]
         /\ UNCHANGED backing_mem

-----------------------------------------------------------------------------
(* A requester raises a request and holds it until it is accepted; like    *)
(* the store buffer's port_busy it has one operation outstanding.          *)
Present(c) == /\ request[c] = None /\ ~rsp_valid[c]
              /\ ctrl_state = "IDLE" \/ owner # c
              /\ \E r \in Request : /\ r.write \/ r.data = 0
                                    /\ request' = [request EXCEPT ![c] = r]
              /\ UNCHANGED <<ctrlVars, rspVars, line, backing_mem>>

(* The testbench loads memory through mem_init after a reset, before the   *)
(* first request; the port writes in CTRL_IDLE only.                       *)
MemInit == /\ ctrl_state = "IDLE"
           /\ \A c \in Cache : /\ request[c] = None /\ ~rsp_valid[c]
                               /\ \A i \in Index : line[c][i].state = "I"
           /\ \E a \in Addr, v \in Value :
                backing_mem' = [backing_mem EXCEPT ![a.tag][a.index][a.word] = v]
           /\ UNCHANGED <<request, ctrlVars, rspVars, line>>

(* The responses still pending after an edge at which the caches in ready  *)
(* assert rsp_ready.                                                       *)
Left(ready) == [c \in Cache |-> rsp_valid[c] /\ c \notin ready]

(* Defect: the controller accepts beside a pending response.               *)
ReqReadyEarly(c) == /\ ctrl_state = "IDLE"
                    /\ request[Other(c)] = None \/ rr_select = c

(* Defect: cache 0 always wins.                                            *)
ReqReadyFixed(c) == /\ ctrl_state = "IDLE"
                    /\ \A d \in Cache : ~rsp_valid[d]
                    /\ request[Other(c)] = None \/ c = 0

ReqReady(c) == /\ ctrl_state = "IDLE"
               /\ \A d \in Cache : ~rsp_valid[d]
               /\ request[Other(c)] = None \/ rr_select = c

Accept(c, ready) == /\ request[c] # None /\ ReqReady(c)
                    /\ owner' = c
                    /\ req' = request[c]
                    /\ rr_select' = Other(c)
                    /\ ctrl_state' = "EXECUTE"
                    /\ request' = [request EXCEPT ![c] = None]
                    /\ rsp_valid' = Left(ready)
                    /\ UNCHANGED <<rsp_data, rsp_rdata, line, backing_mem>>

(* CTRL_IDLE with nothing to accept: only a response can leave.            *)
TakeResponse(ready) == /\ ctrl_state = "IDLE"
                       /\ \E c \in ready : rsp_valid[c]
                       /\ rsp_valid' = Left(ready)
                       /\ UNCHANGED <<request, ctrlVars, rsp_data, rsp_rdata,
                                      line, backing_mem>>

-----------------------------------------------------------------------------
Hit(c) == LET l == line[c][req.addr.index]
          IN  l.state # "I" /\ l.tag = req.addr.tag

Held(c) == line[c][req.addr.index]

(* Defect (COH_MUT_STALE_INTERVENTION): a miss is filled from memory.      *)
FillDataStale == IF Hit(owner) THEN Held(owner).data
                 ELSE backing_mem[req.addr.tag][req.addr.index]

(* The line the owner works on: its own, the other cache's, or memory's.   *)
FillData == IF Hit(owner) THEN Held(owner).data
            ELSE IF Hit(Other(owner)) THEN Held(Other(owner)).data
            ELSE backing_mem[req.addr.tag][req.addr.index]

(* Defect (COH_MUT_SKIP_DIRTY_VICTIM_WB).                                  *)
VictimDropped(m) == m

(* A modified victim is committed before its slot is reused ...            *)
VictimWriteback(m) ==
  IF ~Hit(owner) /\ Held(owner).state = "M"
  THEN [m EXCEPT ![Held(owner).tag][req.addr.index] = Held(owner).data]
  ELSE m

(* Defect: a modified copy is not committed.                               *)
InterventionSkipped(m) == m

(* ... and a modified copy of the other cache is committed on a miss.      *)
Intervention(m) ==
  IF ~Hit(owner) /\ Hit(Other(owner)) /\ Held(Other(owner)).state = "M"
  THEN [m EXCEPT ![req.addr.tag][req.addr.index] = Held(Other(owner)).data]
  ELSE m

OwnerLine ==
  IF req.write
  THEN [state |-> "M", tag |-> req.addr.tag,
        data |-> [FillData EXCEPT ![req.addr.word] = req.data]]
  ELSE IF Hit(owner) THEN Held(owner)
  ELSE [state |-> "S", tag |-> req.addr.tag, data |-> FillData]

(* Defect: a downgrade sets the bit of S and leaves that of M, so that     *)
(* line_state holds the encoding 2'b11.                                    *)
OtherLineBitSet ==
  LET l == Held(Other(owner))
  IN  IF ~Hit(Other(owner)) THEN l
      ELSE IF req.write THEN [l EXCEPT !.state = "I"]
      ELSE IF Hit(owner) THEN l
      ELSE [l EXCEPT !.state = IF l.state = "M" THEN "MS" ELSE "S"]

OtherLine ==
  LET l == Held(Other(owner))
  IN  IF ~Hit(Other(owner)) THEN l
      ELSE IF req.write THEN [l EXCEPT !.state = "I"]
      ELSE IF Hit(owner) THEN l
      ELSE [l EXCEPT !.state = "S"]

Execute(ready) ==
  /\ ctrl_state = "EXECUTE"
  /\ backing_mem' = Intervention(VictimWriteback(backing_mem))
  /\ line' = [c \in Cache |-> [line[c] EXCEPT ![req.addr.index] =
                                 IF c = owner THEN OwnerLine ELSE OtherLine]]
  /\ rsp_data' = IF req.write THEN req.data ELSE FillData[req.addr.word]
  /\ ctrl_state' = "RESPOND"
  /\ rsp_valid' = Left(ready)
  /\ UNCHANGED <<request, rr_select, owner, req, rsp_rdata>>

Respond(ready) ==
  /\ ctrl_state = "RESPOND"
  /\ IF rsp_valid[owner]
     THEN rsp_valid' = Left(ready) /\ UNCHANGED rsp_rdata
     ELSE /\ rsp_valid' = [Left(ready) EXCEPT ![owner] = TRUE]
          /\ rsp_rdata' = [rsp_rdata EXCEPT ![owner] = rsp_data]
  /\ ctrl_state' = IF rsp_valid[owner] /\ owner \notin ready
                   THEN "RESPOND" ELSE "IDLE"
  /\ UNCHANGED <<request, rr_select, owner, req, rsp_data, line, backing_mem>>

-----------------------------------------------------------------------------
Edge(ready) == \/ \E c \in Cache : Accept(c, ready)
               \/ TakeResponse(ready)
               \/ Execute(ready)
               \/ Respond(ready)

Step == \/ MemInit
        \/ \E c \in Cache : Present(c)
        \/ \E ready \in SUBSET Cache : Edge(ready)

Next == Step \/ Reset

Spec == Init /\ [][Next]_vars

(* The clock never stops, and a requester that waits for a response keeps  *)
(* rsp_ready high (coherent_axi_qos_transport.sv drives it in T_WAIT).     *)
(* No requester has to raise a request, and a reset may come at any time.  *)
LiveSpec == Spec /\ WF_vars(Edge(Cache))

-----------------------------------------------------------------------------
Holds(c, t, i) == line[c][i].state # "I" /\ line[c][i].tag = t
Owns(c, t, i)  == line[c][i].state = "M" /\ line[c][i].tag = t

(* A cache that holds a line modified holds it alone.  The assertion       *)
(* a_single_modified_owner (line 243) excludes two modified copies; this   *)
(* also excludes a shared copy beside a modified one.                      *)
ModifiedIsExclusive ==
  \A c \in Cache, t \in Tag, i \in Index :
    Owns(c, t, i) => ~Holds(Other(c), t, i)

(* A shared copy equals the backing memory, word for word, so two shared   *)
(* copies agree and a shared victim may be dropped without a writeback.    *)
SharedIsClean ==
  \A c \in Cache, i \in Index :
    line[c][i].state = "S" => line[c][i].data = backing_mem[line[c][i].tag][i]

(* The caches agree: one owner or clean sharers of every line.             *)
CachesCoherent == ModifiedIsExclusive /\ SharedIsClean

(* One transaction is in flight from acceptance to the end of its          *)
(* response: the two response channels are never valid together            *)
(* (a_response_owner_exclusive, line 250), nor one while the controller    *)
(* works on another request, so rsp_data_q is never overwritten, and a     *)
(* response is never taken for that of the requester's next request.       *)
OneTransaction ==
  /\ ctrl_state # "IDLE" => /\ request[owner] = None
                            /\ \A c \in Cache : ~rsp_valid[c]
  /\ \A c \in Cache :
       rsp_valid[c] => request[c] = None /\ ~rsp_valid[Other(c)]

(* Except at a reset, a modified line that stops being modified anywhere   *)
(* has its data in the backing memory: neither the eviction of a dirty     *)
(* victim (lines 154-162) nor an intervention (171-178) loses a store.     *)
DirtyDataSurvives ==
  [][\/ Reset
     \/ \A c \in Cache, t \in Tag, i \in Index :
          Owns(c, t, i) /\ (\A d \in Cache : ~Owns(d, t, i)')
            => backing_mem'[t][i] = line[c][i].data]_vars

Waiting(c) == request[c] # None \/ (ctrl_state # "IDLE" /\ owner = c)

(* Unless resets go on for ever, no request waits for ever for its turn    *)
(* and its response, whatever the other cache's requester does: rr_select  *)
(* (lines 92-95, 140, 147) lets no one starve.                             *)
EveryRequestAnswered ==
  \A c \in Cache : <>[][~Reset]_vars => []<>~Waiting(c)

-----------------------------------------------------------------------------
(* The current contents of memory: the modified copy if there is one.      *)
CurrentWord(a) ==
  IF \E c \in Cache : Owns(c, a.tag, a.index)
  THEN LET c == CHOOSE d \in Cache : Owns(d, a.tag, a.index)
       IN  line[c][a.index].data[a.word]
  ELSE backing_mem[a.tag][a.index][a.word]

Operation(c) == IF request[c] # None THEN request[c]
                ELSE IF ctrl_state = "EXECUTE" /\ owner = c THEN req
                ELSE None

Reply(c) == IF rsp_valid[c] THEN rsp_rdata[c]
            ELSE IF ctrl_state = "RESPOND" /\ owner = c THEN rsp_data
            ELSE None

Serial == INSTANCE SerialMemory WITH
            Hart    <- Cache,
            mem     <- [a \in Addr |-> CurrentWord(a)],
            durable <- [a \in Addr |-> backing_mem[a.tag][a.index][a.word]],
            op      <- [c \in Cache |-> Operation(c)],
            reply   <- [c \in Cache |-> Reply(c)]

(* The two caches behave as one memory whose operations are atomic, and a  *)
(* reset loses nothing but what was modified in a cache.                   *)
RefinesSerialMemory == Serial!SSpec
=============================================================================
