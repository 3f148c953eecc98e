---------------------------- MODULE BlockingCache ----------------------------
(***************************************************************************)
(* rtl/l1_dcache_top.sv: the blocking write-back, write-allocate L1 data   *)
(* cache with its maintenance sequencer, and the AXI4 memory behind it.    *)
(*                                                                         *)
(* One action is one rising clock edge of the always_ff block at which     *)
(* something happens (an edge that waits is a stutter), or the reset.  One *)
(* AXI beat carries one word here, two in the code.  A register that is    *)
(* written before it is read again (the request, the victim, the refill    *)
(* buffer) is shown at its rest value when the operation using it is over. *)
(* Left out: req_id_q, the parity and SECDED arrays and the mon_* outputs. *)
(***************************************************************************)
EXTENDS Naturals

CONSTANTS Sets, Ways,   \* the geometry
          Beats,        \* beats, and words, of a line
          Tag,          \* the tags of the lines in use
          Lane,         \* the byte lanes of a word
          MaxByte,      \* the byte with every bit set
          Command,      \* the maintenance opcodes in use
          None          \* no request, no response, no victim, no command

ASSUME GeometryAssumption == Ways \in {1, 2} /\ Sets \in Nat \ {0}
ASSUME BeatsAssumption == Beats \in Nat \ {0}
ASSUME TagAssumption == Tag # {}
ASSUME MaxByteAssumption == MaxByte \in Nat \ {0}
ASSUME CommandAssumption == Command \subseteq 0..3

Set  == 0 .. Sets - 1
Way  == 0 .. Ways - 1
Beat == 0 .. Beats - 1
Byte == 0 .. MaxByte
Word == [Lane -> Byte]
Zero == [l \in Lane |-> 0]
Ones == [l \in Lane |-> MaxByte]
Addr == [tag : Tag, set : Set, word : Beat]
Request == [write : BOOLEAN, aligned : BOOLEAN, addr : Addr, data : Word,
            strobe : SUBSET Lane]
Response == [data : Word, error : BOOLEAN]
LineData == [Beat -> Word]
Line == [valid : BOOLEAN, dirty : BOOLEAN, tag : Tag, data : LineData]
Victim == [way : Way, set : Set, tag : Tag]
Maintenance == [cmd : Command, set : Set, way : Way, error : BOOLEAN,
                phase : 0..4, word : Beat]
State == {"IDLE", "LOOKUP", "REPLAY", "WB_AW", "WB_W", "WB_B", "REFILL_AR",
          "REFILL_R", "REFILL_FINISH", "RESPONSE", "MAINT_SCAN",
          "MAINT_WB_AW", "MAINT_WB_W", "MAINT_WB_B"}

ASSUME NoneAssumption ==
  None \notin Request \cup Response \cup Victim \cup Maintenance \cup Command

VARIABLES
  state,         \* state
  req,           \* req_*_q, or None
  rsp,           \* cpu_rsp_rdata and cpu_rsp_error while cpu_rsp_valid, or None
  line,          \* valid_bits, dirty_bits, tags, data_mem
  lru,           \* lru
  victim,        \* victim_way, victim_set and the tag of wb_addr_q, or None
  beat,          \* wb_beat or refill_beat: one burst is open at a time
  refill_buf,    \* refill_buf
  refill_error,  \* refill_error
  maint,         \* maint_*_q, bist_phase, bist_word, or None
  maint_error,   \* maint_error
  memory,        \* the AXI memory
  wb_failed      \* the AXI memory dropped a beat of the open write burst

cpuVars   == <<req, rsp>>
arrayVars == <<line, lru>>
burstVars == <<victim, beat, refill_buf, refill_error>>
maintVars == <<maint, maint_error>>
axiVars   == <<memory, wb_failed>>
vars == <<state, cpuVars, arrayVars, burstVars, maintVars, axiVars>>

TypeOK == /\ state \in State
          /\ req \in Request \cup {None}
          /\ rsp \in Response \cup {None}
          /\ line \in [Way -> [Set -> Line]]
          /\ lru \in [Set -> {0, 1}]
          /\ victim \in Victim \cup {None}
          /\ beat \in Beat
          /\ refill_buf \in LineData
          /\ refill_error \in BOOLEAN
          /\ maint \in Maintenance \cup {None}
          /\ maint_error \in BOOLEAN
          /\ memory \in [Tag -> [Set -> LineData]]
          /\ wb_failed \in BOOLEAN

-----------------------------------------------------------------------------
ZeroData == [b \in Beat |-> Zero]
PowerUpLine == [valid |-> FALSE, dirty |-> FALSE, tag |-> CHOOSE t \in Tag : TRUE,
                data |-> ZeroData]

(* Tags and data have no reset value; they are read only behind a valid or *)
(* dirty bit, so one power-up value stands for all.                        *)
Init == /\ state = "IDLE"
        /\ req = None /\ rsp = None
        /\ line = [w \in Way |-> [s \in Set |-> PowerUpLine]]
        /\ lru = [s \in Set |-> 0]
        /\ victim = None /\ beat = 0
        /\ refill_buf = ZeroData /\ refill_error = FALSE
        /\ maint = None /\ maint_error = FALSE
        /\ memory \in [Tag -> [Set -> LineData]]
        /\ wb_failed = FALSE

Reset == /\ state' = "IDLE"
         /\ req' = None /\ rsp' = None
         /\ line' = [w \in Way |-> [s \in Set |->
                       [line[w][s] EXCEPT !.valid = FALSE, !.dirty = FALSE]]]
         /\ lru' = [s \in Set |-> 0]
         /\ victim' = None /\ beat' = 0
         /\ refill_buf' = ZeroData /\ refill_error' = FALSE
         /\ maint' = None /\ maint_error' = FALSE
         /\ wb_failed' = FALSE
         /\ UNCHANGED memory

-----------------------------------------------------------------------------
(* ST_IDLE: maintenance goes first (cpu_req_ready is low beside            *)
(* maint_valid); a load carries no data.                                   *)
AcceptMaintenance(cmd) ==
  /\ state = "IDLE"
  /\ maint' = [cmd |-> cmd, set |-> 0, way |-> 0, error |-> FALSE,
               phase |-> 0, word |-> 0]
  /\ maint_error' = FALSE
  /\ state' = "MAINT_SCAN"
  /\ UNCHANGED <<cpuVars, arrayVars, burstVars, axiVars>>

AcceptRequest(r) ==
  /\ state = "IDLE"
  /\ ~r.write => r.data = Zero /\ r.strobe = {}
  /\ req' = r
  /\ state' = "LOOKUP"
  /\ UNCHANGED <<rsp, arrayVars, burstVars, maintVars, axiVars>>

Respond(data, error) == /\ rsp' = [data |-> data, error |-> error]
                        /\ req' = None
                        /\ state' = "RESPONSE"

EndBurst == /\ victim' = None /\ beat' = 0
            /\ refill_buf' = ZeroData /\ refill_error' = FALSE

(* ST_RESPONSE *)
TakeResponse == /\ state = "RESPONSE"
                /\ rsp' = None
                /\ state' = "IDLE"
                /\ UNCHANGED <<req, arrayVars, burstVars, maintVars, axiVars>>

-----------------------------------------------------------------------------
(* ST_LOOKUP and ST_REPLAY *)
(* Defect: the second way's tag is not compared.                           *)
HitWaysFirst == {w \in {0} : /\ line[w][req.addr.set].valid
                             /\ line[w][req.addr.set].tag = req.addr.tag}

HitWays == {w \in Way : /\ line[w][req.addr.set].valid
                        /\ line[w][req.addr.set].tag = req.addr.tag}
HitWay == IF 1 \in HitWays THEN 1 ELSE 0

LookupVictim ==
  LET free == {w \in Way : ~line[w][req.addr.set].valid}
  IN  IF free = {} THEN lru[req.addr.set] ELSE IF 0 \in free THEN 0 ELSE 1

Use(way) == lru' = IF Ways = 2 THEN [lru EXCEPT ![req.addr.set] = 1 - way]
                   ELSE lru

Merge(old, new, strobe) == [l \in Lane |-> IF l \in strobe THEN new[l] ELSE old[l]]

(* Defect: a store leaves the line clean (CACHE_BUG_DIRTY_SKIP).           *)
StoredClean(l) ==
  [l EXCEPT !.data[req.addr.word] = Merge(@, req.data, req.strobe)]

Stored(l) == [l EXCEPT !.data[req.addr.word] = Merge(@, req.data, req.strobe),
                       !.dirty = TRUE]

Looking == state \in {"LOOKUP", "REPLAY"}

Misaligned == /\ Looking /\ ~req.aligned
              /\ Respond(Zero, TRUE)
              /\ UNCHANGED <<arrayVars, burstVars, maintVars, axiVars>>

Hit == /\ Looking /\ req.aligned /\ HitWays # {}
       /\ LET s == req.addr.set
          IN  IF req.write
              THEN /\ line' = [line EXCEPT ![HitWay][s] = Stored(@)]
                   /\ Respond(Zero, FALSE)
              ELSE /\ Respond(line[HitWay][s].data[req.addr.word], FALSE)
                   /\ UNCHANGED line
       /\ Use(HitWay)
       /\ UNCHANGED <<burstVars, maintVars, axiVars>>

(* A replacement writes a line back only if it is valid ...                *)
NeedsWriteback(l) == l.valid /\ l.dirty

Miss == /\ Looking /\ req.aligned /\ HitWays = {}
        /\ LET s == req.addr.set
               l == line[LookupVictim][s]
           IN  /\ victim' = [way |-> LookupVictim, set |-> s, tag |-> l.tag]
               /\ state' = IF NeedsWriteback(l) THEN "WB_AW" ELSE "REFILL_AR"
        /\ beat' = 0 /\ refill_error' = FALSE
        /\ UNCHANGED <<cpuVars, arrayVars, refill_buf, maintVars, axiVars>>

-----------------------------------------------------------------------------
(* The write burst, of a replacement ("") or of the maintenance sequencer  *)
(* ("MAINT_"): both read the victim's line as it is at each beat.  The AXI *)
(* memory may drop a beat, and then answers with an error; it may also     *)
(* answer with an error after it has stored every beat, as the testbench's *)
(* memory does.                                                            *)
WriteAddress ==
  /\ \/ state = "WB_AW" /\ state' = "WB_W"
     \/ state = "MAINT_WB_AW" /\ state' = "MAINT_WB_W"
  /\ UNCHANGED <<cpuVars, arrayVars, burstVars, maintVars, axiVars>>

StoreBeat(stored) ==
  /\ memory' = IF stored
               THEN [memory EXCEPT ![victim.tag][victim.set][beat] =
                                      line[victim.way][victim.set].data[beat]]
               ELSE memory
  /\ wb_failed' = (wb_failed \/ ~stored)

LastBeat == beat = Beats - 1

WriteBeat(stored) ==
  /\ state \in {"WB_W", "MAINT_WB_W"}
  /\ StoreBeat(stored)
  /\ beat' = IF LastBeat THEN 0 ELSE beat + 1
  /\ state' = IF ~LastBeat THEN state
              ELSE IF state = "WB_W" THEN "WB_B" ELSE "MAINT_WB_B"
  /\ UNCHANGED <<cpuVars, arrayVars, victim, refill_buf, refill_error, maintVars>>

Cleaned == [line EXCEPT ![victim.way][victim.set].dirty = FALSE]

(* ST_WB_B: a failed writeback ends the request with an error and keeps    *)
(* the victim.                                                             *)
WriteResponse(ok) ==
  /\ state = "WB_B"
  /\ ok => ~wb_failed
  /\ wb_failed' = FALSE
  /\ IF ok
     THEN /\ line' = Cleaned
          /\ state' = "REFILL_AR"
          /\ beat' = 0 /\ refill_error' = FALSE
          /\ UNCHANGED <<cpuVars, victim, refill_buf>>
     ELSE Respond(Zero, TRUE) /\ EndBurst /\ UNCHANGED line
  /\ UNCHANGED <<lru, maintVars, memory>>

-----------------------------------------------------------------------------
RefillAddress == /\ state = "REFILL_AR"
                 /\ state' = "REFILL_R"
                 /\ UNCHANGED <<cpuVars, arrayVars, burstVars, maintVars, axiVars>>

(* Defect: only the last beat's response counts.                           *)
RefillFailedLast(error) == error

RefillFailed(error) == refill_error \/ error

(* A beat answered with an error carries any data.                         *)
RefillBeat(data, error) ==
  /\ state = "REFILL_R"
  /\ error \/ data = memory[req.addr.tag][req.addr.set][beat]
  /\ refill_buf' = [refill_buf EXCEPT ![beat] = data]
  /\ refill_error' = RefillFailed(error)
  /\ IF beat = Beats - 1
     THEN state' = "REFILL_FINISH" /\ UNCHANGED beat
     ELSE beat' = beat + 1 /\ UNCHANGED state
  /\ UNCHANGED <<cpuVars, arrayVars, victim, maintVars, axiVars>>

RefillFinish ==
  /\ state = "REFILL_FINISH"
  /\ IF refill_error
     THEN Respond(Zero, TRUE) /\ UNCHANGED <<line, lru>>
     ELSE /\ line' = [line EXCEPT ![victim.way][victim.set] =
                        [valid |-> TRUE, dirty |-> FALSE, tag |-> req.addr.tag,
                         data |-> refill_buf]]
          /\ Use(victim.way)
          /\ state' = "REPLAY"
          /\ UNCHANGED <<req, rsp>>
  /\ EndBurst
  /\ UNCHANGED <<maintVars, axiVars>>

-----------------------------------------------------------------------------
(* The maintenance sequencer: opcode 0 is FLUSH, 1 INVALIDATE, 2           *)
(* FLUSH_INVALIDATE, 3 the built-in self-test.                             *)
(* Defect: the scan runs one set too far.                                  *)
LastLineBeyond == maint.set = Sets /\ maint.way = Ways - 1

LastLine == maint.set = Sets - 1 /\ maint.way = Ways - 1

Advanced == IF maint.way = Ways - 1
            THEN [maint EXCEPT !.way = 0, !.set = @ + 1]
            ELSE [maint EXCEPT !.way = @ + 1]

(* Leave the current line: the command is over at the last one.            *)
NextLine(error) == IF LastLine
                   THEN /\ maint' = None /\ maint_error' = error
                        /\ state' = "IDLE"
                   ELSE /\ maint' = [Advanced EXCEPT !.error = error]
                        /\ state' = "MAINT_SCAN"
                        /\ UNCHANGED maint_error

Scanned == line[maint.way][maint.set]

(* ... but the sequencer asks for the dirty bit alone.                     *)
MustFlush == Scanned.dirty /\ maint.cmd # 1

ScanWriteback ==
  /\ state = "MAINT_SCAN" /\ maint.cmd # 3
  /\ MustFlush
  /\ victim' = [way |-> maint.way, set |-> maint.set, tag |-> Scanned.tag]
  /\ beat' = 0
  /\ state' = "MAINT_WB_AW"
  /\ UNCHANGED <<cpuVars, arrayVars, refill_buf, refill_error, maintVars, axiVars>>

ScanNext ==
  /\ state = "MAINT_SCAN" /\ maint.cmd # 3
  /\ ~MustFlush
  /\ line' = IF maint.cmd = 0 THEN line
             ELSE [line EXCEPT ![maint.way][maint.set].valid = FALSE]
  /\ NextLine(maint.error)
  /\ UNCHANGED <<cpuVars, lru, burstVars, axiVars>>

(* Defects: FLUSH_INVALIDATE clears the valid bit alone; an error is       *)
(* forgotten when a later writeback succeeds.                              *)
FlushedStale(ok) ==
  IF ~ok THEN line
  ELSE IF maint.cmd = 2
  THEN [line EXCEPT ![victim.way][victim.set].valid = FALSE]
  ELSE Cleaned
MaintenanceFailedLast(ok) == ~ok

Flushed(ok) ==
  IF ~ok THEN line
  ELSE IF maint.cmd = 2
  THEN [Cleaned EXCEPT ![victim.way][victim.set].valid = FALSE]
  ELSE Cleaned

MaintenanceFailed(ok) == maint.error \/ ~ok

(* Defect: a failed writeback is tried again without end.                  *)
MaintenanceWriteResponseRetry(ok) ==
  /\ state = "MAINT_WB_B"
  /\ ok => ~wb_failed
  /\ wb_failed' = FALSE
  /\ line' = Flushed(ok)
  /\ IF ok THEN NextLine(MaintenanceFailed(ok))
           ELSE state' = "MAINT_SCAN" /\ UNCHANGED maintVars
  /\ EndBurst
  /\ UNCHANGED <<cpuVars, lru, memory>>

MaintenanceWriteResponse(ok) ==
  /\ state = "MAINT_WB_B"
  /\ ok => ~wb_failed
  /\ wb_failed' = FALSE
  /\ line' = Flushed(ok)
  /\ NextLine(MaintenanceFailed(ok))
  /\ EndBurst
  /\ UNCHANGED <<cpuVars, lru, memory>>

-----------------------------------------------------------------------------
(* Opcode 3 marches over every word of every line, once per phase: phase 0 *)
(* checks parity, 1 writes zeros, 2 and 3 read and write the complement, 4 *)
(* reads zeros and invalidates.                                            *)
BistExpected == IF maint.phase = 3 THEN Ones ELSE Zero

BistMismatch == maint.phase >= 2 /\ Scanned.data[maint.word] # BistExpected

BistLine ==
  LET l == IF maint.phase \in 1..3
           THEN [Scanned EXCEPT !.data[maint.word] =
                                   IF maint.phase = 2 THEN Ones ELSE Zero]
           ELSE Scanned
  IN  IF maint.phase = 4 /\ maint.word = Beats - 1
      THEN [l EXCEPT !.valid = FALSE, !.dirty = FALSE]
      ELSE l

BistNext ==
  LET m == [maint EXCEPT !.error = @ \/ BistMismatch]
  IN  IF maint.word # Beats - 1
      THEN maint' = [m EXCEPT !.word = @ + 1] /\ UNCHANGED <<state, maint_error>>
      ELSE IF ~LastLine
      THEN /\ maint' = [Advanced EXCEPT !.error = m.error, !.word = 0]
           /\ UNCHANGED <<state, maint_error>>
      ELSE IF maint.phase # 4
      THEN /\ maint' = [m EXCEPT !.phase = @ + 1, !.word = 0, !.way = 0, !.set = 0]
           /\ UNCHANGED <<state, maint_error>>
      ELSE maint' = None /\ maint_error' = m.error /\ state' = "IDLE"

Bist == /\ state = "MAINT_SCAN" /\ maint.cmd = 3
        /\ line' = [line EXCEPT ![maint.way][maint.set] = BistLine]
        /\ BistNext
        /\ UNCHANGED <<cpuVars, lru, burstVars, axiVars>>

-----------------------------------------------------------------------------
Accept == \/ \E cmd \in Command : AcceptMaintenance(cmd)
          \/ \E r \in Request : AcceptRequest(r)

Serve == \/ Misaligned \/ Hit \/ Miss
         \/ WriteAddress
         \/ \E stored \in BOOLEAN : WriteBeat(stored)
         \/ \E ok \in BOOLEAN : WriteResponse(ok) \/ MaintenanceWriteResponse(ok)
         \/ RefillAddress
         \/ \E data \in Word, error \in BOOLEAN : RefillBeat(data, error)
         \/ RefillFinish
         \/ TakeResponse
         \/ ScanWriteback \/ ScanNext \/ Bist

Step == Accept \/ Serve

Next == Step \/ Reset

Spec == Init /\ [][Next]_vars

(* The clock runs, the AXI memory answers every beat and the CPU takes its *)
(* response (sim/tb_l1_dcache.sv bounds every stall); nobody has to ask    *)
(* anything of the cache, and a reset may come at any time.                *)
LiveSpec == Spec /\ WF_vars(Serve)

-----------------------------------------------------------------------------
Present(w, t, s) == line[w][s].valid /\ line[w][s].tag = t

SelfTesting == maint # None /\ maint.cmd = 3 /\ maint.phase # 0

(* No line is in both ways: hit_way prefers way 1, so a second copy would  *)
(* hide the stores to the first.                                           *)
OneCopy == \A v, w \in Way, t \in Tag, s \in Set :
             Present(v, t, s) /\ Present(w, t, s) => v = w

(* A valid line that is not dirty equals the memory behind it, so that it  *)
(* may be replaced without a writeback (lines 479-488), whatever bursts    *)
(* failed before.  The self-test overwrites the lines it then discards.    *)
CleanMatchesMemory ==
  \A w \in Way, s \in Set :
    line[w][s].valid /\ ~line[w][s].dirty /\ ~SelfTesting
      => line[w][s].data = memory[line[w][s].tag][s]

(* A write burst carries a line that is valid, dirty and still the one     *)
(* whose address was sent: model/cache_reference.cpp:170, the scoreboard's *)
(* reference, writes back "valid && dirty" lines.                          *)
WritebackCarriesLine ==
  state \in {"WB_AW", "WB_W", "WB_B", "MAINT_WB_AW", "MAINT_WB_W", "MAINT_WB_B"}
    => LET l == line[victim.way][victim.set]
       IN  l.valid /\ l.dirty /\ l.tag = victim.tag

(* Whatever the cache has accepted, it finishes: a request is answered and *)
(* a command ends, also when every burst fails.                            *)
EveryOperationEnds == state # "IDLE" ~> state = "IDLE"

-----------------------------------------------------------------------------
(* The memory the CPU sees: the line that hits, or the AXI memory.         *)
Visible(a) ==
  IF ~SelfTesting /\ \E w \in Way : Present(w, a.tag, a.set)
  THEN LET w == CHOOSE v \in Way : Present(v, a.tag, a.set)
       IN  line[w][a.set].data[a.word]
  ELSE memory[a.tag][a.set][a.word]

Seen     == [a \in Addr |-> Visible(a)]
Durable  == [a \in Addr |-> memory[a.tag][a.set][a.word]]
Ordered  == IF maint = None THEN None ELSE maint.cmd

Memory == INSTANCE WriteBackMemory WITH
            mem <- Seen, durable <- Durable, op <- req, reply <- rsp,
            command <- Ordered, command_error <- maint_error

(* The cache and its AXI memory behave as one memory: every request is     *)
(* performed atomically or fails without an effect, memory only catches up *)
(* with what the CPU sees, and a flush that reports no error leaves        *)
(* nothing behind.                                                         *)
RefinesWriteBackMemory == Memory!WSpec
=============================================================================
