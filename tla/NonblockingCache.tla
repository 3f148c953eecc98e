--------------------------- MODULE NonblockingCache ---------------------------
(***************************************************************************)
(* rtl/l1_dcache_nonblocking.sv: the two-way L1 data cache with two miss-  *)
(* status registers (MSHRs), merging of requests to a missing line, one    *)
(* victim buffer and a response FIFO, and the AXI4 memory behind it.       *)
(*                                                                         *)
(* An action is one rising edge of the always_ff block with whatever its   *)
(* ports do at that edge, or the reset: one operator for each register     *)
(* group applies the block's branches in the order of the text, and guards *)
(* read the registers as they were before the edge.  One AXI beat carries  *)
(* one word here, two in the code, and a word has one byte lane.  Left     *)
(* out: the mon_* counters.                                                *)
(***************************************************************************)
EXTENDS Naturals, Sequences

CONSTANTS Line,        \* the lines in use: records [tag, set]
          Beats,       \* beats, and words, of a line
          Value,       \* the contents of a word
          Access,      \* the loads and stores in use
          Id,          \* cpu_req_id
          RspDepth,    \* RSP_DEPTH
          None

ASSUME LineAssumption == \A l \in Line : l = [tag |-> l.tag, set |-> l.set]
ASSUME BeatsAssumption == Beats \in Nat \ {0}
ASSUME ValueAssumption == 0 \in Value
ASSUME RspDepthAssumption == RspDepth \in Nat \ {0}

Entry == {0, 1}         \* MSHRS
Way == {0, 1}           \* WAYS
MergeDepth == 2         \* MERGE_DEPTH
Beat == 0 .. Beats - 1
Set == {l.set : l \in Line}
Tag == {l.tag : l \in Line}
LineData == [Beat -> Value]

ASSUME AccessAssumption ==
  Access \subseteq [write : BOOLEAN, line : Line, word : Beat, data : Value]

Request == {[id |-> i, write |-> a.write, line |-> a.line, word |-> a.word,
             data |-> a.data] : i \in Id, a \in Access}
Response == [id : Id, data : Value, error : BOOLEAN]

VARIABLES
  line,    \* valid_bits, dirty_bits, tags, data_mem
  lru,     \* lru
  mshr,    \* m_*: a record while m_valid, else None
  wb,      \* wb_*: a record while wb_state is not WB_IDLE, else None
  rsp,     \* rsp_*: the response FIFO, oldest first
  memory,  \* the AXI memory
  awaited  \* the CPU's count of the responses it still expects

vars == <<line, lru, mshr, wb, rsp, memory, awaited>>

Cached == [valid : BOOLEAN, dirty : BOOLEAN, tag : Tag, data : LineData]
Mshr == [line : Line, way : Way, reqs : Seq(Request), replay_idx : 0 .. MergeDepth - 1,
         ar_sent : BOOLEAN, need_wb : BOOLEAN, refill_beat : Beat, fill : LineData,
         refill_done : BOOLEAN, install_done : BOOLEAN, error : BOOLEAN]
Writeback == [owner : Entry, line : Line, data : LineData, beat : Beat,
              state : {"AW", "W", "B"}, dropped : BOOLEAN]

(* `dropped' is the AXI memory's: it has not stored every beat of the      *)
(* burst.                                                                  *)
TypeOK == /\ line \in [Way -> [Set -> Cached]]
          /\ lru \in [Set -> {0, 1}]
          /\ \A e \in Entry : mshr[e] # None =>
               mshr[e] \in Mshr /\ Len(mshr[e].reqs) \in 1 .. MergeDepth
          /\ wb \in Writeback \cup {None}
          /\ rsp \in Seq(Response) /\ Len(rsp) <= RspDepth
          /\ memory \in [Line -> LineData]
          /\ awaited \in Nat

-----------------------------------------------------------------------------
ZeroData == [b \in Beat |-> 0]
PowerUp == [valid |-> FALSE, dirty |-> FALSE, tag |-> CHOOSE t \in Tag : TRUE,
            data |-> ZeroData]

Init == /\ line = [w \in Way |-> [s \in Set |-> PowerUp]]
        /\ lru = [s \in Set |-> 0]
        /\ mshr = [e \in Entry |-> None]
        /\ wb = None
        /\ rsp = <<>>
        /\ memory = [l \in Line |-> ZeroData]
        /\ awaited = 0

(* An invalid line's tag and data are not read until they are written.     *)
Reset == /\ line' = [w \in Way |-> [s \in Set |-> PowerUp]]
         /\ lru' = [s \in Set |-> 0]
         /\ mshr' = [e \in Entry |-> None]
         /\ wb' = None
         /\ rsp' = <<>>
         /\ awaited' = 0
         /\ UNCHANGED memory

-----------------------------------------------------------------------------
(* Lookup *)
Busy == {e \in Entry : mshr[e] # None}
First(entries) == CHOOSE e \in entries : \A f \in entries : e <= f

ActiveLine(r) == {e \in Busy : mshr[e].line = r.line}
ActiveSet(r) == {e \in Busy : mshr[e].line.set = r.line.set}

HitWays(r) == {w \in Way : /\ line[w][r.line.set].valid
                           /\ line[w][r.line.set].tag = r.line.tag}
HitWay(r) == IF 1 \in HitWays(r) THEN 1 ELSE 0

VictimWay(r) ==
  LET free == {w \in Way : ~line[w][r.line.set].valid}
  IN  IF free = {} THEN lru[r.line.set] ELSE First(free)
VictimLine(r) == line[VictimWay(r)][r.line.set]
VictimDirty(r) == VictimLine(r).valid /\ VictimLine(r).dirty

(* Defect: the FIFO is filled beyond its depth.                            *)
RspSpaceBeyond == Len(rsp) <= RspDepth

RspSpace == Len(rsp) < RspDepth

Replayable == {e \in Busy : /\ mshr[e].refill_done
                            /\ mshr[e].error \/ mshr[e].install_done}
ReplayEmit == Replayable # {} /\ RspSpace
ReplayEntry == First(Replayable)
ReplayRequest == mshr[ReplayEntry].reqs[mshr[ReplayEntry].replay_idx + 1]

(* Defect: the refill does not wait for the writeback.                     *)
SendableEarly == {e \in Busy : ~mshr[e].ar_sent /\ ~mshr[e].refill_done}

Sendable == {e \in Busy : /\ ~mshr[e].ar_sent /\ ~mshr[e].need_wb
                          /\ ~mshr[e].refill_done}

(* Defects: a request is merged while the replays run; a miss looks for    *)
(* its own line among the MSHRs, not for its set.                          *)
MergesLate(r) == /\ r # None /\ ActiveLine(r) # {}
                 /\ Len(mshr[First(ActiveLine(r))].reqs) < MergeDepth
MissesSameSet(r) == /\ r # None /\ ActiveLine(r) = {}
                    /\ HitWays(r) = {} /\ Busy # Entry
                    /\ VictimDirty(r) => wb = None

(* cpu_req_ready: what accepting r means at this edge.                     *)
Merges(r) == /\ r # None /\ ActiveLine(r) # {}
             /\ LET m == mshr[First(ActiveLine(r))]
                IN  ~m.refill_done /\ Len(m.reqs) < MergeDepth
Hits(r) == /\ r # None /\ ActiveLine(r) = {}
           /\ HitWays(r) # {} /\ RspSpace /\ ~ReplayEmit
Misses(r) == /\ r # None /\ ActiveSet(r) = {}
             /\ HitWays(r) = {} /\ Busy # Entry
             /\ VictimDirty(r) => wb = None
Accepted(r) == r = None \/ Merges(r) \/ Hits(r) \/ Misses(r)

NewEntry == First(Entry \ Busy)

-----------------------------------------------------------------------------
(* The inputs of an edge: r, the request presented and accepted, or None;  *)
(* take, the CPU takes a response; sent, the AXI memory takes a read       *)
(* address; beat, a refill beat [entry, data, error], or None; write, what *)
(* the AXI memory does with the write channel: it waits, goes on, or drops *)
(* the beat or answers with an error.                                      *)
ReadBeat == [entry : Entry, data : Value, error : BOOLEAN]
WriteAnswer == {"wait", "ok", "error"}

ASSUME NoneAssumption == /\ None \notin Request /\ None \notin Mshr
                         /\ None \notin Writeback /\ None \notin ReadBeat

(* A read burst is open from its address to its last beat; a beat answered *)
(* with an error carries any data, which nothing uses.                     *)
Offered(beat) ==
  LET m == mshr[beat.entry]
  IN  /\ m # None
      /\ m.ar_sent /\ ~m.refill_done
      /\ beat.data = IF beat.error THEN 0 ELSE memory[m.line][m.refill_beat]

ReadAddress(sent) == sent => Sendable # {}
WriteChannel(write) ==
  /\ wb = None => write = "wait"
  /\ wb # None => /\ wb.state = "AW" => write # "error"
                  /\ wb.state = "B" /\ wb.dropped => write # "ok"
Taken(take) == take => rsp # <<>>

WriteResponse(write) == wb # None /\ wb.state = "B" /\ write # "wait"

-----------------------------------------------------------------------------
(* The MSHRs *)
Allocated(r) == [line |-> r.line, way |-> VictimWay(r), reqs |-> <<r>>,
                 replay_idx |-> 0, ar_sent |-> FALSE, need_wb |-> VictimDirty(r),
                 refill_beat |-> 0, fill |-> ZeroData, refill_done |-> FALSE,
                 install_done |-> FALSE, error |-> FALSE]

MshrAccepts(e, m, r) ==
  IF Merges(r) /\ e = First(ActiveLine(r)) THEN [m EXCEPT !.reqs = Append(@, r)]
  ELSE IF Misses(r) /\ e = NewEntry THEN Allocated(r)
  ELSE m

MshrSends(e, m, sent) ==
  IF sent /\ e = First(Sendable) THEN [m EXCEPT !.ar_sent = TRUE] ELSE m

MshrFills(e, m, beat) ==
  IF beat # None /\ beat.entry = e
  THEN [m EXCEPT !.fill[m.refill_beat] = beat.data,
                 !.error = @ \/ beat.error,
                 !.refill_done = m.refill_beat = Beats - 1,
                 !.refill_beat = IF m.refill_beat = Beats - 1 THEN 0 ELSE @ + 1]
  ELSE m

Installs(e) == /\ mshr[e] # None
               /\ mshr[e].refill_done /\ ~mshr[e].error /\ ~mshr[e].install_done

MshrInstalls(e, m) == IF Installs(e)
                      THEN [m EXCEPT !.install_done = TRUE, !.fill = ZeroData]
                      ELSE m

MshrReplays(e, m) ==
  IF ReplayEmit /\ e = ReplayEntry
  THEN IF m.replay_idx + 1 >= Len(mshr[e].reqs) THEN None
       ELSE [m EXCEPT !.replay_idx = @ + 1]
  ELSE m

(* A failed writeback ends the miss that caused it.                        *)
MshrWritesBack(e, m, write) ==
  IF WriteResponse(write) /\ e = wb.owner
  THEN IF write = "ok" THEN [m EXCEPT !.need_wb = FALSE]
       ELSE [m EXCEPT !.need_wb = FALSE, !.error = TRUE, !.refill_done = TRUE]
  ELSE m

NextMshr(e, r, sent, beat, write) ==
  LET accepted == MshrAccepts(e, mshr[e], r)
      filled   == MshrFills(e, MshrSends(e, accepted, sent), beat)
      done     == MshrWritesBack(e, MshrInstalls(e, filled), write)
  IN  MshrReplays(e, done)

-----------------------------------------------------------------------------
(* The arrays *)
Store(l, r) == [l EXCEPT !.data[r.word] = r.data, !.dirty = TRUE]

LineAccepts(l, r) ==
  IF Hits(r) /\ r.write THEN [l EXCEPT ![HitWay(r)][r.line.set] = Store(@, r)]
  ELSE IF Misses(r) THEN [l EXCEPT ![VictimWay(r)][r.line.set] = PowerUp]
  ELSE l

Install(l, e) ==
  IF Installs(e)
  THEN [l EXCEPT ![mshr[e].way][mshr[e].line.set] =
          [valid |-> TRUE, dirty |-> FALSE, tag |-> mshr[e].line.tag,
           data |-> mshr[e].fill]]
  ELSE l

LineReplays(l) ==
  IF ReplayEmit /\ ~mshr[ReplayEntry].error /\ ReplayRequest.write
  THEN [l EXCEPT ![mshr[ReplayEntry].way][mshr[ReplayEntry].line.set] =
          Store(@, ReplayRequest)]
  ELSE l

LineRestored(l, write) ==
  IF WriteResponse(write) /\ write = "error"
  THEN [l EXCEPT ![mshr[wb.owner].way][mshr[wb.owner].line.set] =
          [valid |-> TRUE, dirty |-> TRUE, tag |-> wb.line.tag, data |-> wb.data]]
  ELSE l

NextLine(r, write) ==
  LineRestored(LineReplays(Install(Install(LineAccepts(line, r), 0), 1)), write)

NextLru(r) ==
  [s \in Set |->
     LET installing == {e \in Entry : Installs(e) /\ mshr[e].line.set = s}
     IN  IF installing # {} THEN 1 - mshr[CHOOSE e \in installing : TRUE].way
         ELSE IF Hits(r) /\ r.line.set = s THEN 1 - HitWay(r)
         ELSE lru[s]]

-----------------------------------------------------------------------------
(* The response FIFO *)
Reply(r, data, error) == [id |-> r.id, data |-> data, error |-> error]

Enqueued(r) ==
  IF ReplayEmit
  THEN LET m == mshr[ReplayEntry]
           q == ReplayRequest
       IN  <<Reply(q, IF m.error \/ q.write THEN 0
                      ELSE line[m.way][m.line.set].data[q.word], m.error)>>
  ELSE IF Hits(r)
  THEN <<Reply(r, IF r.write THEN 0
                  ELSE line[HitWay(r)][r.line.set].data[r.word], FALSE)>>
  ELSE <<>>

NextRsp(r, take) == (IF take THEN Tail(rsp) ELSE rsp) \o Enqueued(r)

-----------------------------------------------------------------------------
(* The victim buffer and the AXI memory's write channel *)
Buffered(r) ==
  [owner |-> NewEntry, line |-> [tag |-> VictimLine(r).tag, set |-> r.line.set],
   data |-> VictimLine(r).data, beat |-> 0, state |-> "AW", dropped |-> FALSE]

NextWb(r, write) ==
  IF Misses(r) /\ VictimDirty(r) THEN Buffered(r)
  ELSE IF wb = None \/ write = "wait" THEN wb
  ELSE IF wb.state = "AW" THEN [wb EXCEPT !.state = "W"]
  ELSE IF wb.state = "B" THEN None
  ELSE [wb EXCEPT !.dropped = @ \/ write = "error",
                  !.state = IF wb.beat = Beats - 1 THEN "B" ELSE "W",
                  !.beat = IF wb.beat = Beats - 1 THEN 0 ELSE @ + 1]

NextMemory(write) ==
  IF wb # None /\ wb.state = "W" /\ write = "ok"
  THEN [memory EXCEPT ![wb.line][wb.beat] = wb.data[wb.beat]]
  ELSE memory

(* request_count - response_count of the testbench's scoreboard.           *)
NextAwaited(r, take) == awaited + (IF r = None THEN 0 ELSE 1) - (IF take THEN 1 ELSE 0)

-----------------------------------------------------------------------------
Edge(r, take, sent, beat, write) ==
  /\ mshr' = [e \in Entry |-> NextMshr(e, r, sent, beat, write)]
  /\ line' = NextLine(r, write)
  /\ lru' = NextLru(r)
  /\ rsp' = NextRsp(r, take)
  /\ wb' = NextWb(r, write)
  /\ memory' = NextMemory(write)
  /\ awaited' = NextAwaited(r, take)

(* An edge, with any inputs possible in this state.                        *)
Step ==
  \E r \in {x \in Request \cup {None} : Accepted(x)},
     take \in {x \in BOOLEAN : Taken(x)},
     sent \in {x \in BOOLEAN : ReadAddress(x)},
     beat \in {x \in ReadBeat \cup {None} : x # None => Offered(x)},
     write \in {x \in WriteAnswer : WriteChannel(x)} :
    Edge(r, take, sent, beat, write)

Next == Step \/ Reset

Spec == Init /\ [][Next]_vars

-----------------------------------------------------------------------------
Present(w, l) == line[w][l.set].valid /\ line[w][l.set].tag = l.tag

(* A line has one home: a way, a miss that has not been installed, or the  *)
(* victim buffer, and two misses never share a set (the assertions         *)
(* a_no_duplicate_active_line and a_no_same_set_parallel_miss, lines       *)
(* 452-455, and what the code keeps between MSHRs, arrays and buffer).     *)
Homes(l) == {<<"way", w>> : w \in {v \in Way : Present(v, l)}}
              \cup {<<"miss", e>> : e \in {f \in Busy : /\ mshr[f].line = l
                                                      /\ ~mshr[f].install_done}}
              \cup {<<"victim", 0>> : x \in IF wb # None /\ wb.line = l THEN {0} ELSE {}}

OneHome == /\ \A l \in Line : \A g, h \in Homes(l) : g = h
           /\ Busy = Entry => mshr[0].line.set # mshr[1].line.set

(* While a dirty victim is on its way to memory, the miss that evicted it  *)
(* waits, and keeps the way in which a failure must put the victim back    *)
(* (a_refill_waits_for_writeback and a_writeback_owner_active).            *)
VictimCanReturn ==
  wb # None => LET m == mshr[wb.owner]
               IN  /\ m # None
                   /\ m.need_wb /\ ~m.ar_sent /\ ~m.refill_done
                   /\ m.line.set = wb.line.set
                   /\ ~line[m.way][wb.line.set].valid

-----------------------------------------------------------------------------
(* What the CPU sees of a line: its copy in a way or in the victim buffer, *)
(* or the AXI memory.                                                      *)
Visible(l) ==
  IF \E w \in Way : Present(w, l)
  THEN line[CHOOSE w \in Way : Present(w, l)][l.set].data
  ELSE IF wb # None /\ wb.line = l THEN wb.data ELSE memory[l]

Waiting(l) ==
  IF \E e \in Busy : mshr[e].line = l
  THEN LET m == mshr[CHOOSE e \in Busy : mshr[e].line = l]
       IN  SubSeq(m.reqs, m.replay_idx + 1, Len(m.reqs))
  ELSE <<>>

Memory == INSTANCE NonblockingMemory WITH
            Zero    <- 0,
            mem     <- [l \in Line |-> Visible(l)],
            durable <- memory,
            pending <- [l \in Line |-> Waiting(l)],
            replies <- rsp

(* Hits under misses, merged requests, refills in any order, failed        *)
(* refills and writebacks: the CPU sees one memory, requests to a line are *)
(* served in order, and none is lost or answered twice.                    *)
RefinesNonblockingMemory == Memory!NSpec
=============================================================================
