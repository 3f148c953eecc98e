------------------------ MODULE NonblockingCacheProofs ------------------------
(***************************************************************************)
(* Proofs about NonblockingCache, for every set of lines, beats, values    *)
(* and identifiers and every depth of the response FIFO: first its         *)
(* invariants, then that it implements NonblockingMemory.                  *)
(***************************************************************************)
EXTENDS NonblockingCache, SequenceTheorems, TLAPS

USE DEF Entry, Way, MergeDepth

(* What a valid way holds; the two ways of a set differ.                   *)
CellInv(w, s) ==
  LET c == line[w][s]
      l == [tag |-> c.tag, set |-> s]
  IN  c.valid => /\ l \in Line
                 /\ ~c.dirty => c.data = memory[l]

WaysDiffer == \A s \in Set : line[0][s].valid /\ line[1][s].valid
                               => line[0][s].tag # line[1][s].tag

Absent(l) == \A w \in Way : ~Present(w, l)

(* The beats of a refill that have come.                                   *)
Filled(m) == \A b \in Beat : m.refill_done \/ b < m.refill_beat
                               => m.fill[b] = memory[m.line][b]

(* A miss holds an invalid way for a line that is nowhere, until it is     *)
(* installed or has failed.                                                *)
MissInv(m) ==
  /\ m.replay_idx < Len(m.reqs)
  /\ \A i \in 1 .. Len(m.reqs) : m.reqs[i].line = m.line
  /\ ~m.refill_done => m.replay_idx = 0
  /\ m.install_done => m.refill_done /\ ~m.error /\ Present(m.way, m.line)
  /\ ~m.install_done => Absent(m.line)
  /\ ~m.install_done /\ ~m.error => ~line[m.way][m.line.set].valid /\ Filled(m)

MshrInv(e) == mshr[e] # None => MissInv(mshr[e])

SetsDiffer == mshr[0] # None /\ mshr[1] # None => mshr[0].line.set # mshr[1].line.set

(* The victim is in no way, and memory has the beats it has taken.         *)
WbInv ==
  wb # None =>
    /\ Absent(wb.line)
    /\ mshr[wb.owner].line # wb.line
    /\ wb.state = "AW" => wb.beat = 0
    /\ \A b \in Beat : ~wb.dropped /\ (wb.state = "B" \/ b < wb.beat)
                         => memory[wb.line][b] = wb.data[b]

(* The CPU expects the answers in the FIFO and those its misses owe it.    *)
Owed(e) == IF mshr[e] = None THEN 0 ELSE Len(mshr[e].reqs) - mshr[e].replay_idx
Balance == awaited = Len(rsp) + Owed(0) + Owed(1)

IInv == /\ TypeOK
        /\ \A w \in Way, s \in Set : CellInv(w, s)
        /\ WaysDiffer
        /\ \A e \in Entry : MshrInv(e)
        /\ SetsDiffer
        /\ VictimCanReturn
        /\ WbInv
        /\ Balance

-----------------------------------------------------------------------------
LEMMA LineType ==
  ASSUME NEW l \in Line
  PROVE  l.set \in Set /\ l.tag \in Tag /\ l = [tag |-> l.tag, set |-> l.set]
  BY LineAssumption DEF Set, Tag

(* Two lines are one if their tags and their sets are.                     *)
LEMMA SameLine ==
  ASSUME NEW l \in Line, NEW k \in Line
  PROVE  l = k <=> l.tag = k.tag /\ l.set = k.set
  BY LineAssumption

LEMMA RequestType ==
  ASSUME NEW r \in Request
  PROVE  /\ r.id \in Id /\ r.write \in BOOLEAN /\ r.line \in Line
         /\ r.word \in Beat /\ r.data \in Value
         /\ r.line.set \in Set /\ r.line.tag \in Tag
<1>1. PICK i \in Id, a \in Access :
        r = [id |-> i, write |-> a.write, line |-> a.line, word |-> a.word, data |-> a.data]
  BY DEF Request
<1>2. a.write \in BOOLEAN /\ a.line \in Line /\ a.word \in Beat /\ a.data \in Value
  BY AccessAssumption
<1> QED
  BY <1>1, <1>2, LineType

LEMMA CellType ==
  ASSUME TypeOK, NEW w \in Way, NEW s \in Set
  PROVE  /\ line[w][s] \in Cached
         /\ line[w][s].valid \in BOOLEAN /\ line[w][s].dirty \in BOOLEAN
         /\ line[w][s].tag \in Tag /\ line[w][s].data \in LineData
  BY DEF TypeOK, Cached

LEMMA MshrType ==
  ASSUME TypeOK, NEW e \in Entry, mshr[e] # None
  PROVE  LET m == mshr[e]
         IN  /\ m \in Mshr
             /\ m.line \in Line /\ m.line.set \in Set /\ m.line.tag \in Tag
             /\ m.way \in Way /\ m.reqs \in Seq(Request) /\ Len(m.reqs) \in 1 .. 2
             /\ m.replay_idx \in 0 .. 1
             /\ m.ar_sent \in BOOLEAN /\ m.need_wb \in BOOLEAN
             /\ m.refill_beat \in Beat /\ m.fill \in LineData
             /\ m.refill_done \in BOOLEAN /\ m.install_done \in BOOLEAN
             /\ m.error \in BOOLEAN
<1>1. mshr[e] \in Mshr /\ Len(mshr[e].reqs) \in 1 .. 2
  BY DEF TypeOK
<1> QED
  BY <1>1, LineType DEF Mshr

LEMMA WbType ==
  ASSUME TypeOK, wb # None
  PROVE  /\ wb \in Writeback /\ wb.owner \in Entry
         /\ wb.line \in Line /\ wb.line.set \in Set /\ wb.line.tag \in Tag
         /\ wb.data \in LineData /\ wb.beat \in Beat
         /\ wb.state \in {"AW", "W", "B"} /\ wb.dropped \in BOOLEAN
<1>1. wb \in Writeback
  BY DEF TypeOK
<1> QED
  BY <1>1, LineType DEF Writeback

LEMMA FirstOf ==
  ASSUME NEW S \in SUBSET {0, 1}, S # {}
  PROVE  /\ First(S) \in S
         /\ \A f \in S : First(S) <= f
<1>1. \E e \in S : \A f \in S : e <= f
  <2>1. CASE 0 \in S
    <3>1. \A f \in S : 0 <= f
      OBVIOUS
    <3> WITNESS 0 \in S
    <3> QED
      BY <3>1
  <2>2. CASE 0 \notin S
    <3>1. PICK x \in S : TRUE
      OBVIOUS
    <3>2. x = 1
      BY <2>2
    <3>3. 1 \in S
      BY <3>2
    <3>4. \A f \in S : 1 <= f
      BY <2>2
    <3> WITNESS 1 \in S
    <3> QED
      BY <3>4
  <2> QED
    BY <2>1, <2>2
<1> QED
  BY <1>1, Zenon DEF First

LEMMA ZeroType == ZeroData \in LineData
  BY ValueAssumption DEF ZeroData, LineData

LEMMA PowerUpType ==
  ASSUME NEW s \in Set
  PROVE  PowerUp \in Cached /\ ~PowerUp.valid
<1>1. \E t \in Tag : TRUE
  BY DEF Set, Tag
<1>2. (CHOOSE t \in Tag : TRUE) \in Tag
  BY <1>1
<1> QED
  BY <1>2, ZeroType DEF PowerUp, Cached

-----------------------------------------------------------------------------
(* The inputs an edge may have in this state.                              *)
Inputs(r, take, sent, beat, write) ==
  /\ r \in Request \cup {None} /\ Accepted(r)
  /\ take \in BOOLEAN /\ Taken(take)
  /\ sent \in BOOLEAN /\ ReadAddress(sent)
  /\ beat \in ReadBeat \cup {None} /\ (beat # None => Offered(beat))
  /\ write \in WriteAnswer /\ WriteChannel(write)

(* What each answer to a request says of the state.                        *)
LEMMA Active ==
  ASSUME NEW r \in Request, ActiveLine(r) # {}
  PROVE  /\ First(ActiveLine(r)) \in Entry
         /\ mshr[First(ActiveLine(r))] # None
         /\ mshr[First(ActiveLine(r))].line = r.line
<1>1. First(ActiveLine(r)) \in ActiveLine(r)
  BY FirstOf DEF ActiveLine, Busy
<1> QED
  BY <1>1 DEF ActiveLine, Busy

LEMMA NoActive ==
  ASSUME NEW r \in Request
  PROVE  /\ ActiveSet(r) = {} => ActiveLine(r) = {}
         /\ ActiveSet(r) = {} => \A e \in Entry : mshr[e] # None => mshr[e].line.set # r.line.set
         /\ ActiveLine(r) = {} => \A e \in Entry : mshr[e] # None => mshr[e].line # r.line
  BY DEF ActiveSet, ActiveLine, Busy

LEMMA Exclusive ==
  ASSUME NEW r
  PROVE  /\ ~(Merges(r) /\ Hits(r)) /\ ~(Merges(r) /\ Misses(r)) /\ ~(Hits(r) /\ Misses(r))
         /\ Merges(r) \/ Hits(r) \/ Misses(r) => r # None
  BY DEF Merges, Hits, Misses, ActiveLine, ActiveSet

LEMMA HitType ==
  ASSUME NEW r \in Request, Hits(r)
  PROVE  /\ HitWay(r) \in Way
         /\ Present(HitWay(r), r.line)
  BY DEF Hits, HitWay, HitWays, Present

LEMMA VictimType ==
  ASSUME TypeOK, NEW r \in Request
  PROVE  VictimWay(r) \in Way
<1> DEFINE free == {w \in Way : ~line[w][r.line.set].valid}
<1>1. free # {} => First(free) \in free
  BY FirstOf
<1>2. lru[r.line.set] \in {0, 1}
  BY RequestType DEF TypeOK
<1> QED
  BY <1>1, <1>2 DEF VictimWay

LEMMA NewEntryType ==
  ASSUME NEW r, Misses(r)
  PROVE  NewEntry \in Entry /\ mshr[NewEntry] = None
<1>1. Entry \ Busy # {} /\ Entry \ Busy \in SUBSET {0, 1}
  BY DEF Misses, Busy
<1>2. First(Entry \ Busy) \in Entry \ Busy
  BY <1>1, FirstOf
<1> QED
  BY <1>2 DEF NewEntry, Busy

LEMMA ReplayType ==
  ASSUME ReplayEmit
  PROVE  /\ ReplayEntry \in Entry /\ mshr[ReplayEntry] # None
         /\ mshr[ReplayEntry].refill_done
         /\ mshr[ReplayEntry].error \/ mshr[ReplayEntry].install_done
         /\ Len(rsp) < RspDepth
<1>1. ReplayEntry \in Replayable
  BY FirstOf DEF ReplayEmit, ReplayEntry, Replayable, Busy
<1> QED
  BY <1>1 DEF ReplayEmit, Replayable, Busy, RspSpace

-----------------------------------------------------------------------------
(* What an edge does to miss e, and which of it excludes which.            *)
Merging(e, r) == Merges(r) /\ e = First(ActiveLine(r))
Sending(e, sent) == sent /\ e = First(Sendable)
Filling(e, beat) == beat # None /\ beat.entry = e
WritingBack(e, write) == WriteResponse(write) /\ e = wb.owner
Replaying(e) == ReplayEmit /\ e = ReplayEntry

LEMMA MergingType ==
  ASSUME NEW r \in Request \cup {None}, NEW e \in Entry, Merging(e, r)
  PROVE  /\ r \in Request /\ mshr[e] # None /\ mshr[e].line = r.line
         /\ ~mshr[e].refill_done /\ Len(mshr[e].reqs) < 2
  BY Active DEF Merging, Merges

LEMMA SendingType ==
  ASSUME NEW sent, ReadAddress(sent), NEW e \in Entry, Sending(e, sent)
  PROVE  mshr[e] # None /\ ~mshr[e].ar_sent /\ ~mshr[e].need_wb /\ ~mshr[e].refill_done
<1>1. e \in Sendable
  BY FirstOf DEF Sending, ReadAddress, Sendable, Busy
<1> QED
  BY <1>1 DEF Sendable, Busy

LEMMA FillingType ==
  ASSUME NEW beat \in ReadBeat \cup {None}, beat # None => Offered(beat),
         NEW e \in Entry, Filling(e, beat)
  PROVE  /\ beat \in ReadBeat /\ beat.data \in Value /\ beat.error \in BOOLEAN
         /\ mshr[e] # None /\ mshr[e].ar_sent /\ ~mshr[e].refill_done
         /\ ~beat.error => beat.data = memory[mshr[e].line][mshr[e].refill_beat]
  BY DEF Filling, Offered, ReadBeat

LEMMA WritingBackType ==
  ASSUME VictimCanReturn, TypeOK, NEW write, NEW e \in Entry, WritingBack(e, write)
  PROVE  /\ wb # None /\ wb.state = "B" /\ write # "wait" /\ e = wb.owner
         /\ mshr[e] # None /\ ~mshr[e].ar_sent /\ ~mshr[e].refill_done
         /\ mshr[e].need_wb
         /\ mshr[e].line.set = wb.line.set /\ ~line[mshr[e].way][wb.line.set].valid
  BY DEF WritingBack, WriteResponse, VictimCanReturn

LEMMA ReplayingType ==
  ASSUME NEW e \in Entry, Replaying(e)
  PROVE  /\ mshr[e] # None /\ mshr[e].refill_done
         /\ mshr[e].error \/ mshr[e].install_done
  BY ReplayType DEF Replaying

(* The miss with the request merged at this edge.                          *)
Grown(e, r) == IF Merging(e, r) THEN [mshr[e] EXCEPT !.reqs = Append(@, r)] ELSE mshr[e]

LEMMA AcceptBusy ==
  ASSUME NEW r \in Request \cup {None}, NEW e \in Entry, mshr[e] # None
  PROVE  MshrAccepts(e, mshr[e], r) = Grown(e, r)
<1>1. ~(Misses(r) /\ e = NewEntry)
  BY NewEntryType
<1> QED
  BY <1>1 DEF MshrAccepts, Grown, Merging

LEMMA AcceptFree ==
  ASSUME NEW r \in Request \cup {None}, NEW e \in Entry, mshr[e] = None
  PROVE  MshrAccepts(e, mshr[e], r) = IF Misses(r) /\ e = NewEntry THEN Allocated(r) ELSE None
<1>1. ~Merging(e, r)
  BY MergingType
<1> QED
  BY <1>1 DEF MshrAccepts, Merging

(* A free register stays free or takes the miss of this edge.              *)
LEMMA NextFree ==
  ASSUME TypeOK, VictimCanReturn, NEW e \in Entry, mshr[e] = None,
         NEW r, NEW take, NEW sent, NEW beat, NEW write, Inputs(r, take, sent, beat, write)
  PROVE  NextMshr(e, r, sent, beat, write) =
           IF Misses(r) /\ e = NewEntry THEN Allocated(r) ELSE None
<1> DEFINE n == IF Misses(r) /\ e = NewEntry THEN Allocated(r) ELSE None
<1>1. MshrAccepts(e, mshr[e], r) = n
  BY AcceptFree DEF Inputs
<1> HIDE DEF n
<1>2. ~Sending(e, sent) /\ ~Filling(e, beat) /\ ~WritingBack(e, write) /\ ~Replaying(e)
  BY SendingType, FillingType, WritingBackType, ReplayingType DEF Inputs
<1>3. MshrSends(e, n, sent) = n /\ MshrFills(e, n, beat) = n
  BY <1>2 DEF MshrSends, MshrFills, Sending, Filling
<1>4. MshrInstalls(e, n) = n /\ MshrWritesBack(e, n, write) = n /\ MshrReplays(e, n) = n
  BY <1>2 DEF MshrInstalls, Installs, MshrWritesBack, WritingBack, MshrReplays, Replaying
<1>5. NextMshr(e, r, sent, beat, write) = n
  BY <1>1, <1>3, <1>4 DEF NextMshr
<1> QED
  BY <1>5 DEF n

Sent(m) == [m EXCEPT !.ar_sent = TRUE]
BeatTaken(m, beat) ==
  [m EXCEPT !.fill[m.refill_beat] = beat.data,
            !.error = @ \/ beat.error,
            !.refill_done = m.refill_beat = Beats - 1,
            !.refill_beat = IF m.refill_beat = Beats - 1 THEN 0 ELSE @ + 1]
Installed(m) == [m EXCEPT !.install_done = TRUE, !.fill = ZeroData]
WrittenBack(m, write) ==
  IF write = "ok" THEN [m EXCEPT !.need_wb = FALSE]
  ELSE [m EXCEPT !.need_wb = FALSE, !.error = TRUE, !.refill_done = TRUE]
Replayed(m) == IF m.replay_idx + 1 >= Len(m.reqs) THEN None ELSE [m EXCEPT !.replay_idx = @ + 1]

(* One thing at most happens to a miss at an edge, beside a merge.         *)
LEMMA NextBusy ==
  ASSUME TypeOK, VictimCanReturn, NEW e \in Entry, mshr[e] # None,
         NEW r, NEW take, NEW sent, NEW beat, NEW write, Inputs(r, take, sent, beat, write)
  PROVE  LET n == NextMshr(e, r, sent, beat, write)
             g == Grown(e, r)
         IN  \/ Sending(e, sent) /\ n = Sent(g)
             \/ Filling(e, beat) /\ n = BeatTaken(g, beat)
             \/ Installs(e) /\ ~Merging(e, r) /\ n = Installed(mshr[e])
             \/ WritingBack(e, write) /\ n = WrittenBack(g, write)
             \/ Replaying(e) /\ ~Merging(e, r) /\ n = Replayed(mshr[e])
             \/ ~Installs(e) /\ ~WritingBack(e, write) /\ ~Replaying(e) /\ n = g
<1> DEFINE g == Grown(e, r)
           S == Sending(e, sent)
           F == Filling(e, beat)
           I == Installs(e)
           W == WritingBack(e, write)
           P == Replaying(e)
<1>1. MshrAccepts(e, mshr[e], r) = g
  BY AcceptBusy DEF Inputs
<1>2. /\ S => ~mshr[e].ar_sent /\ ~mshr[e].need_wb /\ ~mshr[e].refill_done
      /\ F => mshr[e].ar_sent /\ ~mshr[e].refill_done
      /\ W => ~mshr[e].ar_sent /\ ~mshr[e].refill_done /\ mshr[e].need_wb
      /\ P => mshr[e].refill_done /\ (mshr[e].error \/ mshr[e].install_done)
      /\ Merging(e, r) => ~mshr[e].refill_done
      /\ I => mshr[e].refill_done /\ ~mshr[e].error /\ ~mshr[e].install_done
  BY SendingType, FillingType, WritingBackType, ReplayingType, MergingType DEF Inputs, Installs
<1>3. P \/ I => g = mshr[e]
  BY <1>2 DEF Grown
<1> HIDE DEF g
<1>4. \A m : /\ MshrSends(e, m, sent) = IF S THEN Sent(m) ELSE m
             /\ MshrFills(e, m, beat) = IF F THEN BeatTaken(m, beat) ELSE m
             /\ MshrInstalls(e, m) = IF I THEN Installed(m) ELSE m
             /\ MshrWritesBack(e, m, write) = IF W THEN WrittenBack(m, write) ELSE m
  BY DEF MshrSends, MshrFills, MshrInstalls, MshrWritesBack, Sending, Filling, WritingBack,
         Sent, BeatTaken, Installed, WrittenBack
<1>5. /\ P => MshrReplays(e, mshr[e]) = Replayed(mshr[e])
      /\ \A m : ~P => MshrReplays(e, m) = m
  BY DEF MshrReplays, Replaying, Replayed
<1>6. NextMshr(e, r, sent, beat, write) =
        MshrReplays(e, MshrWritesBack(e, MshrInstalls(e,
          MshrFills(e, MshrSends(e, g, sent), beat)), write))
  BY <1>1 DEF NextMshr
<1> HIDE DEF S, F, I, W, P
<1>7. CASE P
  <2>1. ~S /\ ~F /\ ~I /\ ~W /\ g = mshr[e]
    BY <1>2, <1>3, <1>7
  <2>2. NextMshr(e, r, sent, beat, write) = Replayed(mshr[e]) /\ ~Merging(e, r)
    BY <1>2, <1>4, <1>5, <1>6, <1>7, <2>1
  <2> QED
    BY <1>7, <2>2 DEF P
<1>8. CASE ~P
  <2>1. NextMshr(e, r, sent, beat, write) =
          IF S THEN Sent(g) ELSE IF F THEN BeatTaken(g, beat) ELSE IF I THEN Installed(g)
          ELSE IF W THEN WrittenBack(g, write) ELSE g
    BY <1>2, <1>4, <1>5, <1>6, <1>8
  <2>2. I => ~Merging(e, r)
    BY <1>2
  <2> QED
    BY <1>3, <1>8, <2>1, <2>2 DEF S, F, I, W, P, g
<1> QED
  BY <1>7, <1>8

-----------------------------------------------------------------------------
(* What an edge does to a cell of the arrays.                              *)
HitAt(r, w, s) == Hits(r) /\ r.write /\ w = HitWay(r) /\ s = r.line.set
EvictAt(r, w, s) == Misses(r) /\ w = VictimWay(r) /\ s = r.line.set
InstallAt(e, w, s) == Installs(e) /\ w = mshr[e].way /\ s = mshr[e].line.set
ReplayAt(w, s) == /\ ReplayEmit /\ ~mshr[ReplayEntry].error /\ ReplayRequest.write
                  /\ w = mshr[ReplayEntry].way /\ s = mshr[ReplayEntry].line.set
RestoreAt(write, w, s) == /\ WriteResponse(write) /\ write = "error"
                          /\ w = mshr[wb.owner].way /\ s = mshr[wb.owner].line.set

InstalledCell(e) == [valid |-> TRUE, dirty |-> FALSE, tag |-> mshr[e].line.tag,
                     data |-> mshr[e].fill]
RestoredCell == [valid |-> TRUE, dirty |-> TRUE, tag |-> wb.line.tag, data |-> wb.data]

Arrays == [Way -> [Set -> Cached]]

LEMMA StoreType ==
  ASSUME NEW c \in Cached, NEW r \in Request
  PROVE  /\ Store(c, r) \in Cached
         /\ Store(c, r).valid = c.valid /\ Store(c, r).tag = c.tag
         /\ Store(c, r).dirty = TRUE
         /\ Store(c, r).data = [c.data EXCEPT ![r.word] = r.data]
  BY RequestType DEF Store, Cached, LineData

LEMMA ReplayRequestType ==
  ASSUME TypeOK, \A e \in Entry : MshrInv(e), ReplayEmit
  PROVE  ReplayRequest \in Request /\ ReplayRequest.line = mshr[ReplayEntry].line
<1>1. PICK e \in Entry : e = ReplayEntry /\ mshr[e] # None
  BY ReplayType
<1>2. /\ mshr[e].reqs \in Seq(Request) /\ mshr[e].replay_idx \in 0 .. 1
      /\ mshr[e].replay_idx < Len(mshr[e].reqs)
      /\ \A i \in 1 .. Len(mshr[e].reqs) : mshr[e].reqs[i].line = mshr[e].line
  BY <1>1, MshrType DEF MshrInv, MissInv
<1>3. /\ mshr[e].reqs[mshr[e].replay_idx + 1] \in Request
      /\ mshr[e].reqs[mshr[e].replay_idx + 1].line = mshr[e].line
  BY <1>2
<1> QED
  BY <1>1, <1>3 DEF ReplayRequest

LEMMA InstallStage ==
  ASSUME TypeOK, NEW a \in Arrays, NEW e \in Entry
  PROVE  /\ Install(a, e) \in Arrays
         /\ \A w \in Way, s \in Set :
              Install(a, e)[w][s] = IF InstallAt(e, w, s) THEN InstalledCell(e) ELSE a[w][s]
<1>1. CASE Installs(e)
  <2>1. mshr[e] # None
    BY <1>1 DEF Installs
  <2>2. InstalledCell(e) \in Cached /\ mshr[e].way \in Way /\ mshr[e].line.set \in Set
    BY <2>1, MshrType DEF InstalledCell, Cached
  <2>3. Install(a, e) = [a EXCEPT ![mshr[e].way][mshr[e].line.set] = InstalledCell(e)]
    BY <1>1 DEF Install, InstalledCell
  <2>4. PICK x \in Way, y \in Set, v \in Cached :
          x = mshr[e].way /\ y = mshr[e].line.set /\ v = InstalledCell(e)
    BY <2>2
  <2>5. Install(a, e) = [a EXCEPT ![x][y] = v]
    BY <2>3, <2>4
  <2>6. /\ Install(a, e) \in Arrays
        /\ \A w \in Way, s \in Set :
             Install(a, e)[w][s] = IF w = x /\ s = y THEN v ELSE a[w][s]
    BY <2>5 DEF Arrays
  <2> QED
    BY <1>1, <2>4, <2>6 DEF InstallAt
<1>2. CASE ~Installs(e)
  BY <1>2 DEF Install, InstallAt
<1> QED
  BY <1>1, <1>2

LEMMA AcceptStage ==
  ASSUME TypeOK, NEW r \in Request \cup {None}
  PROVE  /\ LineAccepts(line, r) \in Arrays
         /\ \A w \in Way, s \in Set :
              LineAccepts(line, r)[w][s] = IF HitAt(r, w, s) THEN Store(line[w][s], r)
                                           ELSE IF EvictAt(r, w, s) THEN PowerUp
                                           ELSE line[w][s]
<1>0. line \in Arrays
  BY DEF TypeOK, Arrays
<1>1. CASE Hits(r) /\ r.write
  <2>1. r \in Request /\ ~Misses(r)
    BY <1>1, Exclusive
  <2>2. HitWay(r) \in Way /\ r.line.set \in Set
    BY <1>1, <2>1, HitType, RequestType
  <2>3. Store(line[HitWay(r)][r.line.set], r) \in Cached
    BY <2>1, <2>2, CellType, StoreType
  <2>4. LineAccepts(line, r) = [line EXCEPT ![HitWay(r)][r.line.set] =
                                  Store(line[HitWay(r)][r.line.set], r)]
    BY <1>1 DEF LineAccepts
  <2>5. PICK x \in Way, y \in Set, v \in Cached :
          x = HitWay(r) /\ y = r.line.set /\ v = Store(line[x][y], r)
    BY <2>2, <2>3
  <2>6. LineAccepts(line, r) = [line EXCEPT ![x][y] = v]
    BY <2>4, <2>5
  <2>7. /\ LineAccepts(line, r) \in Arrays
        /\ \A w \in Way, s \in Set :
             LineAccepts(line, r)[w][s] = IF w = x /\ s = y THEN v ELSE line[w][s]
    BY <1>0, <2>6 DEF Arrays
  <2> QED
    BY <1>1, <2>1, <2>5, <2>7 DEF HitAt, EvictAt
<1>2. CASE ~(Hits(r) /\ r.write) /\ Misses(r)
  <2>1. r \in Request
    BY <1>2, Exclusive
  <2>2. VictimWay(r) \in Way /\ r.line.set \in Set
    BY <2>1, VictimType, RequestType
  <2>3. PowerUp \in Cached
    BY <2>2, PowerUpType
  <2>4. LineAccepts(line, r) = [line EXCEPT ![VictimWay(r)][r.line.set] = PowerUp]
    BY <1>2 DEF LineAccepts
  <2>5. PICK x \in Way, y \in Set, v \in Cached :
          x = VictimWay(r) /\ y = r.line.set /\ v = PowerUp
    BY <2>2, <2>3
  <2>6. LineAccepts(line, r) = [line EXCEPT ![x][y] = v]
    BY <2>4, <2>5
  <2>7. /\ LineAccepts(line, r) \in Arrays
        /\ \A w \in Way, s \in Set :
             LineAccepts(line, r)[w][s] = IF w = x /\ s = y THEN v ELSE line[w][s]
    BY <1>0, <2>6 DEF Arrays
  <2> QED
    BY <1>2, <2>5, <2>7 DEF HitAt, EvictAt
<1>3. CASE ~(Hits(r) /\ r.write) /\ ~Misses(r)
  BY <1>0, <1>3 DEF LineAccepts, HitAt, EvictAt
<1> QED
  BY <1>1, <1>2, <1>3

LEMMA ReplayStage ==
  ASSUME TypeOK, \A e \in Entry : MshrInv(e), NEW a \in Arrays
  PROVE  /\ LineReplays(a) \in Arrays
         /\ \A w \in Way, s \in Set :
              LineReplays(a)[w][s] = IF ReplayAt(w, s) THEN Store(a[w][s], ReplayRequest)
                                     ELSE a[w][s]
<1> DEFINE active == ReplayEmit /\ ~mshr[ReplayEntry].error /\ ReplayRequest.write
<1>1. CASE active
  <2>1. PICK m : m = mshr[ReplayEntry] /\ m.way \in Way /\ m.line.set \in Set
    BY <1>1, ReplayType, MshrType
  <2>2. PICK q \in Request : q = ReplayRequest
    BY <1>1, ReplayRequestType
  <2>3. a[m.way][m.line.set] \in Cached
    BY <2>1 DEF Arrays
  <2>4. Store(a[m.way][m.line.set], q) \in Cached
    BY <2>3, StoreType
  <2>5. LineReplays(a) = [a EXCEPT ![m.way][m.line.set] = Store(a[m.way][m.line.set], q)]
    BY <1>1, <2>1, <2>2 DEF LineReplays
  <2>6. PICK x \in Way, y \in Set, v \in Cached :
          x = m.way /\ y = m.line.set /\ v = Store(a[x][y], q)
    BY <2>1, <2>4
  <2>7. LineReplays(a) = [a EXCEPT ![x][y] = v]
    BY <2>5, <2>6
  <2>8. /\ LineReplays(a) \in Arrays
        /\ \A w \in Way, s \in Set :
             LineReplays(a)[w][s] = IF w = x /\ s = y THEN v ELSE a[w][s]
    BY <2>7 DEF Arrays
  <2> QED
    BY <1>1, <2>1, <2>2, <2>6, <2>8 DEF ReplayAt
<1>2. CASE ~active
  BY <1>2 DEF LineReplays, ReplayAt
<1> QED
  BY <1>1, <1>2

LEMMA RestoreStage ==
  ASSUME TypeOK, VictimCanReturn, NEW a \in Arrays, NEW write
  PROVE  /\ LineRestored(a, write) \in Arrays
         /\ \A w \in Way, s \in Set :
              LineRestored(a, write)[w][s] = IF RestoreAt(write, w, s) THEN RestoredCell
                                             ELSE a[w][s]
<1>1. CASE WriteResponse(write) /\ write = "error"
  <2>1. wb # None
    BY <1>1 DEF WriteResponse
  <2>2. mshr[wb.owner] # None /\ wb.owner \in Entry
    BY <2>1, WbType DEF VictimCanReturn
  <2>3. PICK m : m = mshr[wb.owner] /\ m.way \in Way /\ m.line.set \in Set
    BY <2>2, MshrType
  <2>4. RestoredCell \in Cached
    BY <2>1, WbType DEF RestoredCell, Cached
  <2>5. LineRestored(a, write) = [a EXCEPT ![m.way][m.line.set] = RestoredCell]
    BY <1>1, <2>3 DEF LineRestored, RestoredCell
  <2>6. PICK x \in Way, y \in Set, v \in Cached :
          x = m.way /\ y = m.line.set /\ v = RestoredCell
    BY <2>3, <2>4
  <2>7. LineRestored(a, write) = [a EXCEPT ![x][y] = v]
    BY <2>5, <2>6
  <2>8. /\ LineRestored(a, write) \in Arrays
        /\ \A w \in Way, s \in Set :
             LineRestored(a, write)[w][s] = IF w = x /\ s = y THEN v ELSE a[w][s]
    BY <2>7 DEF Arrays
  <2> QED
    BY <1>1, <2>3, <2>6, <2>8 DEF RestoreAt
<1>2. CASE ~(WriteResponse(write) /\ write = "error")
  BY <1>2 DEF LineRestored, RestoreAt
<1> QED
  BY <1>1, <1>2

(* Two misses do not share a set.                                          *)
LEMMA OneSet ==
  ASSUME SetsDiffer, NEW e \in Entry, NEW f \in Entry,
         mshr[e] # None, mshr[f] # None, mshr[e].line.set = mshr[f].line.set
  PROVE  e = f
  BY DEF SetsDiffer

(* One thing at most happens to a cell at an edge.                         *)
LEMMA CellExclusive ==
  ASSUME IInv, NEW w \in Way, NEW s \in Set,
         NEW r, NEW take, NEW sent, NEW beat, NEW write, Inputs(r, take, sent, beat, write)
  PROVE  /\ HitAt(r, w, s) => line[w][s].valid /\ ~EvictAt(r, w, s) /\ ~ReplayAt(w, s)
         /\ EvictAt(r, w, s) => /\ ~ReplayAt(w, s) /\ ~RestoreAt(write, w, s)
                                /\ \A e \in Entry : ~InstallAt(e, w, s)
         /\ \A e \in Entry : InstallAt(e, w, s) =>
              /\ ~line[w][s].valid
              /\ ~ReplayAt(w, s) /\ ~RestoreAt(write, w, s)
              /\ \A f \in Entry : InstallAt(f, w, s) => e = f
         /\ ReplayAt(w, s) => ~RestoreAt(write, w, s) /\ line[w][s].valid
         /\ RestoreAt(write, w, s) => ~line[w][s].valid
<1>0. r \in Request \cup {None}
  BY DEF Inputs
<1>1. HitAt(r, w, s) => line[w][s].valid /\ ~EvictAt(r, w, s) /\ ~ReplayAt(w, s)
  <2> SUFFICES ASSUME HitAt(r, w, s)
               PROVE  line[w][s].valid /\ ~EvictAt(r, w, s) /\ ~ReplayAt(w, s)
    OBVIOUS
  <2>1. Hits(r) /\ r \in Request /\ ~Misses(r) /\ ~ReplayEmit
    BY <1>0, Exclusive DEF HitAt, Hits
  <2>2. line[w][s].valid
    BY <2>1, HitType DEF HitAt, Present
  <2> QED
    BY <2>1, <2>2 DEF EvictAt, ReplayAt
<1>2. EvictAt(r, w, s) => \A e \in Entry : mshr[e] # None => mshr[e].line.set # s
  BY <1>0, Exclusive, NoActive DEF EvictAt, Misses
<1>3. \A e \in Entry : InstallAt(e, w, s) =>
        /\ mshr[e] # None /\ mshr[e].line.set = s /\ mshr[e].refill_done
        /\ ~mshr[e].error /\ ~mshr[e].install_done /\ ~line[w][s].valid
  BY DEF InstallAt, Installs, IInv, MshrInv, MissInv
<1>4. ReplayAt(w, s) => \E e \in Entry :
        /\ mshr[e] # None /\ mshr[e].line.set = s /\ mshr[e].refill_done
        /\ ~mshr[e].error /\ mshr[e].install_done /\ line[w][s].valid
  <2> SUFFICES ASSUME ReplayAt(w, s)
               PROVE  \E e \in Entry :
                        /\ mshr[e] # None /\ mshr[e].line.set = s /\ mshr[e].refill_done
                        /\ ~mshr[e].error /\ mshr[e].install_done /\ line[w][s].valid
    OBVIOUS
  <2>1. PICK e \in Entry : e = ReplayEntry /\ mshr[e] # None /\ mshr[e].refill_done
                           /\ (mshr[e].error \/ mshr[e].install_done)
    BY ReplayType DEF ReplayAt
  <2>2. ~mshr[e].error /\ w = mshr[e].way /\ s = mshr[e].line.set /\ mshr[e].install_done
    BY <2>1 DEF ReplayAt
  <2>3. Present(mshr[e].way, mshr[e].line)
    BY <2>1, <2>2 DEF IInv, MshrInv, MissInv
  <2> QED
    BY <2>1, <2>2, <2>3 DEF Present
<1>5. RestoreAt(write, w, s) => \E e \in Entry :
        /\ mshr[e] # None /\ mshr[e].line.set = s /\ ~mshr[e].refill_done
        /\ ~line[w][s].valid
  <2> SUFFICES ASSUME RestoreAt(write, w, s)
               PROVE  \E e \in Entry : /\ mshr[e] # None /\ mshr[e].line.set = s
                                       /\ ~mshr[e].refill_done /\ ~line[w][s].valid
    OBVIOUS
  <2>1. wb # None
    BY DEF RestoreAt, WriteResponse
  <2>2. PICK e \in Entry : e = wb.owner
    BY <2>1, WbType DEF IInv
  <2> QED
    BY <2>1, <2>2 DEF RestoreAt, IInv, VictimCanReturn
<1>6. SetsDiffer
  BY DEF IInv
<1>7. \A e \in Entry, f \in Entry : InstallAt(e, w, s) /\ InstallAt(f, w, s) => e = f
  BY <1>3, <1>6, OneSet
<1>8. \A e \in Entry : InstallAt(e, w, s) => ~ReplayAt(w, s) /\ ~RestoreAt(write, w, s)
  BY <1>3, <1>4, <1>5, <1>6, OneSet
<1>9. ReplayAt(w, s) => ~RestoreAt(write, w, s) /\ line[w][s].valid
  BY <1>4, <1>5
<1>10. EvictAt(r, w, s) => /\ ~ReplayAt(w, s) /\ ~RestoreAt(write, w, s)
                           /\ \A e \in Entry : ~InstallAt(e, w, s)
  BY <1>2, <1>3, <1>4, <1>5
<1>11. RestoreAt(write, w, s) => ~line[w][s].valid
  BY <1>5
<1> QED
  BY <1>1, <1>3, <1>7, <1>8, <1>9, <1>10, <1>11

LEMMA NextCell ==
  ASSUME IInv, NEW r, NEW take, NEW sent, NEW beat, NEW write,
         Inputs(r, take, sent, beat, write)
  PROVE  /\ NextLine(r, write) \in Arrays
         /\ \A w \in Way, s \in Set :
              LET c == line[w][s]
                  n == NextLine(r, write)[w][s]
              IN  \/ HitAt(r, w, s) /\ n = Store(c, r)
                  \/ EvictAt(r, w, s) /\ n = PowerUp
                  \/ \E e \in Entry : InstallAt(e, w, s) /\ n = InstalledCell(e)
                  \/ ReplayAt(w, s) /\ n = Store(c, ReplayRequest)
                  \/ RestoreAt(write, w, s) /\ n = RestoredCell
                  \/ /\ ~HitAt(r, w, s) /\ ~EvictAt(r, w, s) /\ ~ReplayAt(w, s)
                     /\ ~RestoreAt(write, w, s) /\ \A e \in Entry : ~InstallAt(e, w, s)
                     /\ n = c
<1> DEFINE a1 == LineAccepts(line, r)
           a2 == Install(a1, 0)
           a3 == Install(a2, 1)
           a4 == LineReplays(a3)
           a5 == LineRestored(a4, write)
<1>0. /\ TypeOK /\ VictimCanReturn /\ r \in Request \cup {None}
      /\ \A e \in Entry : MshrInv(e)
  BY DEF IInv, Inputs
<1>1. /\ a1 \in Arrays
      /\ \A w \in Way, s \in Set :
           a1[w][s] = IF HitAt(r, w, s) THEN Store(line[w][s], r)
                      ELSE IF EvictAt(r, w, s) THEN PowerUp ELSE line[w][s]
  BY <1>0, AcceptStage
<1> HIDE DEF a1
<1>2. /\ a2 \in Arrays
      /\ \A w \in Way, s \in Set :
           a2[w][s] = IF InstallAt(0, w, s) THEN InstalledCell(0) ELSE a1[w][s]
  BY <1>0, <1>1, InstallStage
<1> HIDE DEF a2
<1>3. /\ a3 \in Arrays
      /\ \A w \in Way, s \in Set :
           a3[w][s] = IF InstallAt(1, w, s) THEN InstalledCell(1) ELSE a2[w][s]
  BY <1>0, <1>2, InstallStage
<1> HIDE DEF a3
<1>4. /\ a4 \in Arrays
      /\ \A w \in Way, s \in Set :
           a4[w][s] = IF ReplayAt(w, s) THEN Store(a3[w][s], ReplayRequest) ELSE a3[w][s]
  BY <1>0, <1>3, ReplayStage
<1> HIDE DEF a4
<1>5. /\ a5 \in Arrays
      /\ \A w \in Way, s \in Set :
           a5[w][s] = IF RestoreAt(write, w, s) THEN RestoredCell ELSE a4[w][s]
  BY <1>0, <1>4, RestoreStage
<1>6. NextLine(r, write) = a5
  BY DEF NextLine, a1, a2, a3, a4
<1> HIDE DEF a5
<1>7. ASSUME NEW w \in Way, NEW s \in Set
      PROVE  \/ HitAt(r, w, s) /\ a5[w][s] = Store(line[w][s], r)
             \/ EvictAt(r, w, s) /\ a5[w][s] = PowerUp
             \/ \E e \in Entry : InstallAt(e, w, s) /\ a5[w][s] = InstalledCell(e)
             \/ ReplayAt(w, s) /\ a5[w][s] = Store(line[w][s], ReplayRequest)
             \/ RestoreAt(write, w, s) /\ a5[w][s] = RestoredCell
             \/ /\ ~HitAt(r, w, s) /\ ~EvictAt(r, w, s) /\ ~ReplayAt(w, s)
                /\ ~RestoreAt(write, w, s) /\ \A e \in Entry : ~InstallAt(e, w, s)
                /\ a5[w][s] = line[w][s]
  <2>1. a5[w][s] = IF RestoreAt(write, w, s) THEN RestoredCell ELSE
                   IF ReplayAt(w, s)
                   THEN Store(IF InstallAt(1, w, s) THEN InstalledCell(1) ELSE
                              IF InstallAt(0, w, s) THEN InstalledCell(0) ELSE
                              IF HitAt(r, w, s) THEN Store(line[w][s], r) ELSE
                              IF EvictAt(r, w, s) THEN PowerUp ELSE line[w][s], ReplayRequest)
                   ELSE IF InstallAt(1, w, s) THEN InstalledCell(1) ELSE
                        IF InstallAt(0, w, s) THEN InstalledCell(0) ELSE
                        IF HitAt(r, w, s) THEN Store(line[w][s], r) ELSE
                        IF EvictAt(r, w, s) THEN PowerUp ELSE line[w][s]
    BY <1>1, <1>2, <1>3, <1>4, <1>5
  <2> QED
    BY <2>1, CellExclusive
<1> QED
  BY <1>5, <1>6, <1>7

-----------------------------------------------------------------------------
(* The fields a miss is left with.                                         *)
LEMMA GrownType ==
  ASSUME TypeOK, NEW e \in Entry, mshr[e] # None, MshrInv(e),
         NEW r \in Request \cup {None}
  PROVE  LET g == Grown(e, r)
             m == mshr[e]
         IN  /\ g \in Mshr
             /\ Len(g.reqs) = Len(m.reqs) + (IF Merging(e, r) THEN 1 ELSE 0)
             /\ Len(g.reqs) \in 1 .. 2
             /\ \A i \in 1 .. Len(g.reqs) : g.reqs[i].line = m.line
             /\ g.line = m.line /\ g.way = m.way /\ g.replay_idx = m.replay_idx
             /\ g.ar_sent = m.ar_sent /\ g.need_wb = m.need_wb
             /\ g.refill_beat = m.refill_beat /\ g.fill = m.fill
             /\ g.refill_done = m.refill_done /\ g.install_done = m.install_done
             /\ g.error = m.error
<1> DEFINE m == mshr[e]
<1>0. /\ m \in Mshr /\ m.reqs \in Seq(Request) /\ Len(m.reqs) \in 1 .. 2
      /\ \A i \in 1 .. Len(m.reqs) : m.reqs[i].line = m.line
  BY MshrType DEF MshrInv, MissInv
<1> HIDE DEF m
<1>1. CASE Merging(e, r)
  <2>1. r \in Request /\ m.line = r.line /\ Len(m.reqs) < 2
    BY <1>1, MergingType DEF m
  <2> DEFINE q == Append(m.reqs, r)
  <2>2. q \in Seq(Request) /\ Len(q) = Len(m.reqs) + 1
    BY <1>0, <2>1
  <2>3. \A i \in 1 .. Len(q) : q[i].line = m.line
    BY <1>0, <2>1
  <2>4. Grown(e, r) = [m EXCEPT !.reqs = q]
    BY <1>1 DEF Grown, m
  <2> HIDE DEF q
  <2>5. LET g == [m EXCEPT !.reqs = q]
        IN  /\ g \in Mshr /\ g.reqs = q
            /\ g.line = m.line /\ g.way = m.way /\ g.replay_idx = m.replay_idx
            /\ g.ar_sent = m.ar_sent /\ g.need_wb = m.need_wb
            /\ g.refill_beat = m.refill_beat /\ g.fill = m.fill
            /\ g.refill_done = m.refill_done /\ g.install_done = m.install_done
            /\ g.error = m.error
    BY <1>0, <2>2 DEF Mshr
  <2>6. Len(q) = Len(m.reqs) + 1 /\ Len(q) \in 1 .. 2
    BY <1>0, <2>1, <2>2
  <2>7. PICK g : g = [m EXCEPT !.reqs = q]
    OBVIOUS
  <2>8. Grown(e, r) = g
    BY <2>4, <2>7
  <2>9. /\ g.reqs = q /\ g.line = m.line /\ g.way = m.way /\ g.replay_idx = m.replay_idx
        /\ g.ar_sent = m.ar_sent /\ g.need_wb = m.need_wb
        /\ g.refill_beat = m.refill_beat /\ g.fill = m.fill
        /\ g.refill_done = m.refill_done /\ g.install_done = m.install_done
        /\ g.error = m.error /\ g \in Mshr
    BY <2>5, <2>7
  <2>10. \A i \in 1 .. Len(g.reqs) : g.reqs[i].line = m.line
    BY <2>3, <2>9
  <2>11. Len(g.reqs) = Len(m.reqs) + 1 /\ Len(g.reqs) \in 1 .. 2
    BY <2>6, <2>9
  <2> QED
    BY <1>1, <2>8, <2>9, <2>10, <2>11 DEF m
<1>2. CASE ~Merging(e, r)
  <2>1. Grown(e, r) = m
    BY <1>2 DEF Grown, m
  <2> QED
    BY <1>0, <1>2, <2>1 DEF m
<1> QED
  BY <1>1, <1>2

LEMMA SentFields ==
  ASSUME NEW m \in Mshr
  PROVE  /\ Sent(m) \in Mshr /\ Sent(m).ar_sent = TRUE
         /\ Sent(m).line = m.line /\ Sent(m).way = m.way /\ Sent(m).reqs = m.reqs
         /\ Sent(m).replay_idx = m.replay_idx /\ Sent(m).need_wb = m.need_wb
         /\ Sent(m).refill_beat = m.refill_beat /\ Sent(m).fill = m.fill
         /\ Sent(m).refill_done = m.refill_done /\ Sent(m).install_done = m.install_done
         /\ Sent(m).error = m.error
  BY DEF Sent, Mshr

LEMMA BeatTakenFields ==
  ASSUME NEW m \in Mshr, NEW beat, beat.data \in Value, beat.error \in BOOLEAN
  PROVE  LET n == BeatTaken(m, beat)
         IN  /\ n \in Mshr
             /\ n.line = m.line /\ n.way = m.way /\ n.reqs = m.reqs
             /\ n.replay_idx = m.replay_idx /\ n.need_wb = m.need_wb
             /\ n.ar_sent = m.ar_sent /\ n.install_done = m.install_done
             /\ n.fill = [m.fill EXCEPT ![m.refill_beat] = beat.data]
             /\ n.error <=> m.error \/ beat.error
             /\ n.refill_done <=> m.refill_beat = Beats - 1
             /\ n.refill_beat = IF m.refill_beat = Beats - 1 THEN 0 ELSE m.refill_beat + 1
<1>1. m.refill_beat \in Beat /\ m.fill \in LineData /\ m.error \in BOOLEAN
  BY DEF Mshr
<1> DEFINE f == [m.fill EXCEPT ![m.refill_beat] = beat.data]
           err == m.error \/ beat.error
           last == m.refill_beat = Beats - 1
           i == IF m.refill_beat = Beats - 1 THEN 0 ELSE m.refill_beat + 1
<1>2. f \in LineData /\ err \in BOOLEAN /\ last \in BOOLEAN /\ i \in Beat
  BY <1>1, BeatsAssumption DEF LineData, Beat
<1>3. BeatTaken(m, beat) = [m EXCEPT !.fill = f, !.error = err, !.refill_done = last,
                                     !.refill_beat = i]
  BY DEF BeatTaken, Mshr
<1> HIDE DEF f, err, last, i
<1>4. LET n == [m EXCEPT !.fill = f, !.error = err, !.refill_done = last, !.refill_beat = i]
      IN  /\ n \in Mshr
          /\ n.line = m.line /\ n.way = m.way /\ n.reqs = m.reqs
          /\ n.replay_idx = m.replay_idx /\ n.need_wb = m.need_wb
          /\ n.ar_sent = m.ar_sent /\ n.install_done = m.install_done
          /\ n.fill = f /\ n.error = err /\ n.refill_done = last /\ n.refill_beat = i
  BY <1>2 DEF Mshr
<1> QED
  BY <1>3, <1>4 DEF f, err, last, i

LEMMA BeatTakenType ==
  ASSUME NEW m \in Mshr, NEW beat, beat.data \in Value, beat.error \in BOOLEAN
  PROVE  BeatTaken(m, beat) \in Mshr
<1>1. PICK n : n = BeatTaken(m, beat)
  OBVIOUS
<1>2. n \in Mshr
  BY <1>1, BeatTakenFields
<1> QED
  BY <1>1, <1>2

LEMMA InstalledFields ==
  ASSUME NEW m \in Mshr
  PROVE  LET n == Installed(m)
         IN  /\ n \in Mshr /\ n.install_done = TRUE
             /\ n.line = m.line /\ n.way = m.way /\ n.reqs = m.reqs
             /\ n.replay_idx = m.replay_idx /\ n.refill_done = m.refill_done
             /\ n.error = m.error
  BY ZeroType DEF Installed, Mshr

LEMMA WrittenBackFields ==
  ASSUME NEW m \in Mshr, NEW write
  PROVE  LET n == WrittenBack(m, write)
         IN  /\ n \in Mshr /\ n.need_wb = FALSE
             /\ n.line = m.line /\ n.way = m.way /\ n.reqs = m.reqs
             /\ n.replay_idx = m.replay_idx /\ n.ar_sent = m.ar_sent
             /\ n.refill_beat = m.refill_beat /\ n.fill = m.fill
             /\ n.install_done = m.install_done
             /\ write = "ok" => n.error = m.error /\ n.refill_done = m.refill_done
             /\ write # "ok" => n.error = TRUE /\ n.refill_done = TRUE
  BY DEF WrittenBack, Mshr

LEMMA ReplayedFields ==
  ASSUME NEW m \in Mshr, Len(m.reqs) \in 1 .. 2, Replayed(m) # None
  PROVE  LET n == Replayed(m)
         IN  /\ n \in Mshr /\ n.replay_idx = m.replay_idx + 1
             /\ n.replay_idx < Len(n.reqs)
             /\ n.line = m.line /\ n.way = m.way /\ n.reqs = m.reqs
             /\ n.refill_done = m.refill_done /\ n.install_done = m.install_done
             /\ n.error = m.error /\ n.fill = m.fill /\ n.refill_beat = m.refill_beat
<1>0. m.replay_idx \in 0 .. 1 /\ m.reqs \in Seq(Request)
  BY DEF Mshr
<1>1. PICK i \in 0 .. 1, n \in 1 .. 2 : i = m.replay_idx /\ n = Len(m.reqs)
  BY <1>0
<1>2. i + 1 < n /\ i + 1 \in 0 .. 1
  <2>1. ~(i + 1 >= n)
    BY <1>1 DEF Replayed
  <2> QED
    BY <2>1
<1>3. Replayed(m) = [m EXCEPT !.replay_idx = i + 1]
  <2>1. ~(i + 1 >= n)
    BY <1>2
  <2> QED
    BY <1>1, <2>1 DEF Replayed
<1> QED
  BY <1>1, <1>2, <1>3 DEF Mshr

LEMMA AllocatedFields ==
  ASSUME TypeOK, NEW r \in Request
  PROVE  LET n == Allocated(r)
         IN  /\ n \in Mshr /\ n # None /\ Len(n.reqs) = 1 /\ n.reqs[1] = r
             /\ n.line = r.line /\ n.way = VictimWay(r) /\ n.replay_idx = 0
             /\ n.ar_sent = FALSE /\ (n.need_wb <=> VictimDirty(r))
             /\ n.refill_beat = 0 /\ n.refill_done = FALSE
             /\ n.install_done = FALSE /\ n.error = FALSE
<1>1. VictimWay(r) \in Way /\ r.line \in Line /\ r.line.set \in Set
  BY VictimType, RequestType
<1>2. VictimDirty(r) \in BOOLEAN
  BY <1>1, CellType DEF VictimDirty, VictimLine
<1>3. 0 \in Beat /\ <<r>> \in Seq(Request) /\ Len(<<r>>) = 1 /\ <<r>>[1] = r
  BY BeatsAssumption DEF Beat
<1>4. Allocated(r) \in Mshr
  BY <1>1, <1>2, <1>3, ZeroType DEF Allocated, Mshr
<1>5. Allocated(r) # None
  BY <1>4, NoneAssumption
<1>6. /\ Allocated(r).need_wb = VictimDirty(r) /\ Allocated(r).reqs = <<r>>
      /\ Allocated(r).line = r.line /\ Allocated(r).way = VictimWay(r)
      /\ Allocated(r).replay_idx = 0 /\ Allocated(r).ar_sent = FALSE
      /\ Allocated(r).refill_beat = 0 /\ Allocated(r).refill_done = FALSE
      /\ Allocated(r).install_done = FALSE /\ Allocated(r).error = FALSE
  BY DEF Allocated
<1>7. Len(Allocated(r).reqs) = 1 /\ Allocated(r).reqs[1] = r
  BY <1>3, <1>6
<1> QED
  BY <1>4, <1>5, <1>6, <1>7

-----------------------------------------------------------------------------
(* Where a line is after an edge.                                          *)
LEMMA NextPresent ==
  ASSUME IInv, NEW r, NEW take, NEW sent, NEW beat, NEW write,
         Inputs(r, take, sent, beat, write), NEW w \in Way, NEW l \in Line,
         NextLine(r, write)[w][l.set].valid, NextLine(r, write)[w][l.set].tag = l.tag
  PROVE  \/ Present(w, l) /\ ~EvictAt(r, w, l.set)
         \/ \E e \in Entry : InstallAt(e, w, l.set) /\ mshr[e].line = l
         \/ RestoreAt(write, w, l.set) /\ wb.line = l
<1>0. l.set \in Set /\ TypeOK
  BY LineType DEF IInv
<1> DEFINE s == l.set
           n == NextLine(r, write)[w][s]
<1>1. CASE HitAt(r, w, s) /\ n = Store(line[w][s], r)
  <2>1. r \in Request
    BY <1>1, Exclusive DEF HitAt, Inputs
  <2>3. PICK c \in Cached : c = line[w][s]
    BY <1>0, CellType
  <2>4. n = Store(c, r)
    BY <1>1, <2>3
  <2>2. n.valid = c.valid /\ n.tag = c.tag
    BY <2>4 DEF Store, Cached
  <2> QED
    BY <1>0, <1>1, <2>2, <2>3, CellExclusive DEF Present
<1>2. CASE EvictAt(r, w, s) /\ n = PowerUp
  BY <1>0, <1>2, PowerUpType
<1>3. CASE \E e \in Entry : InstallAt(e, w, s) /\ n = InstalledCell(e)
  <2>1. PICK e \in Entry : InstallAt(e, w, s) /\ n = InstalledCell(e)
    BY <1>3
  <2>2. n.tag = mshr[e].line.tag
    BY <2>1 DEF InstalledCell
  <2>3. mshr[e].line.tag = l.tag /\ mshr[e].line.set = l.set /\ mshr[e] # None
    BY <2>1, <2>2 DEF InstallAt, Installs
  <2>4. mshr[e].line = l
    BY <1>0, <2>3, MshrType, SameLine
  <2> QED
    BY <2>1, <2>4
<1>4. CASE ReplayAt(w, s) /\ n = Store(line[w][s], ReplayRequest)
  <2>1. PICK q \in Request : q = ReplayRequest
    BY <1>4, ReplayRequestType DEF ReplayAt, IInv
  <2>3. PICK c \in Cached : c = line[w][s]
    BY <1>0, CellType
  <2>4. n = Store(c, q)
    BY <1>4, <2>1, <2>3
  <2>2. n.valid = c.valid /\ n.tag = c.tag
    BY <2>4 DEF Store, Cached
  <2> QED
    BY <1>0, <1>4, <2>2, <2>3, CellExclusive DEF Present
<1>5. CASE RestoreAt(write, w, s) /\ n = RestoredCell
  <2>1. wb # None /\ mshr[wb.owner].line.set = wb.line.set
    BY <1>5 DEF RestoreAt, WriteResponse, IInv, VictimCanReturn
  <2>2. wb.line.set = l.set /\ wb.line.tag = l.tag
    BY <1>5, <2>1 DEF RestoreAt, RestoredCell
  <2>3. wb.line = l
    BY <1>0, <2>1, <2>2, WbType, SameLine
  <2> QED
    BY <1>5, <2>3
<1>6. CASE ~EvictAt(r, w, s) /\ n = line[w][s]
  BY <1>6 DEF Present
<1> QED
  BY <1>0, <1>1, <1>2, <1>3, <1>4, <1>5, <1>6, NextCell

LEMMA KeepPresent ==
  ASSUME IInv, NEW r, NEW take, NEW sent, NEW beat, NEW write,
         Inputs(r, take, sent, beat, write), NEW w \in Way, NEW l \in Line,
         Present(w, l), ~EvictAt(r, w, l.set)
  PROVE  NextLine(r, write)[w][l.set].valid /\ NextLine(r, write)[w][l.set].tag = l.tag
<1>0. l.set \in Set /\ TypeOK /\ line[w][l.set].valid /\ line[w][l.set].tag = l.tag
  BY LineType DEF IInv, Present
<1> DEFINE s == l.set
           n == NextLine(r, write)[w][s]
<1>1. ~RestoreAt(write, w, s) /\ \A e \in Entry : ~InstallAt(e, w, s)
  BY <1>0, CellExclusive
<1>2. CASE HitAt(r, w, s) /\ n = Store(line[w][s], r)
  <2>1. r \in Request
    BY <1>2, Exclusive DEF HitAt, Inputs
  <2>2. PICK c \in Cached : c = line[w][s]
    BY <1>0, CellType
  <2>3. n = Store(c, r)
    BY <1>2, <2>2
  <2>4. n.valid = c.valid /\ n.tag = c.tag
    BY <2>3 DEF Store, Cached
  <2> QED
    BY <1>0, <2>2, <2>4
<1>3. CASE ReplayAt(w, s) /\ n = Store(line[w][s], ReplayRequest)
  <2>1. PICK q \in Request : q = ReplayRequest
    BY <1>3, ReplayRequestType DEF ReplayAt, IInv
  <2>2. PICK c \in Cached : c = line[w][s]
    BY <1>0, CellType
  <2>3. n = Store(c, q)
    BY <1>3, <2>1, <2>2
  <2>4. n.valid = c.valid /\ n.tag = c.tag
    BY <2>3 DEF Store, Cached
  <2> QED
    BY <1>0, <2>2, <2>4
<1>4. CASE n = line[w][s]
  BY <1>0, <1>4
<1> QED
  BY <1>0, <1>1, <1>2, <1>3, <1>4, NextCell

LEMMA StayInvalid ==
  ASSUME IInv, NEW r, NEW take, NEW sent, NEW beat, NEW write,
         Inputs(r, take, sent, beat, write), NEW w \in Way, NEW s \in Set,
         ~line[w][s].valid, ~RestoreAt(write, w, s),
         \A e \in Entry : ~InstallAt(e, w, s)
  PROVE  ~NextLine(r, write)[w][s].valid
<1>1. ~HitAt(r, w, s) /\ ~ReplayAt(w, s)
  BY CellExclusive
<1>2. PowerUp.valid = FALSE
  BY DEF PowerUp
<1> QED
  BY <1>1, <1>2, NextCell

(* An evicted cell is invalid and an installed one holds its line.         *)
LEMMA Evicted ==
  ASSUME IInv, NEW r, NEW take, NEW sent, NEW beat, NEW write,
         Inputs(r, take, sent, beat, write), NEW w \in Way, NEW s \in Set,
         EvictAt(r, w, s)
  PROVE  ~NextLine(r, write)[w][s].valid
<1>1. PowerUp.valid = FALSE
  BY DEF PowerUp
<1> QED
  BY <1>1, NextCell, CellExclusive

LEMMA InstalledAt ==
  ASSUME IInv, NEW r, NEW take, NEW sent, NEW beat, NEW write,
         Inputs(r, take, sent, beat, write), NEW e \in Entry, NEW w \in Way, NEW s \in Set,
         InstallAt(e, w, s)
  PROVE  NextLine(r, write)[w][s] = InstalledCell(e)
  BY NextCell, CellExclusive

(* A line that misses is not the victim.                                   *)
LEMMA MissNotVictim ==
  ASSUME IInv, wb # None, NEW e \in Entry, mshr[e] # None
  PROVE  mshr[e].line # wb.line
<1>1. wb.owner \in Entry /\ mshr[wb.owner] # None /\ mshr[wb.owner].line.set = wb.line.set
      /\ mshr[wb.owner].line # wb.line
  BY WbType DEF IInv, VictimCanReturn, WbInv
<1>2. PICK o \in Entry : o = wb.owner
  BY <1>1
<1>3. CASE e = o
  BY <1>1, <1>2, <1>3
<1>4. CASE e # o
  <2>1. mshr[e].line.set # mshr[o].line.set
    BY <1>1, <1>2, <1>4, OneSet DEF IInv
  <2> QED
    BY <1>1, <1>2, <2>1
<1> QED
  BY <1>3, <1>4

(* Only the victim's line changes in memory.                               *)
LEMMA NextMemoryAt ==
  ASSUME TypeOK, NEW write
  PROVE  /\ NextMemory(write) \in [Line -> LineData]
         /\ \A l \in Line : wb = None \/ wb.line # l => NextMemory(write)[l] = memory[l]
         /\ wb # None => \A b \in Beat : NextMemory(write)[wb.line][b] =
              IF wb.state = "W" /\ write = "ok" /\ b = wb.beat THEN wb.data[b]
              ELSE memory[wb.line][b]
<1>0. memory \in [Line -> LineData]
  BY DEF TypeOK
<1>1. CASE wb # None /\ wb.state = "W" /\ write = "ok"
  <2>1. PICK x \in Line, y \in Beat, d \in LineData : x = wb.line /\ y = wb.beat /\ d = wb.data
    BY <1>1, WbType
  <2>2. NextMemory(write) = [memory EXCEPT ![x][y] = d[y]]
    BY <1>1, <2>1 DEF NextMemory
  <2>3. d[y] \in Value
    BY <2>1 DEF LineData
  <2>4. /\ NextMemory(write) \in [Line -> LineData]
        /\ \A l \in Line : x # l => NextMemory(write)[l] = memory[l]
        /\ \A b \in Beat : NextMemory(write)[x][b] = IF b = y THEN d[b] ELSE memory[x][b]
    BY <1>0, <2>2, <2>3 DEF LineData
  <2> QED
    BY <1>1, <2>1, <2>4
<1>2. CASE ~(wb # None /\ wb.state = "W" /\ write = "ok")
  BY <1>0, <1>2 DEF NextMemory
<1> QED
  BY <1>1, <1>2

(* The answer of an edge.                                                  *)
LEMMA EnqueuedType ==
  ASSUME TypeOK, \A e \in Entry : MshrInv(e),
         NEW r \in Request \cup {None}
  PROVE  /\ Enqueued(r) \in Seq(Response)
         /\ Len(Enqueued(r)) = IF ReplayEmit \/ Hits(r) THEN 1 ELSE 0
         /\ ReplayEmit \/ Hits(r) => Len(rsp) < RspDepth
<1>1. ASSUME ReplayEmit
      PROVE  Enqueued(r) \in Seq(Response) /\ Len(Enqueued(r)) = 1 /\ Len(rsp) < RspDepth
  <2>1. PICK e \in Entry : e = ReplayEntry /\ mshr[e] # None /\ Len(rsp) < RspDepth
    BY <1>1, ReplayType
  <2>2. PICK q \in Request : q = ReplayRequest
    BY <1>1, ReplayRequestType
  <2>3. PICK m \in Mshr : m = mshr[e]
    BY <2>1, MshrType DEF TypeOK
  <2>4. m.way \in Way /\ m.line.set \in Set /\ m.error \in BOOLEAN
    BY <2>1, <2>3, MshrType DEF TypeOK
  <2>5. line[m.way][m.line.set].data[q.word] \in Value
    BY <2>4, CellType, RequestType DEF LineData
  <2>6. q.id \in Id /\ q.write \in BOOLEAN
    BY RequestType
  <2> DEFINE d == IF m.error \/ q.write THEN 0 ELSE line[m.way][m.line.set].data[q.word]
  <2>7. d \in Value
    BY <2>5, ValueAssumption
  <2>8. Enqueued(r) = <<Reply(q, d, m.error)>>
    BY <1>1, <2>1, <2>2, <2>3 DEF Enqueued
  <2> HIDE DEF d
  <2>9. Reply(q, d, m.error) \in Response
    BY <2>4, <2>6, <2>7 DEF Reply, Response
  <2>10. PICK a \in Response : Enqueued(r) = <<a>>
    BY <2>8, <2>9
  <2>11. <<a>> \in Seq(Response) /\ Len(<<a>>) = 1
    OBVIOUS
  <2> QED
    BY <2>1, <2>10, <2>11
<1>2. ASSUME ~ReplayEmit, Hits(r)
      PROVE  Enqueued(r) \in Seq(Response) /\ Len(Enqueued(r)) = 1 /\ Len(rsp) < RspDepth
  <2>1. r \in Request /\ Len(rsp) < RspDepth
    BY <1>2, Exclusive DEF Hits, RspSpace
  <2>2. HitWay(r) \in Way /\ r.line.set \in Set /\ r.word \in Beat
    BY <1>2, <2>1, HitType, RequestType
  <2> DEFINE d == IF r.write THEN 0 ELSE line[HitWay(r)][r.line.set].data[r.word]
  <2>3. d \in Value
    BY <2>2, CellType, ValueAssumption DEF LineData
  <2>4. Enqueued(r) = <<Reply(r, d, FALSE)>>
    BY <1>2 DEF Enqueued
  <2> HIDE DEF d
  <2>5. Reply(r, d, FALSE) \in Response
    BY <2>1, <2>3, RequestType DEF Reply, Response
  <2>6. PICK a \in Response : Enqueued(r) = <<a>>
    BY <2>4, <2>5
  <2>7. <<a>> \in Seq(Response) /\ Len(<<a>>) = 1
    OBVIOUS
  <2> QED
    BY <2>1, <2>6, <2>7
<1>3. ASSUME ~ReplayEmit, ~Hits(r)
      PROVE  Enqueued(r) \in Seq(Response) /\ Len(Enqueued(r)) = 0
  BY <1>3 DEF Enqueued
<1> QED
  BY <1>1, <1>2, <1>3

LEMMA NextRspType ==
  ASSUME TypeOK, \A e \in Entry : MshrInv(e), NEW r \in Request \cup {None},
         NEW take \in BOOLEAN, Taken(take)
  PROVE  /\ NextRsp(r, take) \in Seq(Response) /\ Len(NextRsp(r, take)) <= RspDepth
         /\ Len(NextRsp(r, take)) = Len(rsp) - (IF take THEN 1 ELSE 0)
                                      + (IF ReplayEmit \/ Hits(r) THEN 1 ELSE 0)
<1>1. rsp \in Seq(Response) /\ Len(rsp) \in Nat /\ Len(rsp) <= RspDepth
  BY DEF TypeOK
<1>2. PICK left : left = IF take THEN Tail(rsp) ELSE rsp
  OBVIOUS
<1>3. left \in Seq(Response) /\ Len(left) = Len(rsp) - (IF take THEN 1 ELSE 0)
  BY <1>1, <1>2 DEF Taken
<1>4. PICK q : q = Enqueued(r)
  OBVIOUS
<1>5. /\ q \in Seq(Response) /\ Len(q) = IF ReplayEmit \/ Hits(r) THEN 1 ELSE 0
      /\ ReplayEmit \/ Hits(r) => Len(rsp) < RspDepth
  BY <1>4, EnqueuedType
<1>6. left \o q \in Seq(Response) /\ Len(left \o q) = Len(left) + Len(q)
  <2> HIDE DEF Response
  <2> QED
    BY <1>3, <1>5, ConcatProperties
<1>7. NextRsp(r, take) = left \o q
  BY <1>2, <1>4 DEF NextRsp
<1>8. PICK n \in Nat, i \in 0 .. 1, j \in 0 .. 1 :
        /\ n = Len(rsp) /\ i = IF ReplayEmit \/ Hits(r) THEN 1 ELSE 0
        /\ j = IF take THEN 1 ELSE 0
  BY <1>1
<1>9. i = 1 => n < RspDepth
  BY <1>5, <1>8
<1>10. n <= RspDepth
  BY <1>1, <1>8
<1>11. (n - j) + i <= RspDepth
  BY <1>9, <1>10, RspDepthAssumption
<1>12. Len(NextRsp(r, take)) = (n - j) + i
  BY <1>3, <1>5, <1>6, <1>7, <1>8
<1> QED
  BY <1>6, <1>7, <1>8, <1>11, <1>12

-----------------------------------------------------------------------------
(* What an edge leaves of a miss it does not end.                          *)
LEMMA BeatFills ==
  ASSUME IInv, NEW e \in Entry, mshr[e] # None, NEW g \in Mshr,
         NEW beat, beat.data \in Value, beat.error \in BOOLEAN,
         ~beat.error => beat.data = memory[mshr[e].line][mshr[e].refill_beat],
         g.line = mshr[e].line, g.refill_beat = mshr[e].refill_beat,
         g.fill = mshr[e].fill, ~mshr[e].refill_done, ~mshr[e].install_done, ~mshr[e].error,
         ~beat.error
  PROVE  Filled(BeatTaken(g, beat))
<1>1. PICK i \in Beat, d \in LineData, k \in LineData :
        i = g.refill_beat /\ d = g.fill /\ k = memory[g.line]
  <2>1. g.refill_beat \in Beat /\ g.fill \in LineData /\ g.line \in Line
    BY DEF Mshr
  <2>2. memory[g.line] \in LineData
    BY <2>1 DEF IInv, TypeOK
  <2> QED
    BY <2>1, <2>2
<1>2. \A b \in Beat : b < i => d[b] = k[b]
  BY <1>1 DEF IInv, MshrInv, MissInv, Filled
<1>3. beat.data = k[i]
  BY <1>1
<1>4. PICK n : n = BeatTaken(g, beat)
  OBVIOUS
<1>5. /\ n.line = g.line /\ n.fill = [d EXCEPT ![i] = beat.data]
      /\ n.refill_done <=> i = Beats - 1
      /\ n.refill_beat = IF i = Beats - 1 THEN 0 ELSE i + 1
  BY <1>1, <1>4, BeatTakenFields
<1>6. ASSUME NEW b \in Beat, n.refill_done \/ b < n.refill_beat
      PROVE  b < i \/ b = i
  <2>1. b \in 0 .. Beats - 1 /\ i \in 0 .. Beats - 1
    BY DEF Beat
  <2>2. CASE i = Beats - 1
    BY <2>1, <2>2
  <2>3. CASE i # Beats - 1
    <3>1. b < i + 1
      BY <1>5, <1>6, <2>3
    <3> QED
      BY <2>1, <3>1
  <2> QED
    BY <2>2, <2>3
<1>7. ASSUME NEW b \in Beat, n.refill_done \/ b < n.refill_beat
      PROVE  n.fill[b] = k[b]
  <2>1. b < i \/ b = i
    BY <1>6, <1>7
  <2>2. n.fill[b] = IF b = i THEN beat.data ELSE d[b]
    BY <1>5 DEF LineData
  <2> QED
    BY <1>2, <1>3, <2>1, <2>2
<1> QED
  BY <1>1, <1>4, <1>5, <1>7 DEF Filled

LEMMA NextFields ==
  ASSUME IInv, NEW e \in Entry, mshr[e] # None,
         NEW r, NEW take, NEW sent, NEW beat, NEW write, Inputs(r, take, sent, beat, write),
         NEW n, n = NextMshr(e, r, sent, beat, write), n # None
  PROVE  LET m == mshr[e]
         IN  /\ n \in Mshr /\ Len(n.reqs) \in 1 .. 2
             /\ n.replay_idx < Len(n.reqs)
             /\ \A i \in 1 .. Len(n.reqs) : n.reqs[i].line = n.line
             /\ n.line = m.line /\ n.way = m.way
             /\ n.install_done <=> m.install_done \/ Installs(e)
             /\ n.install_done => n.refill_done /\ ~n.error
             /\ ~n.refill_done => n.replay_idx = 0
             /\ ~n.install_done /\ ~n.error =>
                  /\ ~m.error /\ Filled(n)
                  /\ ~(WritingBack(e, write) /\ write = "error")
             /\ wb # None /\ e = wb.owner /\ ~WriteResponse(write) =>
                  n.need_wb /\ ~n.ar_sent /\ ~n.refill_done
<1> DEFINE m == mshr[e]
<1>0. /\ TypeOK /\ VictimCanReturn /\ MshrInv(e) /\ r \in Request \cup {None}
      /\ beat \in ReadBeat \cup {None} /\ (beat # None => Offered(beat))
      /\ sent \in BOOLEAN /\ ReadAddress(sent) /\ write \in WriteAnswer
  BY DEF IInv, Inputs
<1>1. /\ m \in Mshr /\ Len(m.reqs) \in 1 .. 2 /\ m.replay_idx < Len(m.reqs)
      /\ \A i \in 1 .. Len(m.reqs) : m.reqs[i].line = m.line
      /\ ~m.refill_done => m.replay_idx = 0
      /\ m.install_done => m.refill_done /\ ~m.error
      /\ ~m.install_done /\ ~m.error => Filled(m)
      /\ m.replay_idx \in 0 .. 1
  BY <1>0, MshrType DEF MshrInv, MissInv
<1>2. wb # None /\ e = wb.owner => m.need_wb /\ ~m.ar_sent /\ ~m.refill_done
  BY <1>0 DEF VictimCanReturn
<1>3. PICK g : g = Grown(e, r)
  OBVIOUS
<1>4. /\ g \in Mshr /\ Len(g.reqs) \in 1 .. 2 /\ m.replay_idx < Len(g.reqs)
      /\ \A i \in 1 .. Len(g.reqs) : g.reqs[i].line = m.line
      /\ g.line = m.line /\ g.way = m.way /\ g.replay_idx = m.replay_idx
      /\ g.ar_sent = m.ar_sent /\ g.need_wb = m.need_wb
      /\ g.refill_beat = m.refill_beat /\ g.fill = m.fill
      /\ g.refill_done = m.refill_done /\ g.install_done = m.install_done
      /\ g.error = m.error
  <2>1. PICK i \in 0 .. 1, j \in 1 .. 2 : i = m.replay_idx /\ j = Len(m.reqs) /\ i < j
    BY <1>1
  <2>2. PICK k \in 0 .. 1 : k = IF Merging(e, r) THEN 1 ELSE 0
    OBVIOUS
  <2>3. Len(g.reqs) = j + k
    BY <1>0, <1>3, <2>1, <2>2, GrownType
  <2>4. m.replay_idx < Len(g.reqs)
    BY <2>1, <2>3
  <2>5. /\ g \in Mshr /\ Len(g.reqs) \in 1 .. 2
        /\ \A x \in 1 .. Len(g.reqs) : g.reqs[x].line = m.line
        /\ g.line = m.line /\ g.way = m.way /\ g.replay_idx = m.replay_idx
        /\ g.ar_sent = m.ar_sent /\ g.need_wb = m.need_wb
        /\ g.refill_beat = m.refill_beat /\ g.fill = m.fill
        /\ g.refill_done = m.refill_done /\ g.install_done = m.install_done
        /\ g.error = m.error
    BY <1>0, <1>3, GrownType
  <2> QED
    BY <2>4, <2>5
<1>5. ~m.install_done /\ ~m.error => Filled(g)
  BY <1>1, <1>4 DEF Filled
<1> HIDE DEF m
<1>6. CASE Sending(e, sent) /\ n = Sent(g)
  <2>1. ~m.refill_done /\ ~m.need_wb
    BY <1>0, <1>6, SendingType DEF m
  <2>2. ~Installs(e)
    BY <2>1 DEF Installs, m
  <2>3. ~WritingBack(e, write)
    BY <1>0, <2>1, WritingBackType DEF m
  <2>4. /\ n \in Mshr /\ n.line = g.line /\ n.way = g.way /\ n.reqs = g.reqs
        /\ n.replay_idx = g.replay_idx /\ n.need_wb = g.need_wb
        /\ n.refill_beat = g.refill_beat /\ n.fill = g.fill
        /\ n.refill_done = g.refill_done /\ n.install_done = g.install_done
        /\ n.error = g.error
    <3>1. g \in Mshr /\ n = Sent(g)
      BY <1>4, <1>6
    <3> QED
      BY <3>1, SentFields
  <2>5. ~m.install_done /\ ~m.error => Filled(n)
    BY <1>5, <2>4 DEF Filled
  <2>6. ~(wb # None /\ e = wb.owner)
    BY <1>2, <2>1
  <2> QED
    BY <1>1, <1>4, <2>1, <2>2, <2>3, <2>4, <2>5, <2>6 DEF m
<1>7. CASE Filling(e, beat) /\ n = BeatTaken(g, beat)
  <2>1. /\ beat.data \in Value /\ beat.error \in BOOLEAN
        /\ ~m.refill_done /\ m.ar_sent
        /\ ~beat.error => beat.data = memory[m.line][m.refill_beat]
    BY <1>0, <1>7, FillingType DEF m
  <2>2. ~Installs(e) /\ ~m.install_done
    BY <1>1, <2>1 DEF Installs, m
  <2>3. ~WritingBack(e, write)
    BY <1>0, <2>1, WritingBackType DEF m
  <2>4. /\ n \in Mshr /\ n.line = g.line /\ n.way = g.way /\ n.reqs = g.reqs
        /\ n.replay_idx = g.replay_idx /\ n.install_done = g.install_done
        /\ n.error <=> g.error \/ beat.error
    <3>1. g \in Mshr /\ n = BeatTaken(g, beat)
      BY <1>4, <1>7
    <3>2. beat.data \in Value /\ beat.error \in BOOLEAN
      BY <2>1
    <3>3. n \in Mshr
      BY <3>1, <3>2, BeatTakenType
    <3> QED
      BY <3>1, <3>3 DEF BeatTaken, Mshr
  <2>5. ~m.error /\ ~beat.error => Filled(n)
    BY <1>4, <1>7, <2>1, <2>2, BeatFills DEF m
  <2>6. ~(wb # None /\ e = wb.owner)
    BY <1>2, <2>1
  <2> QED
    BY <1>1, <1>4, <2>1, <2>2, <2>3, <2>4, <2>5, <2>6 DEF m
<1>8. CASE Installs(e) /\ n = Installed(m)
  <2>1. m.refill_done /\ ~m.error
    BY <1>8 DEF Installs, m
  <2>2. /\ n \in Mshr /\ n.install_done = TRUE
        /\ n.line = m.line /\ n.way = m.way /\ n.reqs = m.reqs
        /\ n.replay_idx = m.replay_idx /\ n.refill_done = m.refill_done
        /\ n.error = m.error
    BY <1>1, <1>8, InstalledFields
  <2> QED
    BY <1>1, <1>2, <1>8, <2>1, <2>2 DEF m
<1>9. CASE WritingBack(e, write) /\ n = WrittenBack(g, write)
  <2>1. ~m.refill_done /\ write # "wait" /\ WriteResponse(write)
    BY <1>0, <1>9, WritingBackType DEF m, WritingBack
  <2>2. ~Installs(e) /\ ~m.install_done
    BY <1>1, <2>1 DEF Installs, m
  <2>3. /\ n \in Mshr /\ n.line = g.line /\ n.way = g.way /\ n.reqs = g.reqs
        /\ n.replay_idx = g.replay_idx /\ n.install_done = g.install_done
        /\ n.refill_beat = g.refill_beat /\ n.fill = g.fill
        /\ write = "ok" => n.error = g.error /\ n.refill_done = g.refill_done
        /\ write # "ok" => n.error = TRUE /\ n.refill_done = TRUE
    <3>1. g \in Mshr /\ n = WrittenBack(g, write)
      BY <1>4, <1>9
    <3> QED
      BY <3>1 DEF WrittenBack, Mshr
  <2>4. ~n.error => Filled(n) /\ ~m.error /\ write # "error"
    BY <1>4, <1>5, <2>2, <2>3 DEF Filled
  <2> QED
    BY <1>1, <1>4, <2>1, <2>2, <2>3, <2>4 DEF m
<1>10. CASE Replaying(e) /\ n = Replayed(m)
  <2>1. m.refill_done /\ (m.error \/ m.install_done)
    BY <1>10, ReplayingType DEF m
  <2>2. ~Installs(e)
    BY <2>1 DEF Installs, m
  <2>3. /\ n \in Mshr /\ n.replay_idx < Len(n.reqs)
        /\ n.line = m.line /\ n.way = m.way /\ n.reqs = m.reqs
        /\ n.refill_done = m.refill_done /\ n.install_done = m.install_done
        /\ n.error = m.error
    BY <1>1, <1>10, ReplayedFields
  <2> QED
    BY <1>1, <1>2, <2>1, <2>2, <2>3 DEF m
<1>11. CASE ~Installs(e) /\ ~WritingBack(e, write) /\ n = g
  BY <1>1, <1>2, <1>4, <1>5, <1>11 DEF m
<1> QED
  BY <1>0, <1>3, <1>6, <1>7, <1>8, <1>9, <1>10, <1>11, NextBusy DEF m

-----------------------------------------------------------------------------
(* Every request is answered once.                                         *)
OwedBy(m) == IF m = None THEN 0 ELSE Len(m.reqs) - m.replay_idx
Taking(e, r) == Merging(e, r) \/ (Misses(r) /\ e = NewEntry)

LEMMA OwedType ==
  ASSUME IInv, NEW e \in Entry
  PROVE  Owed(e) \in 0 .. 2 /\ Owed(e) = OwedBy(mshr[e])
<1>1. CASE mshr[e] = None
  BY <1>1 DEF Owed, OwedBy
<1>2. CASE mshr[e] # None
  <2>1. PICK i \in 0 .. 1, n \in 1 .. 2 :
          i = mshr[e].replay_idx /\ n = Len(mshr[e].reqs) /\ i < n
    BY <1>2, MshrType DEF IInv, MshrInv, MissInv
  <2>3. i < n
    BY <2>1
  <2>2. n - i \in 0 .. 2
    BY <2>3
  <2> QED
    BY <1>2, <2>1, <2>2 DEF Owed, OwedBy
<1> QED
  BY <1>1, <1>2

LEMMA OwedKept ==
  ASSUME NEW m, NEW n, m # None, n # None, n.reqs = m.reqs, n.replay_idx = m.replay_idx
  PROVE  OwedBy(n) = OwedBy(m)
  BY DEF OwedBy

LEMMA OwedStep ==
  ASSUME IInv, NEW e \in Entry,
         NEW r, NEW take, NEW sent, NEW beat, NEW write, Inputs(r, take, sent, beat, write),
         NEW n, n = NextMshr(e, r, sent, beat, write)
  PROVE  OwedBy(n) = Owed(e) + (IF Taking(e, r) THEN 1 ELSE 0) - (IF Replaying(e) THEN 1 ELSE 0)
<1>0. /\ TypeOK /\ VictimCanReturn /\ MshrInv(e) /\ r \in Request \cup {None}
      /\ beat \in ReadBeat \cup {None} /\ (beat # None => Offered(beat))
      /\ sent \in BOOLEAN /\ ReadAddress(sent)
  BY DEF IInv, Inputs
<1>1. CASE mshr[e] = None
  <2>1. n = IF Misses(r) /\ e = NewEntry THEN Allocated(r) ELSE None
    BY <1>0, <1>1, NextFree
  <2>2. ~Merging(e, r) /\ ~Replaying(e) /\ Owed(e) = 0
    BY <1>0, <1>1, MergingType, ReplayingType DEF Owed
  <2>3. CASE Misses(r) /\ e = NewEntry
    <3>1. r \in Request
      BY <1>0, <2>3, Exclusive
    <3>4. TypeOK /\ n = Allocated(r)
      BY <1>0, <2>1, <2>3
    <3>2. n # None /\ Len(n.reqs) = 1 /\ n.replay_idx = 0
      <4>1. /\ Allocated(r) # None /\ Len(Allocated(r).reqs) = 1
            /\ Allocated(r).replay_idx = 0
        BY <3>1, <3>4, AllocatedFields, Zenon
      <4> QED
        BY <3>4, <4>1, Zenon
    <3>3. OwedBy(n) = 1
      BY <3>2 DEF OwedBy
    <3> QED
      BY <2>2, <2>3, <3>3 DEF Taking
  <2>4. CASE ~(Misses(r) /\ e = NewEntry)
    BY <2>1, <2>2, <2>4 DEF Taking, OwedBy
  <2> QED
    BY <2>3, <2>4
<1>2. CASE mshr[e] # None
  <2>1. PICK m : m = mshr[e] /\ m \in Mshr /\ m # None
    BY <1>0, <1>2, MshrType
  <2>2. PICK i \in 0 .. 1, k \in 1 .. 2 :
          i = m.replay_idx /\ k = Len(m.reqs) /\ i < k
    BY <1>0, <2>1, MshrType DEF MshrInv, MissInv
  <2>3. Owed(e) = k - i
    BY <2>1, <2>2 DEF Owed
  <2>4. ~(Misses(r) /\ e = NewEntry)
    BY <1>2, NewEntryType
  <2>5. Taking(e, r) <=> Merging(e, r)
    BY <2>4 DEF Taking
  <2>6. CASE Replaying(e)
    <3>1. ~Merging(e, r) /\ ~Installs(e) /\ ~Sending(e, sent)
          /\ ~Filling(e, beat) /\ ~WritingBack(e, write)
      BY <1>0, <2>6, ReplayingType, MergingType, SendingType, FillingType, WritingBackType
         DEF Installs
    <3>2. n = Replayed(m)
      BY <1>0, <1>2, <2>1, <2>6, <3>1, NextBusy
    <3>3. CASE i + 1 >= k
      <4>1. n = None
        BY <2>2, <3>2, <3>3 DEF Replayed
      <4>2. k - i = 1
        BY <2>2, <3>3
      <4> QED
        BY <2>3, <2>5, <2>6, <3>1, <4>1, <4>2 DEF OwedBy
    <3>4. CASE ~(i + 1 >= k)
      <4>1. n = [m EXCEPT !.replay_idx = i + 1]
        BY <2>2, <3>2, <3>4 DEF Replayed
      <4>0. ~(i + 1 >= k)
        BY <3>4
      <4>2. i + 1 \in 0 .. 1
        BY <4>0
      <4>3. n \in Mshr /\ n.reqs = m.reqs /\ n.replay_idx = i + 1
        BY <2>1, <4>1, <4>2 DEF Mshr
      <4>4. OwedBy(n) = k - (i + 1)
        BY <2>2, <4>3, NoneAssumption DEF OwedBy
      <4> QED
        BY <2>3, <2>5, <2>6, <3>1, <4>4
    <3> QED
      BY <3>3, <3>4
  <2>7. CASE ~Replaying(e)
    <3>1. PICK g : g = Grown(e, r)
      OBVIOUS
    <3>2. PICK x \in 0 .. 1 : x = IF Merging(e, r) THEN 1 ELSE 0
      OBVIOUS
    <3>3. g \in Mshr /\ Len(g.reqs) = k + x /\ g.replay_idx = i
      BY <1>0, <1>2, <2>1, <2>2, <3>1, <3>2, GrownType
    <3>4. OwedBy(g) = (k + x) - i
      BY <3>3, NoneAssumption DEF OwedBy
    <3>5. OwedBy(n) = OwedBy(g)
      <4>1. CASE n = Sent(g)
        <5>1. n \in Mshr /\ n.reqs = g.reqs /\ n.replay_idx = g.replay_idx
          BY <3>3, <4>1, SentFields
        <5> QED
          BY <3>3, <5>1, NoneAssumption, OwedKept
      <4>2. CASE Filling(e, beat) /\ n = BeatTaken(g, beat)
        <5>1. beat.data \in Value /\ beat.error \in BOOLEAN
          BY <1>0, <4>2, FillingType
        <5>2. n \in Mshr
          BY <3>3, <4>2, <5>1, BeatTakenType
        <5>3. n.reqs = g.reqs /\ n.replay_idx = g.replay_idx
          BY <3>3, <4>2 DEF BeatTaken, Mshr
        <5> QED
          BY <3>3, <5>2, <5>3, NoneAssumption, OwedKept
      <4>3. CASE ~Merging(e, r) /\ n = Installed(m)
        <5>1. g = m
          BY <2>1, <3>1, <4>3 DEF Grown
        <5>2. n \in Mshr /\ n.reqs = g.reqs /\ n.replay_idx = g.replay_idx
          BY <2>1, <4>3, <5>1, InstalledFields
        <5> QED
          BY <3>3, <5>2, NoneAssumption, OwedKept
      <4>4. CASE n = WrittenBack(g, write)
        <5>1. n \in Mshr /\ n.reqs = g.reqs /\ n.replay_idx = g.replay_idx
          BY <3>3, <4>4 DEF WrittenBack, Mshr
        <5> QED
          BY <3>3, <5>1, NoneAssumption, OwedKept
      <4>5. CASE n = g
        BY <4>5
      <4> QED
        BY <1>0, <1>2, <2>1, <2>7, <3>1, <4>1, <4>2, <4>3, <4>4, <4>5, NextBusy
    <3> QED
      BY <2>3, <2>5, <2>7, <3>2, <3>4, <3>5
  <2> QED
    BY <2>6, <2>7
<1> QED
  BY <1>1, <1>2

LEMMA BalanceStep ==
  ASSUME IInv, NEW r, NEW take, NEW sent, NEW beat, NEW write,
         Inputs(r, take, sent, beat, write), Edge(r, take, sent, beat, write)
  PROVE  Balance' /\ awaited' \in Nat
<1>0. /\ TypeOK /\ r \in Request \cup {None} /\ Accepted(r)
      /\ take \in BOOLEAN /\ Taken(take)
      /\ \A e \in Entry : MshrInv(e)
  BY DEF IInv, Inputs
<1>1. PICK m, n : /\ m = mshr'[0] /\ n = mshr'[1]
                  /\ m = NextMshr(0, r, sent, beat, write)
                  /\ n = NextMshr(1, r, sent, beat, write)
  BY DEF Edge
<1>2. PICK x \in 0 .. 1, y \in 0 .. 1, u \in 0 .. 1, v \in 0 .. 1 :
        /\ x = IF Taking(0, r) THEN 1 ELSE 0
        /\ y = IF Taking(1, r) THEN 1 ELSE 0
        /\ u = IF Replaying(0) THEN 1 ELSE 0
        /\ v = IF Replaying(1) THEN 1 ELSE 0
  OBVIOUS
<1>3. PICK a \in 0 .. 2, b \in 0 .. 2, k \in Nat :
        a = Owed(0) /\ b = Owed(1) /\ k = Len(rsp) /\ awaited = k + a + b
  BY <1>0, OwedType DEF IInv, Balance, TypeOK
<1>4. OwedBy(m) = a + x - u /\ OwedBy(n) = b + y - v
  BY <1>1, <1>2, <1>3, OwedStep
<1>5. x + y = IF Merges(r) \/ Misses(r) THEN 1 ELSE 0
  <2>1. CASE Merges(r)
    <3>1. r \in Request /\ ActiveLine(r) # {} /\ ~Misses(r)
      BY <1>0, <2>1, Exclusive DEF Merges
    <3>2. First(ActiveLine(r)) \in {0, 1}
      BY <3>1, Active
    <3> QED
      BY <1>2, <2>1, <3>1, <3>2 DEF Taking, Merging
  <2>2. CASE ~Merges(r) /\ Misses(r)
    <3>1. NewEntry \in {0, 1}
      BY <2>2, NewEntryType
    <3> QED
      BY <1>2, <2>2, <3>1 DEF Taking, Merging
  <2>3. CASE ~Merges(r) /\ ~Misses(r)
    BY <1>2, <2>3 DEF Taking, Merging
  <2> QED
    BY <2>1, <2>2, <2>3
<1>6. u + v = IF ReplayEmit THEN 1 ELSE 0
  <2>1. CASE ReplayEmit
    <3>1. ReplayEntry \in {0, 1}
      BY <2>1, ReplayType
    <3> QED
      BY <1>2, <2>1, <3>1 DEF Replaying
  <2>2. CASE ~ReplayEmit
    BY <1>2, <2>2 DEF Replaying
  <2> QED
    BY <2>1, <2>2
<1>7. PICK s \in 0 .. 1, t \in 0 .. 1, h \in 0 .. 1 :
        /\ s = IF r = None THEN 0 ELSE 1
        /\ t = IF take THEN 1 ELSE 0
        /\ h = IF ReplayEmit \/ Hits(r) THEN 1 ELSE 0
  OBVIOUS
<1>8. s + u + v = x + y + h
  <2>1. ~(ReplayEmit /\ Hits(r))
    BY DEF Hits
  <2>2. s = 1 <=> Merges(r) \/ Hits(r) \/ Misses(r)
    BY <1>0, <1>7, Exclusive DEF Accepted
  <2>3. Hits(r) => ~Merges(r) /\ ~Misses(r)
    BY Exclusive
  <2> QED
    BY <1>5, <1>6, <1>7, <2>1, <2>2, <2>3
<1>9. t = 1 => k >= 1
  BY <1>0, <1>3, <1>7 DEF Taken, TypeOK
<1>10. awaited' = awaited + s - t
  BY <1>7 DEF Edge, NextAwaited
<1>11. Len(rsp') = (k - t) + h
  <2>1. rsp' = NextRsp(r, take)
    BY DEF Edge
  <2>2. Len(NextRsp(r, take)) = (k - t) + h
    BY <1>0, <1>3, <1>7, NextRspType
  <2> QED
    BY <2>1, <2>2
<1>12. Owed(0)' = OwedBy(m) /\ Owed(1)' = OwedBy(n)
  BY <1>1 DEF Owed, OwedBy
<1>13. k + a + b + s - t = ((k - t) + h) + (a + x - u) + (b + y - v)
  BY <1>8
<1>15. awaited' = k + a + b + s - t
  BY <1>3, <1>10
<1>16. awaited' = Len(rsp') + Owed(0)' + Owed(1)'
  BY <1>4, <1>11, <1>12, <1>13, <1>15
<1>17. t <= k
  BY <1>9
<1>18. k + a + b + s - t \in Nat
  BY <1>17
<1>14. awaited' \in Nat
  BY <1>15, <1>18
<1> QED
  BY <1>14, <1>16 DEF Balance

-----------------------------------------------------------------------------
(* The victim buffer after an edge.                                        *)
LEMMA BufferedFields ==
  ASSUME IInv, NEW r \in Request, Misses(r), VictimDirty(r)
  PROVE  LET n == Buffered(r)
         IN  /\ n \in Writeback /\ n # None /\ wb = None
             /\ n.owner = NewEntry /\ n.line \in Line
             /\ n.line.tag = VictimLine(r).tag /\ n.line.set = r.line.set
             /\ n.data = VictimLine(r).data /\ n.beat = 0 /\ n.state = "AW"
<1>1. PICK c \in Cached : c = VictimLine(r) /\ c.valid
  BY VictimType, RequestType, CellType DEF IInv, VictimLine, VictimDirty
<1>2. PICK k : k = [tag |-> c.tag, set |-> r.line.set]
  OBVIOUS
<1>3. k \in Line
  <2>1. PICK w \in Way, s \in Set : w = VictimWay(r) /\ s = r.line.set
    BY VictimType, RequestType DEF IInv
  <2>2. CellInv(w, s) /\ line[w][s] = c
    BY <1>1, <2>1 DEF IInv, VictimLine
  <2> QED
    BY <1>1, <1>2, <2>1, <2>2 DEF CellInv
<1>4. Buffered(r) = [owner |-> NewEntry, line |-> k, data |-> c.data, beat |-> 0,
                     state |-> "AW", dropped |-> FALSE]
  BY <1>1, <1>2 DEF Buffered
<1>5. NewEntry \in Entry /\ c.data \in LineData /\ 0 \in Beat
  BY <1>1, NewEntryType, BeatsAssumption DEF Cached, Beat
<1>6. Buffered(r) \in Writeback
  BY <1>3, <1>4, <1>5 DEF Writeback
<1>7. wb = None
  BY DEF Misses
<1>8. /\ Buffered(r).owner = NewEntry /\ Buffered(r).line = k /\ Buffered(r).data = c.data
      /\ Buffered(r).beat = 0 /\ Buffered(r).state = "AW"
  BY <1>4
<1>9. k.tag = c.tag /\ k.set = r.line.set
  BY <1>2
<1>10. Buffered(r) # None
  BY <1>6, NoneAssumption
<1> QED
  BY <1>1, <1>3, <1>6, <1>7, <1>8, <1>9, <1>10

LEMMA WbAdvances ==
  ASSUME IInv, wb # None,
         NEW r, NEW take, NEW sent, NEW beat, NEW write, Inputs(r, take, sent, beat, write),
         NEW n, n = NextWb(r, write), n # None
  PROVE  /\ ~WriteResponse(write)
         /\ n \in Writeback /\ n.owner = wb.owner /\ n.line = wb.line /\ n.data = wb.data
         /\ n.state = "AW" => n.beat = 0
         /\ \A b \in Beat : ~n.dropped /\ (n.state = "B" \/ b < n.beat)
                             => NextMemory(write)[wb.line][b] = wb.data[b]
<1>0. TypeOK /\ WbInv /\ write \in WriteAnswer /\ WriteChannel(write)
  BY DEF IInv, Inputs
<1>1. ~(Misses(r) /\ VictimDirty(r))
  BY DEF Misses
<1>2. PICK k : k = wb /\ k \in Writeback /\ k.beat \in Beat /\ k.state \in {"AW", "W", "B"}
              /\ k.dropped \in BOOLEAN
  BY <1>0, WbType
<1>3. /\ k.state = "AW" => k.beat = 0
      /\ \A b \in Beat : ~k.dropped /\ (k.state = "B" \/ b < k.beat)
                          => memory[k.line][b] = k.data[b]
  BY <1>0, <1>2 DEF WbInv
<1>4. \A b \in Beat : NextMemory(write)[k.line][b] =
        IF k.state = "W" /\ write = "ok" /\ b = k.beat THEN k.data[b] ELSE memory[k.line][b]
  BY <1>0, <1>2, NextMemoryAt
<1>5. CASE write = "wait"
  <2>1. n = k
    BY <1>1, <1>2, <1>5 DEF NextWb
  <2> QED
    BY <1>2, <1>3, <1>4, <1>5, <2>1 DEF WriteResponse
<1>6. CASE write # "wait" /\ k.state = "AW"
  <2>1. n = [k EXCEPT !.state = "W"]
    BY <1>1, <1>2, <1>6 DEF NextWb
  <2>2. /\ n \in Writeback /\ n.owner = k.owner /\ n.line = k.line /\ n.data = k.data
        /\ n.state = "W" /\ n.beat = k.beat
    BY <1>2, <2>1 DEF Writeback
  <2>3. \A b \in Beat : ~(b < n.beat)
    BY <1>3, <1>6, <2>2, BeatsAssumption DEF Beat
  <2> QED
    BY <1>2, <1>6, <2>2, <2>3 DEF WriteResponse
<1>7. CASE write # "wait" /\ k.state = "B"
  BY <1>1, <1>2, <1>7 DEF NextWb
<1>8. CASE write # "wait" /\ k.state = "W"
  <2>1. n = [k EXCEPT !.dropped = @ \/ write = "error",
                      !.state = IF k.beat = Beats - 1 THEN "B" ELSE "W",
                      !.beat = IF k.beat = Beats - 1 THEN 0 ELSE @ + 1]
    BY <1>1, <1>2, <1>8 DEF NextWb
  <2> DEFINE d == k.dropped \/ write = "error"
             st == IF k.beat = Beats - 1 THEN "B" ELSE "W"
             i == IF k.beat = Beats - 1 THEN 0 ELSE k.beat + 1
  <2>2. d \in BOOLEAN /\ st \in {"AW", "W", "B"} /\ i \in Beat
    BY <1>2, BeatsAssumption DEF Beat
  <2>3. n = [k EXCEPT !.dropped = d, !.state = st, !.beat = i]
    BY <1>2, <2>1 DEF Writeback
  <2> HIDE DEF d, st, i
  <2>4. /\ n \in Writeback /\ n.owner = k.owner /\ n.line = k.line /\ n.data = k.data
        /\ n.dropped = d /\ n.state = st /\ n.beat = i
    BY <1>2, <2>2, <2>3 DEF Writeback
  <2>5. st # "AW"
    BY DEF st
  <2>6. ASSUME NEW b \in Beat, ~n.dropped, n.state = "B" \/ b < n.beat
        PROVE  NextMemory(write)[k.line][b] = k.data[b]
    <3>1. ~k.dropped /\ write = "ok"
      BY <1>0, <1>8, <2>4, <2>6 DEF d, WriteAnswer
    <3>2. b \in Nat /\ b <= Beats - 1 /\ k.beat \in Nat /\ k.beat <= Beats - 1
      BY <1>2, BeatsAssumption DEF Beat
    <3>3. b < k.beat \/ b = k.beat
      <4>1. CASE k.beat = Beats - 1
        BY <3>2, <4>1, BeatsAssumption
      <4>2. CASE k.beat # Beats - 1
        <5>1. b < k.beat + 1
          BY <2>4, <2>6, <4>2 DEF st, i
        <5> QED
          BY <3>2, <5>1
      <4> QED
        BY <4>1, <4>2
    <3> QED
      BY <1>3, <1>4, <1>8, <3>1, <3>3
  <2> QED
    BY <1>2, <1>8, <2>4, <2>5, <2>6 DEF WriteResponse
<1> QED
  BY <1>2, <1>5, <1>6, <1>7, <1>8

LEMMA NewVictim ==
  ASSUME wb = None, NEW r, NEW write, NextWb(r, write) # None
  PROVE  Misses(r) /\ VictimDirty(r) /\ NextWb(r, write) = Buffered(r)
  BY DEF NextWb

-----------------------------------------------------------------------------
LEMMA LruStep ==
  ASSUME TypeOK, NEW r \in Request \cup {None}
  PROVE  NextLru(r) \in [Set -> {0, 1}]
<1> SUFFICES ASSUME NEW s \in Set
             PROVE  NextLru(r)[s] \in {0, 1}
  BY DEF NextLru
<1> DEFINE installing == {e \in Entry : Installs(e) /\ mshr[e].line.set = s}
<1>1. CASE installing # {}
  <2>1. (CHOOSE e \in installing : TRUE) \in installing
    BY <1>1
  <2>2. PICK e \in Entry : e = (CHOOSE x \in installing : TRUE) /\ Installs(e)
    BY <2>1
  <2>3. mshr[e].way \in {0, 1}
    BY <2>2, MshrType DEF Installs
  <2>4. NextLru(r)[s] = 1 - mshr[e].way
    BY <1>1, <2>2 DEF NextLru
  <2> QED
    BY <2>3, <2>4
<1>2. CASE installing = {} /\ Hits(r) /\ r.line.set = s
  <2>1. HitWay(r) \in {0, 1}
    BY DEF HitWay
  <2>2. NextLru(r)[s] = 1 - HitWay(r)
    BY <1>2 DEF NextLru
  <2> QED
    BY <2>1, <2>2
<1>3. CASE installing = {} /\ ~(Hits(r) /\ r.line.set = s)
  <2>1. NextLru(r)[s] = lru[s]
    BY <1>3 DEF NextLru
  <2> QED
    BY <2>1 DEF TypeOK
<1> QED
  BY <1>1, <1>2, <1>3

(* A register that is busy after an edge was busy, or took a miss.         *)
LEMMA NextMshrCases ==
  ASSUME IInv, NEW e \in Entry,
         NEW r, NEW take, NEW sent, NEW beat, NEW write, Inputs(r, take, sent, beat, write),
         NEW n, n = NextMshr(e, r, sent, beat, write), n # None
  PROVE  \/ mshr[e] # None
         \/ /\ mshr[e] = None /\ r \in Request /\ Misses(r) /\ e = NewEntry
            /\ n = Allocated(r)
<1> SUFFICES ASSUME mshr[e] = None
             PROVE  r \in Request /\ Misses(r) /\ e = NewEntry /\ n = Allocated(r)
  OBVIOUS
<1>1. n = IF Misses(r) /\ e = NewEntry THEN Allocated(r) ELSE None
  BY NextFree DEF IInv
<1>2. r \in Request \cup {None} /\ (Misses(r) => r # None)
  BY Exclusive DEF Inputs
<1> QED
  BY <1>1, <1>2

LEMMA StepType ==
  ASSUME IInv, NEW r, NEW take, NEW sent, NEW beat, NEW write,
         Inputs(r, take, sent, beat, write), Edge(r, take, sent, beat, write)
  PROVE  TypeOK'
<1>0. /\ TypeOK /\ r \in Request \cup {None} /\ take \in BOOLEAN /\ Taken(take)
      /\ \A e \in Entry : MshrInv(e)
  BY DEF IInv, Inputs
<1>1. line' \in [Way -> [Set -> Cached]]
  <2>1. NextLine(r, write) \in Arrays
    BY NextCell
  <2> QED
    BY <2>1 DEF Edge, Arrays
<1>2. lru' \in [Set -> {0, 1}]
  BY <1>0, LruStep DEF Edge
<1>3. ASSUME NEW e \in Entry, mshr'[e] # None
      PROVE  mshr'[e] \in Mshr /\ Len(mshr'[e].reqs) \in 1 .. MergeDepth
  <2>1. PICK n : n = mshr'[e] /\ n = NextMshr(e, r, sent, beat, write) /\ n # None
    BY <1>3 DEF Edge
  <2>2. CASE mshr[e] # None
    <3>1. n \in Mshr /\ Len(n.reqs) \in 1 .. 2
      BY <2>1, <2>2, NextFields
    <3> QED
      BY <2>1, <3>1
  <2>3. CASE mshr[e] = None
    <3>1. r \in Request /\ n = Allocated(r)
      BY <2>1, <2>3, NextMshrCases
    <3>2. n \in Mshr /\ Len(n.reqs) = 1
      BY <1>0, <3>1, AllocatedFields
    <3> QED
      BY <2>1, <3>2
  <2> QED
    BY <2>2, <2>3
<1>4. wb' \in Writeback \cup {None}
  <2>1. PICK n : n = wb' /\ n = NextWb(r, write)
    BY DEF Edge
  <2>2. CASE wb = None /\ n # None
    <3>1. Misses(r) /\ VictimDirty(r) /\ n = Buffered(r) /\ r \in Request
      BY <1>0, <2>1, <2>2, NewVictim, Exclusive
    <3> QED
      BY <2>1, <3>1, BufferedFields
  <2>3. CASE wb # None /\ n # None
    <3>1. n \in Writeback
      BY <2>1, <2>3, WbAdvances
    <3> QED
      BY <2>1, <3>1
  <2> QED
    BY <2>1, <2>2, <2>3
<1>5. rsp' \in Seq(Response) /\ Len(rsp') <= RspDepth
  <2>1. rsp' = NextRsp(r, take)
    BY DEF Edge
  <2> QED
    BY <1>0, <2>1, NextRspType
<1>6. memory' \in [Line -> LineData]
  BY <1>0, NextMemoryAt DEF Edge
<1>7. awaited' \in Nat
  BY BalanceStep
<1> QED
  BY <1>1, <1>2, <1>3, <1>4, <1>5, <1>6, <1>7 DEF TypeOK

-----------------------------------------------------------------------------
(* The lines of an edge that is not the first to see them.                 *)
LEMMA StaysAbsent ==
  ASSUME IInv, NEW r, NEW take, NEW sent, NEW beat, NEW write,
         Inputs(r, take, sent, beat, write), Edge(r, take, sent, beat, write),
         NEW l \in Line, Absent(l),
         \A e \in Entry : ~(Installs(e) /\ mshr[e].line = l),
         ~(WriteResponse(write) /\ write = "error" /\ wb.line = l)
  PROVE  Absent(l)'
<1>1. ASSUME NEW w \in Way, line'[w][l.set].valid, line'[w][l.set].tag = l.tag
      PROVE  FALSE
  <2>1. NextLine(r, write)[w][l.set].valid /\ NextLine(r, write)[w][l.set].tag = l.tag
    BY <1>1 DEF Edge
  <2>2. \/ Present(w, l)
        \/ \E e \in Entry : InstallAt(e, w, l.set) /\ mshr[e].line = l
        \/ RestoreAt(write, w, l.set) /\ wb.line = l
    BY <2>1, NextPresent
  <2> QED
    BY <2>2 DEF Absent, InstallAt, RestoreAt
<1> QED
  BY <1>1 DEF Absent, Present

(* A request that misses is in no way and no register, and not the victim. *)
LEMMA MissIsNew ==
  ASSUME IInv, NEW r \in Request, Misses(r)
  PROVE  /\ Absent(r.line)
         /\ \A e \in Entry : mshr[e] # None => mshr[e].line.set # r.line.set
         /\ wb # None => wb.line.set # r.line.set
<1>1. \A w \in Way : ~Present(w, r.line)
  BY DEF Misses, HitWays, Present
<1>2. \A e \in Entry : mshr[e] # None => mshr[e].line.set # r.line.set
  BY NoActive DEF Misses
<1>3. wb # None => wb.line.set # r.line.set
  BY <1>2, WbType DEF IInv, VictimCanReturn
<1> QED
  BY <1>1, <1>2, <1>3 DEF Absent

LEMMA CellStep ==
  ASSUME IInv, NEW r, NEW take, NEW sent, NEW beat, NEW write,
         Inputs(r, take, sent, beat, write), Edge(r, take, sent, beat, write),
         NEW w \in Way, NEW s \in Set
  PROVE  CellInv(w, s)'
<1>0. TypeOK /\ CellInv(w, s) /\ r \in Request \cup {None} /\ \A e \in Entry : MshrInv(e)
  BY DEF IInv, Inputs
<1>1. PICK n, c : /\ n = line'[w][s] /\ n = NextLine(r, write)[w][s]
                  /\ c = line[w][s] /\ c \in Cached
  BY <1>0, CellType DEF Edge
<1>2. PICK mem : mem = NextMemory(write) /\ mem = memory'
  BY DEF Edge
<1>3. mem \in [Line -> LineData]
      /\ \A l \in Line : wb = None \/ wb.line # l => mem[l] = memory[l]
  <2>1. /\ NextMemory(write) \in [Line -> LineData]
        /\ \A l \in Line : wb = None \/ wb.line # l => NextMemory(write)[l] = memory[l]
    BY <1>0, NextMemoryAt
  <2> QED
    BY <1>2, <2>1
<1> SUFFICES ASSUME n.valid
             PROVE  /\ [tag |-> n.tag, set |-> s] \in Line
                    /\ ~n.dirty => n.data = mem[[tag |-> n.tag, set |-> s]]
  BY <1>1, <1>2 DEF CellInv
<1>4. c.valid => /\ [tag |-> c.tag, set |-> s] \in Line
                 /\ ~c.dirty => c.data = memory[[tag |-> c.tag, set |-> s]]
  BY <1>0, <1>1 DEF CellInv
<1>5. CASE \E q \in Request : n = Store(c, q) /\ c.valid
  <2>1. n.tag = c.tag /\ n.dirty = TRUE
    BY <1>5 DEF Store, Cached
  <2> QED
    BY <1>4, <1>5, <2>1
<1>6. CASE \E e \in Entry : InstallAt(e, w, s) /\ n = InstalledCell(e)
  <2>1. PICK e \in Entry : InstallAt(e, w, s) /\ n = InstalledCell(e) /\ mshr[e] # None
    BY <1>6 DEF InstallAt, Installs
  <2>2. PICK m \in Mshr : m = mshr[e]
    BY <1>0, <2>1, MshrType
  <2>3. /\ m.line \in Line /\ m.fill \in LineData /\ s = m.line.set
        /\ m.refill_done /\ ~m.error /\ ~m.install_done
    BY <2>1, <2>2 DEF InstallAt, Installs, Mshr
  <2>4. m.line = [tag |-> m.line.tag, set |-> s]
    BY <2>3, LineType
  <2>5. n.tag = m.line.tag /\ n.data = m.fill
    BY <2>1, <2>2 DEF InstalledCell
  <2>6. mem[m.line] = memory[m.line]
    BY <1>3, <2>1, <2>2, <2>3, MissNotVictim
  <2>7. \A b \in Beat : m.fill[b] = memory[m.line][b]
    BY <1>0, <2>1, <2>2, <2>3 DEF MshrInv, MissInv, Filled
  <2>8. memory[m.line] \in LineData
    BY <1>0, <2>3 DEF TypeOK
  <2>9. m.fill = memory[m.line]
    BY <2>3, <2>7, <2>8 DEF LineData
  <2> QED
    BY <2>3, <2>4, <2>5, <2>6, <2>9
<1>7. CASE RestoreAt(write, w, s) /\ n = RestoredCell
  <2>1. wb # None /\ mshr[wb.owner].line.set = wb.line.set
    BY <1>7 DEF RestoreAt, WriteResponse, IInv, VictimCanReturn
  <2>2. wb.line \in Line /\ s = wb.line.set /\ n.tag = wb.line.tag /\ n.dirty = TRUE
    BY <1>0, <1>7, <2>1, WbType DEF RestoreAt, RestoredCell
  <2> QED
    BY <2>2, LineType
<1>8. CASE n = c
  <2>1. PICK l \in Line : l = [tag |-> c.tag, set |-> s] /\ c.valid
    BY <1>4, <1>8
  <2>2. Present(w, l)
    BY <1>1, <2>1 DEF Present
  <2>3. wb = None \/ wb.line # l
    BY <2>2 DEF IInv, WbInv, Absent
  <2> QED
    BY <1>3, <1>4, <1>8, <2>1, <2>3
<1>9. HitAt(r, w, s) => r \in Request /\ c.valid
  BY <1>0, <1>1, Exclusive, CellExclusive DEF HitAt
<1>10. ReplayAt(w, s) => ReplayRequest \in Request /\ c.valid
  BY <1>0, <1>1, ReplayRequestType, CellExclusive DEF ReplayAt
<1>11. PowerUp.valid = FALSE
  BY DEF PowerUp
<1> QED
  BY <1>1, <1>5, <1>6, <1>7, <1>8, <1>9, <1>10, <1>11, NextCell

LEMMA WaysStep ==
  ASSUME IInv, NEW r, NEW take, NEW sent, NEW beat, NEW write,
         Inputs(r, take, sent, beat, write), Edge(r, take, sent, beat, write)
  PROVE  WaysDiffer'
<1> SUFFICES ASSUME NEW s \in Set, line'[0][s].valid, line'[1][s].valid,
                    line'[0][s].tag = line'[1][s].tag
             PROVE  FALSE
  BY DEF WaysDiffer
<1>1. CellInv(0, s)'
  BY CellStep
<1>2. PICK l \in Line : l = [tag |-> line'[0][s].tag, set |-> s]
  BY <1>1 DEF CellInv
<1>3. /\ l.set = s /\ NextLine(r, write) = line'
      /\ line'[0][s].tag = l.tag /\ line'[1][s].tag = l.tag
  BY <1>2 DEF Edge
<1>4. \/ Present(0, l)
      \/ \E e \in Entry : InstallAt(e, 0, s) /\ mshr[e].line = l
      \/ RestoreAt(write, 0, s) /\ wb.line = l
  BY <1>3, NextPresent
<1>5. \/ Present(1, l)
      \/ \E e \in Entry : InstallAt(e, 1, s) /\ mshr[e].line = l
      \/ RestoreAt(write, 1, s) /\ wb.line = l
  BY <1>3, NextPresent
<1>6. ~(Present(0, l) /\ Present(1, l))
  BY <1>3 DEF Present, IInv, WaysDiffer
<1>7. ASSUME NEW e \in Entry, NEW w \in Way, InstallAt(e, w, s), mshr[e].line = l
      PROVE  ~Present(0, l) /\ ~Present(1, l)
  BY <1>7 DEF InstallAt, Installs, IInv, MshrInv, MissInv, Absent
<1>8. ASSUME NEW w \in Way, RestoreAt(write, w, s), wb.line = l
      PROVE  ~Present(0, l) /\ ~Present(1, l)
  BY <1>8 DEF RestoreAt, WriteResponse, IInv, WbInv, Absent
<1>9. ~\E e \in Entry, f \in Entry : InstallAt(e, 0, s) /\ InstallAt(f, 1, s)
  <2> SUFFICES ASSUME NEW e \in Entry, NEW f \in Entry, InstallAt(e, 0, s), InstallAt(f, 1, s)
               PROVE  FALSE
    OBVIOUS
  <2>1. mshr[e] # None /\ mshr[f] # None /\ mshr[e].line.set = mshr[f].line.set
    BY DEF InstallAt, Installs
  <2>2. e = f
    BY <2>1, OneSet DEF IInv
  <2> QED
    BY <2>2 DEF InstallAt
<1>10. ~(RestoreAt(write, 0, s) /\ RestoreAt(write, 1, s))
  BY DEF RestoreAt
<1>11. ASSUME NEW e \in Entry, NEW w \in Way, NEW v \in Way, InstallAt(e, w, s), mshr[e].line = l,
              RestoreAt(write, v, s), wb.line = l
       PROVE  FALSE
  BY <1>11, MissNotVictim DEF InstallAt, Installs, RestoreAt, WriteResponse
<1> QED
  BY <1>4, <1>5, <1>6, <1>7, <1>8, <1>9, <1>10, <1>11

-----------------------------------------------------------------------------
LEMMA InstallKeepsLine ==
  ASSUME IInv, NEW e \in Entry, mshr[e] # None, ~Installs(e)
  PROVE  \A f \in Entry : ~(Installs(f) /\ mshr[f].line.set = mshr[e].line.set)
  BY OneSet DEF IInv, Installs

LEMMA NoInstallElsewhere ==
  ASSUME IInv, NEW e \in Entry, mshr[e] # None, ~Installs(e)
  PROVE  \A f \in Entry, w \in Way : ~InstallAt(f, w, mshr[e].line.set)
  BY InstallKeepsLine DEF InstallAt

LEMMA RestoreIsOwn ==
  ASSUME IInv, NEW e \in Entry, mshr[e] # None, NEW write, NEW w,
         RestoreAt(write, w, mshr[e].line.set)
  PROVE  WritingBack(e, write) /\ write = "error"
<1>1. wb # None /\ WriteResponse(write) /\ write = "error"
      /\ mshr[e].line.set = mshr[wb.owner].line.set
  BY DEF RestoreAt, WriteResponse
<1>2. PICK o \in Entry : o = wb.owner /\ mshr[o] # None
  BY <1>1, WbType DEF IInv, VictimCanReturn
<1>3. e = o
  BY <1>1, <1>2, OneSet DEF IInv
<1> QED
  BY <1>1, <1>2, <1>3 DEF WritingBack

LEMMA MshrStep ==
  ASSUME IInv, NEW r, NEW take, NEW sent, NEW beat, NEW write,
         Inputs(r, take, sent, beat, write), Edge(r, take, sent, beat, write),
         NEW e \in Entry
  PROVE  MshrInv(e)'
<1> SUFFICES ASSUME mshr'[e] # None
             PROVE  MshrInv(e)'
  BY DEF MshrInv
<1>0. TypeOK /\ MshrInv(e) /\ r \in Request \cup {None}
  BY DEF IInv, Inputs
<1>1. PICK n : n = mshr'[e] /\ n = NextMshr(e, r, sent, beat, write) /\ n # None
  BY DEF Edge
<1>2. PICK mem : mem = NextMemory(write) /\ mem = memory'
  BY DEF Edge
<1>3. \A l \in Line : wb = None \/ wb.line # l => mem[l] = memory[l]
  <2>1. \A l \in Line : wb = None \/ wb.line # l => NextMemory(write)[l] = memory[l]
    BY <1>0, NextMemoryAt
  <2> QED
    BY <1>2, <2>1
<1>4. PICK lines : lines = NextLine(r, write) /\ lines = line'
  BY DEF Edge
<1>5. SUFFICES /\ n.replay_idx < Len(n.reqs)
               /\ \A i \in 1 .. Len(n.reqs) : n.reqs[i].line = n.line
               /\ ~n.refill_done => n.replay_idx = 0
               /\ n.install_done => /\ n.refill_done /\ ~n.error
                                    /\ lines[n.way][n.line.set].valid
                                    /\ lines[n.way][n.line.set].tag = n.line.tag
               /\ ~n.install_done => Absent(n.line)'
               /\ ~n.install_done /\ ~n.error =>
                    /\ ~lines[n.way][n.line.set].valid
                    /\ \A b \in Beat : n.refill_done \/ b < n.refill_beat
                                        => n.fill[b] = mem[n.line][b]
  BY <1>1, <1>2, <1>4 DEF MshrInv, MissInv, Present, Filled
<1>6. CASE mshr[e] # None
  <2>1. PICK m : m = mshr[e]
    OBVIOUS
  <2>2. /\ m.line \in Line /\ m.line.set \in Set /\ m.way \in Way
        /\ m.install_done => m.refill_done /\ ~m.error /\ Present(m.way, m.line)
        /\ ~m.install_done => Absent(m.line)
        /\ ~m.install_done /\ ~m.error => ~line[m.way][m.line.set].valid
    BY <1>0, <1>6, <2>1, MshrType DEF MshrInv, MissInv
  <2>3. /\ n.replay_idx < Len(n.reqs)
        /\ \A i \in 1 .. Len(n.reqs) : n.reqs[i].line = n.line
        /\ n.line = m.line /\ n.way = m.way
        /\ n.install_done <=> m.install_done \/ Installs(e)
        /\ n.install_done => n.refill_done /\ ~n.error
        /\ ~n.refill_done => n.replay_idx = 0
        /\ ~n.install_done /\ ~n.error =>
             /\ ~m.error /\ Filled(n)
             /\ ~(WritingBack(e, write) /\ write = "error")
    BY <1>1, <1>6, <2>1, NextFields
  <2>4. ASSUME n.install_done
        PROVE  lines[m.way][m.line.set].valid /\ lines[m.way][m.line.set].tag = m.line.tag
    <3>1. CASE Installs(e)
      <4>1. PICK w \in Way, s \in Set : w = m.way /\ s = m.line.set
        BY <2>2
      <4>2. InstallAt(e, w, s)
        BY <2>1, <3>1, <4>1 DEF InstallAt
      <4>3. NextLine(r, write)[w][s] = InstalledCell(e)
        BY <4>2, InstalledAt
      <4> QED
        BY <1>4, <2>1, <4>1, <4>3 DEF InstalledCell
    <3>2. CASE ~Installs(e)
      <4>1. Present(m.way, m.line)
        BY <2>2, <2>3, <2>4, <3>2
      <4>2. ~EvictAt(r, m.way, m.line.set)
        BY <1>0, <1>6, <2>1, MissIsNew, Exclusive DEF EvictAt
      <4>3. PICK w \in Way, l \in Line : w = m.way /\ l = m.line
        BY <2>2
      <4>4. Present(w, l) /\ ~EvictAt(r, w, l.set)
        BY <4>1, <4>2, <4>3
      <4>5. NextLine(r, write)[w][l.set].valid /\ NextLine(r, write)[w][l.set].tag = l.tag
        BY <4>4, KeepPresent
      <4> QED
        BY <1>4, <4>3, <4>5
    <3> QED
      BY <3>1, <3>2
  <2>5. ASSUME ~n.install_done
        PROVE  Absent(m.line)'
    <3>1. PICK l \in Line : l = m.line
      BY <2>2
    <3>2. Absent(l) /\ ~Installs(e)
      BY <2>2, <2>3, <2>5, <3>1
    <3>3. \A f \in Entry : ~(Installs(f) /\ mshr[f].line = l)
      BY <1>6, <2>1, <3>1, <3>2, InstallKeepsLine
    <3>4. ~(WriteResponse(write) /\ write = "error" /\ wb.line = l)
      BY <1>6, <2>1, <3>1, MissNotVictim DEF WriteResponse
    <3>5. Absent(l)'
      BY <3>2, <3>3, <3>4, StaysAbsent
    <3> QED
      BY <3>1, <3>5
  <2>6. ASSUME ~n.install_done, ~n.error
        PROVE  ~lines[m.way][m.line.set].valid
    <3>1. PICK w \in Way, s \in Set : w = m.way /\ s = m.line.set
      BY <2>2
    <3>2. ~line[w][s].valid /\ ~Installs(e)
      BY <2>2, <2>3, <2>6, <3>1
    <3>3. \A f \in Entry : ~InstallAt(f, w, s)
      BY <1>6, <2>1, <3>1, <3>2, NoInstallElsewhere
    <3>4. ~RestoreAt(write, w, s)
      BY <1>6, <2>1, <2>3, <2>6, <3>1, RestoreIsOwn
    <3>5. ~NextLine(r, write)[w][s].valid
      BY <3>2, <3>3, <3>4, StayInvalid
    <3> QED
      BY <1>4, <3>1, <3>5
  <2>7. mem[m.line] = memory[m.line]
    BY <1>3, <1>6, <2>1, <2>2, MissNotVictim
  <2> QED
    BY <2>3, <2>4, <2>5, <2>6, <2>7 DEF Filled
<1>7. CASE mshr[e] = None
  <2>1. r \in Request /\ Misses(r) /\ n = Allocated(r)
    BY <1>1, <1>7, NextMshrCases
  <2>2. PICK l \in Line : l = r.line
    BY <2>1, RequestType
  <2>3. /\ Len(n.reqs) = 1 /\ n.reqs[1] = r /\ n.line = l
        /\ n.way = VictimWay(r) /\ n.replay_idx = 0
        /\ n.refill_beat = 0 /\ n.refill_done = FALSE
        /\ n.install_done = FALSE /\ n.error = FALSE
    BY <1>0, <2>1, <2>2, AllocatedFields
  <2>4. Absent(l)'
    <3>1. Absent(l) /\ (wb # None => wb.line.set # l.set)
          /\ \A f \in Entry : mshr[f] # None => mshr[f].line.set # l.set
      BY <2>1, <2>2, MissIsNew
    <3>2. /\ \A f \in Entry : ~(Installs(f) /\ mshr[f].line = l)
          /\ ~(WriteResponse(write) /\ write = "error" /\ wb.line = l)
      BY <3>1 DEF Installs, WriteResponse
    <3> QED
      BY <3>1, <3>2, StaysAbsent
  <2>5. ~lines[n.way][l.set].valid
    <3>1. PICK w \in Way, s \in Set : w = VictimWay(r) /\ s = r.line.set
      BY <1>0, <2>1, VictimType, RequestType
    <3>2. EvictAt(r, w, s)
      BY <2>1, <3>1 DEF EvictAt
    <3> QED
      BY <1>4, <2>2, <2>3, <3>1, <3>2, Evicted
  <2>6. \A b \in Beat : ~(b < 0)
    BY BeatsAssumption DEF Beat
  <2>7. \A i \in 1 .. Len(n.reqs) : n.reqs[i].line = n.line
    BY <2>2, <2>3
  <2> QED
    BY <2>3, <2>4, <2>5, <2>6, <2>7
<1> QED
  BY <1>6, <1>7

LEMMA SetsStep ==
  ASSUME IInv, NEW r, NEW take, NEW sent, NEW beat, NEW write,
         Inputs(r, take, sent, beat, write), Edge(r, take, sent, beat, write)
  PROVE  SetsDiffer'
<1>0. TypeOK /\ SetsDiffer
  BY DEF IInv
<1> SUFFICES ASSUME mshr'[0] # None, mshr'[1] # None
             PROVE  mshr'[0].line.set # mshr'[1].line.set
  BY DEF SetsDiffer
<1>1. PICK m, n : /\ m = mshr'[0] /\ m = NextMshr(0, r, sent, beat, write) /\ m # None
                  /\ n = mshr'[1] /\ n = NextMshr(1, r, sent, beat, write) /\ n # None
  BY DEF Edge
<1>2. /\ mshr[0] # None => m.line = mshr[0].line
      /\ mshr[1] # None => n.line = mshr[1].line
  BY <1>1, NextFields
<1>3. ASSUME mshr[0] = None
      PROVE  r \in Request /\ Misses(r) /\ NewEntry = 0 /\ m.line = r.line
  <2>1. r \in Request /\ Misses(r) /\ NewEntry = 0 /\ m = Allocated(r)
    BY <1>1, <1>3, NextMshrCases
  <2> QED
    BY <2>1 DEF Allocated
<1>4. ASSUME mshr[1] = None
      PROVE  r \in Request /\ Misses(r) /\ NewEntry = 1 /\ n.line = r.line
  <2>1. r \in Request /\ Misses(r) /\ NewEntry = 1 /\ n = Allocated(r)
    BY <1>1, <1>4, NextMshrCases
  <2> QED
    BY <2>1 DEF Allocated
<1>5. r \in Request /\ Misses(r) =>
        \A e \in Entry : mshr[e] # None => mshr[e].line.set # r.line.set
  BY MissIsNew
<1>6. m.line.set # n.line.set
  BY <1>0, <1>2, <1>3, <1>4, <1>5 DEF SetsDiffer
<1> QED
  BY <1>1, <1>6

LEMMA VictimStep ==
  ASSUME IInv, NEW r, NEW take, NEW sent, NEW beat, NEW write,
         Inputs(r, take, sent, beat, write), Edge(r, take, sent, beat, write)
  PROVE  VictimCanReturn' /\ WbInv'
<1> SUFFICES ASSUME wb' # None
             PROVE  VictimCanReturn' /\ WbInv'
  BY DEF VictimCanReturn, WbInv
<1>0. TypeOK /\ r \in Request \cup {None}
  BY DEF IInv, Inputs
<1>1. PICK x, mem, lines, regs :
        /\ x = wb' /\ x = NextWb(r, write) /\ x # None
        /\ mem = memory' /\ mem = NextMemory(write)
        /\ lines = line' /\ lines = NextLine(r, write)
        /\ regs = mshr' /\ \A e \in Entry : regs[e] = NextMshr(e, r, sent, beat, write)
  BY DEF Edge
<1>2. SUFFICES /\ regs[x.owner] # None
               /\ regs[x.owner].need_wb /\ ~regs[x.owner].ar_sent
               /\ ~regs[x.owner].refill_done /\ regs[x.owner].line.set = x.line.set
               /\ ~lines[regs[x.owner].way][x.line.set].valid
               /\ Absent(x.line)'
               /\ regs[x.owner].line # x.line
               /\ x.state = "AW" => x.beat = 0
               /\ \A b \in Beat : ~x.dropped /\ (x.state = "B" \/ b < x.beat)
                                   => mem[x.line][b] = x.data[b]
  BY <1>1 DEF VictimCanReturn, WbInv
<1>3. CASE wb = None
  <2>1. r \in Request /\ Misses(r) /\ VictimDirty(r) /\ x = Buffered(r)
    BY <1>0, <1>1, <1>3, NewVictim, Exclusive
  <2>2. /\ x.owner = NewEntry /\ x.line \in Line
        /\ x.line.tag = VictimLine(r).tag /\ x.line.set = r.line.set
        /\ x.beat = 0 /\ x.state = "AW"
    BY <2>1, BufferedFields
  <2>3. NewEntry \in Entry /\ mshr[NewEntry] = None
    BY <2>1, NewEntryType
  <2>4. PICK e \in Entry : e = NewEntry
    BY <2>3
  <2>5. regs[e] = Allocated(r)
    BY <1>0, <1>1, <2>1, <2>3, <2>4, NextFree DEF IInv
  <2>6. PICK n : n = regs[e]
    OBVIOUS
  <2>7. /\ n # None /\ n.line = r.line /\ n.way = VictimWay(r)
        /\ ~n.ar_sent /\ n.need_wb /\ ~n.refill_done
    BY <1>0, <2>1, <2>5, <2>6, AllocatedFields
  <2>8. PICK w \in Way, s \in Set : w = VictimWay(r) /\ s = r.line.set
    BY <1>0, <2>1, VictimType, RequestType
  <2>9. EvictAt(r, w, s)
    BY <2>1, <2>8 DEF EvictAt
  <2>10. ~lines[w][s].valid
    BY <1>1, <2>9, Evicted
  <2>11. Present(w, x.line) /\ x.line # r.line
    <3>1. Present(w, x.line)
      BY <2>1, <2>2, <2>8 DEF VictimDirty, VictimLine, Present
    <3>2. Absent(r.line)
      BY <2>1, MissIsNew
    <3> QED
      BY <3>1, <3>2 DEF Absent
  <2>12. ASSUME NEW v \in Way, lines[v][x.line.set].valid, lines[v][x.line.set].tag = x.line.tag
         PROVE  FALSE
    <3>1. \/ Present(v, x.line) /\ ~EvictAt(r, v, s)
          \/ \E f \in Entry : InstallAt(f, v, s) /\ mshr[f].line = x.line
          \/ RestoreAt(write, v, s) /\ wb.line = x.line
      <4>1. PICK l \in Line : l = x.line /\ l.set = s
        BY <2>2, <2>8
      <4>2. NextLine(r, write)[v][l.set].valid /\ NextLine(r, write)[v][l.set].tag = l.tag
        BY <1>1, <2>12, <4>1
      <4> QED
        BY <4>1, <4>2, NextPresent
    <3>2. ~RestoreAt(write, v, s)
      BY <1>3 DEF RestoreAt, WriteResponse
    <3>3. \A f \in Entry : ~InstallAt(f, v, s)
      BY <2>1, <2>8, MissIsNew DEF InstallAt, Installs
    <3>4. v # w
      BY <2>9, <3>1, <3>2, <3>3
    <3>5. line[v][s].valid /\ line[w][s].valid /\ line[v][s].tag = line[w][s].tag
      BY <2>2, <2>8, <2>11, <3>1, <3>2, <3>3 DEF Present
    <3> QED
      BY <3>4, <3>5 DEF IInv, WaysDiffer
  <2>13. Absent(x.line)'
    BY <1>1, <2>12 DEF Absent, Present
  <2>14. \A b \in Beat : ~(b < 0)
    BY BeatsAssumption DEF Beat
  <2> QED
    BY <2>2, <2>4, <2>6, <2>7, <2>8, <2>10, <2>11, <2>13, <2>14
<1>4. CASE wb # None
  <2>1. /\ ~WriteResponse(write)
        /\ x.owner = wb.owner /\ x.line = wb.line /\ x.data = wb.data
        /\ x.state = "AW" => x.beat = 0
        /\ \A b \in Beat : ~x.dropped /\ (x.state = "B" \/ b < x.beat)
                            => mem[x.line][b] = x.data[b]
    BY <1>1, <1>4, WbAdvances
  <2>2. PICK l \in Line, o \in Entry : l = wb.line /\ o = wb.owner
    BY <1>0, <1>4, WbType
  <2>3. PICK m : m = mshr[o]
    OBVIOUS
  <2>4. /\ m # None /\ m.need_wb /\ ~m.refill_done /\ m.line.set = l.set /\ m.line # l
        /\ ~line[m.way][l.set].valid /\ Absent(l) /\ m.way \in Way
    <3>1. VictimCanReturn /\ WbInv
      BY DEF IInv
    <3>2. m # None
      BY <1>4, <2>2, <2>3, <3>1 DEF VictimCanReturn
    <3>3. m.way \in Way
      BY <1>0, <2>3, <3>2, MshrType
    <3> QED
      BY <1>4, <2>2, <2>3, <3>1, <3>2, <3>3 DEF VictimCanReturn, WbInv
  <2>5. PICK n : n = regs[o] /\ n = NextMshr(o, r, sent, beat, write)
    BY <1>1
  <2>6. n # None
    <3>1. ~Replaying(o)
      BY <2>3, <2>4, ReplayingType
    <3>2. PICK i \in 0 .. 2 : i = Owed(o) /\ i >= 1
      <4>1. PICK j \in 0 .. 1, k \in 1 .. 2 :
              j = mshr[o].replay_idx /\ k = Len(mshr[o].reqs) /\ j < k
        BY <1>0, <2>3, <2>4, MshrType DEF IInv, MshrInv, MissInv
      <4>2. Owed(o) = k - j /\ j < k
        BY <2>3, <2>4, <4>1 DEF Owed
      <4>3. k - j \in 0 .. 2 /\ k - j >= 1
        BY <4>2
      <4> QED
        BY <4>2, <4>3
    <3>3. PICK t \in 0 .. 1 : t = IF Taking(o, r) THEN 1 ELSE 0
      OBVIOUS
    <3>4. OwedBy(n) = i + t
      BY <2>5, <3>1, <3>2, <3>3, OwedStep
    <3>5. OwedBy(n) # 0
      BY <3>2, <3>4
    <3> QED
      BY <3>5 DEF OwedBy
  <2>7. n.line = m.line /\ n.way = m.way /\ n.need_wb /\ ~n.ar_sent /\ ~n.refill_done
    BY <1>4, <2>1, <2>2, <2>3, <2>4, <2>5, <2>6, NextFields
  <2>8. ~Installs(o)
    BY <2>3, <2>4 DEF Installs
  <2>9. Absent(l)'
    <3>1. \A f \in Entry : ~(Installs(f) /\ mshr[f].line = l)
      BY <1>4, <2>2, MissNotVictim DEF Installs
    <3> QED
      BY <2>1, <2>4, <3>1, StaysAbsent
  <2>10. ~lines[m.way][l.set].valid
    <3>1. PICK w \in Way, s \in Set : w = m.way /\ s = l.set
      BY <2>2, <2>4, LineType
    <3>2. \A f \in Entry : ~InstallAt(f, w, s)
      BY <2>3, <2>4, <2>8, <3>1, NoInstallElsewhere
    <3>3. ~RestoreAt(write, w, s)
      BY <2>1 DEF RestoreAt
    <3> QED
      BY <1>1, <2>4, <3>1, <3>2, <3>3, StayInvalid
  <2> QED
    BY <2>1, <2>2, <2>4, <2>5, <2>6, <2>7, <2>9, <2>10
<1> QED
  BY <1>3, <1>4

-----------------------------------------------------------------------------
LEMMA InitInv == Init => IInv
<1> SUFFICES ASSUME Init
             PROVE  IInv
  OBVIOUS
<1>1. \A s \in Set : PowerUp \in Cached /\ ~PowerUp.valid
  BY PowerUpType
<1>2. \A w \in Way, s \in Set : line[w][s] = PowerUp /\ ~line[w][s].valid
  BY <1>1 DEF Init
<1>3. \A e \in Entry : mshr[e] = None
  BY DEF Init
<1>4. wb = None /\ rsp = <<>> /\ awaited = 0
  BY DEF Init
<1>5. TypeOK
  <2>1. line \in [Way -> [Set -> Cached]]
    BY <1>1 DEF Init
  <2>2. lru \in [Set -> {0, 1}]
    BY DEF Init
  <2>3. memory \in [Line -> LineData]
    BY ZeroType DEF Init
  <2>4. rsp \in Seq(Response) /\ Len(rsp) <= RspDepth
    BY <1>4, RspDepthAssumption
  <2> QED
    BY <1>3, <1>4, <2>1, <2>2, <2>3, <2>4 DEF TypeOK
<1>6. \A w \in Way, s \in Set : CellInv(w, s)
  BY <1>2 DEF CellInv
<1>7. WaysDiffer
  BY <1>2 DEF WaysDiffer
<1>8. (\A e \in Entry : MshrInv(e)) /\ SetsDiffer
  BY <1>3 DEF MshrInv, SetsDiffer
<1>9. VictimCanReturn /\ WbInv
  BY <1>4 DEF VictimCanReturn, WbInv
<1>10. Balance
  BY <1>3, <1>4 DEF Balance, Owed
<1> QED
  BY <1>5, <1>6, <1>7, <1>8, <1>9, <1>10 DEF IInv

LEMMA ResetInv ==
  ASSUME IInv, Reset
  PROVE  IInv'
<1>1. \A s \in Set : PowerUp \in Cached /\ ~PowerUp.valid
  BY PowerUpType
<1>2. \A w \in Way, s \in Set : line'[w][s] = PowerUp /\ ~line'[w][s].valid
  BY <1>1 DEF Reset
<1>3. \A e \in Entry : mshr'[e] = None
  BY DEF Reset
<1>4. wb' = None /\ rsp' = <<>> /\ awaited' = 0
  BY DEF Reset
<1>5. TypeOK'
  <2>1. line' \in [Way -> [Set -> Cached]]
    BY <1>1 DEF Reset
  <2>2. lru' \in [Set -> {0, 1}]
    BY DEF Reset
  <2>3. memory' \in [Line -> LineData]
    BY DEF Reset, IInv, TypeOK
  <2>4. rsp' \in Seq(Response) /\ Len(rsp') <= RspDepth
    BY <1>4, RspDepthAssumption
  <2> QED
    BY <1>3, <1>4, <2>1, <2>2, <2>3, <2>4 DEF TypeOK
<1>6. \A w \in Way, s \in Set : CellInv(w, s)'
  BY <1>2 DEF CellInv
<1>7. WaysDiffer'
  BY <1>2 DEF WaysDiffer
<1>8. (\A e \in Entry : MshrInv(e)') /\ SetsDiffer'
  BY <1>3 DEF MshrInv, SetsDiffer
<1>9. VictimCanReturn' /\ WbInv'
  BY <1>4 DEF VictimCanReturn, WbInv
<1>10. Balance'
  BY <1>3, <1>4 DEF Balance, Owed
<1> QED
  BY <1>5, <1>6, <1>7, <1>8, <1>9, <1>10 DEF IInv

LEMMA StepInv ==
  ASSUME IInv, Step
  PROVE  IInv'
<1>1. PICK r \in Request \cup {None}, take \in BOOLEAN, sent \in BOOLEAN,
           beat \in ReadBeat \cup {None}, write \in WriteAnswer :
        /\ Accepted(r) /\ Taken(take) /\ ReadAddress(sent)
        /\ beat # None => Offered(beat)
        /\ WriteChannel(write)
        /\ Edge(r, take, sent, beat, write)
  BY DEF Step
<1>2. Inputs(r, take, sent, beat, write)
  BY <1>1 DEF Inputs
<1> QED
  BY <1>1, <1>2, StepType, CellStep, WaysStep, MshrStep, SetsStep, VictimStep, BalanceStep
     DEF IInv

-----------------------------------------------------------------------------
(* The inductive invariant, for any number of edges and resets.            *)
THEOREM Inductive == Spec => []IInv
<1>1. IInv /\ [Next]_vars => IInv'
  <2> SUFFICES ASSUME IInv, [Next]_vars
               PROVE  IInv'
    OBVIOUS
  <2>1. CASE Step
    BY <2>1, StepInv
  <2>2. CASE Reset
    BY <2>2, ResetInv
  <2>3. CASE UNCHANGED vars
    <3>1. /\ line' = line /\ lru' = lru /\ mshr' = mshr /\ wb' = wb
          /\ rsp' = rsp /\ memory' = memory /\ awaited' = awaited
      BY <2>3 DEF vars
    <3>2. TypeOK'
      BY <3>1 DEF IInv, TypeOK
    <3>3. \A w \in Way, s \in Set : CellInv(w, s)'
      BY <3>1 DEF IInv, CellInv
    <3>4. WaysDiffer' /\ SetsDiffer'
      BY <3>1 DEF IInv, WaysDiffer, SetsDiffer
    <3>5. \A e \in Entry : MshrInv(e)'
      <4> SUFFICES ASSUME NEW e \in Entry
                   PROVE  MshrInv(e)'
        OBVIOUS
      <4>1. MshrInv(e)
        BY DEF IInv
      <4> QED
        BY <3>1, <4>1 DEF MshrInv, MissInv, Absent, Present, Filled
    <3>6. VictimCanReturn'
      BY <3>1 DEF IInv, VictimCanReturn
    <3>7. WbInv'
      BY <3>1 DEF IInv, WbInv, Absent, Present
    <3>8. Balance'
      <4>1. Owed(0)' = Owed(0) /\ Owed(1)' = Owed(1)
        BY <3>1 DEF Owed
      <4> QED
        BY <3>1, <4>1 DEF IInv, Balance
    <3> QED
      BY <3>2, <3>3, <3>4, <3>5, <3>6, <3>7, <3>8 DEF IInv
  <2> QED
    BY <2>1, <2>2, <2>3 DEF Next
<1> QED
  BY <1>1, InitInv, PTL DEF Spec

(* The registers have their types and the FIFO is never overfilled, though *)
(* a replay and a hit compete for it at every edge.                        *)
THEOREM TypeCorrect == Spec => []TypeOK
<1>1. IInv => TypeOK
  BY DEF IInv
<1> QED
  BY <1>1, Inductive, PTL

(* The miss that evicted dirty data waits for it to be written back, and   *)
(* keeps the way in which a failure puts it back.                          *)
THEOREM VictimReturns == Spec => []VictimCanReturn
<1>1. IInv => VictimCanReturn
  BY DEF IInv
<1> QED
  BY <1>1, Inductive, PTL

(* What the CPU still expects is in the FIFO or owed by a miss: no request *)
(* is lost and none is answered twice.                                     *)
THEOREM AnswersBalance == Spec => []Balance
<1>1. IInv => Balance
  BY DEF IInv
<1> QED
  BY <1>1, Inductive, PTL

LEMMA HomesDiffer ==
  ASSUME IInv
  PROVE  OneHome
<1>1. ASSUME NEW l \in Line, NEW g \in Homes(l), NEW h \in Homes(l)
      PROVE  g = h
  <2> DEFINE IsWay(x) == \E w \in Way : x = <<"way", w>> /\ Present(w, l)
             IsMiss(x) == \E e \in Entry : /\ x = <<"miss", e>> /\ mshr[e] # None
                                          /\ mshr[e].line = l /\ ~mshr[e].install_done
             IsVictim(x) == x = <<"victim", 0>> /\ wb # None /\ wb.line = l
  <2>1. ASSUME NEW x \in Homes(l)
        PROVE  IsWay(x) \/ IsMiss(x) \/ IsVictim(x)
    <3>1. \/ x \in {<<"way", w>> : w \in {v \in Way : Present(v, l)}}
          \/ x \in {<<"miss", e>> : e \in {f \in Busy : /\ mshr[f].line = l
                                                      /\ ~mshr[f].install_done}}
          \/ x \in {<<"victim", 0>> : y \in IF wb # None /\ wb.line = l THEN {0} ELSE {}}
      BY <2>1 DEF Homes
    <3>2. CASE x \in {<<"way", w>> : w \in {v \in Way : Present(v, l)}}
      BY <3>2
    <3>3. CASE x \in {<<"miss", e>> : e \in {f \in Busy : /\ mshr[f].line = l
                                                       /\ ~mshr[f].install_done}}
      BY <3>3 DEF Busy
    <3>4. CASE x \in {<<"victim", 0>> : y \in IF wb # None /\ wb.line = l THEN {0} ELSE {}}
      BY <3>4
    <3> QED
      BY <3>1, <3>2, <3>3, <3>4
  <2>2. l.set \in Set
    BY LineType
  <2>3. ~(Present(0, l) /\ Present(1, l))
    BY <2>2 DEF Present, IInv, WaysDiffer
  <2>4. \A e \in Entry : mshr[e] # None /\ mshr[e].line = l /\ ~mshr[e].install_done
                          => ~Present(0, l) /\ ~Present(1, l)
    BY DEF IInv, MshrInv, MissInv, Absent
  <2>5. wb # None /\ wb.line = l => ~Present(0, l) /\ ~Present(1, l)
    BY DEF IInv, WbInv, Absent
  <2>6. wb # None /\ wb.line = l => \A e \in Entry : mshr[e] # None => mshr[e].line # l
    BY MissNotVictim
  <2>7. ASSUME NEW e \in Entry, NEW f \in Entry, mshr[e] # None, mshr[f] # None,
               mshr[e].line = l, mshr[f].line = l
        PROVE  e = f
    <3>1. mshr[e].line.set = mshr[f].line.set
      BY <2>7
    <3>2. SetsDiffer
      BY DEF IInv
    <3> QED
      BY <2>7, <3>1, <3>2, OneSet
  <2>8. IsWay(g) \/ IsMiss(g) \/ IsVictim(g)
    BY <2>1
  <2>9. IsWay(h) \/ IsMiss(h) \/ IsVictim(h)
    BY <2>1
  <2> QED
    BY <2>3, <2>4, <2>5, <2>6, <2>7, <2>8, <2>9
<1>2. Busy = Entry => mshr[0].line.set # mshr[1].line.set
  BY DEF IInv, SetsDiffer, Busy
<1> QED
  BY <1>1, <1>2 DEF OneHome

(* A line has one home, in any order of misses, merges, refills, failures  *)
(* and writebacks, and two misses never share a set.                       *)
THEOREM LinesHaveOneHome == Spec => []OneHome
<1>1. IInv => OneHome
  BY HomesDiffer
<1> QED
  BY <1>1, Inductive, PTL

-----------------------------------------------------------------------------
(* Visible, of any arrays a, victim buffer v and memory m.                 *)
Held(a, w, l) == a[w][l.set].valid /\ a[w][l.set].tag = l.tag

View(a, v, m, l) ==
  IF \E w \in Way : Held(a, w, l)
  THEN a[CHOOSE w \in Way : Held(a, w, l)][l.set].data
  ELSE IF v # None /\ v.line = l THEN v.data ELSE m[l]

LEMMA ViewHeld ==
  ASSUME NEW a, NEW v, NEW m, NEW l, NEW w \in Way, Held(a, w, l),
         ~(Held(a, 0, l) /\ Held(a, 1, l))
  PROVE  View(a, v, m, l) = a[w][l.set].data
<1>1. PICK u : u = CHOOSE x \in Way : Held(a, x, l)
  OBVIOUS
<1>2. u \in Way /\ Held(a, u, l)
  BY <1>1
<1>3. u = w
  BY <1>2
<1>4. \E x \in Way : Held(a, x, l)
  OBVIOUS
<1> QED
  BY <1>1, <1>3, <1>4 DEF View

LEMMA ViewVictim ==
  ASSUME NEW a, NEW v, NEW m, NEW l, \A w \in Way : ~Held(a, w, l), v # None, v.line = l
  PROVE  View(a, v, m, l) = v.data
  BY DEF View

LEMMA ViewMemory ==
  ASSUME NEW a, NEW v, NEW m, NEW l, \A w \in Way : ~Held(a, w, l), v = None \/ v.line # l
  PROVE  View(a, v, m, l) = m[l]
  BY DEF View

(* What the CPU sees of a line, now and after a step.                      *)
LEMMA SeenPresent ==
  ASSUME IInv, NEW l \in Line, NEW w \in Way, Present(w, l)
  PROVE  Visible(l) = line[w][l.set].data
<1>1. Visible(l) = View(line, wb, memory, l)
  BY DEF Visible, View, Present, Held
<1>2. ~(Present(0, l) /\ Present(1, l))
  BY LineType DEF IInv, WaysDiffer, Present
<1>3. Held(line, w, l) /\ ~(Held(line, 0, l) /\ Held(line, 1, l))
  BY <1>2 DEF Held, Present
<1> QED
  BY <1>1, <1>3, ViewHeld

LEMMA SeenVictim ==
  ASSUME NEW l \in Line, Absent(l), wb # None, wb.line = l
  PROVE  Visible(l) = wb.data
  BY DEF Visible, Absent

LEMMA SeenMemory ==
  ASSUME NEW l \in Line, Absent(l), wb = None \/ wb.line # l
  PROVE  Visible(l) = memory[l]
  BY DEF Visible, Absent

LEMMA SeenPresentNext ==
  ASSUME IInv', NEW l \in Line, NEW w \in Way, Present(w, l)'
  PROVE  Visible(l)' = line'[w][l.set].data
<1>0. PICK a, v, m : a = line' /\ v = wb' /\ m = memory'
  OBVIOUS
<1>1. Visible(l)' = View(a, v, m, l)
  BY <1>0 DEF Visible, View, Present, Held
<1>2. ~(Present(0, l)' /\ Present(1, l)')
  BY LineType DEF IInv, WaysDiffer, Present
<1>3. Held(a, w, l) /\ ~(Held(a, 0, l) /\ Held(a, 1, l))
  BY <1>0, <1>2 DEF Held, Present
<1> QED
  BY <1>0, <1>1, <1>3, ViewHeld

LEMMA SeenVictimNext ==
  ASSUME NEW l \in Line, Absent(l)', wb' # None, wb'.line = l
  PROVE  Visible(l)' = wb'.data
  BY DEF Visible, Absent

LEMMA SeenMemoryNext ==
  ASSUME NEW l \in Line, Absent(l)', wb' = None \/ wb'.line # l
  PROVE  Visible(l)' = memory'[l]
  BY DEF Visible, Absent

-----------------------------------------------------------------------------
(* What an edge makes of the words the CPU sees.                           *)
HitWrites(r, l) == Hits(r) /\ r.write /\ r.line = l
ReplayWrites(l) == /\ ReplayEmit /\ ~mshr[ReplayEntry].error /\ ReplayRequest.write
                   /\ mshr[ReplayEntry].line = l

Performed(r, l) ==
  IF HitWrites(r, l) THEN [Visible(l) EXCEPT ![r.word] = r.data]
  ELSE IF ReplayWrites(l)
       THEN [Visible(l) EXCEPT ![ReplayRequest.word] = ReplayRequest.data]
  ELSE Visible(l)

LEMMA ReplayedLine ==
  ASSUME IInv, ReplayEmit, ~mshr[ReplayEntry].error
  PROVE  /\ mshr[ReplayEntry].way \in Way /\ mshr[ReplayEntry].line \in Line
         /\ Present(mshr[ReplayEntry].way, mshr[ReplayEntry].line)
<1>1. /\ ReplayEntry \in Entry /\ mshr[ReplayEntry] # None
      /\ mshr[ReplayEntry].install_done
  BY ReplayType
<1>2. PICK e \in Entry : e = ReplayEntry
  BY <1>1
<1>3. MshrInv(e) /\ TypeOK
  BY DEF IInv
<1>4. mshr[e].way \in Way /\ mshr[e].line \in Line
  BY <1>1, <1>2, <1>3, MshrType
<1>5. Present(mshr[e].way, mshr[e].line)
  BY <1>1, <1>2, <1>3 DEF MshrInv, MissInv
<1> QED
  BY <1>2, <1>4, <1>5

(* A line in a way is written by a hit or a replay on it, or keeps its     *)
(* data.                                                                   *)
LEMMA PresentStep ==
  ASSUME IInv, IInv', NEW r, NEW take, NEW sent, NEW beat, NEW write,
         Inputs(r, take, sent, beat, write), Edge(r, take, sent, beat, write),
         NEW l \in Line, NEW w \in Way, Present(w, l), ~EvictAt(r, w, l.set)
  PROVE  Visible(l)' = Performed(r, l)
<1>0. /\ l.set \in Set /\ line' = NextLine(r, write) /\ r \in Request \cup {None} /\ TypeOK
  BY LineType DEF Edge, Inputs, IInv
<1>1. Present(w, l)'
  BY <1>0, KeepPresent DEF Present
<1>2. Visible(l) = line[w][l.set].data /\ Visible(l)' = line'[w][l.set].data
  BY <1>1, SeenPresent, SeenPresentNext
<1>3. PICK c, n : c = line[w][l.set] /\ n = line'[w][l.set]
  OBVIOUS
<1>4. c \in Cached /\ c.valid /\ c.tag = l.tag
  BY <1>0, <1>3, CellType DEF Present
<1>5. ~(Present(0, l) /\ Present(1, l))
  BY <1>0 DEF IInv, WaysDiffer, Present
<1>6. Hits(r) /\ r.line = l => HitWay(r) = w /\ r \in Request
  <2> SUFFICES ASSUME Hits(r), r.line = l PROVE HitWay(r) = w /\ r \in Request
    OBVIOUS
  <2>1. r \in Request
    BY <1>0, Exclusive
  <2>2. HitWay(r) \in Way /\ Present(HitWay(r), l)
    BY <2>1, HitType
  <2> QED
    BY <1>5, <2>1, <2>2
<1>7. HitAt(r, w, l.set) <=> HitWrites(r, l)
  <2>1. ASSUME HitAt(r, w, l.set) PROVE HitWrites(r, l)
    <3>1. r \in Request
      BY <1>0, <2>1, Exclusive DEF HitAt
    <3>2. Present(w, r.line) /\ r.line \in Line /\ r.line.set = l.set
      BY <2>1, <3>1, HitType, RequestType DEF HitAt
    <3>3. r.line.tag = l.tag
      BY <3>2 DEF Present
    <3> QED
      BY <2>1, <3>2, <3>3, SameLine DEF HitAt, HitWrites
  <2>2. ASSUME HitWrites(r, l) PROVE HitAt(r, w, l.set)
    BY <1>6, <2>2 DEF HitWrites, HitAt
  <2> QED
    BY <2>1, <2>2
<1>8. ReplayAt(w, l.set) <=> ReplayWrites(l)
  <2>1. ASSUME ReplayAt(w, l.set) PROVE ReplayWrites(l)
    <3>1. /\ mshr[ReplayEntry].line \in Line /\ mshr[ReplayEntry].line.set = l.set
          /\ Present(w, mshr[ReplayEntry].line)
      BY <2>1, ReplayedLine DEF ReplayAt
    <3>2. mshr[ReplayEntry].line.tag = l.tag
      BY <3>1 DEF Present
    <3> QED
      BY <2>1, <3>1, <3>2, SameLine DEF ReplayAt, ReplayWrites
  <2>2. ASSUME ReplayWrites(l) PROVE ReplayAt(w, l.set)
    <3>1. mshr[ReplayEntry].way \in Way /\ Present(mshr[ReplayEntry].way, l)
      BY <2>2, ReplayedLine DEF ReplayWrites
    <3> QED
      BY <1>5, <2>2, <3>1 DEF ReplayAt, ReplayWrites
  <2> QED
    BY <2>1, <2>2
<1>9. \/ HitAt(r, w, l.set) /\ n = Store(c, r)
      \/ ReplayAt(w, l.set) /\ ~HitAt(r, w, l.set) /\ n = Store(c, ReplayRequest)
      \/ ~HitAt(r, w, l.set) /\ ~ReplayAt(w, l.set) /\ n = c
  <2>1. \/ HitAt(r, w, l.set) /\ n = Store(c, r)
        \/ \E e \in Entry : InstallAt(e, w, l.set) /\ n = InstalledCell(e)
        \/ ReplayAt(w, l.set) /\ n = Store(c, ReplayRequest)
        \/ RestoreAt(write, w, l.set) /\ n = RestoredCell
        \/ ~HitAt(r, w, l.set) /\ ~ReplayAt(w, l.set) /\ n = c
    BY <1>0, <1>3, NextCell
  <2>2. /\ \A e \in Entry : ~InstallAt(e, w, l.set)
        /\ ~RestoreAt(write, w, l.set)
        /\ HitAt(r, w, l.set) => ~ReplayAt(w, l.set)
    BY <1>0, <1>3, <1>4, CellExclusive
  <2> QED
    BY <2>1, <2>2
<1>10. CASE HitAt(r, w, l.set) /\ n = Store(c, r)
  <2>1. r \in Request /\ HitWrites(r, l)
    BY <1>6, <1>7, <1>10 DEF HitWrites
  <2>2. n.data = [c.data EXCEPT ![r.word] = r.data]
    BY <1>4, <1>10, <2>1, StoreType
  <2> QED
    BY <1>2, <1>3, <2>1, <2>2 DEF Performed
<1>11. CASE ReplayAt(w, l.set) /\ ~HitAt(r, w, l.set) /\ n = Store(c, ReplayRequest)
  <2>1. ReplayRequest \in Request
    BY <1>11, ReplayRequestType DEF IInv, ReplayAt
  <2>2. n.data = [c.data EXCEPT ![ReplayRequest.word] = ReplayRequest.data]
    BY <1>4, <1>11, <2>1, StoreType
  <2> QED
    BY <1>2, <1>3, <1>7, <1>8, <1>11, <2>2 DEF Performed
<1>12. CASE ~HitAt(r, w, l.set) /\ ~ReplayAt(w, l.set) /\ n = c
  BY <1>2, <1>3, <1>7, <1>8, <1>12 DEF Performed
<1> QED
  BY <1>9, <1>10, <1>11, <1>12

(* Neither a hit nor a replay is on a line that a miss evicts or that is   *)
(* in no way.                                                              *)
LEMMA AbsentQuiet ==
  ASSUME IInv, NEW r \in Request \cup {None}, NEW l \in Line, Absent(l)
  PROVE  ~HitWrites(r, l) /\ ~ReplayWrites(l)
<1>1. ~HitWrites(r, l)
  <2> SUFFICES ASSUME HitWrites(r, l) PROVE FALSE
    OBVIOUS
  <2>1. r \in Request
    BY Exclusive DEF HitWrites
  <2>2. HitWay(r) \in Way /\ Present(HitWay(r), l)
    BY <2>1, HitType DEF HitWrites
  <2> QED
    BY <2>2 DEF Absent
<1>2. ~ReplayWrites(l)
  BY ReplayedLine DEF ReplayWrites, Absent
<1> QED
  BY <1>1, <1>2

LEMMA SetQuiet ==
  ASSUME IInv, NEW r \in Request, Misses(r), NEW l \in Line, l.set = r.line.set
  PROVE  ~HitWrites(r, l) /\ ~ReplayWrites(l)
<1>1. \A e \in Entry : mshr[e] # None => mshr[e].line.set # r.line.set
  BY MissIsNew
<1>2. ~ReplayWrites(l)
  BY <1>1, ReplayType DEF ReplayWrites
<1> QED
  BY <1>2, Exclusive DEF HitWrites

(* The victim buffer after an edge: a new victim, the old one, or none.    *)
LEMMA NextVictim ==
  ASSUME IInv, NEW r, NEW take, NEW sent, NEW beat, NEW write,
         Inputs(r, take, sent, beat, write), Edge(r, take, sent, beat, write)
  PROVE  \/ r \in Request /\ Misses(r) /\ VictimDirty(r) /\ wb = None /\ wb' = Buffered(r)
         \/ wb # None /\ WriteResponse(write) /\ wb' = None
         \/ /\ wb # None /\ ~WriteResponse(write)
            /\ wb' # None /\ wb'.line = wb.line /\ wb'.data = wb.data
         \/ wb = None /\ wb' = None
<1>1. wb' = NextWb(r, write) /\ r \in Request \cup {None}
  BY DEF Edge, Inputs
<1>2. PICK n : n = NextWb(r, write)
  OBVIOUS
<1>3. CASE wb = None
  <2>1. CASE n = None
    BY <1>1, <1>2, <1>3, <2>1
  <2>2. CASE n # None
    <3>1. Misses(r) /\ VictimDirty(r) /\ n = Buffered(r)
      BY <1>2, <1>3, <2>2, NewVictim
    <3> QED
      BY <1>1, <1>2, <1>3, <3>1, Exclusive
  <2> QED
    BY <2>1, <2>2
<1>4. CASE wb # None
  <2>1. ~(Misses(r) /\ VictimDirty(r))
    BY <1>4 DEF Misses
  <2>2. CASE WriteResponse(write)
    <3>1. n = None
      BY <1>2, <2>1, <2>2 DEF NextWb, WriteResponse
    <3> QED
      BY <1>1, <1>2, <1>4, <2>2, <3>1
  <2>3. CASE ~WriteResponse(write)
    <3>1. wb \in Writeback /\ None \notin Writeback /\ wb.state \in {"AW", "W", "B"}
      BY <1>4, WbType, NoneAssumption DEF IInv
    <3>2. n # None
      <4>1. CASE write = "wait"
        BY <1>2, <1>4, <2>1, <4>1 DEF NextWb
      <4>2. CASE write # "wait" /\ wb.state = "AW"
        <5>1. n = [wb EXCEPT !.state = "W"]
          BY <1>2, <1>4, <2>1, <4>2 DEF NextWb
        <5>2. n \in Writeback
          BY <3>1, <5>1 DEF Writeback
        <5> QED
          BY <3>1, <5>2
      <4>3. CASE write # "wait" /\ wb.state = "W"
        <5>1. PICK d, s, b :
                /\ d = (wb.dropped \/ write = "error")
                /\ s = IF wb.beat = Beats - 1 THEN "B" ELSE "W"
                /\ b = IF wb.beat = Beats - 1 THEN 0 ELSE wb.beat + 1
          OBVIOUS
        <5>2. n = [wb EXCEPT !.dropped = d, !.state = s, !.beat = b]
          BY <1>2, <1>4, <2>1, <4>3, <5>1 DEF NextWb
        <5>3. d \in BOOLEAN /\ s \in {"AW", "W", "B"}
          BY <5>1
        <5>4. b \in Beat
          BY <1>4, <5>1, WbType, BeatsAssumption DEF IInv, Beat
        <5>5. n \in Writeback
          BY <3>1, <5>2, <5>3, <5>4 DEF Writeback
        <5> QED
          BY <3>1, <5>5
      <4> QED
        BY <2>3, <3>1, <4>1, <4>2, <4>3, <1>4 DEF WriteResponse
    <3>3. n.line = wb.line /\ n.data = wb.data
      BY <1>2, <1>4, <3>2, WbAdvances
    <3> QED
      BY <1>1, <1>2, <1>4, <2>3, <3>2, <3>3
  <2> QED
    BY <2>2, <2>3
<1> QED
  BY <1>3, <1>4

LEMMA MemoryKept ==
  ASSUME IInv, NEW r, NEW take, NEW sent, NEW beat, NEW write,
         Edge(r, take, sent, beat, write), NEW l \in Line, wb = None \/ wb.line # l
  PROVE  memory'[l] = memory[l]
<1>1. memory' = NextMemory(write)
  BY DEF Edge
<1> QED
  BY <1>1, NextMemoryAt DEF IInv

(* An evicted line stays visible: in the victim buffer, or in memory if it *)
(* was clean.                                                              *)
LEMMA EvictedStep ==
  ASSUME IInv, IInv', NEW r, NEW take, NEW sent, NEW beat, NEW write,
         Inputs(r, take, sent, beat, write), Edge(r, take, sent, beat, write),
         NEW l \in Line, NEW w \in Way, Present(w, l), EvictAt(r, w, l.set)
  PROVE  Visible(l)' = Performed(r, l)
<1>0. /\ r \in Request /\ Misses(r) /\ w = VictimWay(r) /\ r.line.set = l.set
      /\ l.set \in Set /\ line' = NextLine(r, write) /\ TypeOK
  <2>1. r \in Request \cup {None} /\ Misses(r)
    BY DEF Inputs, EvictAt
  <2> QED
    BY <2>1, Exclusive, LineType DEF Edge, IInv, EvictAt
<1>1. Performed(r, l) = Visible(l)
  BY <1>0, SetQuiet DEF Performed
<1>2. /\ \A e \in Entry : mshr[e] # None => mshr[e].line.set # l.set
      /\ wb # None => wb.line # l
  BY <1>0, MissIsNew
<1>3. PICK c : c = line[w][l.set]
  OBVIOUS
<1>4. /\ c = VictimLine(r) /\ c.valid /\ c.tag = l.tag /\ Visible(l) = c.data
      /\ l = [tag |-> c.tag, set |-> l.set]
  BY <1>0, <1>3, SeenPresent, LineType DEF VictimLine, Present
<1>5. Absent(l)'
  <2> SUFFICES ASSUME NEW v \in Way, Present(v, l)' PROVE FALSE
    BY DEF Absent
  <2>1. NextLine(r, write)[v][l.set].valid /\ NextLine(r, write)[v][l.set].tag = l.tag
    BY <1>0 DEF Present
  <2>2. v # w
    BY <1>0, <2>1, Evicted
  <2>3. ~Present(v, l)
    BY <1>0, <2>2 DEF IInv, WaysDiffer, Present
  <2>4. \/ \E e \in Entry : InstallAt(e, v, l.set) /\ mshr[e].line = l
        \/ RestoreAt(write, v, l.set) /\ wb.line = l
    BY <2>1, <2>3, NextPresent
  <2> QED
    BY <1>2, <2>4 DEF InstallAt, Installs, RestoreAt, WriteResponse
<1>6. CASE VictimDirty(r)
  <2>1. wb' = Buffered(r)
    BY <1>0, <1>6 DEF Edge, NextWb
  <2>2. PICK n : n = Buffered(r)
    OBVIOUS
  <2>3. n # None /\ n.line \in Line /\ n.line.tag = c.tag /\ n.line.set = l.set /\ n.data = c.data
    BY <1>0, <1>4, <1>6, <2>2, BufferedFields
  <2>4. n.line = l
    BY <1>4, <2>3, SameLine
  <2> QED
    BY <1>1, <1>4, <1>5, <2>1, <2>2, <2>3, <2>4, SeenVictimNext
<1>7. CASE ~VictimDirty(r)
  <2>1. wb' = None \/ wb'.line # l
    BY <1>2, <1>7, NextVictim
  <2>2. ~c.dirty
    BY <1>4, <1>7 DEF VictimDirty
  <2>3. CellInv(w, l.set)
    BY <1>0 DEF IInv
  <2>4. c.data = memory[l]
    BY <1>3, <1>4, <2>2, <2>3 DEF CellInv
  <2>5. memory'[l] = memory[l]
    BY <1>2, MemoryKept
  <2> QED
    BY <1>1, <1>4, <1>5, <2>1, <2>4, <2>5, SeenMemoryNext
<1> QED
  BY <1>6, <1>7

LEMMA FunctionsAgree ==
  ASSUME NEW f \in LineData, NEW g \in LineData, \A b \in Beat : f[b] = g[b]
  PROVE  f = g
  BY DEF LineData

(* A refill installs what memory holds.                                    *)
LEMMA InstallStep ==
  ASSUME IInv, IInv', NEW r, NEW take, NEW sent, NEW beat, NEW write,
         Inputs(r, take, sent, beat, write), Edge(r, take, sent, beat, write),
         NEW l \in Line, NEW e \in Entry, Installs(e), mshr[e].line = l
  PROVE  Visible(l)' = Visible(l)
<1>1. /\ mshr[e] # None /\ mshr[e].refill_done /\ ~mshr[e].error /\ ~mshr[e].install_done
      /\ TypeOK /\ MshrInv(e)
  BY DEF Installs, IInv
<1>2. PICK m : m = mshr[e]
  OBVIOUS
<1>3. m.way \in Way /\ m.fill \in LineData /\ l.set \in Set /\ memory[l] \in LineData
  BY <1>1, <1>2, MshrType DEF TypeOK
<1>4. Absent(l) /\ Filled(m)
  BY <1>1, <1>2 DEF MshrInv, MissInv
<1>5. m.fill = memory[l]
  BY <1>1, <1>2, <1>3, <1>4, FunctionsAgree DEF Filled
<1>6. wb = None \/ wb.line # l
  BY <1>1, MissNotVictim
<1>7. Visible(l) = memory[l]
  BY <1>4, <1>6, SeenMemory
<1>8. InstallAt(e, m.way, l.set)
  BY <1>2 DEF InstallAt
<1>9. line'[m.way][l.set] = InstalledCell(e)
  BY <1>3, <1>8, InstalledAt DEF Edge
<1>10. Present(m.way, l)' /\ line'[m.way][l.set].data = m.fill
  BY <1>2, <1>9 DEF Present, InstalledCell
<1> QED
  BY <1>3, <1>5, <1>7, <1>10, SeenPresentNext

(* A failed writeback puts the victim back.                                *)
LEMMA RestoreStep ==
  ASSUME IInv, IInv', NEW r, NEW take, NEW sent, NEW beat, NEW write,
         Inputs(r, take, sent, beat, write), Edge(r, take, sent, beat, write),
         NEW l \in Line, WriteResponse(write), write = "error", wb.line = l
  PROVE  Visible(l)' = Visible(l)
<1>1. wb # None /\ TypeOK /\ WbInv /\ VictimCanReturn
  BY DEF IInv, WriteResponse
<1>2. PICK w : w = mshr[wb.owner].way
  OBVIOUS
<1>3. w \in Way /\ l.set \in Set
  <2>1. PICK e \in Entry : e = wb.owner
    BY <1>1, WbType
  <2> QED
    BY <1>1, <1>2, <2>1, MshrType, LineType DEF VictimCanReturn
<1>4. RestoreAt(write, w, l.set)
  BY <1>1, <1>2 DEF RestoreAt, VictimCanReturn
<1>5. Absent(l)
  BY <1>1 DEF WbInv
<1>6. Visible(l) = wb.data
  BY <1>1, <1>5, SeenVictim
<1>7. line'[w][l.set] = RestoredCell
  <2>1. PICK n, c : n = NextLine(r, write)[w][l.set] /\ c = line[w][l.set]
    OBVIOUS
  <2>2. \/ HitAt(r, w, l.set) /\ n = Store(c, r)
        \/ EvictAt(r, w, l.set) /\ n = PowerUp
        \/ \E e \in Entry : InstallAt(e, w, l.set) /\ n = InstalledCell(e)
        \/ ReplayAt(w, l.set) /\ n = Store(c, ReplayRequest)
        \/ RestoreAt(write, w, l.set) /\ n = RestoredCell
    BY <1>3, <1>4, <2>1, NextCell
  <2>3. ~line[w][l.set].valid
    BY <1>3, <1>4, CellExclusive
  <2>4. /\ ~HitAt(r, w, l.set) /\ ~EvictAt(r, w, l.set) /\ ~ReplayAt(w, l.set)
        /\ \A e \in Entry : ~InstallAt(e, w, l.set)
    BY <1>3, <1>4, <2>3, CellExclusive
  <2> QED
    BY <2>1, <2>2, <2>4 DEF Edge
<1>8. Present(w, l)' /\ line'[w][l.set].data = wb.data
  BY <1>7 DEF Present, RestoredCell
<1> QED
  BY <1>3, <1>6, <1>8, SeenPresentNext

(* A line in no way is seen in the victim buffer until memory has all of   *)
(* it.                                                                     *)
LEMMA AbsentStep ==
  ASSUME IInv, IInv', NEW r, NEW take, NEW sent, NEW beat, NEW write,
         Inputs(r, take, sent, beat, write), Edge(r, take, sent, beat, write),
         NEW l \in Line, Absent(l)
  PROVE  Visible(l)' = Visible(l)
<1>0. l.set \in Set /\ TypeOK /\ WbInv /\ write \in WriteAnswer /\ WriteChannel(write)
  BY LineType DEF IInv, Inputs
<1>1. CASE \E e \in Entry : Installs(e) /\ mshr[e].line = l
  BY <1>1, InstallStep
<1>2. CASE WriteResponse(write) /\ write = "error" /\ wb.line = l
  BY <1>2, RestoreStep
<1>3. ASSUME \A e \in Entry : ~(Installs(e) /\ mshr[e].line = l),
             ~(WriteResponse(write) /\ write = "error" /\ wb.line = l)
      PROVE  Visible(l)' = Visible(l)
  <2>1. Absent(l)'
    BY <1>3, StaysAbsent
  <2>2. CASE wb # None /\ wb.line = l /\ WriteResponse(write)
    <3>1. write = "ok" /\ wb.state = "B" /\ ~wb.dropped
      BY <1>0, <1>3, <2>2 DEF WriteAnswer, WriteChannel, WriteResponse
    <3>2. wb' = None
      BY <2>2, NextVictim
    <3>3. memory' = memory
      BY <2>2, <3>1 DEF Edge, NextMemory
    <3>4. memory[l] \in LineData /\ wb.data \in LineData
      BY <1>0, <2>2, WbType DEF TypeOK
    <3>5. \A b \in Beat : memory[l][b] = wb.data[b]
      BY <1>0, <2>2, <3>1 DEF WbInv
    <3>6. memory[l] = wb.data
      BY <3>4, <3>5, FunctionsAgree
    <3> QED
      BY <2>1, <2>2, <3>2, <3>3, <3>6, SeenVictim, SeenMemoryNext
  <2>3. CASE wb # None /\ wb.line = l /\ ~WriteResponse(write)
    <3>1. wb' # None /\ wb'.line = l /\ wb'.data = wb.data
      BY <2>3, NextVictim
    <3> QED
      BY <2>1, <2>3, <3>1, SeenVictim, SeenVictimNext
  <2>4. CASE wb = None \/ wb.line # l
    <3>1. wb' = None \/ wb'.line # l
      <4>1. ASSUME r \in Request, Misses(r), VictimDirty(r), wb' = Buffered(r), wb'.line = l
            PROVE  FALSE
        <5>1. VictimWay(r) \in Way
          BY <1>0, <4>1, VictimType
        <5>2. l.tag = VictimLine(r).tag /\ l.set = r.line.set
          BY <4>1 DEF Buffered
        <5>3. Present(VictimWay(r), l)
          BY <4>1, <5>2 DEF Present, VictimLine, VictimDirty
        <5> QED
          BY <5>1, <5>3 DEF Absent
      <4> QED
        BY <2>4, <4>1, NextVictim
    <3>2. memory'[l] = memory[l]
      BY <2>4, MemoryKept
    <3> QED
      BY <2>1, <2>4, <3>1, <3>2, SeenMemory, SeenMemoryNext
  <2> QED
    BY <2>2, <2>3, <2>4
<1> QED
  BY <1>1, <1>2, <1>3

LEMMA VisibleStep ==
  ASSUME IInv, IInv', NEW r, NEW take, NEW sent, NEW beat, NEW write,
         Inputs(r, take, sent, beat, write), Edge(r, take, sent, beat, write),
         NEW l \in Line
  PROVE  Visible(l)' = Performed(r, l)
<1>1. CASE Absent(l)
  <2>1. Performed(r, l) = Visible(l)
    BY <1>1, AbsentQuiet DEF Performed, Inputs
  <2> QED
    BY <1>1, <2>1, AbsentStep
<1>2. CASE ~Absent(l)
  <2>1. PICK w \in Way : Present(w, l)
    BY <1>2 DEF Absent
  <2>2. CASE EvictAt(r, w, l.set)
    BY <2>1, <2>2, EvictedStep
  <2>3. CASE ~EvictAt(r, w, l.set)
    BY <2>1, <2>3, PresentStep
  <2> QED
    BY <2>2, <2>3
<1> QED
  BY <1>1, <1>2

-----------------------------------------------------------------------------
(* Waiting, of any registers q.                                            *)
Owes(m) == SubSeq(m.reqs, m.replay_idx + 1, Len(m.reqs))

Queued(q, l) ==
  IF \E e \in Entry : q[e] # None /\ q[e].line = l
  THEN Owes(q[CHOOSE e \in Entry : q[e] # None /\ q[e].line = l])
  ELSE <<>>

LEMMA WaitingIsQueued ==
  ASSUME NEW l
  PROVE  Waiting(l) = Queued(mshr, l) /\ Waiting(l)' = Queued(mshr', l)
<1>1. {e \in Busy : mshr[e].line = l} = {e \in Entry : mshr[e] # None /\ mshr[e].line = l}
  BY DEF Busy
<1>2. (CHOOSE e \in Busy : mshr[e].line = l)
        = CHOOSE e \in Entry : mshr[e] # None /\ mshr[e].line = l
  <2>1. \A e : (e \in Busy /\ mshr[e].line = l)
                 <=> (e \in Entry /\ (mshr[e] # None /\ mshr[e].line = l))
    BY DEF Busy
  <2> QED
    BY <2>1
<1> QED
  BY <1>2 DEF Waiting, Queued, Owes, Busy

LEMMA QueuedAt ==
  ASSUME NEW q, NEW l, NEW e \in Entry, q[e] # None, q[e].line = l,
         \A f \in Entry : q[f] # None /\ q[f].line = l => f = e
  PROVE  Queued(q, l) = Owes(q[e])
<1>1. PICK c : c = CHOOSE x \in Entry : q[x] # None /\ q[x].line = l
  OBVIOUS
<1>2. c \in Entry /\ q[c] # None /\ q[c].line = l
  BY <1>1
<1>3. c = e
  BY <1>2
<1> QED
  BY <1>1, <1>3 DEF Queued

LEMMA QueuedNone ==
  ASSUME NEW q, NEW l, \A f \in Entry : ~(q[f] # None /\ q[f].line = l)
  PROVE  Queued(q, l) = <<>>
  BY DEF Queued

(* What a miss still owes after it has merged a request or replayed one.   *)
LEMMA OwesAppend ==
  ASSUME NEW s \in Seq(Request), NEW i \in Nat, i < Len(s), NEW r \in Request
  PROVE  SubSeq(Append(s, r), i + 1, Len(Append(s, r))) = Append(SubSeq(s, i + 1, Len(s)), r)
<1> HIDE DEF Request
<1>1. PICK k \in Nat : k = Len(s) /\ i < k
  OBVIOUS
<1>2. PICK t : t = Append(s, r)
  OBVIOUS
<1>3. t \in Seq(Request) /\ Len(t) = k + 1 /\ t[k + 1] = r /\ t = s \o <<r>>
  BY <1>1, <1>2, AppendProperties, AppendIsConcat
<1>4. i + 1 \in 1 .. k /\ k \in 1 .. k
  BY <1>1
<1>5. SubSeq(t, i + 1, k + 1) = SubSeq(t, i + 1, (k + 1) - 1) \o <<t[k + 1]>>
  <2>1. i + 1 \in 1 .. Len(t) /\ k + 1 \in (i + 1) .. Len(t)
    BY <1>1, <1>3
  <2> QED
    BY <1>3, <2>1, SubSeqRecursiveSecond
<1>6. SubSeq(t, i + 1, k) = SubSeq(s, i + 1, k)
  <2>1. <<r>> \in Seq(Request)
    OBVIOUS
  <2>2. SubSeq(s \o <<r>>, i + 1, k) = SubSeq(s, i + 1, k)
    BY <1>1, <1>4, <2>1, SubSeqOfConcat1
  <2> QED
    BY <1>3, <2>2
<1>7. SubSeq(s, i + 1, k) \in Seq(Request)
  <2>1. \A j \in (i + 1) .. k : s[j] \in Request
    BY <1>1, ElementOfSeq
  <2> QED
    BY <1>1, <2>1, SubSeqProperties
<1>8. Append(SubSeq(s, i + 1, k), r) = SubSeq(s, i + 1, k) \o <<r>>
  BY <1>7, AppendIsConcat
<1>9. (k + 1) - 1 = k
  BY <1>1
<1> QED
  BY <1>1, <1>2, <1>3, <1>5, <1>6, <1>8, <1>9

LEMMA OwesNext ==
  ASSUME NEW s \in Seq(Request), NEW i \in Nat, i < Len(s)
  PROVE  LET t == SubSeq(s, i + 1, Len(s))
         IN  /\ t # <<>> /\ Head(t) = s[i + 1]
             /\ Tail(t) = SubSeq(s, i + 2, Len(s))
             /\ i + 1 >= Len(s) => Tail(t) = <<>>
<1> HIDE DEF Request
<1>1. PICK k \in Nat : k = Len(s) /\ i < k
  OBVIOUS
<1>2. i + 1 \in 1 .. k /\ k \in (i + 1) .. k /\ (i + 1) + 1 = i + 2
  BY <1>1
<1>3. /\ Head(SubSeq(s, i + 1, k)) = s[i + 1]
      /\ Tail(SubSeq(s, i + 1, k)) = SubSeq(s, (i + 1) + 1, k)
  BY <1>1, <1>2, HeadTailOfSubSeq
<1>4. Len(SubSeq(s, i + 1, k)) = k - (i + 1) + 1
  <2>1. \A j \in (i + 1) .. k : s[j] \in Request
    BY <1>1, ElementOfSeq
  <2> QED
    BY <1>1, <1>2, <2>1, SubSeqProperties
<1>5. SubSeq(s, i + 1, k) # <<>>
  <2>1. k - (i + 1) + 1 # 0
    BY <1>1
  <2> QED
    BY <1>4, <2>1
<1>6. i + 1 >= k => SubSeq(s, i + 2, k) = <<>>
  <2> SUFFICES ASSUME i + 1 >= k PROVE SubSeq(s, i + 2, k) = <<>>
    OBVIOUS
  <2>1. k < i + 2 /\ i + 2 \in Int /\ k \in Int
    BY <1>1
  <2> QED
    BY <2>1, SubSeqEmpty
<1> QED
  BY <1>1, <1>2, <1>3, <1>5, <1>6

LEMMA OwesOne ==
  ASSUME NEW r
  PROVE  /\ SubSeq(<<r>>, 1, 1) = <<r>> /\ Append(<<>>, r) = <<r>>
         /\ Head(<<r>>) = r /\ Tail(<<r>>) = <<>> /\ <<r>> # <<>>
<1>1. <<r>> \in Seq({r}) /\ <<>> \in Seq({r}) /\ Len(<<r>>) = 1
  OBVIOUS
<1>2. SubSeq(<<r>>, 1, 1) = <<r>>
  BY <1>1, SubSeqFull
<1>3. Append(<<>>, r) = <<r>>
  OBVIOUS
<1>4. Head(<<r>>) = r /\ Tail(<<r>>) = <<>>
  BY <1>1, <1>3, HeadTailAppend
<1> QED
  BY <1>2, <1>3, <1>4

(* Only a replay takes a request from a miss, and then none is merged.     *)
LEMMA NextReqs ==
  ASSUME IInv, NEW e \in Entry, mshr[e] # None,
         NEW r, NEW take, NEW sent, NEW beat, NEW write, Inputs(r, take, sent, beat, write),
         NEW n, n = NextMshr(e, r, sent, beat, write)
  PROVE  IF Replaying(e) THEN ~Merging(e, r) /\ n = Replayed(mshr[e])
         ELSE /\ n # None /\ n.line = mshr[e].line /\ n.replay_idx = mshr[e].replay_idx
              /\ n.reqs = IF Merging(e, r) THEN Append(mshr[e].reqs, r) ELSE mshr[e].reqs
<1>0. /\ TypeOK /\ VictimCanReturn /\ MshrInv(e) /\ r \in Request \cup {None}
      /\ beat \in ReadBeat \cup {None} /\ (beat # None => Offered(beat))
      /\ sent \in BOOLEAN /\ ReadAddress(sent)
  BY DEF IInv, Inputs
<1>1. PICK m \in Mshr : m = mshr[e] /\ m # None
  BY <1>0, MshrType
<1>2. PICK g \in Mshr : g = Grown(e, r)
  BY <1>0, GrownType
<1>3. /\ g.line = m.line /\ g.replay_idx = m.replay_idx
      /\ g.reqs = IF Merging(e, r) THEN Append(m.reqs, r) ELSE m.reqs
  BY <1>1, <1>2 DEF Grown, Mshr
<1>4. g # None
  BY NoneAssumption
<1>5. \/ Sending(e, sent) /\ n = Sent(g)
      \/ Filling(e, beat) /\ n = BeatTaken(g, beat)
      \/ Installs(e) /\ ~Merging(e, r) /\ n = Installed(m)
      \/ WritingBack(e, write) /\ n = WrittenBack(g, write)
      \/ Replaying(e) /\ ~Merging(e, r) /\ n = Replayed(m)
      \/ ~Installs(e) /\ ~WritingBack(e, write) /\ ~Replaying(e) /\ n = g
  BY <1>0, <1>1, <1>2, NextBusy
<1>6. Replaying(e) => mshr[e].refill_done /\ (mshr[e].error \/ mshr[e].install_done)
  BY ReplayingType
<1>7. CASE Sending(e, sent) /\ n = Sent(g)
  <2>1. ~Replaying(e)
    BY <1>0, <1>6, <1>7, SendingType
  <2>2. Sent(g) \in Mshr /\ Sent(g).line = g.line /\ Sent(g).reqs = g.reqs
        /\ Sent(g).replay_idx = g.replay_idx
    BY SentFields
  <2> QED
    BY <1>1, <1>3, <1>7, <2>1, <2>2, NoneAssumption
<1>8. CASE Filling(e, beat) /\ n = BeatTaken(g, beat)
  <2>1. ~mshr[e].refill_done /\ beat.data \in Value /\ beat.error \in BOOLEAN
    BY <1>0, <1>8, FillingType
  <2>3. n \in Mshr
    BY <1>8, <2>1, BeatTakenType
  <2>2. n.line = g.line /\ n.reqs = g.reqs /\ n.replay_idx = g.replay_idx
    BY <1>8 DEF BeatTaken, Mshr
  <2> QED
    BY <1>1, <1>3, <1>6, <2>1, <2>2, <2>3, NoneAssumption
<1>9. CASE Installs(e) /\ ~Merging(e, r) /\ n = Installed(m)
  <2>1. ~Replaying(e)
    BY <1>6, <1>9 DEF Installs
  <2>2. n \in Mshr /\ n.line = m.line /\ n.reqs = m.reqs /\ n.replay_idx = m.replay_idx
    BY <1>9, InstalledFields
  <2> QED
    BY <1>1, <1>9, <2>1, <2>2, NoneAssumption
<1>10. CASE WritingBack(e, write) /\ n = WrittenBack(g, write)
  <2>1. ~Replaying(e)
    BY <1>0, <1>6, <1>10, WritingBackType
  <2>2. n \in Mshr /\ n.line = g.line /\ n.reqs = g.reqs /\ n.replay_idx = g.replay_idx
    BY <1>10 DEF WrittenBack, Mshr
  <2> QED
    BY <1>1, <1>3, <2>1, <2>2, NoneAssumption
<1>11. CASE Replaying(e) /\ ~Merging(e, r) /\ n = Replayed(m)
  BY <1>1, <1>11
<1>12. CASE ~Installs(e) /\ ~WritingBack(e, write) /\ ~Replaying(e) /\ n = g
  BY <1>1, <1>3, <1>4, <1>12
<1> QED
  BY <1>5, <1>7, <1>8, <1>9, <1>10, <1>11, <1>12

-----------------------------------------------------------------------------
(* A line's requests at an edge: one more may be asked, the oldest may be  *)
(* served.                                                                 *)
Asked(r, l) == IF r # None /\ r.line = l THEN Append(Waiting(l), r) ELSE Waiting(l)

Served(r, l) == \/ Hits(r) /\ r.line = l
                \/ ReplayEmit /\ mshr[ReplayEntry].line = l

(* The line has a miss e, and no other.                                    *)
LEMMA WaitingAt ==
  ASSUME IInv, NEW l \in Line, NEW e \in Entry, mshr[e] # None, mshr[e].line = l
  PROVE  /\ Waiting(l) = Owes(mshr[e])
         /\ \A f \in Entry : mshr[f] # None /\ mshr[f].line = l => f = e
<1>1. ASSUME NEW f \in Entry, mshr[f] # None, mshr[f].line = l PROVE f = e
  <2>1. SetsDiffer /\ mshr[f].line.set = mshr[e].line.set
    BY <1>1 DEF IInv
  <2> QED
    BY <1>1, <2>1, OneSet
<1>2. PICK q : q = mshr
  OBVIOUS
<1>3. Queued(q, l) = Owes(q[e])
  BY <1>1, <1>2, QueuedAt
<1> QED
  BY <1>1, <1>2, <1>3, WaitingIsQueued

LEMMA WaitingNone ==
  ASSUME NEW l \in Line, \A e \in Entry : ~(mshr[e] # None /\ mshr[e].line = l)
  PROVE  Waiting(l) = <<>>
<1>1. PICK q : q = mshr
  OBVIOUS
<1>2. Queued(q, l) = <<>>
  BY <1>1, QueuedNone
<1> QED
  BY <1>1, <1>2, WaitingIsQueued

(* The misses after an edge: those before it and a new one.                *)
LEMMA NextMisses ==
  ASSUME IInv, NEW r, NEW take, NEW sent, NEW beat, NEW write,
         Inputs(r, take, sent, beat, write), Edge(r, take, sent, beat, write),
         NEW l \in Line, NEW f \in Entry, mshr'[f] # None, mshr'[f].line = l
  PROVE  \/ mshr[f] # None /\ mshr[f].line = l
         \/ /\ mshr[f] = None /\ r \in Request /\ Misses(r) /\ f = NewEntry /\ r.line = l
            /\ mshr'[f] = Allocated(r)
<1>1. PICK n : n = mshr'[f] /\ n = NextMshr(f, r, sent, beat, write)
  BY DEF Edge
<1>2. n # None /\ n.line = l
  BY <1>1
<1>3. CASE mshr[f] # None
  <2>1. n.line = mshr[f].line
    BY <1>1, <1>2, <1>3, NextFields
  <2> QED
    BY <1>2, <1>3, <2>1
<1>4. CASE mshr[f] = None
  <2>1. r \in Request /\ Misses(r) /\ f = NewEntry /\ n = Allocated(r)
    BY <1>1, <1>2, <1>4, NextMshrCases
  <2>2. r.line = l
    BY <1>2, <2>1 DEF Allocated
  <2> QED
    BY <1>1, <1>4, <2>1, <2>2
<1> QED
  BY <1>3, <1>4

LEMMA NextWaitingNone ==
  ASSUME NEW l \in Line, \A f \in Entry : ~(mshr'[f] # None /\ mshr'[f].line = l)
  PROVE  Waiting(l)' = <<>>
<1>1. PICK q : q = mshr'
  OBVIOUS
<1>2. Queued(q, l) = <<>>
  BY <1>1, QueuedNone
<1> QED
  BY <1>1, <1>2, WaitingIsQueued

LEMMA NextWaitingAt ==
  ASSUME NEW l \in Line, NEW e \in Entry, mshr'[e] # None, mshr'[e].line = l,
         \A f \in Entry : mshr'[f] # None /\ mshr'[f].line = l => f = e,
         NEW n, n = mshr'[e]
  PROVE  Waiting(l)' = Owes(n)
<1>1. PICK q : q = mshr'
  OBVIOUS
<1>2. Queued(q, l) = Owes(q[e])
  BY <1>1, QueuedAt
<1> QED
  BY <1>1, <1>2, WaitingIsQueued

(* A request that hits is served at once: none of its line was waiting.    *)
LEMMA HitServed ==
  ASSUME IInv, NEW r, NEW take, NEW sent, NEW beat, NEW write,
         Inputs(r, take, sent, beat, write), Edge(r, take, sent, beat, write),
         NEW l \in Line, Hits(r), r.line = l
  PROVE  Asked(r, l) = <<r>> /\ Waiting(l)' = <<>>
<1>1. r \in Request /\ r # None
  BY Exclusive DEF Inputs
<1>2. \A e \in Entry : ~(mshr[e] # None /\ mshr[e].line = l)
  BY <1>1, NoActive DEF Hits
<1>3. Waiting(l) = <<>>
  BY <1>2, WaitingNone
<1>4. Asked(r, l) = <<r>>
  BY <1>1, <1>3, OwesOne DEF Asked
<1>5. \A f \in Entry : ~(mshr'[f] # None /\ mshr'[f].line = l)
  BY <1>2, NextMisses, Exclusive
<1> QED
  BY <1>4, <1>5, NextWaitingNone

(* A replay serves the oldest request of a line, and none is asked.        *)
LEMMA ReplayServed ==
  ASSUME IInv, NEW r, NEW take, NEW sent, NEW beat, NEW write,
         Inputs(r, take, sent, beat, write), Edge(r, take, sent, beat, write),
         NEW l \in Line, ReplayEmit, mshr[ReplayEntry].line = l
  PROVE  /\ Asked(r, l) # <<>> /\ Head(Asked(r, l)) = ReplayRequest
         /\ Waiting(l)' = Tail(Asked(r, l))
<1>1. PICK e \in Entry : e = ReplayEntry /\ mshr[e] # None /\ mshr[e].refill_done
  BY ReplayType
<1>2. Replaying(e) /\ TypeOK /\ MshrInv(e) /\ r \in Request \cup {None} /\ Accepted(r)
  BY <1>1 DEF Replaying, IInv, Inputs
<1>3. PICK m : m = mshr[e]
  OBVIOUS
<1>4. PICK s \in Seq(Request), i \in 0 .. 1 :
        s = m.reqs /\ i = m.replay_idx /\ i < Len(s) /\ Len(s) \in 1 .. 2
  BY <1>1, <1>2, <1>3, MshrType DEF MshrInv, MissInv
<1>5. /\ Waiting(l) = SubSeq(s, i + 1, Len(s))
      /\ \A f \in Entry : mshr[f] # None /\ mshr[f].line = l => f = e
  BY <1>1, <1>3, <1>4, WaitingAt DEF Owes
<1>6. ~(r # None /\ r.line = l)
  <2> SUFFICES ASSUME r \in Request, r.line = l PROVE FALSE
    BY <1>2
  <2>1. ActiveLine(r) # {} /\ ActiveSet(r) # {}
    BY <1>1 DEF ActiveLine, ActiveSet, Busy
  <2>2. Merges(r)
    BY <1>2, <2>1, NoneAssumption DEF Accepted, Hits, Misses
  <2>3. /\ First(ActiveLine(r)) \in Entry /\ mshr[First(ActiveLine(r))] # None
        /\ mshr[First(ActiveLine(r))].line = l
    BY <2>1, Active
  <2>4. First(ActiveLine(r)) = e
    BY <1>5, <2>3
  <2> QED
    BY <1>1, <2>2, <2>4 DEF Merges
<1>7. Asked(r, l) = SubSeq(s, i + 1, Len(s))
  BY <1>5, <1>6 DEF Asked
<1>8. /\ Asked(r, l) # <<>> /\ Head(Asked(r, l)) = s[i + 1]
      /\ Tail(Asked(r, l)) = SubSeq(s, i + 2, Len(s))
      /\ i + 1 >= Len(s) => Tail(Asked(r, l)) = <<>>
  <2>1. i \in Nat /\ i < Len(s)
    BY <1>4
  <2>2. LET t == SubSeq(s, i + 1, Len(s))
        IN  /\ t # <<>> /\ Head(t) = s[i + 1]
            /\ Tail(t) = SubSeq(s, i + 2, Len(s))
            /\ i + 1 >= Len(s) => Tail(t) = <<>>
    BY <2>1, OwesNext
  <2> QED
    BY <1>7, <2>2, Zenon
<1>9. ReplayRequest = s[i + 1]
  BY <1>1, <1>3, <1>4 DEF ReplayRequest
<1>10. PICK n : n = mshr'[e] /\ n = NextMshr(e, r, sent, beat, write)
  BY DEF Edge
<1>11. n = Replayed(m)
  BY <1>1, <1>2, <1>3, <1>10, NextReqs
<1>12. \A f \in Entry : mshr'[f] # None /\ mshr'[f].line = l => f = e
  BY <1>5, <1>6, NextMisses, NoneAssumption
<1>13. CASE i + 1 >= Len(s)
  <2>1. n = None
    BY <1>4, <1>11, <1>13 DEF Replayed
  <2>2. Waiting(l)' = <<>>
    BY <1>10, <1>12, <2>1, NextWaitingNone
  <2> QED
    BY <1>8, <1>9, <1>13, <2>2
<1>14. CASE ~(i + 1 >= Len(s))
  <2>1. m \in Mshr
    BY <1>1, <1>2, <1>3, MshrType
  <2>2. n = [m EXCEPT !.replay_idx = @ + 1]
    BY <1>4, <1>11, <1>14 DEF Replayed
  <2>3. n.replay_idx = i + 1 /\ n.reqs = s /\ n.line = l
    BY <1>1, <1>3, <1>4, <2>1, <2>2 DEF Mshr
  <2>4. n # None
    <3>4. PICK k \in 1 .. 2 : k = Len(s)
      BY <1>4
    <3>5. ~(i + 1 >= k)
      BY <1>14, <3>4
    <3>1. i + 1 \in 0 .. 1
      BY <3>5
    <3>2. n = [m EXCEPT !.replay_idx = i + 1]
      BY <1>4, <2>2
    <3>3. n \in Mshr
      BY <2>1, <3>1, <3>2 DEF Mshr
    <3> QED
      BY <3>3, NoneAssumption
  <2>5. Waiting(l)' = Owes(n)
    BY <1>10, <1>12, <2>3, <2>4, NextWaitingAt
  <2>6. Owes(n) = SubSeq(s, i + 2, Len(s))
    <3>1. (i + 1) + 1 = i + 2
      OBVIOUS
    <3> QED
      BY <2>3, <3>1 DEF Owes
  <2> QED
    BY <1>8, <1>9, <2>5, <2>6
<1> QED
  BY <1>13, <1>14

(* Otherwise nothing is served.                                            *)
LEMMA NothingServed ==
  ASSUME IInv, NEW r, NEW take, NEW sent, NEW beat, NEW write,
         Inputs(r, take, sent, beat, write), Edge(r, take, sent, beat, write),
         NEW l \in Line, ~Served(r, l)
  PROVE  Waiting(l)' = Asked(r, l)
<1>0. TypeOK /\ r \in Request \cup {None} /\ Accepted(r)
  BY DEF IInv, Inputs
<1>1. ASSUME NEW e \in Entry, mshr[e] # None, mshr[e].line = l
      PROVE  Waiting(l)' = Asked(r, l)
  <2>1. PICK m : m = mshr[e]
    OBVIOUS
  <2>2. PICK s \in Seq(Request), i \in 0 .. 1 : s = m.reqs /\ i = m.replay_idx /\ i < Len(s)
    BY <1>0, <1>1, <2>1, MshrType DEF IInv, MshrInv, MissInv
  <2>3. /\ Waiting(l) = SubSeq(s, i + 1, Len(s))
        /\ \A f \in Entry : mshr[f] # None /\ mshr[f].line = l => f = e
    BY <1>1, <2>1, <2>2, WaitingAt DEF Owes
  <2>4. ~Replaying(e)
    BY <1>1 DEF Replaying, Served
  <2>5. PICK n : n = mshr'[e] /\ n = NextMshr(e, r, sent, beat, write)
    BY DEF Edge
  <2>6. /\ n # None /\ n.line = l /\ n.replay_idx = i
        /\ n.reqs = IF Merging(e, r) THEN Append(s, r) ELSE s
    BY <1>1, <2>1, <2>2, <2>4, <2>5, NextReqs
  <2>7. r # None /\ r.line = l <=> Merging(e, r)
    <3>1. Merging(e, r) => r # None /\ r.line = l
      BY <1>0, <1>1, MergingType, NoneAssumption
    <3>2. ASSUME r # None, r.line = l PROVE Merging(e, r)
      <4>1. r \in Request
        BY <1>0, <3>2
      <4>2. ActiveLine(r) # {} /\ ActiveSet(r) # {}
        BY <1>1, <3>2 DEF ActiveLine, ActiveSet, Busy
      <4>3. Merges(r)
        BY <1>0, <3>2, <4>2 DEF Accepted, Hits, Misses
      <4>4. /\ First(ActiveLine(r)) \in Entry /\ mshr[First(ActiveLine(r))] # None
            /\ mshr[First(ActiveLine(r))].line = l
        BY <3>2, <4>1, <4>2, Active
      <4> QED
        BY <2>3, <4>3, <4>4 DEF Merging
    <3> QED
      BY <3>1, <3>2
  <2>8. \A f \in Entry : mshr'[f] # None /\ mshr'[f].line = l => f = e
    <3> SUFFICES ASSUME NEW f \in Entry, mshr'[f] # None, mshr'[f].line = l
                 PROVE  f = e
      OBVIOUS
    <3>1. CASE mshr[f] # None /\ mshr[f].line = l
      BY <2>3, <3>1
    <3>2. CASE r \in Request /\ Misses(r) /\ r.line = l
      <4>1. mshr[e].line.set # l.set
        BY <1>1, <3>2, MissIsNew
      <4> QED
        BY <1>1, <4>1
    <3> QED
      BY <3>1, <3>2, NextMisses
  <2>9. Waiting(l)' = Owes(n)
    BY <2>5, <2>6, <2>8, NextWaitingAt
  <2>10. CASE Merging(e, r)
    <3>1. r \in Request /\ i \in Nat /\ i < Len(s)
      BY <1>0, <2>2, <2>7, <2>10
    <3>2. SubSeq(Append(s, r), i + 1, Len(Append(s, r))) = Append(SubSeq(s, i + 1, Len(s)), r)
      BY <3>1, OwesAppend
    <3> QED
      BY <2>3, <2>6, <2>7, <2>9, <2>10, <3>2 DEF Owes, Asked
  <2>11. CASE ~Merging(e, r)
    BY <2>3, <2>6, <2>7, <2>9, <2>11 DEF Owes, Asked
  <2> QED
    BY <2>10, <2>11
<1>2. ASSUME \A e \in Entry : ~(mshr[e] # None /\ mshr[e].line = l)
      PROVE  Waiting(l)' = Asked(r, l)
  <2>1. Waiting(l) = <<>>
    BY <1>2, WaitingNone
  <2>2. CASE r # None /\ r.line = l
    <3>1. r \in Request /\ Asked(r, l) = <<r>>
      BY <1>0, <2>1, <2>2, OwesOne DEF Asked
    <3>2. ActiveLine(r) = {}
      BY <1>2, <2>2 DEF ActiveLine, Busy
    <3>3. Misses(r)
      BY <1>0, <2>2, <3>2 DEF Accepted, Merges, Served
    <3>4. PICK e \in Entry : e = NewEntry /\ mshr[e] = None
      BY <3>3, NewEntryType
    <3>5. PICK n : n = mshr'[e] /\ n = NextMshr(e, r, sent, beat, write)
      BY DEF Edge
    <3>6. n = Allocated(r)
      BY <1>0, <3>3, <3>4, <3>5, NextFree DEF IInv
    <3>7. n # None /\ n.line = l /\ n.reqs = <<r>> /\ n.replay_idx = 0
      <4>1. Allocated(r) # None
        BY <1>0, <3>1, AllocatedFields
      <4> QED
        BY <2>2, <3>6, <4>1 DEF Allocated
    <3>8. \A f \in Entry : mshr'[f] # None /\ mshr'[f].line = l => f = e
      BY <1>2, <3>4, NextMisses
    <3>9. Waiting(l)' = Owes(n)
      BY <3>5, <3>7, <3>8, NextWaitingAt
    <3>10. Owes(n) = <<r>>
      <4>1. Len(<<r>>) = 1 /\ 0 + 1 = 1
        OBVIOUS
      <4> QED
        BY <3>7, <4>1, OwesOne DEF Owes
    <3> QED
      BY <3>1, <3>9, <3>10
  <2>3. CASE ~(r # None /\ r.line = l)
    <3>1. \A f \in Entry : ~(mshr'[f] # None /\ mshr'[f].line = l)
      BY <1>2, <2>3, NextMisses, NoneAssumption
    <3> QED
      BY <2>1, <2>3, <3>1, NextWaitingNone DEF Asked
  <2> QED
    BY <2>2, <2>3
<1> QED
  BY <1>1, <1>2

-----------------------------------------------------------------------------
(* Memory catches up with what the CPU sees, a word at a time.             *)
LEMMA CatchesUp ==
  ASSUME IInv, NEW r, NEW take, NEW sent, NEW beat, NEW write,
         Edge(r, take, sent, beat, write)
  PROVE  /\ memory' \in [Line -> LineData]
         /\ \A l \in Line, b \in Beat : memory'[l][b] \in {memory[l][b], Visible(l)[b]}
<1>1. TypeOK /\ WbInv /\ memory' = NextMemory(write)
  BY DEF IInv, Edge
<1>2. PICK mem : mem = memory' /\ mem = NextMemory(write)
  BY <1>1
<1>3. /\ mem \in [Line -> LineData]
      /\ \A l \in Line : wb = None \/ wb.line # l => mem[l] = memory[l]
      /\ wb # None => \A b \in Beat : mem[wb.line][b] =
              IF wb.state = "W" /\ write = "ok" /\ b = wb.beat THEN wb.data[b]
              ELSE memory[wb.line][b]
  BY <1>1, <1>2, NextMemoryAt
<1>4. ASSUME NEW l \in Line, NEW b \in Beat
      PROVE  mem[l][b] \in {memory[l][b], Visible(l)[b]}
  <2>1. CASE wb = None \/ wb.line # l
    BY <1>3, <2>1
  <2>2. CASE wb # None /\ wb.line = l
    <3>1. Visible(l) = wb.data
      BY <1>1, <2>2, SeenVictim DEF WbInv
    <3> QED
      BY <1>3, <2>2, <3>1
  <2> QED
    BY <2>1, <2>2
<1> QED
  BY <1>2, <1>3, <1>4

LEMMA LastOf ==
  ASSUME NEW S, NEW s \in Seq(S), NEW x \in S
  PROVE  LET t == s \o <<x>>
         IN  t # <<>> /\ SubSeq(t, 1, Len(t) - 1) = s /\ t[Len(t)] = x
<1>1. PICK k \in Nat : k = Len(s)
  OBVIOUS
<1>2. PICK t : t = s \o <<x>>
  OBVIOUS
<1>3. <<x>> \in Seq(S) /\ Len(<<x>>) = 1 /\ <<x>>[1] = x
  OBVIOUS
<1>4. /\ t \in Seq(S) /\ Len(t) = k + 1
      /\ \A i \in 1 .. k + 1 : t[i] = IF i <= k THEN s[i] ELSE <<x>>[i - k]
  BY <1>1, <1>2, <1>3, ConcatProperties
<1>5. (k + 1) - 1 = k /\ k + 1 \in 1 .. k + 1 /\ ~(k + 1 <= k) /\ (k + 1) - k = 1
  BY <1>1
<1>6. t[k + 1] = x
  BY <1>3, <1>4, <1>5
<1>7. /\ SubSeq(t, 1, k) \in Seq(S) /\ Len(SubSeq(t, 1, k)) = k
      /\ \A i \in 1 .. k : SubSeq(t, 1, k)[i] = t[i]
  <2>1. \A i \in 1 .. k : t[i] \in S
    BY <1>4, ElementOfSeq
  <2>2. /\ SubSeq(t, 1, k) \in Seq(S)
        /\ Len(SubSeq(t, 1, k)) = IF 1 <= k THEN k - 1 + 1 ELSE 0
        /\ \A i \in 1 .. k - 1 + 1 : SubSeq(t, 1, k)[i] = t[1 + i - 1]
    BY <1>1, <2>1, SubSeqProperties
  <2>3. (IF 1 <= k THEN k - 1 + 1 ELSE 0) = k /\ k - 1 + 1 = k
    BY <1>1
  <2>4. \A i \in 1 .. k : 1 + i - 1 = i
    BY <1>1
  <2> QED
    BY <2>2, <2>3, <2>4
<1>8. \A i \in 1 .. k : SubSeq(t, 1, k)[i] = s[i]
  BY <1>1, <1>4, <1>7
<1>9. SubSeq(t, 1, k) = s
  BY <1>1, <1>7, <1>8, SeqEqual
<1>10. t # <<>>
  BY <1>1, <1>4
<1> QED
  BY <1>2, <1>4, <1>5, <1>6, <1>9, <1>10

(* The replies left in the queue once the CPU has taken its one.            *)
Kept(take) == IF take THEN Tail(rsp) ELSE rsp

(* What the FIFO keeps, what it gains, and how the CPU counts.             *)
LEMMA RepliesStep ==
  ASSUME IInv, NEW r, NEW take, NEW sent, NEW beat, NEW write,
         Inputs(r, take, sent, beat, write), Edge(r, take, sent, beat, write),
         NEW left, left = Kept(take)
  PROVE  /\ left = rsp \/ (rsp # <<>> /\ left = Tail(rsp))
         /\ awaited' + Len(rsp) = awaited + Len(left) + (IF r = None THEN 0 ELSE 1)
         /\ ~(ReplayEmit \/ Hits(r)) => rsp' = left
         /\ ReplayEmit \/ Hits(r) => /\ rsp' # <<>>
                                     /\ SubSeq(rsp', 1, Len(rsp') - 1) = left
                                     /\ <<rsp'[Len(rsp')]>> = Enqueued(r)
<1>0. /\ TypeOK /\ r \in Request \cup {None} /\ take \in BOOLEAN /\ Taken(take)
      /\ \A e \in Entry : MshrInv(e)
  BY DEF IInv, Inputs
<1>1. left = rsp \/ (rsp # <<>> /\ left = Tail(rsp))
  BY <1>0 DEF Taken, Kept
<1>2. rsp \in Seq(Response) /\ Len(rsp) \in Nat
  BY <1>0 DEF TypeOK
<1>3. left \in Seq(Response) /\ Len(left) = Len(rsp) - (IF take THEN 1 ELSE 0)
  <2> HIDE DEF Response
  <2>1. CASE take
    BY <1>0, <1>2, <2>1, HeadTailProperties DEF Taken, Kept
  <2>2. CASE ~take
    BY <1>2, <2>2 DEF Kept
  <2> QED
    BY <2>1, <2>2
<1>4. awaited' + Len(rsp) = awaited + Len(left) + (IF r = None THEN 0 ELSE 1)
  <2>1. PICK a \in Nat, n \in Nat, i \in 0 .. 1, j \in 0 .. 1 :
          /\ a = awaited /\ n = Len(rsp)
          /\ i = (IF r = None THEN 0 ELSE 1) /\ j = (IF take THEN 1 ELSE 0)
    BY <1>0, <1>2 DEF TypeOK
  <2>2. awaited' = a + i - j /\ Len(left) = n - j
    BY <1>3, <2>1 DEF Edge, NextAwaited
  <2>3. (a + i - j) + n = a + (n - j) + i
    BY <2>1
  <2> QED
    BY <2>1, <2>2, <2>3
<1>5. PICK q : q = Enqueued(r)
  OBVIOUS
<1>6. q \in Seq(Response) /\ Len(q) = IF ReplayEmit \/ Hits(r) THEN 1 ELSE 0
  BY <1>0, <1>5, EnqueuedType
<1>7. rsp' = left \o q
  BY <1>5 DEF Edge, NextRsp, Kept
<1>8. ~(ReplayEmit \/ Hits(r)) => rsp' = left
  <2> HIDE DEF Response
  <2> SUFFICES ASSUME ~(ReplayEmit \/ Hits(r)) PROVE rsp' = left
    OBVIOUS
  <2>1. q = <<>>
    BY <1>6
  <2> QED
    BY <1>3, <1>7, <2>1, ConcatEmptySeq
<1>9. ASSUME ReplayEmit \/ Hits(r)
      PROVE  /\ rsp' # <<>> /\ SubSeq(rsp', 1, Len(rsp') - 1) = left
             /\ <<rsp'[Len(rsp')]>> = q
  <2> HIDE DEF Response
  <2>1. q = <<q[1]>> /\ q[1] \in Response
    BY <1>6, <1>9
  <2>2. PICK x \in Response : x = q[1] /\ q = <<x>>
    BY <2>1
  <2>3. LET t == left \o <<x>>
        IN  t # <<>> /\ SubSeq(t, 1, Len(t) - 1) = left /\ t[Len(t)] = x
    BY <1>3, LastOf
  <2> QED
    BY <1>7, <2>2, <2>3
<1> QED
  BY <1>1, <1>4, <1>5, <1>8, <1>9

(* A hit or a replay answers as the memory of NonblockingMemory does.      *)
LEMMA HitAnswers ==
  ASSUME IInv, IInv', NEW r, NEW take, NEW sent, NEW beat, NEW write,
         Inputs(r, take, sent, beat, write), Edge(r, take, sent, beat, write),
         Hits(r), NEW x, <<x>> = Enqueued(r)
  PROVE  Memory!Answers(r, x)
<1>0. r \in Request /\ ~ReplayEmit
  BY Exclusive DEF Inputs, Hits
<1>1. r.line \in Line /\ r.word \in Beat /\ HitWay(r) \in Way /\ Present(HitWay(r), r.line)
  BY <1>0, HitType, RequestType
<1>2. PICK l \in Line : l = r.line
  BY <1>1
<1>3. Visible(l) = line[HitWay(r)][l.set].data
  BY <1>1, <1>2, SeenPresent
<1>4. x = Reply(r, IF r.write THEN 0 ELSE Visible(l)[r.word], FALSE)
  BY <1>0, <1>2, <1>3 DEF Enqueued
<1>5. \A k \in Line : Visible(k)' = IF r.write /\ k = l
                                    THEN [Visible(k) EXCEPT ![r.word] = r.data]
                                    ELSE Visible(k)
  BY <1>0, <1>2, VisibleStep DEF Performed, HitWrites, ReplayWrites
<1>6. CASE r.write
  <2>1. [k \in Line |-> Visible(k)']
          = [[k \in Line |-> Visible(k)] EXCEPT ![r.line][r.word] = r.data]
    BY <1>2, <1>5, <1>6
  <2> QED
    BY <1>4, <1>6, <2>1 DEF Memory!Answers, Reply
<1>7. CASE ~r.write
  <2>1. [k \in Line |-> Visible(k)'] = [k \in Line |-> Visible(k)]
    BY <1>5, <1>7
  <2> QED
    BY <1>2, <1>4, <1>7, <2>1 DEF Memory!Answers, Reply
<1> QED
  BY <1>6, <1>7

LEMMA ReplayAnswers ==
  ASSUME IInv, IInv', NEW r, NEW take, NEW sent, NEW beat, NEW write,
         Inputs(r, take, sent, beat, write), Edge(r, take, sent, beat, write),
         ReplayEmit, NEW x, <<x>> = Enqueued(r)
  PROVE  Memory!Answers(ReplayRequest, x)
<1>0. ~Hits(r)
  BY DEF Hits
<1>1. PICK q \in Request : q = ReplayRequest /\ q.line = mshr[ReplayEntry].line
  BY ReplayRequestType DEF IInv
<1>2. PICK l \in Line : l = q.line
  BY RequestType
<1>3. PICK m : m = mshr[ReplayEntry]
  OBVIOUS
<1>4. \A k \in Line : Visible(k)' = IF ~m.error /\ q.write /\ k = l
                                    THEN [Visible(k) EXCEPT ![q.word] = q.data]
                                    ELSE Visible(k)
  BY <1>0, <1>1, <1>2, <1>3, VisibleStep DEF Performed, HitWrites, ReplayWrites
<1>5. x = Reply(q, IF m.error \/ q.write THEN 0
                   ELSE line[m.way][m.line.set].data[q.word], m.error)
  BY <1>1, <1>3 DEF Enqueued
<1>6. CASE m.error
  <2>1. [k \in Line |-> Visible(k)'] = [k \in Line |-> Visible(k)]
    BY <1>4, <1>6
  <2> QED
    BY <1>1, <1>5, <1>6, <2>1 DEF Memory!Answers, Reply
<1>7. CASE ~m.error /\ q.write
  <2>1. [k \in Line |-> Visible(k)']
          = [[k \in Line |-> Visible(k)] EXCEPT ![q.line][q.word] = q.data]
    BY <1>2, <1>4, <1>7
  <2>2. m.error = FALSE
    <3>1. mshr[ReplayEntry].error \in BOOLEAN
      <4>1. PICK e \in Entry : e = ReplayEntry /\ mshr[e] # None
        BY ReplayType
      <4> QED
        BY <4>1, MshrType DEF IInv
    <3> QED
      BY <1>3, <1>7, <3>1
  <2> QED
    BY <1>1, <1>5, <1>7, <2>1 DEF Memory!Answers, Reply
<1>8. CASE ~m.error /\ ~q.write
  <2>1. [k \in Line |-> Visible(k)'] = [k \in Line |-> Visible(k)]
    BY <1>4, <1>8
  <2>2. m.way \in Way /\ Present(m.way, l)
    BY <1>1, <1>2, <1>3, <1>8, ReplayedLine
  <2>3. Visible(l) = line[m.way][l.set].data
    BY <2>2, SeenPresent
  <2>4. x = Reply(q, Visible(l)[q.word], m.error)
    BY <1>1, <1>2, <1>3, <1>5, <1>8, <2>3
  <2> QED
    BY <1>1, <1>2, <1>8, <2>1, <2>4 DEF Memory!Answers, Reply
<1> QED
  BY <1>6, <1>7, <1>8

(* An edge of the cache is an edge of NonblockingMemory.                   *)
LEMMA EdgeRefines ==
  ASSUME IInv, IInv', NEW r, NEW take, NEW sent, NEW beat, NEW write,
         Inputs(r, take, sent, beat, write), Edge(r, take, sent, beat, write)
  PROVE  Memory!NEdge
<1>0. r \in Request \cup {None}
  BY DEF Inputs
<1>1. Memory!CatchUp
  <2>1. /\ memory' \in [Line -> LineData]
        /\ \A l \in Line, b \in Beat : memory'[l][b] \in {memory[l][b], Visible(l)[b]}
    BY CatchesUp
  <2> QED
    BY <2>1 DEF Memory!CatchUp, LineData
<1>2. PICK left : left = Kept(take)
  OBVIOUS
<1>3. /\ left \in Memory!Left /\ Memory!Counted(r, left)
      /\ ~(ReplayEmit \/ Hits(r)) => rsp' = left
      /\ ReplayEmit \/ Hits(r) => /\ rsp' # <<>>
                                  /\ SubSeq(rsp', 1, Len(rsp') - 1) = left
                                  /\ <<rsp'[Len(rsp')]>> = Enqueued(r)
  <2>1. /\ left = rsp \/ (rsp # <<>> /\ left = Tail(rsp))
        /\ awaited' + Len(rsp) = awaited + Len(left) + (IF r = None THEN 0 ELSE 1)
        /\ ~(ReplayEmit \/ Hits(r)) => rsp' = left
        /\ ReplayEmit \/ Hits(r) => /\ rsp' # <<>>
                                    /\ SubSeq(rsp', 1, Len(rsp') - 1) = left
                                    /\ <<rsp'[Len(rsp')]>> = Enqueued(r)
    BY <1>2, RepliesStep
  <2> QED
    BY <2>1 DEF Memory!Left, Memory!Counted
<1>4. \A l \in Line : Memory!Queue(l, r) = Asked(r, l)
  BY DEF Memory!Queue, Asked
<1>5. CASE Hits(r)
  <2>1. r \in Request /\ r.line \in Line
    BY <1>0, <1>5, Exclusive, RequestType
  <2>2. PICK l \in Line : l = r.line
    BY <2>1
  <2>3. Asked(r, l) = <<r>> /\ Waiting(l)' = <<>>
    BY <1>5, <2>2, HitServed
  <2>4. \A k \in Line : k # l => Waiting(k)' = Asked(r, k)
    BY <1>5, <2>2, NothingServed DEF Served, Hits
  <2>5. PICK x : x = rsp'[Len(rsp')]
    OBVIOUS
  <2>6. Memory!Answers(r, x)
    BY <1>3, <1>5, <2>5, HitAnswers
  <2>7. /\ Memory!Queue(l, r) # <<>> /\ Head(Memory!Queue(l, r)) = r
        /\ \A k \in Line : Waiting(k)' = IF k = l THEN Tail(Memory!Queue(k, r))
                                         ELSE Memory!Queue(k, r)
    BY <1>4, <2>3, <2>4, OwesOne
  <2>8. Memory!Serve
    BY <1>0, <1>3, <1>5, <2>5, <2>6, <2>7 DEF Memory!Serve
  <2> QED
    BY <1>1, <2>8 DEF Memory!NEdge
<1>6. CASE ReplayEmit
  <2>1. PICK l \in Line : l = mshr[ReplayEntry].line
    <3>1. PICK e \in Entry : e = ReplayEntry /\ mshr[e] # None
      BY <1>6, ReplayType
    <3> QED
      BY <3>1, MshrType DEF IInv
  <2>2. /\ Asked(r, l) # <<>> /\ Head(Asked(r, l)) = ReplayRequest
        /\ Waiting(l)' = Tail(Asked(r, l))
    BY <1>6, <2>1, ReplayServed
  <2>3. \A k \in Line : k # l => Waiting(k)' = Asked(r, k)
    BY <1>6, <2>1, NothingServed DEF Served, Hits
  <2>4. PICK x : x = rsp'[Len(rsp')]
    OBVIOUS
  <2>5. Memory!Answers(ReplayRequest, x)
    BY <1>3, <1>6, <2>4, ReplayAnswers
  <2>6. /\ Memory!Queue(l, r) # <<>> /\ Head(Memory!Queue(l, r)) = ReplayRequest
        /\ \A k \in Line : Waiting(k)' = IF k = l THEN Tail(Memory!Queue(k, r))
                                         ELSE Memory!Queue(k, r)
    BY <1>4, <2>2, <2>3
  <2>7. Memory!Serve
    BY <1>0, <1>3, <1>6, <2>4, <2>5, <2>6 DEF Memory!Serve
  <2> QED
    BY <1>1, <2>7 DEF Memory!NEdge
<1>7. CASE ~Hits(r) /\ ~ReplayEmit
  <2>1. \A k \in Line : Waiting(k)' = Memory!Queue(k, r)
    BY <1>4, <1>7, NothingServed DEF Served
  <2>2. \A k \in Line : Visible(k)' = Visible(k)
    BY <1>7, VisibleStep DEF Performed, HitWrites, ReplayWrites
  <2>3. [k \in Line |-> Visible(k)'] = [k \in Line |-> Visible(k)]
    BY <2>2
  <2>4. rsp' = left
    BY <1>3, <1>7
  <2>5. Memory!ServeNone
    BY <1>0, <1>3, <2>1, <2>3, <2>4 DEF Memory!ServeNone
  <2> QED
    BY <1>1, <2>5 DEF Memory!NEdge
<1> QED
  BY <1>5, <1>6, <1>7

(* After a reset the CPU sees memory, and nothing is owed.                 *)
LEMMA ResetRefines ==
  ASSUME IInv, Reset
  PROVE  Memory!NReset
<1>1. \A l \in Line, w \in Way : ~line'[w][l.set].valid
  BY LineType, PowerUpType DEF Reset
<1>2. wb' = None /\ memory' = memory /\ rsp' = <<>> /\ awaited' = 0
      /\ \A e \in Entry : mshr'[e] = None
  BY DEF Reset
<1>3. \A l \in Line : Visible(l)' = memory[l]
  BY <1>1, <1>2, SeenMemoryNext DEF Absent, Present
<1>4. \A l \in Line : Waiting(l)' = <<>>
  BY <1>2, NextWaitingNone
<1>5. [l \in Line |-> Visible(l)'] = memory
  BY <1>3 DEF IInv, TypeOK
<1>6. [l \in Line |-> Waiting(l)'] = [l \in Line |-> <<>>]
  BY <1>4
<1> QED
  BY <1>2, <1>5, <1>6 DEF Memory!NReset

LEMMA InitRefines ==
  ASSUME Init
  PROVE  Memory!NInit
<1>1. \A l \in Line, w \in Way : ~Present(w, l)
  BY LineType, PowerUpType DEF Init, Present
<1>2. \A l \in Line : Visible(l) = memory[l]
  BY <1>1, SeenMemory DEF Init, Absent
<1>3. \A l \in Line : Waiting(l) = <<>>
  BY WaitingNone DEF Init
<1>4. [l \in Line |-> Visible(l)] = memory
  BY <1>2 DEF Init
<1>5. [l \in Line |-> Waiting(l)] = [l \in Line |-> <<>>]
  BY <1>3
<1> QED
  BY <1>4, <1>5 DEF Memory!NInit, Init

(* Hits under misses, merges, refills in any order, failed refills and     *)
(* writebacks, resets: the cache is the memory of NonblockingMemory.       *)
THEOREM Refinement == Spec => RefinesNonblockingMemory
<1>1. IInv /\ IInv' /\ [Next]_vars => [Memory!NEdge \/ Memory!NReset]_(Memory!nVars)
  <2> SUFFICES ASSUME IInv, IInv', [Next]_vars
               PROVE  Memory!NEdge \/ Memory!NReset \/ UNCHANGED Memory!nVars
    OBVIOUS
  <2>1. CASE Step
    <3>1. PICK r \in Request \cup {None}, take \in BOOLEAN, sent \in BOOLEAN,
               beat \in ReadBeat \cup {None}, write \in WriteAnswer :
            /\ Accepted(r) /\ Taken(take) /\ ReadAddress(sent)
            /\ beat # None => Offered(beat)
            /\ WriteChannel(write)
            /\ Edge(r, take, sent, beat, write)
      BY <2>1 DEF Step
    <3>2. Inputs(r, take, sent, beat, write)
      BY <3>1 DEF Inputs
    <3> QED
      BY <3>1, <3>2, EdgeRefines
  <2>2. CASE Reset
    BY <2>2, ResetRefines
  <2>3. CASE UNCHANGED vars
    <3>1. /\ line' = line /\ mshr' = mshr /\ wb' = wb /\ rsp' = rsp
          /\ memory' = memory /\ awaited' = awaited
      BY <2>3 DEF vars
    <3>2. \A l : Visible(l)' = Visible(l)
      BY <3>1 DEF Visible, Present
    <3>3. \A l : Waiting(l)' = Waiting(l)
      BY <3>1 DEF Waiting, Busy
    <3> QED
      BY <3>1, <3>2, <3>3 DEF Memory!nVars
  <2> QED
    BY <2>1, <2>2, <2>3 DEF Next
<1> QED
  BY <1>1, InitRefines, Inductive, PTL DEF Spec, RefinesNonblockingMemory, Memory!NSpec
=============================================================================
