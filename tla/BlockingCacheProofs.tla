------------------------- MODULE BlockingCacheProofs -------------------------
(***************************************************************************)
(* Proofs about BlockingCache, for every geometry, number of beats, set of *)
(* tags, lanes and bytes: its types, one copy of a line, clean lines equal *)
(* to memory, what a write burst carries, and the refinement of            *)
(* WriteBackMemory.                                                        *)
(***************************************************************************)
EXTENDS BlockingCache, TLAPS

Replacing == {"WB_AW", "WB_W", "WB_B"}
Refilling == {"REFILL_AR", "REFILL_R", "REFILL_FINISH"}
Flushes   == {"MAINT_WB_AW", "MAINT_WB_W", "MAINT_WB_B"}

(* Which registers are in use in which state of the controller.            *)
Phase ==
  /\ state \in {"LOOKUP", "REPLAY"} \cup Replacing \cup Refilling <=> req # None
  /\ state = "RESPONSE" <=> rsp # None
  /\ state \in {"MAINT_SCAN"} \cup Flushes <=> maint # None
  /\ state \in Flushes => maint.cmd \in {0, 2}

(* From the miss to the refill the victim's set is the request's, and the  *)
(* line asked for stays absent; a flush writes back the line it scans.     *)
VictimFits ==
  /\ state \in Replacing \cup Refilling =>
       victim # None /\ victim.set = req.addr.set /\ req.aligned /\ HitWays = {}
  /\ state \in Flushes =>
       victim # None /\ victim.way = maint.way /\ victim.set = maint.set

LruInWay == lru \in [Set -> Way]

Base == TypeOK /\ Phase /\ VictimFits /\ LruInWay /\ OneCopy

LEMMA WayFacts ==
  /\ 0 \in Way /\ Way \subseteq {0, 1} /\ Way \subseteq Nat
  /\ Ways = 2 => Way = {0, 1}
  /\ Ways = 1 => Way = {0}
  /\ 0 \in Set /\ Set \subseteq Nat /\ 0 \in Beat /\ Beat \subseteq Nat
BY GeometryAssumption, BeatsAssumption DEF Way, Set, Beat

LEMMA Words == Zero \in Word /\ Ones \in Word /\ ZeroData \in LineData
BY MaxByteAssumption DEF Zero, Ones, Word, Byte, ZeroData, LineData

LEMMA BeatStep ==
  ASSUME TypeOK
  PROVE  /\ ~LastBeat => beat + 1 \in Beat
         /\ maint # None /\ maint.word # Beats - 1 => maint.word + 1 \in Beat
<1>1. beat \in 0 .. Beats - 1 /\ (maint # None => maint.word \in 0 .. Beats - 1)
  BY DEF TypeOK, Beat, Maintenance
<1> QED
  BY <1>1, BeatsAssumption DEF Beat, LastBeat

LEMMA PowerUp == PowerUpLine \in Line
<1>1. (CHOOSE t \in Tag : TRUE) \in Tag
  BY TagAssumption
<1> QED
  BY <1>1, Words DEF PowerUpLine, Line

(* The scan's next position is a line, and lies behind exactly the lines   *)
(* behind the old position and the old position itself.                    *)
Passed(m, w, s) == s < m.set \/ (s = m.set /\ w < m.way)

LEMMA AdvancedFacts ==
  ASSUME TypeOK, maint # None, ~LastLine
  PROVE  /\ Advanced \in Maintenance
         /\ Advanced.cmd = maint.cmd /\ Advanced.phase = maint.phase
         /\ Advanced.word = maint.word /\ Advanced.error = maint.error
         /\ \A w \in Way, s \in Set :
              Passed(Advanced, w, s)
                => Passed(maint, w, s) \/ (w = maint.way /\ s = maint.set)
<1>1. maint \in Maintenance
  BY DEF TypeOK
<1>2. /\ maint.set \in Set /\ maint.way \in Way /\ maint.cmd \in Command
      /\ maint.error \in BOOLEAN /\ maint.phase \in 0..4 /\ maint.word \in Beat
  BY <1>1 DEF Maintenance
<1>3. CASE maint.way = Ways - 1
  <2>1. maint.set + 1 \in Set
    BY <1>2, <1>3, GeometryAssumption DEF LastLine, Set
  <2>2. Advanced = [maint EXCEPT !.way = 0, !.set = @ + 1]
    BY <1>3 DEF Advanced
  <2>3. Advanced \in Maintenance
    BY <1>1, <1>2, <2>1, <2>2, WayFacts DEF Maintenance
  <2>4. /\ Advanced.cmd = maint.cmd /\ Advanced.phase = maint.phase
        /\ Advanced.word = maint.word /\ Advanced.error = maint.error
        /\ Advanced.set = maint.set + 1 /\ Advanced.way = 0
    BY <1>1, <2>2 DEF Maintenance
  <2>5. \A w \in Way, s \in Set :
          Passed(Advanced, w, s)
            => Passed(maint, w, s) \/ (w = maint.way /\ s = maint.set)
    BY <1>2, <1>3, <2>4, GeometryAssumption DEF Passed, Way, Set
  <2> QED
    BY <2>3, <2>4, <2>5
<1>4. CASE maint.way # Ways - 1
  <2>1. maint.way + 1 \in Way
    BY <1>2, <1>4, GeometryAssumption DEF Way
  <2>2. Advanced = [maint EXCEPT !.way = @ + 1]
    BY <1>4 DEF Advanced
  <2>3. Advanced \in Maintenance
    BY <1>1, <1>2, <2>1, <2>2 DEF Maintenance
  <2>4. /\ Advanced.cmd = maint.cmd /\ Advanced.phase = maint.phase
        /\ Advanced.word = maint.word /\ Advanced.error = maint.error
        /\ Advanced.set = maint.set /\ Advanced.way = maint.way + 1
    BY <1>1, <2>2 DEF Maintenance
  <2>5. \A w \in Way, s \in Set :
          Passed(Advanced, w, s)
            => Passed(maint, w, s) \/ (w = maint.way /\ s = maint.set)
    BY <1>2, <2>4, GeometryAssumption DEF Passed, Way, Set
  <2> QED
    BY <2>3, <2>4, <2>5
<1> QED
  BY <1>3, <1>4

(* Fields are in the sets their records' types give.                       *)
LEMMA Fields ==
  ASSUME TypeOK
  PROVE  /\ req # None => /\ req \in Request /\ req.addr.tag \in Tag
                          /\ req.addr.set \in Set /\ req.addr.word \in Beat
                          /\ req.data \in Word /\ req.strobe \in SUBSET Lane
                          /\ req.write \in BOOLEAN /\ req.aligned \in BOOLEAN
         /\ victim # None => /\ victim \in Victim /\ victim.way \in Way
                             /\ victim.set \in Set /\ victim.tag \in Tag
         /\ maint # None => /\ maint \in Maintenance /\ maint.cmd \in Command
                            /\ maint.set \in Set /\ maint.way \in Way
                            /\ maint.error \in BOOLEAN /\ maint.phase \in 0..4
                            /\ maint.word \in Beat
         /\ \A w \in Way, s \in Set :
              /\ line[w][s] \in Line /\ line[w][s].valid \in BOOLEAN
              /\ line[w][s].dirty \in BOOLEAN /\ line[w][s].tag \in Tag
              /\ line[w][s].data \in LineData
         /\ \A t \in Tag, s \in Set : memory[t][s] \in LineData
<1>1. /\ req # None => req \in Request
      /\ victim # None => victim \in Victim
      /\ maint # None => maint \in Maintenance
  BY DEF TypeOK
<1>2. \A w \in Way, s \in Set : line[w][s] \in Line
  BY DEF TypeOK
<1>3. \A t \in Tag, s \in Set : memory[t][s] \in LineData
  BY DEF TypeOK
<1> QED
  BY <1>1, <1>2, <1>3 DEF Request, Addr, Victim, Maintenance, Line

(* A record put in place of a line or of none.                             *)
LEMMA LinesType ==
  ASSUME NEW ls \in [Way -> [Set -> Line]], NEW w \in Way, NEW s \in Set, NEW l \in Line
  PROVE  LET new == [ls EXCEPT ![w][s] = l]
         IN  /\ new \in [Way -> [Set -> Line]]
             /\ new[w][s] = l
             /\ \A v \in Way, r \in Set : v # w \/ r # s => new[v][r] = ls[v][r]
OBVIOUS

(* Leaving a line: on to the next one, or the end of the command.          *)
LEMMA NextLineFacts ==
  ASSUME TypeOK, maint # None, NEW error \in BOOLEAN, NextLine(error)
  PROVE  /\ maint_error' \in BOOLEAN
         /\ \/ LastLine /\ maint' = None /\ state' = "IDLE" /\ maint_error' = error
            \/ /\ state' = "MAINT_SCAN" /\ maint_error' = maint_error
               /\ maint' \in Maintenance /\ maint'.error = error
               /\ maint'.cmd = maint.cmd /\ maint'.phase = maint.phase
               /\ \A w \in Way, s \in Set :
                    Passed(maint', w, s)
                      => Passed(maint, w, s) \/ (w = maint.way /\ s = maint.set)
<1>1. CASE LastLine
  BY <1>1 DEF NextLine
<1>2. CASE ~LastLine
  <2>1. maint' = [Advanced EXCEPT !.error = error]
        /\ state' = "MAINT_SCAN" /\ maint_error' = maint_error
    BY <1>2 DEF NextLine
  <2>2. Advanced \in Maintenance
    BY <1>2, AdvancedFacts
  <2>3. /\ maint' \in Maintenance /\ maint'.error = error
        /\ maint'.cmd = Advanced.cmd /\ maint'.phase = Advanced.phase
        /\ maint'.set = Advanced.set /\ maint'.way = Advanced.way
    BY <2>1, <2>2 DEF Maintenance
  <2> QED
    BY <1>2, <2>1, <2>3, AdvancedFacts DEF TypeOK, Passed
<1> QED
  BY <1>1, <1>2

(* The last line is behind no other: all but it have been passed.          *)
LEMMA LastIsLast ==
  ASSUME TypeOK, maint # None, LastLine
  PROVE  \A w \in Way, s \in Set :
           Passed(maint, w, s) \/ (w = maint.way /\ s = maint.set)
BY GeometryAssumption DEF LastLine, Passed, Way, Set

(* One edge of the self-test: within a line, to the next line, to the next *)
(* phase, or the end.                                                      *)
LEMMA BistFacts ==
  ASSUME TypeOK, maint # None, state = "MAINT_SCAN", BistNext
  PROVE  /\ maint_error' \in BOOLEAN
         /\ \/ /\ LastLine /\ maint.phase = 4 /\ maint.word = Beats - 1
               /\ maint' = None /\ state' = "IDLE"
            \/ /\ state' = "MAINT_SCAN" /\ maint_error' = maint_error
               /\ maint' \in Maintenance /\ maint'.cmd = maint.cmd
               /\ \/ /\ maint'.phase = maint.phase + 1
                     /\ maint'.set = 0 /\ maint'.way = 0
                  \/ /\ maint'.phase = maint.phase
                     /\ \A w \in Way, s \in Set :
                          Passed(maint', w, s)
                            => \/ Passed(maint, w, s)
                               \/ /\ maint.word = Beats - 1
                                  /\ w = maint.way /\ s = maint.set
<1> DEFINE m == [maint EXCEPT !.error = @ \/ BistMismatch]
<1>1. /\ maint \in Maintenance
      /\ maint.set \in Set /\ maint.way \in Way /\ maint.cmd \in Command
      /\ maint.error \in BOOLEAN /\ maint.phase \in 0..4 /\ maint.word \in Beat
  BY Fields
<1>2. BistMismatch \in BOOLEAN
  BY DEF BistMismatch
<1>3. (maint.error \/ BistMismatch) \in BOOLEAN
  OBVIOUS
<1>4. /\ m \in Maintenance /\ m.cmd = maint.cmd /\ m.phase = maint.phase
      /\ m.set = maint.set /\ m.way = maint.way /\ m.word = maint.word
      /\ m.error \in BOOLEAN
  BY <1>1, <1>3 DEF Maintenance
<1> HIDE DEF m
<1>5. CASE maint.word # Beats - 1
  <2>1. maint' = [m EXCEPT !.word = @ + 1] /\ UNCHANGED <<state, maint_error>>
    BY <1>5 DEF BistNext, m
  <2>2. maint.word + 1 \in Beat
    BY <1>5, BeatStep
  <2>3. /\ maint' \in Maintenance /\ maint'.cmd = m.cmd /\ maint'.phase = m.phase
        /\ maint'.set = m.set /\ maint'.way = m.way
    BY <1>4, <2>1, <2>2 DEF Maintenance
  <2> QED
    BY <1>4, <2>1, <2>3 DEF Passed, TypeOK
<1>6. CASE maint.word = Beats - 1 /\ ~LastLine
  <2>1. /\ maint' = [Advanced EXCEPT !.error = m.error, !.word = 0]
        /\ UNCHANGED <<state, maint_error>>
    BY <1>6 DEF BistNext, m
  <2>2. Advanced \in Maintenance
    BY <1>6, AdvancedFacts
  <2>3. /\ maint' \in Maintenance
        /\ maint'.cmd = Advanced.cmd /\ maint'.phase = Advanced.phase
        /\ maint'.set = Advanced.set /\ maint'.way = Advanced.way
    BY <1>4, <2>1, <2>2, WayFacts DEF Maintenance
  <2> QED
    BY <1>6, <2>1, <2>3, AdvancedFacts DEF Passed, TypeOK
<1>7. CASE maint.word = Beats - 1 /\ LastLine /\ maint.phase # 4
  <2>1. /\ maint' = [m EXCEPT !.phase = @ + 1, !.word = 0, !.way = 0, !.set = 0]
        /\ UNCHANGED <<state, maint_error>>
    BY <1>7 DEF BistNext, m
  <2>2. maint.phase + 1 \in 0..4
    BY <1>1, <1>7
  <2>3. /\ maint' \in Maintenance /\ maint'.cmd = maint.cmd
        /\ maint'.phase = maint.phase + 1 /\ maint'.set = 0 /\ maint'.way = 0
    BY <1>4, <2>1, <2>2, WayFacts DEF Maintenance
  <2> QED
    BY <2>1, <2>3 DEF TypeOK
<1>8. CASE maint.word = Beats - 1 /\ LastLine /\ maint.phase = 4
  BY <1>4, <1>8 DEF BistNext, m
<1> QED
  BY <1>5, <1>6, <1>7, <1>8

(* The line the self-test leaves behind.                                   *)
LEMMA BistLineFacts ==
  ASSUME TypeOK, maint # None
  PROVE  /\ BistLine \in Line
         /\ BistLine.valid => Scanned.valid /\ BistLine.tag = Scanned.tag
         /\ BistLine.dirty => Scanned.dirty
         /\ \/ BistLine.valid = Scanned.valid /\ BistLine.dirty = Scanned.dirty
            \/ ~BistLine.valid /\ ~BistLine.dirty
         /\ maint.phase = 4 /\ maint.word = Beats - 1
              => ~BistLine.valid /\ ~BistLine.dirty
         /\ maint.phase = 0 => BistLine = Scanned
<1> DEFINE d == IF maint.phase = 2 THEN Ones ELSE Zero
           l == IF maint.phase \in 1..3
                THEN [Scanned EXCEPT !.data[maint.word] = d] ELSE Scanned
<1>1. /\ Scanned \in Line /\ Scanned.data \in LineData /\ maint.word \in Beat
      /\ maint.phase \in 0..4
  BY Fields DEF Scanned
<1>2. d \in Word
  BY Words
<1> HIDE DEF d
<1>3. /\ l \in Line /\ l.valid = Scanned.valid /\ l.dirty = Scanned.dirty
      /\ l.tag = Scanned.tag
      /\ maint.phase = 0 => l = Scanned
  BY <1>1, <1>2 DEF Line, LineData
<1>4. CASE maint.phase = 4 /\ maint.word = Beats - 1
  <2>1. BistLine = [l EXCEPT !.valid = FALSE, !.dirty = FALSE]
    BY <1>4 DEF BistLine, l, d
  <2> HIDE DEF l
  <2>2. BistLine \in Line /\ ~BistLine.valid /\ ~BistLine.dirty
    BY <1>3, <2>1 DEF Line
  <2> QED
    BY <1>4, <2>2
<1>5. CASE ~(maint.phase = 4 /\ maint.word = Beats - 1)
  <2>1. BistLine = l
    BY <1>5 DEF BistLine, l, d
  <2> HIDE DEF l
  <2> QED
    BY <1>3, <1>5, <2>1
<1> QED
  BY <1>4, <1>5

-----------------------------------------------------------------------------
(* No line becomes valid and no valid line is renamed.                     *)
NoNewLine == \A w \in Way, s \in Set :
               line'[w][s].valid => line[w][s].valid /\ line'[w][s].tag = line[w][s].tag

LEMMA NoNewCopy ==
  ASSUME TypeOK, OneCopy, NoNewLine
  PROVE  /\ OneCopy'
         /\ req # None /\ req' = req /\ HitWays = {} => HitWays' = {}
<1>1. OneCopy'
  BY DEF OneCopy, Present, NoNewLine
<1>2. req # None => req.addr.set \in Set
  BY Fields
<1> QED
  BY <1>1, <1>2 DEF HitWays, NoNewLine

LEMMA OneLineChanges ==
  ASSUME TypeOK, NEW w \in Way, NEW s \in Set, NEW l \in Line,
         l.valid => line[w][s].valid /\ l.tag = line[w][s].tag,
         line' = [line EXCEPT ![w][s] = l]
  PROVE  line' \in [Way -> [Set -> Line]] /\ NoNewLine
<1>1. /\ line' \in [Way -> [Set -> Line]] /\ line'[w][s] = l
      /\ \A v \in Way, r \in Set : v # w \/ r # s => line'[v][r] = line[v][r]
  BY LinesType DEF TypeOK
<1> QED
  BY <1>1 DEF NoNewLine

LEMMA NothingNew ==
  ASSUME TypeOK, line' = line
  PROVE  NoNewLine
BY DEF NoNewLine

(* What a store makes of the line it hits.                                 *)
LEMMA StoredFacts ==
  ASSUME TypeOK, req # None, NEW l \in Line
  PROVE  /\ Stored(l) \in Line /\ Stored(l).valid = l.valid /\ Stored(l).tag = l.tag
         /\ Stored(l).dirty
         /\ \A b \in Beat : Stored(l).data[b] =
              IF b = req.addr.word THEN Merge(l.data[b], req.data, req.strobe)
              ELSE l.data[b]
<1>1. req.addr.word \in Beat /\ req.data \in Word /\ l.data \in LineData
      /\ l.data[req.addr.word] \in Word
  BY Fields DEF Line, LineData
<1> DEFINE w == Merge(l.data[req.addr.word], req.data, req.strobe)
<1>2. w \in Word
  BY <1>1 DEF Merge, Word
<1>3. Stored(l) = [l EXCEPT !.data[req.addr.word] = w, !.dirty = TRUE]
  BY <1>1 DEF Stored, Line
<1> HIDE DEF w
<1>4. [l.data EXCEPT ![req.addr.word] = w] \in LineData
  BY <1>1, <1>2 DEF LineData
<1>5. /\ Stored(l) \in Line /\ Stored(l).valid = l.valid /\ Stored(l).tag = l.tag
      /\ Stored(l).dirty = TRUE
      /\ Stored(l).data = [l.data EXCEPT ![req.addr.word] = w]
  BY <1>3, <1>4 DEF Line
<1>6. \A b \in Beat : Stored(l).data[b] =
        IF b = req.addr.word THEN w ELSE l.data[b]
  BY <1>1, <1>5 DEF LineData
<1> QED
  BY <1>5, <1>6 DEF w

(* A write response of the maintenance sequencer changes one line.         *)
FlushedLine(ok) ==
  LET l == line[victim.way][victim.set]
  IN  IF ~ok THEN l
      ELSE [l EXCEPT !.dirty = FALSE, !.valid = @ /\ maint.cmd # 2]

LEMMA CleanedFacts ==
  ASSUME TypeOK, victim # None
  PROVE  LET l == line[victim.way][victim.set]
             c == [l EXCEPT !.dirty = FALSE]
         IN  /\ Cleaned = [line EXCEPT ![victim.way][victim.set] = c]
             /\ c \in Line /\ c.valid = l.valid /\ c.tag = l.tag /\ c.data = l.data
             /\ c.dirty = FALSE
<1>1. victim.way \in Way /\ victim.set \in Set /\ line \in [Way -> [Set -> Line]]
      /\ line[victim.way][victim.set] \in Line
  BY Fields DEF TypeOK
<1>2. Cleaned = [line EXCEPT ![victim.way][victim.set] =
                   [line[victim.way][victim.set] EXCEPT !.dirty = FALSE]]
  BY <1>1 DEF Cleaned
<1> QED
  BY <1>1, <1>2 DEF Line

LEMMA FlushedFacts ==
  ASSUME TypeOK, victim # None, maint # None, NEW ok \in BOOLEAN
  PROVE  LET l == line[victim.way][victim.set]
             f == FlushedLine(ok)
         IN  /\ Flushed(ok) = [line EXCEPT ![victim.way][victim.set] = f]
             /\ f \in Line /\ f.tag = l.tag /\ f.data = l.data
             /\ f.valid = (l.valid /\ ~(ok /\ maint.cmd = 2))
             /\ f.dirty = (l.dirty /\ ~ok)
<1> DEFINE l == line[victim.way][victim.set]
           c == [l EXCEPT !.dirty = FALSE]
<1>1. /\ victim.way \in Way /\ victim.set \in Set /\ line \in [Way -> [Set -> Line]]
      /\ l \in Line /\ l.valid \in BOOLEAN /\ l.dirty \in BOOLEAN
  BY Fields DEF TypeOK
<1>2. /\ Cleaned = [line EXCEPT ![victim.way][victim.set] = c]
      /\ c \in Line /\ c.valid = l.valid /\ c.tag = l.tag /\ c.data = l.data
      /\ c.dirty = FALSE
  BY CleanedFacts
<1>3. CASE ~ok
  BY <1>1, <1>3 DEF Flushed, FlushedLine
<1>4. CASE ok /\ maint.cmd # 2
  <2>1. FlushedLine(ok) = c
    BY <1>1, <1>4 DEF FlushedLine, Line
  <2>2. Flushed(ok) = Cleaned
    BY <1>4 DEF Flushed
  <2> QED
    BY <1>1, <1>2, <1>4, <2>1, <2>2
<1>5. CASE ok /\ maint.cmd = 2
  <2>1. FlushedLine(ok) = [c EXCEPT !.valid = FALSE]
    BY <1>1, <1>5 DEF FlushedLine, Line
  <2>2. Flushed(ok) = [Cleaned EXCEPT ![victim.way][victim.set].valid = FALSE]
    BY <1>5 DEF Flushed
  <2>3. Flushed(ok) = [line EXCEPT ![victim.way][victim.set] =
                         [c EXCEPT !.valid = FALSE]]
    <3> HIDE DEF c
    <3> DEFINE w == victim.way
               r == victim.set
               k == [line EXCEPT ![w][r] = c]
               d == [c EXCEPT !.valid = FALSE]
    <3>1. w \in Way /\ r \in Set /\ line \in [Way -> [Set -> Line]] /\ c \in Line
      BY <1>1, <1>2
    <3>2. Cleaned = k
      BY <1>2
    <3>3. k \in [Way -> [Set -> Line]] /\ k[w][r] = c /\ k[w] = [line[w] EXCEPT ![r] = c]
      <4> HIDE DEF w, r
      <4> QED
        BY <3>1
    <3>4. [k EXCEPT ![w][r].valid = FALSE] = [k EXCEPT ![w] = [k[w] EXCEPT ![r] = d]]
      <4> HIDE DEF k
      <4> QED
        BY <3>3
    <3> HIDE DEF d
    <3>5. [k[w] EXCEPT ![r] = d] = [line[w] EXCEPT ![r] = d]
      <4> HIDE DEF k, w, r
      <4> QED
        BY <3>1, <3>3
    <3>6. [k EXCEPT ![w] = [line[w] EXCEPT ![r] = d]]
            = [line EXCEPT ![w] = [line[w] EXCEPT ![r] = d]]
      OBVIOUS
    <3>7. [line EXCEPT ![w][r] = d] = [line EXCEPT ![w] = [line[w] EXCEPT ![r] = d]]
      OBVIOUS
    <3>8. [k EXCEPT ![w][r].valid = FALSE] = [line EXCEPT ![w][r] = d]
      BY <3>4, <3>5, <3>6, <3>7
    <3> QED
      BY <2>2, <3>2, <3>8 DEF d
  <2>4. LET f == [c EXCEPT !.valid = FALSE]
        IN  f \in Line /\ f.tag = l.tag /\ f.data = l.data /\ f.valid = FALSE
            /\ f.dirty = FALSE
    <3> HIDE DEF c
    <3> QED
      BY <1>2 DEF Line
  <2> QED
    BY <1>5, <2>1, <2>3, <2>4
<1> QED
  BY <1>3, <1>4, <1>5

-----------------------------------------------------------------------------
(* A step that leaves the lines and the registers of VictimFits alone, or  *)
(* only takes lines away, keeps what Base says of the lines.               *)
LEMMA InitBase == Init => Base
<1> SUFFICES ASSUME Init PROVE Base
  OBVIOUS
<1>1. TypeOK
  BY PowerUp, Words, WayFacts DEF Init, TypeOK, State
<1>2. \A w \in Way, s \in Set : ~line[w][s].valid
  BY DEF Init, PowerUpLine
<1>3. OneCopy
  BY <1>2 DEF OneCopy, Present
<1> QED
  BY <1>1, <1>3, WayFacts
  DEF Init, Base, Phase, VictimFits, LruInWay, Replacing, Refilling, Flushes

LEMMA ResetLines ==
  ASSUME TypeOK, Reset
  PROVE  /\ line' \in [Way -> [Set -> Line]]
         /\ \A w \in Way, s \in Set : ~line'[w][s].valid /\ ~line'[w][s].dirty
<1>1. \A w \in Way, s \in Set :
        LET l == [line[w][s] EXCEPT !.valid = FALSE, !.dirty = FALSE]
        IN  l \in Line /\ ~l.valid /\ ~l.dirty
  <2> TAKE w \in Way, s \in Set
  <2>1. line[w][s] \in Line
    BY DEF TypeOK
  <2> QED
    BY <2>1 DEF Line
<1> QED
  BY <1>1 DEF Reset

LEMMA ResetBase ==
  ASSUME Base, Reset
  PROVE  Base'
<1>1. TypeOK'
  BY ResetLines, Words, WayFacts DEF Base, TypeOK, Reset, State
<1>2. OneCopy'
  BY ResetLines DEF Base, OneCopy, Present
<1> QED
  BY <1>1, <1>2, WayFacts
  DEF Reset, Base, Phase, VictimFits, LruInWay, Replacing, Refilling, Flushes

(* The CPU side: acceptance, lookup and response.                          *)
LEMMA AcceptBase ==
  ASSUME Base, Accept
  PROVE  Base'
<1>1. OneCopy' /\ LruInWay'
  BY NothingNew, NoNewCopy
  DEF Base, Accept, AcceptMaintenance, AcceptRequest, arrayVars, LruInWay
<1>2. ASSUME NEW cmd \in Command, AcceptMaintenance(cmd) PROVE Base'
  <2>1. maint' \in Maintenance
    BY <1>2, WayFacts DEF AcceptMaintenance, Maintenance
  <2>2. maint' # None
    BY <2>1, NoneAssumption
  <2>3. TypeOK'
    BY <1>2, <2>1 DEF Base, TypeOK, AcceptMaintenance, cpuVars, arrayVars, burstVars,
                      axiVars, State
  <2> QED
    BY <1>1, <1>2, <2>2, <2>3
    DEF Base, AcceptMaintenance, Phase, VictimFits, Replacing, Refilling, Flushes,
        cpuVars, arrayVars, burstVars
<1>3. ASSUME NEW r \in Request, AcceptRequest(r) PROVE Base'
  <2>1. req' \in Request /\ req' # None
    BY <1>3, NoneAssumption DEF AcceptRequest
  <2>2. TypeOK'
    BY <1>3, <2>1 DEF Base, TypeOK, AcceptRequest, arrayVars, burstVars, maintVars,
                      axiVars, State
  <2> QED
    BY <1>1, <1>3, <2>1, <2>2
    DEF Base, AcceptRequest, Phase, VictimFits, Replacing, Refilling, Flushes,
        arrayVars, burstVars, maintVars
<1> QED
  BY <1>2, <1>3 DEF Accept

(* An answer puts the controller in RESPONSE.                              *)
LEMMA Answered ==
  ASSUME NEW data \in Word, NEW error \in BOOLEAN, Respond(data, error)
  PROVE  /\ rsp' \in Response /\ rsp' # None /\ req' = None /\ state' = "RESPONSE"
         /\ rsp'.data = data /\ rsp'.error = error
BY NoneAssumption DEF Respond, Response

LEMMA MisalignedBase ==
  ASSUME Base, Misaligned
  PROVE  Base'
<1>1. rsp' \in Response /\ rsp' # None /\ req' = None /\ state' = "RESPONSE"
  BY Answered, Words DEF Misaligned
<1>2. OneCopy' /\ LruInWay'
  BY NothingNew, NoNewCopy DEF Base, Misaligned, arrayVars, LruInWay
<1>3. TypeOK'
  BY <1>1 DEF Base, TypeOK, Misaligned, arrayVars, burstVars, maintVars, axiVars, State
<1> QED
  BY <1>1, <1>2, <1>3
  DEF Base, Misaligned, Looking, Phase, VictimFits, Replacing, Refilling, Flushes,
      arrayVars, burstVars, maintVars

LEMMA TakeBase ==
  ASSUME Base, TakeResponse
  PROVE  Base'
<1>2. OneCopy' /\ LruInWay'
  BY NothingNew, NoNewCopy DEF Base, TakeResponse, arrayVars, LruInWay
<1>3. TypeOK'
  BY DEF Base, TypeOK, TakeResponse, arrayVars, burstVars, maintVars, axiVars, State
<1> QED
  BY <1>2, <1>3
  DEF Base, TakeResponse, Phase, VictimFits, Replacing, Refilling, Flushes,
      arrayVars, burstVars, maintVars

(* The way just used is never the next victim, when there is another.      *)
LEMMA UseInWay ==
  ASSUME Base, req # None, NEW way \in Way, Use(way)
  PROVE  LruInWay' /\ lru' \in [Set -> {0, 1}]
<1>1. Ways = 2 => 1 - way \in Way /\ 1 - way \in {0, 1}
  BY WayFacts
<1>2. lru \in [Set -> Way] /\ lru \in [Set -> {0, 1}]
  BY DEF Base, TypeOK, LruInWay
<1> QED
  BY <1>1, <1>2 DEF Use, LruInWay

LEMMA HitFacts ==
  ASSUME Base, Hit
  PROVE  /\ req # None /\ req.addr.set \in Set /\ HitWay \in Way
         /\ line[HitWay][req.addr.set].valid
         /\ line[HitWay][req.addr.set].tag = req.addr.tag
         /\ line' = IF req.write
                    THEN [line EXCEPT ![HitWay][req.addr.set] =
                            Stored(line[HitWay][req.addr.set])]
                    ELSE line
<1>1. req # None
  BY DEF Base, Phase, Hit, Looking
<1>2. req.addr.set \in Set
  BY <1>1, Fields DEF Base
<1>3. HitWay \in HitWays
  BY WayFacts DEF Hit, HitWay, HitWays
<1>4. HitWay \in Way
  BY <1>3 DEF HitWays
<1>5. req.write => line' = [line EXCEPT ![HitWay][req.addr.set] =
                            Stored(line[HitWay][req.addr.set])]
  BY <1>2, <1>4 DEF Hit, Base, TypeOK
<1> QED
  BY <1>1, <1>2, <1>3, <1>4, <1>5 DEF Hit, HitWays

LEMMA HitBase ==
  ASSUME Base, Hit
  PROVE  Base'
<1>1. /\ req # None /\ req.addr.set \in Set /\ req.addr.word \in Beat /\ HitWay \in Way
      /\ line[HitWay][req.addr.set] \in Line /\ line[HitWay][req.addr.set].data \in LineData
  BY HitFacts, Fields DEF Base
<1>2. rsp' \in Response /\ rsp' # None /\ req' = None /\ state' = "RESPONSE"
  <2>1. line[HitWay][req.addr.set].data[req.addr.word] \in Word
    BY <1>1 DEF LineData
  <2>2. CASE req.write
    BY <2>2, Answered, Words DEF Hit
  <2>3. CASE ~req.write
    BY <2>1, <2>3, Answered DEF Hit
  <2> QED
    BY <2>2, <2>3
<1>3. line' \in [Way -> [Set -> Line]] /\ NoNewLine
  <2>1. CASE req.write
    BY <1>1, <2>1, HitFacts, StoredFacts, OneLineChanges DEF Base
  <2>2. CASE ~req.write
    BY <2>2, HitFacts, NothingNew DEF Base, TypeOK
  <2> QED
    BY <2>1, <2>2
<1>4. OneCopy'
  BY <1>3, NoNewCopy DEF Base
<1>5. LruInWay' /\ lru' \in [Set -> {0, 1}]
  BY <1>1, UseInWay DEF Hit
<1>6. TypeOK'
  BY <1>2, <1>3, <1>5 DEF Base, TypeOK, Hit, burstVars, maintVars, axiVars, State
<1> QED
  BY <1>2, <1>4, <1>5, <1>6
  DEF Base, Hit, Looking, Phase, VictimFits, Replacing, Refilling, Flushes,
      burstVars, maintVars

LEMMA MissFacts ==
  ASSUME Base, Miss
  PROVE  /\ req # None /\ req.addr.set \in Set /\ LookupVictim \in Way
         /\ victim' \in Victim /\ victim' # None
         /\ victim'.way = LookupVictim /\ victim'.set = req.addr.set
         /\ victim'.tag = line[LookupVictim][req.addr.set].tag
<1>1. req # None
  BY DEF Base, Phase, Miss, Looking
<1>2. req.addr.set \in Set
  BY <1>1, Fields DEF Base
<1>3. LookupVictim \in Way
  BY ZenonT(30), <1>2, WayFacts DEF LookupVictim, Base, LruInWay
<1>4. line[LookupVictim][req.addr.set].tag \in Tag
  BY <1>2, <1>3, Fields DEF Base
<1>5. victim' \in Victim
  BY <1>2, <1>3, <1>4 DEF Miss, Victim
<1> QED
  BY <1>1, <1>2, <1>3, <1>5, NoneAssumption DEF Miss

LEMMA MissBase ==
  ASSUME Base, Miss
  PROVE  Base'
<1>1. state' \in {"WB_AW", "REFILL_AR"}
  BY DEF Miss
<1>2. OneCopy' /\ LruInWay' /\ (HitWays = {})'
  <2>1. NoNewLine
    BY NothingNew DEF Base, Miss, arrayVars
  <2> QED
    BY <2>1, MissFacts, NoNewCopy DEF Base, Miss, arrayVars, cpuVars, LruInWay
<1>3. TypeOK'
  BY <1>1, MissFacts, WayFacts
  DEF Base, TypeOK, Miss, cpuVars, arrayVars, maintVars, axiVars, State
<1> QED
  BY <1>1, <1>2, <1>3, MissFacts
  DEF Base, Miss, Looking, Phase, VictimFits, Replacing, Refilling, Flushes,
      cpuVars, arrayVars, maintVars

(* The write burst and the refill.                                         *)
LEMMA WriteAddressBase ==
  ASSUME Base, WriteAddress
  PROVE  Base'
<1>1. OneCopy' /\ LruInWay' /\ (req # None /\ HitWays = {} => HitWays' = {})
  BY NothingNew, NoNewCopy DEF Base, WriteAddress, arrayVars, cpuVars, LruInWay
<1>2. TypeOK'
  BY DEF Base, TypeOK, WriteAddress, cpuVars, arrayVars, burstVars, maintVars, axiVars,
         State
<1> QED
  BY <1>1, <1>2
  DEF Base, WriteAddress, Phase, VictimFits, Replacing, Refilling, Flushes,
      cpuVars, arrayVars, burstVars, maintVars

(* One word of memory is written, at most.                                 *)
LEMMA StoreBeatFacts ==
  ASSUME TypeOK, victim # None, NEW stored \in BOOLEAN, StoreBeat(stored)
  PROVE  /\ memory' \in [Tag -> [Set -> LineData]]
         /\ \A t \in Tag, s \in Set, b \in Beat :
              memory'[t][s][b] =
                IF stored /\ t = victim.tag /\ s = victim.set /\ b = beat
                THEN line[victim.way][victim.set].data[b] ELSE memory[t][s][b]
<1>1. /\ victim.way \in Way /\ victim.set \in Set /\ victim.tag \in Tag /\ beat \in Beat
      /\ memory \in [Tag -> [Set -> LineData]]
      /\ line[victim.way][victim.set].data \in LineData
  BY Fields DEF TypeOK
<1> DEFINE v == line[victim.way][victim.set].data[beat]
<1>2. v \in Word
  BY <1>1 DEF LineData
<1>3. CASE stored
  <2>1. memory' = [memory EXCEPT ![victim.tag][victim.set][beat] = v]
    BY <1>3 DEF StoreBeat
  <2> HIDE DEF v
  <2>2. memory' \in [Tag -> [Set -> LineData]]
    BY <1>1, <1>2, <2>1 DEF LineData
  <2>3. \A t \in Tag, s \in Set, b \in Beat :
          memory'[t][s][b] = IF t = victim.tag /\ s = victim.set /\ b = beat
                             THEN v ELSE memory[t][s][b]
    BY <1>1, <1>2, <2>1 DEF LineData
  <2> QED
    BY <1>3, <2>2, <2>3 DEF v
<1>4. CASE ~stored
  BY <1>1, <1>4 DEF StoreBeat
<1> QED
  BY <1>3, <1>4

LEMMA WriteBeatBase ==
  ASSUME Base, NEW stored \in BOOLEAN, WriteBeat(stored)
  PROVE  Base'
<1>1. OneCopy' /\ LruInWay' /\ (req # None /\ HitWays = {} => HitWays' = {})
  BY NothingNew, NoNewCopy DEF Base, WriteBeat, arrayVars, cpuVars, LruInWay
<1>2. victim # None
  BY DEF Base, VictimFits, WriteBeat, Replacing, Flushes
<1>3. beat' \in Beat
  BY BeatStep, WayFacts DEF Base, WriteBeat
<1>4. state' \in State
  BY DEF Base, TypeOK, WriteBeat, State
<1>5. memory' \in [Tag -> [Set -> LineData]]
  BY <1>2, StoreBeatFacts DEF Base, WriteBeat
<1>6. wb_failed' \in BOOLEAN
  BY DEF WriteBeat, StoreBeat
<1>7. TypeOK'
  BY <1>3, <1>4, <1>5, <1>6 DEF Base, TypeOK, WriteBeat, cpuVars, arrayVars, maintVars
<1> QED
  BY <1>1, <1>7
  DEF Base, WriteBeat, Phase, VictimFits, Replacing, Refilling, Flushes,
      cpuVars, arrayVars, maintVars

LEMMA EndBurstType ==
  ASSUME EndBurst
  PROVE  victim' = None /\ beat' \in Beat /\ refill_buf' \in LineData
         /\ refill_error' \in BOOLEAN
BY Words, WayFacts DEF EndBurst

LEMMA WriteResponseBase ==
  ASSUME Base, NEW ok \in BOOLEAN, WriteResponse(ok)
  PROVE  Base'
<1>1. req # None /\ victim # None /\ HitWays = {}
  BY DEF Base, VictimFits, Phase, WriteResponse, Replacing
<1>2. line' \in [Way -> [Set -> Line]] /\ NoNewLine
  <2>1. CASE ok
    <3> DEFINE l == line[victim.way][victim.set]
               c == [l EXCEPT !.dirty = FALSE]
    <3>1. /\ Cleaned = [line EXCEPT ![victim.way][victim.set] = c]
          /\ c \in Line /\ c.valid = l.valid /\ c.tag = l.tag
      BY <1>1, CleanedFacts DEF Base
    <3>2. victim.way \in Way /\ victim.set \in Set /\ line' = Cleaned
      BY <1>1, <2>1, Fields DEF Base, WriteResponse
    <3> HIDE DEF c
    <3>3. line' = [line EXCEPT ![victim.way][victim.set] = c]
      BY <3>1, <3>2
    <3> QED
      BY ZenonT(30), <3>1, <3>2, <3>3, OneLineChanges DEF Base
  <2>2. CASE ~ok
    BY <2>2, NothingNew DEF Base, TypeOK, WriteResponse
  <2> QED
    BY <2>1, <2>2
<1>3. OneCopy' /\ LruInWay' /\ (req' = req => HitWays' = {})
  BY <1>1, <1>2, NoNewCopy DEF Base, WriteResponse, LruInWay
<1>4. CASE ok
  <2>1. TypeOK'
    BY <1>2, <1>4, WayFacts
    DEF Base, TypeOK, WriteResponse, cpuVars, maintVars, State
  <2> QED
    BY <1>3, <1>4, <2>1
    DEF Base, WriteResponse, Phase, VictimFits, Replacing, Refilling, Flushes,
        cpuVars, maintVars
<1>5. CASE ~ok
  <2>1. rsp' \in Response /\ rsp' # None /\ req' = None /\ state' = "RESPONSE"
    BY <1>5, Answered, Words DEF WriteResponse
  <2>2. TypeOK'
    BY <1>2, <1>5, <2>1, EndBurstType
    DEF Base, TypeOK, WriteResponse, maintVars, State
  <2> QED
    BY <1>3, <1>5, <2>1, <2>2
    DEF Base, WriteResponse, Phase, VictimFits, Replacing, Refilling, Flushes, maintVars
<1> QED
  BY <1>4, <1>5

LEMMA RefillAddressBase ==
  ASSUME Base, RefillAddress
  PROVE  Base'
<1>1. OneCopy' /\ LruInWay' /\ (req # None /\ HitWays = {} => HitWays' = {})
  BY NothingNew, NoNewCopy DEF Base, RefillAddress, arrayVars, cpuVars, LruInWay
<1>2. TypeOK'
  BY DEF Base, TypeOK, RefillAddress, cpuVars, arrayVars, burstVars, maintVars, axiVars,
         State
<1> QED
  BY <1>1, <1>2
  DEF Base, RefillAddress, Phase, VictimFits, Replacing, Refilling, Flushes,
      cpuVars, arrayVars, burstVars, maintVars

LEMMA RefillBeatBase ==
  ASSUME Base, NEW data \in Word, NEW error \in BOOLEAN, RefillBeat(data, error)
  PROVE  Base'
<1>1. OneCopy' /\ LruInWay' /\ (req # None /\ HitWays = {} => HitWays' = {})
  BY NothingNew, NoNewCopy DEF Base, RefillBeat, arrayVars, cpuVars, LruInWay
<1>2. beat' \in Beat
  BY BeatStep DEF Base, TypeOK, RefillBeat, LastBeat
<1>3. refill_buf' \in LineData /\ refill_error' \in BOOLEAN
  BY DEF Base, TypeOK, RefillBeat, RefillFailed, LineData
<1>4. state' \in {"REFILL_R", "REFILL_FINISH"}
  BY DEF RefillBeat
<1>5. TypeOK'
  BY <1>2, <1>3, <1>4
  DEF Base, TypeOK, RefillBeat, cpuVars, arrayVars, maintVars, axiVars, State
<1> QED
  BY <1>1, <1>4, <1>5
  DEF Base, RefillBeat, Phase, VictimFits, Replacing, Refilling, Flushes,
      cpuVars, arrayVars, maintVars

(* The line a refill installs.                                             *)
NewLine == [valid |-> TRUE, dirty |-> FALSE, tag |-> req.addr.tag, data |-> refill_buf]

LEMMA NewLineFacts ==
  ASSUME Base, RefillFinish
  PROVE  /\ req # None /\ victim # None /\ HitWays = {}
         /\ victim.way \in Way /\ victim.set \in Set /\ victim.set = req.addr.set
         /\ req.addr.tag \in Tag
         /\ NewLine \in Line /\ NewLine.valid /\ ~NewLine.dirty
         /\ NewLine.tag = req.addr.tag /\ NewLine.data = refill_buf
<1>1. req # None /\ victim # None /\ HitWays = {} /\ victim.set = req.addr.set
  BY DEF Base, VictimFits, Phase, RefillFinish, Refilling
<1>2. /\ victim.way \in Way /\ victim.set \in Set /\ req.addr.tag \in Tag
      /\ refill_buf \in LineData
  BY <1>1, Fields DEF Base, TypeOK
<1>3. NewLine \in Line /\ NewLine.valid = TRUE /\ NewLine.dirty = FALSE
      /\ NewLine.tag = req.addr.tag /\ NewLine.data = refill_buf
  BY <1>2 DEF NewLine, Line
<1> QED
  BY <1>1, <1>2, <1>3

(* The line that was asked for was in no way, so that the refill makes it  *)
(* the only copy.                                                          *)
LEMMA RefillFinishBase ==
  ASSUME Base, RefillFinish
  PROVE  Base'
<1> DEFINE x == victim.way
           y == victim.set
<1>1. CASE refill_error
  <2>1. rsp' \in Response /\ rsp' # None /\ req' = None /\ state' = "RESPONSE"
    BY <1>1, Answered, Words DEF RefillFinish
  <2>2. OneCopy' /\ LruInWay'
    BY <1>1, NothingNew, NoNewCopy DEF Base, RefillFinish, LruInWay
  <2>3. TypeOK'
    BY <1>1, <2>1, EndBurstType
    DEF Base, TypeOK, RefillFinish, maintVars, axiVars, State
  <2> QED
    BY <1>1, <2>1, <2>2, <2>3
    DEF Base, RefillFinish, Phase, VictimFits, Replacing, Refilling, Flushes, maintVars
<1>2. CASE ~refill_error
  <2>1. /\ x \in Way /\ y \in Set /\ y = req.addr.set /\ NewLine \in Line
        /\ NewLine.tag = req.addr.tag /\ HitWays = {} /\ req # None
    BY NewLineFacts
  <2>2. line' = [line EXCEPT ![x][y] = NewLine]
    BY <1>2 DEF RefillFinish, NewLine
  <2>3. /\ line' \in [Way -> [Set -> Line]] /\ line'[x][y] = NewLine
        /\ \A v \in Way, r \in Set : v # x \/ r # y => line'[v][r] = line[v][r]
    BY <2>1, <2>2, LinesType DEF Base, TypeOK
  <2>4. OneCopy'
    <3> SUFFICES ASSUME NEW v \in Way, NEW w \in Way, NEW t \in Tag, NEW s \in Set,
                        Present(v, t, s)', Present(w, t, s)'
                 PROVE  v = w
      BY DEF OneCopy
    <3>1. CASE s # y \/ (v # x /\ w # x)
      BY <2>3, <3>1 DEF Base, OneCopy, Present
    <3>2. CASE s = y /\ v = x /\ w # x
      <4>1. t = req.addr.tag /\ line[w][s].valid /\ line[w][s].tag = t
        BY <2>1, <2>3, <3>2 DEF Present
      <4> QED
        BY <2>1, <3>2, <4>1 DEF HitWays
    <3>3. CASE s = y /\ w = x /\ v # x
      <4>1. t = req.addr.tag /\ line[v][s].valid /\ line[v][s].tag = t
        BY <2>1, <2>3, <3>3 DEF Present
      <4> QED
        BY <2>1, <3>3, <4>1 DEF HitWays
    <3> QED
      BY <3>1, <3>2, <3>3
  <2>5. LruInWay' /\ lru' \in [Set -> {0, 1}]
    BY <1>2, <2>1, UseInWay DEF RefillFinish
  <2>6. TypeOK'
    BY <1>2, <2>3, <2>5, EndBurstType
    DEF Base, TypeOK, RefillFinish, maintVars, axiVars, State
  <2> QED
    BY <1>2, <2>4, <2>5, <2>6
    DEF Base, RefillFinish, Phase, VictimFits, Replacing, Refilling, Flushes, maintVars
<1> QED
  BY <1>1, <1>2

(* The maintenance sequencer and the self-test.                            *)
LEMMA ScanFacts ==
  ASSUME Base, state = "MAINT_SCAN"
  PROVE  /\ maint # None /\ maint \in Maintenance
         /\ maint.way \in Way /\ maint.set \in Set /\ maint.error \in BOOLEAN
         /\ maint.cmd \in Command /\ maint.phase \in 0..4 /\ maint.word \in Beat
         /\ req = None /\ rsp = None /\ Scanned = line[maint.way][maint.set]
         /\ Scanned \in Line /\ Scanned.tag \in Tag
<1>1. maint # None /\ req = None /\ rsp = None
  BY DEF Base, Phase, Replacing, Refilling
<1> QED
  BY <1>1, Fields DEF Base, Scanned

LEMMA ScanWritebackBase ==
  ASSUME Base, ScanWriteback
  PROVE  Base'
<1>1. maint # None /\ maint.way \in Way /\ maint.set \in Set /\ Scanned.tag \in Tag
      /\ maint.cmd \in Command /\ req = None /\ rsp = None
  BY ScanFacts DEF ScanWriteback
<1>2. victim' \in Victim /\ victim' # None
      /\ victim'.way = maint.way /\ victim'.set = maint.set
  BY <1>1, NoneAssumption DEF ScanWriteback, Victim
<1>3. OneCopy' /\ LruInWay'
  BY NothingNew, NoNewCopy DEF Base, ScanWriteback, arrayVars, LruInWay
<1>4. maint.cmd \in {0, 2}
  <2>1. maint.cmd \in 0..3
    BY <1>1, CommandAssumption
  <2>2. maint.cmd # 1 /\ maint.cmd # 3
    BY DEF ScanWriteback, MustFlush
  <2> QED
    BY <2>1, <2>2
<1>5. TypeOK'
  BY <1>2, WayFacts
  DEF Base, TypeOK, ScanWriteback, cpuVars, arrayVars, maintVars, axiVars, State
<1> QED
  BY <1>1, <1>2, <1>3, <1>4, <1>5
  DEF Base, ScanWriteback, Phase, VictimFits, Replacing, Refilling, Flushes,
      cpuVars, maintVars

(* Leaving a line, with the registers of the CPU and the burst at rest.    *)
LEMMA NextLineBase ==
  ASSUME Base, maint # None, NEW error \in BOOLEAN, NextLine(error),
         line' \in [Way -> [Set -> Line]], NoNewLine, UNCHANGED <<cpuVars, lru>>,
         victim' \in Victim \cup {None}, beat' \in Beat, refill_buf' \in LineData,
         refill_error' \in BOOLEAN, memory' = memory, wb_failed' \in BOOLEAN
  PROVE  Base'
<1>1. /\ maint_error' \in BOOLEAN
      /\ \/ maint' = None /\ state' = "IDLE"
         \/ state' = "MAINT_SCAN" /\ maint' \in Maintenance
  BY NextLineFacts DEF Base
<1>2. maint' \in Maintenance => maint' # None
  BY NoneAssumption
<1>3. OneCopy' /\ LruInWay'
  BY NoNewCopy DEF Base, LruInWay
<1>4. TypeOK'
  BY <1>1 DEF Base, TypeOK, cpuVars, State
<1>5. req = None /\ rsp = None
  BY DEF Base, Phase, Replacing, Refilling, Flushes
<1> QED
  BY <1>1, <1>2, <1>3, <1>4, <1>5
  DEF Base, Phase, VictimFits, Replacing, Refilling, Flushes, cpuVars

LEMMA ScanNextLine ==
  ASSUME Base, ScanNext
  PROVE  LET l == [Scanned EXCEPT !.valid = FALSE]
         IN  /\ line' = IF maint.cmd = 0 THEN line
                        ELSE [line EXCEPT ![maint.way][maint.set] = l]
             /\ l \in Line /\ l.valid = FALSE /\ l.dirty = Scanned.dirty
<1>1. maint.way \in Way /\ maint.set \in Set /\ Scanned \in Line
      /\ Scanned = line[maint.way][maint.set]
  BY ScanFacts DEF ScanNext
<1>2. maint.cmd # 0 =>
        line' = [line EXCEPT ![maint.way][maint.set] = [Scanned EXCEPT !.valid = FALSE]]
  BY <1>1 DEF ScanNext, Base, TypeOK
<1> QED
  BY <1>1, <1>2 DEF ScanNext, Line

LEMMA ScanNextBase ==
  ASSUME Base, ScanNext
  PROVE  Base'
<1> DEFINE l == [Scanned EXCEPT !.valid = FALSE]
<1>1. /\ line' = IF maint.cmd = 0 THEN line
                 ELSE [line EXCEPT ![maint.way][maint.set] = l]
      /\ l \in Line /\ l.valid = FALSE
  BY ScanNextLine
<1>2. maint # None /\ maint.way \in Way /\ maint.set \in Set /\ maint.error \in BOOLEAN
  BY ScanFacts DEF ScanNext
<1> HIDE DEF l
<1>3. line' \in [Way -> [Set -> Line]] /\ NoNewLine
  <2>1. CASE maint.cmd = 0
    BY <1>1, <2>1, NothingNew DEF Base, TypeOK
  <2>2. CASE maint.cmd # 0
    BY <1>1, <1>2, <2>2, OneLineChanges DEF Base
  <2> QED
    BY <2>1, <2>2
<1>4. NextLine(maint.error)
  BY DEF ScanNext
<1>5. UNCHANGED <<cpuVars, lru, burstVars, axiVars>>
  BY DEF ScanNext
<1>6. UNCHANGED <<cpuVars, lru, victim, beat, refill_buf, refill_error, memory, wb_failed>>
  BY <1>5 DEF burstVars, axiVars
<1>7. /\ victim' \in Victim \cup {None} /\ beat' \in Beat /\ refill_buf' \in LineData
      /\ refill_error' \in BOOLEAN /\ wb_failed' \in BOOLEAN
  BY <1>6 DEF Base, TypeOK
<1> QED
  BY <1>2, <1>3, <1>4, <1>6, <1>7, NextLineBase

LEMMA MaintenanceLine ==
  ASSUME Base, NEW ok \in BOOLEAN, MaintenanceWriteResponse(ok)
  PROVE  LET l == line[victim.way][victim.set]
             f == FlushedLine(ok)
         IN  /\ maint # None /\ victim # None
             /\ victim.way \in Way /\ victim.set \in Set
             /\ victim.way = maint.way /\ victim.set = maint.set
             /\ maint.cmd \in {0, 2} /\ MaintenanceFailed(ok) \in BOOLEAN
             /\ line' = [line EXCEPT ![victim.way][victim.set] = f]
             /\ f \in Line /\ f.tag = l.tag /\ f.data = l.data
             /\ f.valid = (l.valid /\ ~(ok /\ maint.cmd = 2))
             /\ f.dirty = (l.dirty /\ ~ok)
<1>1. /\ maint # None /\ victim # None /\ maint.cmd \in {0, 2}
      /\ victim.way = maint.way /\ victim.set = maint.set
  BY DEF Base, Phase, VictimFits, MaintenanceWriteResponse, Flushes
<1>2. victim.way \in Way /\ victim.set \in Set /\ maint.error \in BOOLEAN
  BY <1>1, Fields DEF Base
<1>3. MaintenanceFailed(ok) \in BOOLEAN
  BY <1>2 DEF MaintenanceFailed
<1>4. line' = Flushed(ok)
  BY DEF MaintenanceWriteResponse
<1> QED
  BY <1>1, <1>2, <1>3, <1>4, FlushedFacts DEF Base

LEMMA MaintenanceBase ==
  ASSUME Base, NEW ok \in BOOLEAN, MaintenanceWriteResponse(ok)
  PROVE  Base'
<1> DEFINE f == FlushedLine(ok)
<1>1. /\ maint # None /\ victim.way \in Way /\ victim.set \in Set
      /\ MaintenanceFailed(ok) \in BOOLEAN
      /\ line' = [line EXCEPT ![victim.way][victim.set] = f]
      /\ f \in Line /\ f.tag = line[victim.way][victim.set].tag
      /\ f.valid => line[victim.way][victim.set].valid
  BY MaintenanceLine
<1> HIDE DEF f
<1>2. line' \in [Way -> [Set -> Line]] /\ NoNewLine
  BY <1>1, OneLineChanges DEF Base
<1>3. NextLine(MaintenanceFailed(ok)) /\ EndBurst /\ wb_failed' = FALSE
      /\ UNCHANGED <<cpuVars, lru, memory>>
  BY DEF MaintenanceWriteResponse
<1>4. UNCHANGED <<cpuVars, lru>> /\ memory' = memory /\ wb_failed' \in BOOLEAN
  BY <1>3
<1>5. /\ victim' \in Victim \cup {None} /\ beat' \in Beat /\ refill_buf' \in LineData
      /\ refill_error' \in BOOLEAN
  BY <1>3, EndBurstType
<1> QED
  BY <1>1, <1>2, <1>3, <1>4, <1>5, NextLineBase

LEMMA BistStepLine ==
  ASSUME Base, Bist
  PROVE  /\ line' \in [Way -> [Set -> Line]] /\ NoNewLine
         /\ line'[maint.way][maint.set] = BistLine
         /\ \A w \in Way, s \in Set :
              w # maint.way \/ s # maint.set => line'[w][s] = line[w][s]
<1>1. maint # None /\ maint.way \in Way /\ maint.set \in Set
      /\ Scanned = line[maint.way][maint.set]
  BY ScanFacts DEF Bist
<1>2. BistLine \in Line /\ (BistLine.valid => Scanned.valid /\ BistLine.tag = Scanned.tag)
  BY <1>1, BistLineFacts DEF Base
<1>3. line' = [line EXCEPT ![maint.way][maint.set] = BistLine]
  BY DEF Bist
<1>4. line' \in [Way -> [Set -> Line]] /\ NoNewLine
  BY <1>1, <1>2, <1>3, OneLineChanges DEF Base
<1> QED
  BY <1>1, <1>2, <1>3, <1>4, LinesType DEF Base, TypeOK

LEMMA BistBase ==
  ASSUME Base, Bist
  PROVE  Base'
<1>1. maint # None /\ req = None /\ rsp = None
  BY ScanFacts DEF Bist
<1>2. /\ maint_error' \in BOOLEAN
      /\ \/ maint' = None /\ state' = "IDLE"
         \/ state' = "MAINT_SCAN" /\ maint' \in Maintenance
  BY <1>1, BistFacts DEF Base, Bist
<1>3. maint' \in Maintenance => maint' # None
  BY NoneAssumption
<1>4. OneCopy' /\ LruInWay'
  BY BistStepLine, NoNewCopy DEF Base, Bist, LruInWay
<1>5. TypeOK'
  BY <1>2, BistStepLine DEF Base, TypeOK, Bist, cpuVars, burstVars, axiVars, State
<1> QED
  BY <1>1, <1>2, <1>3, <1>4, <1>5
  DEF Base, Bist, Phase, VictimFits, Replacing, Refilling, Flushes, cpuVars

LEMMA NextBase ==
  ASSUME Base, [Next]_vars
  PROVE  Base'
<1>1. CASE UNCHANGED vars
  <2>1. UNCHANGED <<state, req, rsp, line, lru, victim, beat, refill_buf, refill_error,
                    maint, maint_error, memory, wb_failed>>
    BY <1>1 DEF vars, cpuVars, arrayVars, burstVars, maintVars, axiVars
  <2>2. TypeOK'
    BY <2>1 DEF Base, TypeOK
  <2>3. OneCopy' /\ (req # None /\ HitWays = {} => HitWays' = {})
    BY <2>1, NothingNew, NoNewCopy DEF Base
  <2> QED
    BY <2>1, <2>2, <2>3
    DEF Base, Phase, VictimFits, LruInWay, Replacing, Refilling, Flushes
<1> QED
  BY <1>1, AcceptBase, ResetBase, MisalignedBase, HitBase, MissBase, WriteAddressBase,
     WriteBeatBase, WriteResponseBase, MaintenanceBase, RefillAddressBase,
     RefillBeatBase, RefillFinishBase, TakeBase, ScanWritebackBase, ScanNextBase,
     BistBase
  DEF Next, Step, Serve

(* What every reachable state satisfies, whatever commands are in use.     *)
THEOREM Control == Spec => []Base
<1> QED
  BY InitBase, NextBase, PTL DEF Spec

(* Every register keeps its type through every operation, burst, command   *)
(* and reset: in particular the scan stays inside the array.               *)
THEOREM TypeCorrect == Spec => []TypeOK
<1>1. Base => TypeOK
  BY DEF Base
<1> QED
  BY <1>1, Control, PTL

(* No line is ever in both ways of a set, whatever bursts fail and with    *)
(* any commands: what a miss found absent is still absent at its refill.   *)
THEOREM NoDoubledLine == Spec => []OneCopy
<1>1. Base => OneCopy
  BY DEF Base
<1> QED
  BY <1>1, Control, PTL

-----------------------------------------------------------------------------
(* The data.  INVALIDATE leaves dirty bits behind, so a design that also   *)
(* flushes must do without it (or the reverse).                            *)
SafeCommands == 1 \notin Command \/ Command \subseteq {1, 3}

DirtyIsValid == 1 \notin Command =>
                  \A w \in Way, s \in Set : line[w][s].dirty => line[w][s].valid

(* What a command has done to the lines it has passed.                     *)
ScanProgress ==
  maint # None => \A w \in Way, s \in Set : Passed(maint, w, s) =>
    /\ maint.cmd = 1 => ~line[w][s].valid
    /\ maint.cmd \in {0, 2} /\ ~maint.error => ~line[w][s].dirty
    /\ maint.cmd = 3 /\ maint.phase = 4 => ~line[w][s].valid /\ ~line[w][s].dirty

(* What a write burst that was not cut short has put into memory.          *)
WriteProgress ==
  /\ wb_failed => state \in {"WB_W", "WB_B", "MAINT_WB_W", "MAINT_WB_B"}
  /\ state \in {"WB_AW", "MAINT_WB_AW"} => beat = 0
  /\ state \in {"WB_W", "MAINT_WB_W"} /\ ~wb_failed =>
       \A b \in Beat : b < beat => memory[victim.tag][victim.set][b] =
                                   line[victim.way][victim.set].data[b]
  /\ state \in {"WB_B", "MAINT_WB_B"} /\ ~wb_failed =>
       memory[victim.tag][victim.set] = line[victim.way][victim.set].data

(* What a refill without an error has taken from memory; the line it will  *)
(* replace holds nothing that memory lacks.                                *)
RefillProgress ==
  /\ state \in Refilling => ~NeedsWriteback(line[victim.way][victim.set])
  /\ state = "REFILL_AR" => beat = 0
  /\ state = "REFILL_R" /\ ~refill_error =>
       \A b \in Beat : b < beat =>
         refill_buf[b] = memory[req.addr.tag][req.addr.set][b]
  /\ state = "REFILL_FINISH" /\ ~refill_error =>
       refill_buf = memory[req.addr.tag][req.addr.set]

DataInv == /\ DirtyIsValid /\ ScanProgress /\ WriteProgress /\ RefillProgress
           /\ CleanMatchesMemory /\ WritebackCarriesLine

(* With no burst open only the first, second and fifth conjunct matter.    *)
Quiet == {"IDLE", "LOOKUP", "REPLAY", "RESPONSE", "MAINT_SCAN"}

LEMMA QuietData ==
  ASSUME DirtyIsValid, ScanProgress, CleanMatchesMemory, state \in Quiet, ~wb_failed
  PROVE  DataInv
BY DEF DataInv, WriteProgress, RefillProgress, Refilling, WritebackCarriesLine, Quiet

LEMMA InitData == Init => DataInv
<1> SUFFICES ASSUME Init PROVE DataInv
  OBVIOUS
<1>1. \A w \in Way, s \in Set : ~line[w][s].valid /\ ~line[w][s].dirty
  BY DEF Init, PowerUpLine
<1> QED
  BY <1>1, QuietData
  DEF Init, Quiet, DirtyIsValid, ScanProgress, CleanMatchesMemory

LEMMA ResetData ==
  ASSUME Base, Reset
  PROVE  DataInv'
<1>1. \A w \in Way, s \in Set : ~line'[w][s].valid /\ ~line'[w][s].dirty
  BY ResetLines DEF Base
<1> QED
  BY <1>1
  DEF Reset, DataInv, DirtyIsValid, ScanProgress, CleanMatchesMemory, WriteProgress,
      RefillProgress, Refilling, WritebackCarriesLine

(* A step that touches neither the lines nor memory and stays outside the  *)
(* self-test.                                                              *)
LEMMA SameLines ==
  ASSUME UNCHANGED <<line, memory>>, DirtyIsValid, CleanMatchesMemory,
         SelfTesting => SelfTesting'
  PROVE  DirtyIsValid' /\ CleanMatchesMemory'
BY DEF DirtyIsValid, CleanMatchesMemory

LEMMA SameScan ==
  ASSUME UNCHANGED <<line, maint>>, ScanProgress
  PROVE  ScanProgress'
BY DEF ScanProgress

LEMMA AcceptData ==
  ASSUME Base, DataInv, Accept
  PROVE  DataInv'
<1>1. UNCHANGED <<line, memory, wb_failed>> /\ maint = None /\ ~wb_failed
  BY DEF Accept, AcceptMaintenance, AcceptRequest, arrayVars, axiVars, Base, Phase,
         Flushes, DataInv, WriteProgress
<1>2. DirtyIsValid' /\ CleanMatchesMemory'
  BY <1>1, SameLines DEF DataInv, SelfTesting
<1>3. ASSUME NEW cmd \in Command, AcceptMaintenance(cmd) PROVE DataInv'
  <2>1. maint'.set = 0 /\ maint'.way = 0 /\ state' = "MAINT_SCAN"
    BY <1>3 DEF AcceptMaintenance
  <2>2. \A w \in Way, s \in Set : ~Passed(maint', w, s)
    BY <2>1, WayFacts DEF Passed
  <2>3. ScanProgress'
    BY <2>2 DEF ScanProgress
  <2> QED
    BY <1>1, <1>2, <2>1, <2>3
    DEF DataInv, WriteProgress, RefillProgress, Refilling, WritebackCarriesLine
<1>4. ASSUME NEW r \in Request, AcceptRequest(r) PROVE DataInv'
  <2>1. maint' = None /\ state' = "LOOKUP"
    BY <1>1, <1>4 DEF AcceptRequest, maintVars
  <2> QED
    BY <1>1, <1>2, <2>1
    DEF DataInv, ScanProgress, WriteProgress, RefillProgress, Refilling, WritebackCarriesLine
<1> QED
  BY <1>3, <1>4 DEF Accept

(* Answers that touch no line: a misaligned request, a response taken.     *)
LEMMA AnswerData ==
  ASSUME Base, DataInv, Misaligned \/ TakeResponse
  PROVE  DataInv'
<1>1. /\ UNCHANGED <<line, memory, maint>> /\ ~wb_failed'
      /\ state' \in {"IDLE", "RESPONSE"}
  BY DEF Misaligned, Looking, TakeResponse, Respond, arrayVars, axiVars, maintVars,
         DataInv, WriteProgress
<1>2. DirtyIsValid' /\ CleanMatchesMemory' /\ ScanProgress'
  BY <1>1, SameLines, SameScan DEF DataInv, SelfTesting
<1> QED
  BY <1>1, <1>2 DEF DataInv, WriteProgress, RefillProgress, Refilling, WritebackCarriesLine

(* A store makes its line dirty, so the line need not equal memory.        *)
LEMMA HitData ==
  ASSUME Base, DataInv, Hit
  PROVE  DataInv'
<1> DEFINE x == HitWay
           y == req.addr.set
           n == Stored(line[x][y])
<1>1. /\ req # None /\ y \in Set /\ x \in Way /\ line[x][y].valid
      /\ line' = IF req.write THEN [line EXCEPT ![x][y] = n] ELSE line
  BY HitFacts
<1>2. n \in Line /\ n.valid = line[x][y].valid /\ n.tag = line[x][y].tag /\ n.dirty
  BY <1>1, StoredFacts, Fields DEF Base
<1>3. maint = None /\ maint' = None /\ memory' = memory /\ ~wb_failed'
      /\ state' = "RESPONSE"
  BY DEF Hit, Looking, Respond, Base, Phase, Flushes, maintVars, axiVars, DataInv,
         WriteProgress
<1> HIDE DEF x, y, n
<1>4. \A w \in Way, s \in Set :
        \/ line'[w][s] = line[w][s]
        \/ line'[w][s].valid /\ line'[w][s].dirty
  <2>1. CASE req.write
    <3>1. line \in [Way -> [Set -> Line]] /\ line' = [line EXCEPT ![x][y] = n]
      BY <1>1, <2>1 DEF Base, TypeOK
    <3>2. /\ line'[x][y] = n
          /\ \A v \in Way, r \in Set : v # x \/ r # y => line'[v][r] = line[v][r]
      BY <1>1, <1>2, <3>1, LinesType
    <3> QED
      BY <1>1, <1>2, <3>2
  <2>2. CASE ~req.write
    BY <1>1, <2>2
  <2> QED
    BY <2>1, <2>2
<1>5. DirtyIsValid' /\ CleanMatchesMemory'
  BY <1>3, <1>4 DEF DirtyIsValid, CleanMatchesMemory, DataInv, SelfTesting
<1> QED
  BY <1>3, <1>5
  DEF DataInv, ScanProgress, WriteProgress, RefillProgress, Refilling, WritebackCarriesLine

LEMMA MissData ==
  ASSUME Base, DataInv, Miss
  PROVE  DataInv'
<1>1. /\ UNCHANGED <<line, memory, maint, wb_failed>> /\ beat' = 0 /\ ~wb_failed
  BY DEF Miss, Looking, arrayVars, maintVars, axiVars, DataInv, WriteProgress
<1>2. DirtyIsValid' /\ CleanMatchesMemory' /\ ScanProgress'
  BY <1>1, SameLines, SameScan DEF DataInv, SelfTesting
<1>3. \/ state' = "REFILL_AR"
      \/ /\ state' = "WB_AW"
         /\ line[LookupVictim][req.addr.set].valid /\ line[LookupVictim][req.addr.set].dirty
  BY DEF Miss, NeedsWriteback
<1>4. WritebackCarriesLine'
  BY <1>1, <1>3, MissFacts DEF WritebackCarriesLine
<1>5. state' = "REFILL_AR" => ~NeedsWriteback(line'[victim'.way][victim'.set])
  BY <1>1, MissFacts DEF Miss
<1>6. WriteProgress' /\ RefillProgress'
  BY <1>1, <1>3, <1>5 DEF WriteProgress, RefillProgress, Refilling
<1> QED
  BY <1>2, <1>4, <1>6 DEF DataInv

LEMMA AddressData ==
  ASSUME Base, DataInv, WriteAddress \/ RefillAddress
  PROVE  DataInv'
<1>1. /\ UNCHANGED <<line, memory, maint, wb_failed, victim, beat>> /\ ~wb_failed /\ beat = 0
      /\ \/ state = "REFILL_AR" /\ state' = "REFILL_R"
         \/ state = "WB_AW" /\ state' = "WB_W"
         \/ state = "MAINT_WB_AW" /\ state' = "MAINT_WB_W"
  BY DEF WriteAddress, RefillAddress, arrayVars, burstVars, maintVars, axiVars, DataInv,
         WriteProgress, RefillProgress, Refilling
<1>2. DirtyIsValid' /\ CleanMatchesMemory' /\ ScanProgress'
  BY <1>1, SameLines, SameScan DEF DataInv, SelfTesting
<1>3. WritebackCarriesLine'
  BY <1>1 DEF WritebackCarriesLine, DataInv
<1>4. \A b \in Beat : ~(b < 0)
  BY WayFacts
<1> QED
  BY <1>1, <1>2, <1>3, <1>4 DEF DataInv, WriteProgress, RefillProgress, Refilling

(* A beat is written for a dirty line, and the clean lines have other tags *)
(* or sets.                                                                *)
LEMMA WriteBeatData ==
  ASSUME Base, DataInv, NEW stored \in BOOLEAN, WriteBeat(stored)
  PROVE  DataInv'
<1> DEFINE t == victim.tag
           y == victim.set
           l == line[victim.way][y]
<1>1. victim # None /\ state \in {"WB_W", "MAINT_WB_W"}
  BY DEF Base, VictimFits, WriteBeat, Replacing, Flushes
<1>2. /\ victim.way \in Way /\ y \in Set /\ t \in Tag /\ l.data \in LineData /\ beat \in Beat
      /\ \A u \in Tag, s \in Set : memory[u][s] \in LineData
  BY <1>1, Fields DEF Base, TypeOK
<1>3. UNCHANGED <<line, maint, victim, req>>
  BY DEF WriteBeat, arrayVars, maintVars, cpuVars
<1>4. l.valid /\ l.dirty /\ l.tag = t
  BY <1>1 DEF DataInv, WritebackCarriesLine
<1>5. /\ memory' \in [Tag -> [Set -> LineData]]
      /\ \A u \in Tag, s \in Set, b \in Beat :
           memory'[u][s][b] = IF stored /\ u = t /\ s = y /\ b = beat
                              THEN l.data[b] ELSE memory[u][s][b]
  BY <1>1, StoreBeatFacts DEF Base, WriteBeat
<1> HIDE DEF l, t, y
<1>6. \A u \in Tag, s \in Set : u # t \/ s # y => memory'[u][s] = memory[u][s]
  <2> TAKE u \in Tag, s \in Set
  <2> HAVE u # t \/ s # y
  <2>1. memory'[u][s] \in LineData /\ memory[u][s] \in LineData
    BY <1>2, <1>5
  <2>2. \A b \in Beat : memory'[u][s][b] = memory[u][s][b]
    BY <1>5
  <2> QED
    BY <2>1, <2>2 DEF LineData
<1>7. CleanMatchesMemory'
  <2> SUFFICES ASSUME NEW w \in Way, NEW s \in Set,
                      line[w][s].valid, ~line[w][s].dirty, ~SelfTesting
               PROVE  line[w][s].data = memory'[line[w][s].tag][s]
    BY <1>3 DEF CleanMatchesMemory, SelfTesting
  <2>1. line[w][s].data = memory[line[w][s].tag][s] /\ line[w][s].tag \in Tag
    BY Fields DEF DataInv, CleanMatchesMemory, Base
  <2>2. line[w][s].tag # t \/ s # y
    BY <1>2, <1>4 DEF Base, OneCopy, Present, l, y
  <2> QED
    BY <1>6, <2>1, <2>2
<1>8. DirtyIsValid' /\ ScanProgress'
  BY <1>3, SameScan DEF DataInv, DirtyIsValid
<1>9. state' \in {"WB_W", "MAINT_WB_W", "WB_B", "MAINT_WB_B"}
  BY DEF WriteBeat
<1>10. WritebackCarriesLine'
  BY <1>1, <1>3, <1>9 DEF DataInv, WritebackCarriesLine
<1>11. ~wb_failed' => stored /\ ~wb_failed
  BY DEF WriteBeat, StoreBeat
<1>12. ~wb_failed' => \A b \in Beat : b < beat \/ b = beat => memory'[t][y][b] = l.data[b]
  <2> SUFFICES ASSUME ~wb_failed', NEW b \in Beat, b < beat \/ b = beat
               PROVE  memory'[t][y][b] = l.data[b]
    OBVIOUS
  <2>1. \A c \in Beat : c < beat => memory[t][y][c] = l.data[c]
    BY <1>1, <1>11 DEF DataInv, WriteProgress, t, y, l
  <2> QED
    BY <1>2, <1>5, <1>11, <2>1
<1>13. CASE LastBeat
  <2>1. state' \in {"WB_B", "MAINT_WB_B"}
    BY <1>13 DEF WriteBeat
  <2>2. \A b \in Beat : b < beat \/ b = beat
    BY <1>13, BeatsAssumption DEF LastBeat, Beat
  <2>3. ~wb_failed' => \A b \in Beat : memory'[t][y][b] = l.data[b]
    BY <1>12, <2>2
  <2>4. ~wb_failed' => memory'[t][y] = l.data
    <3>1. memory'[t][y] \in LineData
      BY <1>2, <1>5
    <3> QED
      BY <1>2, <2>3, <3>1 DEF LineData
  <2>5. WriteProgress'
    BY <1>3, <2>1, <2>4 DEF WriteProgress, t, y, l
  <2> QED
    BY <1>7, <1>8, <1>10, <2>1, <2>5 DEF DataInv, RefillProgress, Refilling
<1>14. CASE ~LastBeat
  <2>1. state' \in {"WB_W", "MAINT_WB_W"} /\ beat' = beat + 1
    BY <1>1, <1>14 DEF WriteBeat
  <2>2. \A b \in Beat : b < beat' => b < beat \/ b = beat
    BY <1>2, <2>1 DEF Beat
  <2>3. WriteProgress'
    BY <1>3, <1>12, <2>1, <2>2 DEF WriteProgress, t, y, l
  <2> QED
    BY <1>7, <1>8, <1>10, <2>1, <2>3 DEF DataInv, RefillProgress, Refilling
<1> QED
  BY <1>13, <1>14

LEMMA WriteResponseData ==
  ASSUME Base, DataInv, NEW ok \in BOOLEAN, WriteResponse(ok)
  PROVE  DataInv'
<1> DEFINE x == victim.way
           y == victim.set
           l == line[x][y]
           c == [l EXCEPT !.dirty = FALSE]
<1>1. /\ victim # None /\ state = "WB_B" /\ maint = None /\ maint' = None
      /\ memory' = memory /\ ~wb_failed'
  BY DEF Base, VictimFits, Phase, WriteResponse, Replacing, Flushes, maintVars
<1>2. CASE ~ok
  <2>1. UNCHANGED <<line, maint>> /\ state' = "RESPONSE"
    BY <1>1, <1>2 DEF WriteResponse, Respond
  <2>2. DirtyIsValid' /\ CleanMatchesMemory' /\ ScanProgress'
    BY <1>1, <2>1, SameLines, SameScan DEF DataInv, SelfTesting
  <2> QED
    BY <1>1, <2>1, <2>2 DEF DataInv, WriteProgress, RefillProgress, Refilling, WritebackCarriesLine
<1>3. CASE ok
  <2>1. /\ x \in Way /\ y \in Set /\ line \in [Way -> [Set -> Line]]
        /\ line' = Cleaned /\ state' = "REFILL_AR" /\ beat' = 0 /\ ~wb_failed
    BY <1>1, <1>3, Fields DEF WriteResponse, Base, TypeOK
  <2>2. /\ Cleaned = [line EXCEPT ![x][y] = c]
        /\ c \in Line /\ c.valid = l.valid /\ c.tag = l.tag /\ c.data = l.data
        /\ c.dirty = FALSE
    BY <1>1, CleanedFacts DEF Base
  <2>3. l.data = memory[l.tag][y]
    BY <1>1, <2>1 DEF DataInv, WriteProgress, WritebackCarriesLine
  <2> HIDE DEF x, y, l, c
  <2>4. /\ line'[x][y] = c
        /\ \A v \in Way, r \in Set : v # x \/ r # y => line'[v][r] = line[v][r]
    BY <2>1, <2>2, LinesType
  <2>5. DirtyIsValid'
    BY <2>1, <2>2, <2>4 DEF DataInv, DirtyIsValid
  <2>6. CleanMatchesMemory'
    BY <1>1, <2>1, <2>2, <2>3, <2>4 DEF DataInv, CleanMatchesMemory, SelfTesting
  <2>7. ~NeedsWriteback(line'[victim'.way][victim'.set])
    BY <1>3, <2>2, <2>4 DEF WriteResponse, NeedsWriteback, x, y
  <2> QED
    BY <1>1, <2>1, <2>5, <2>6, <2>7
    DEF DataInv, ScanProgress, WriteProgress, RefillProgress, Refilling,
        WritebackCarriesLine
<1> QED
  BY <1>2, <1>3

LEMMA RefillBeatData ==
  ASSUME Base, DataInv, NEW data \in Word, NEW error \in BOOLEAN, RefillBeat(data, error)
  PROVE  DataInv'
<1> DEFINE m == memory[req.addr.tag][req.addr.set]
<1>1. /\ state = "REFILL_R" /\ UNCHANGED <<line, memory, maint, req, wb_failed>>
      /\ ~wb_failed /\ req # None
  BY DEF RefillBeat, arrayVars, axiVars, maintVars, cpuVars, DataInv, WriteProgress,
         Base, Phase, Refilling
<1>2. /\ refill_buf \in LineData /\ beat \in Beat /\ m \in LineData
      /\ refill_buf' = [refill_buf EXCEPT ![beat] = data]
  BY <1>1, Fields DEF Base, TypeOK, RefillBeat
<1>3. DirtyIsValid' /\ CleanMatchesMemory' /\ ScanProgress'
  BY <1>1, SameLines, SameScan DEF DataInv, SelfTesting
<1>4. ~refill_error' => ~refill_error /\ data = m[beat]
  BY DEF RefillBeat, RefillFailed
<1>5. ~refill_error' => \A b \in Beat : b < beat \/ b = beat => refill_buf'[b] = m[b]
  <2> SUFFICES ASSUME ~refill_error', NEW b \in Beat, b < beat \/ b = beat
               PROVE  refill_buf'[b] = m[b]
    OBVIOUS
  <2>1. \A c \in Beat : c < beat => refill_buf[c] = m[c]
    BY <1>1, <1>4 DEF DataInv, RefillProgress, Refilling
  <2> HIDE DEF m
  <2> QED
    BY <1>2, <1>4, <2>1 DEF LineData
<1>6. refill_buf' \in LineData
  BY <1>2 DEF LineData
<1>10. ~NeedsWriteback(line'[victim'.way][victim'.set])
  BY <1>1 DEF RefillBeat, DataInv, RefillProgress, Refilling
<1> HIDE DEF m
<1>7. CASE beat = Beats - 1
  <2>1. state' = "REFILL_FINISH"
    BY <1>7 DEF RefillBeat
  <2>2. \A b \in Beat : b < beat \/ b = beat
    BY <1>7, BeatsAssumption DEF Beat
  <2>3. ~refill_error' => refill_buf' = m
    BY <1>2, <1>5, <1>6, <2>2 DEF LineData
  <2> QED
    BY <1>1, <1>3, <1>10, <2>1, <2>3
    DEF DataInv, WriteProgress, RefillProgress, Refilling, WritebackCarriesLine, m
<1>8. CASE beat # Beats - 1
  <2>1. state' = "REFILL_R" /\ beat' = beat + 1
    BY <1>1, <1>8 DEF RefillBeat
  <2>2. \A b \in Beat : b < beat' => b < beat \/ b = beat
    BY <1>2, <2>1 DEF Beat
  <2>3. RefillProgress'
    BY <1>1, <1>5, <1>10, <2>1, <2>2 DEF RefillProgress, Refilling, m
  <2> QED
    BY <1>1, <1>3, <2>1, <2>3 DEF DataInv, WriteProgress, WritebackCarriesLine
<1> QED
  BY <1>7, <1>8

LEMMA RefillFinishData ==
  ASSUME Base, DataInv, RefillFinish
  PROVE  DataInv'
<1> DEFINE x == victim.way
           y == victim.set
<1>1. /\ state = "REFILL_FINISH" /\ memory' = memory /\ maint = None /\ maint' = None
      /\ ~wb_failed'
  BY DEF RefillFinish, axiVars, maintVars, Base, Phase, Refilling, Flushes, DataInv,
         WriteProgress
<1>2. CASE refill_error
  <2>1. UNCHANGED <<line, maint>> /\ state' = "RESPONSE"
    BY <1>1, <1>2 DEF RefillFinish, Respond
  <2>2. DirtyIsValid' /\ CleanMatchesMemory' /\ ScanProgress'
    BY <1>1, <2>1, SameLines, SameScan DEF DataInv, SelfTesting
  <2> QED
    BY <1>1, <2>1, <2>2 DEF DataInv, WriteProgress, RefillProgress, Refilling, WritebackCarriesLine
<1>3. CASE ~refill_error
  <2>1. /\ x \in Way /\ y \in Set /\ y = req.addr.set /\ NewLine \in Line
        /\ NewLine.valid /\ ~NewLine.dirty /\ NewLine.tag = req.addr.tag
        /\ NewLine.data = refill_buf
    BY NewLineFacts
  <2>2. line' = [line EXCEPT ![x][y] = NewLine] /\ state' = "REPLAY"
    BY <1>3 DEF RefillFinish, NewLine
  <2>3. NewLine.data = memory[NewLine.tag][y]
    BY <1>1, <1>3, <2>1 DEF DataInv, RefillProgress, Refilling
  <2> HIDE DEF x, y
  <2>4. /\ line'[x][y] = NewLine
        /\ \A v \in Way, r \in Set : v # x \/ r # y => line'[v][r] = line[v][r]
    BY <2>1, <2>2, LinesType DEF Base, TypeOK
  <2>5. DirtyIsValid'
    BY <2>1, <2>4 DEF DataInv, DirtyIsValid
  <2>6. CleanMatchesMemory'
    BY <1>1, <2>1, <2>3, <2>4 DEF DataInv, CleanMatchesMemory, SelfTesting
  <2> QED
    BY <1>1, <2>2, <2>5, <2>6
    DEF DataInv, ScanProgress, WriteProgress, RefillProgress, Refilling, WritebackCarriesLine
<1> QED
  BY <1>2, <1>3

(* The sequencer flushes a dirty line, and such a line is valid.           *)
LEMMA ScanWritebackData ==
  ASSUME SafeCommands, Base, DataInv, ScanWriteback
  PROVE  DataInv'
<1>1. /\ maint # None /\ maint.way \in Way /\ maint.set \in Set
      /\ maint.cmd \in Command /\ Scanned = line[maint.way][maint.set]
  BY ScanFacts DEF ScanWriteback
<1>2. maint.cmd \in {0, 2}
  <2>1. maint.cmd \in 0..3
    BY <1>1, CommandAssumption
  <2>2. maint.cmd # 1 /\ maint.cmd # 3
    BY DEF ScanWriteback, MustFlush
  <2> QED
    BY <2>1, <2>2
<1>3. 1 \notin Command
  BY <1>1, <1>2 DEF SafeCommands
<1>4. Scanned.dirty /\ Scanned.valid
  BY <1>1, <1>3 DEF ScanWriteback, MustFlush, DataInv, DirtyIsValid
<1>5. /\ UNCHANGED <<line, memory, maint, wb_failed>> /\ beat' = 0 /\ ~wb_failed
      /\ state' = "MAINT_WB_AW"
      /\ victim' = [way |-> maint.way, set |-> maint.set, tag |-> Scanned.tag]
  BY DEF ScanWriteback, arrayVars, maintVars, axiVars, DataInv, WriteProgress
<1>6. DirtyIsValid' /\ CleanMatchesMemory' /\ ScanProgress'
  BY <1>5, SameLines, SameScan DEF DataInv, SelfTesting
<1>7. WritebackCarriesLine'
  BY <1>1, <1>4, <1>5 DEF WritebackCarriesLine
<1> QED
  BY <1>5, <1>6, <1>7 DEF DataInv, WriteProgress, RefillProgress, Refilling

(* Leaving a line: the next position has passed it, and nothing else.      *)
LEMMA NextLineScan ==
  ASSUME Base, DataInv, maint # None, NEW error \in BOOLEAN, NextLine(error),
         maint.error => error, maint.cmd # 3,
         \A w \in Way, s \in Set : w # maint.way \/ s # maint.set =>
                                     line'[w][s] = line[w][s],
         maint.cmd = 1 => ~line'[maint.way][maint.set].valid,
         maint.cmd \in {0, 2} /\ ~error => ~line'[maint.way][maint.set].dirty,
         line'[maint.way][maint.set].valid => line[maint.way][maint.set].valid,
         line'[maint.way][maint.set].dirty => line[maint.way][maint.set].dirty
  PROVE  ScanProgress' /\ ~SelfTesting'
<1>1. \/ maint' = None
      \/ /\ maint'.error = error
         /\ maint'.cmd = maint.cmd /\ maint'.phase = maint.phase
         /\ \A w \in Way, s \in Set :
              Passed(maint', w, s)
                => Passed(maint, w, s) \/ (w = maint.way /\ s = maint.set)
  BY NextLineFacts DEF Base
<1>2. CASE maint' = None
  BY <1>2 DEF ScanProgress, SelfTesting
<1>3. CASE maint' # None
  <2>1. ~SelfTesting'
    BY <1>1, <1>3 DEF SelfTesting
  <2>2. \A w \in Way, s \in Set : Passed(maint', w, s) =>
          /\ maint.cmd = 1 => ~line'[w][s].valid
          /\ maint.cmd \in {0, 2} /\ ~error => ~line'[w][s].dirty
    <3> TAKE w \in Way, s \in Set
    <3> HAVE Passed(maint', w, s)
    <3>1. CASE w = maint.way /\ s = maint.set
      BY <3>1
    <3>2. CASE w # maint.way \/ s # maint.set
      <4>1. Passed(maint, w, s) /\ line'[w][s] = line[w][s]
        BY <1>1, <1>3, <3>2
      <4> QED
        BY <4>1 DEF DataInv, ScanProgress
    <3> QED
      BY <3>1, <3>2
  <2> QED
    BY <1>1, <1>3, <2>1, <2>2 DEF ScanProgress
<1> QED
  BY <1>2, <1>3

LEMMA ScanNextData ==
  ASSUME SafeCommands, Base, DataInv, ScanNext
  PROVE  DataInv'
<1> DEFINE x == maint.way
           y == maint.set
           l == [Scanned EXCEPT !.valid = FALSE]
<1>1. /\ maint # None /\ x \in Way /\ y \in Set /\ maint.error \in BOOLEAN
      /\ maint.cmd \in Command /\ Scanned = line[x][y] /\ maint.cmd # 3
      /\ NextLine(maint.error)
  BY ScanFacts DEF ScanNext
<1>2. /\ line' = IF maint.cmd = 0 THEN line ELSE [line EXCEPT ![x][y] = l]
      /\ l \in Line /\ l.valid = FALSE /\ l.dirty = Scanned.dirty
  BY ScanNextLine
<1>3. maint.cmd # 1 => ~Scanned.dirty
  BY DEF ScanNext, MustFlush
<1> HIDE DEF l
<1>4. /\ line'[x][y] = IF maint.cmd = 0 THEN Scanned ELSE l
      /\ \A w \in Way, s \in Set : w # x \/ s # y => line'[w][s] = line[w][s]
  <2> HIDE DEF x, y
  <2>1. CASE maint.cmd = 0
    BY <1>1, <1>2, <2>1
  <2>2. CASE maint.cmd # 0
    <3>1. line \in [Way -> [Set -> Line]] /\ line' = [line EXCEPT ![x][y] = l]
      BY <1>2, <2>2 DEF Base, TypeOK
    <3>2. /\ line'[x][y] = l
          /\ \A w \in Way, s \in Set : w # x \/ s # y => line'[w][s] = line[w][s]
      BY <1>1, <1>2, <3>1, LinesType
    <3> QED
      BY <2>2, <3>2
  <2> QED
    BY <2>1, <2>2
<1>5. ScanProgress' /\ ~SelfTesting'
  <2>1. /\ maint.cmd = 1 => ~line'[x][y].valid
        /\ maint.cmd \in {0, 2} /\ ~maint.error => ~line'[x][y].dirty
        /\ line'[x][y].valid => line[x][y].valid
        /\ line'[x][y].dirty => line[x][y].dirty
    BY <1>1, <1>2, <1>3, <1>4
  <2> QED
    BY <1>1, <1>4, <2>1, NextLineScan
<1>6. memory' = memory /\ wb_failed' = wb_failed /\ ~wb_failed
  BY DEF ScanNext, axiVars, DataInv, WriteProgress
<1>7. DirtyIsValid'
  <2> SUFFICES ASSUME 1 \notin Command, NEW w \in Way, NEW s \in Set, line'[w][s].dirty
               PROVE  line'[w][s].valid
    BY DEF DirtyIsValid
  <2>1. CASE w = x /\ s = y
    BY <1>1, <1>2, <1>3, <1>4, <2>1
  <2>2. CASE w # x \/ s # y
    BY <1>4, <2>2 DEF DataInv, DirtyIsValid
  <2> QED
    BY <2>1, <2>2
<1>8. ~SelfTesting
  BY <1>1 DEF SelfTesting
<1>9. CleanMatchesMemory'
  <2> SUFFICES ASSUME NEW w \in Way, NEW s \in Set,
                      line'[w][s].valid, ~line'[w][s].dirty
               PROVE  line'[w][s].data = memory[line'[w][s].tag][s]
    BY <1>6 DEF CleanMatchesMemory
  <2>1. line'[w][s] = line[w][s]
    BY <1>1, <1>2, <1>4
  <2> QED
    BY <1>8, <2>1 DEF DataInv, CleanMatchesMemory
<1>10. state' \in Quiet
  BY <1>1, NextLineFacts DEF Base, Quiet
<1>11. ~wb_failed'
  BY <1>6
<1> QED
  BY <1>5, <1>7, <1>9, <1>10, <1>11
  DEF DataInv, WriteProgress, RefillProgress, Refilling, WritebackCarriesLine, Quiet

LEMMA MaintenanceData ==
  ASSUME SafeCommands, Base, DataInv, NEW ok \in BOOLEAN, MaintenanceWriteResponse(ok)
  PROVE  DataInv'
<1> DEFINE x == maint.way
           y == maint.set
           l == line[x][y]
           f == FlushedLine(ok)
<1>1. /\ maint # None /\ victim # None /\ x \in Way /\ y \in Set
      /\ victim.way = x /\ victim.set = y
      /\ maint.cmd \in {0, 2} /\ MaintenanceFailed(ok) \in BOOLEAN
      /\ line' = [line EXCEPT ![x][y] = f]
      /\ f \in Line /\ f.tag = l.tag /\ f.data = l.data
      /\ f.valid = (l.valid /\ ~(ok /\ maint.cmd = 2))
      /\ f.dirty = (l.dirty /\ ~ok)
  BY MaintenanceLine
<1>2. /\ state = "MAINT_WB_B" /\ memory' = memory /\ wb_failed' = FALSE
      /\ ok => ~wb_failed
      /\ NextLine(MaintenanceFailed(ok))
  BY DEF MaintenanceWriteResponse
<1>3. l.valid /\ l.dirty /\ (ok => l.data = memory[l.tag][y])
  BY <1>1, <1>2 DEF DataInv, WriteProgress, WritebackCarriesLine
<1>4. maint.error => MaintenanceFailed(ok)
  BY DEF MaintenanceFailed
<1>5. ~MaintenanceFailed(ok) => ok
  BY DEF MaintenanceFailed
<1> HIDE DEF f
<1>6. /\ line'[x][y] = f
      /\ \A w \in Way, s \in Set : w # x \/ s # y => line'[w][s] = line[w][s]
  BY <1>1, LinesType DEF Base, TypeOK
<1>7. ScanProgress' /\ ~SelfTesting'
  <2>1. /\ maint.cmd = 1 => ~line'[x][y].valid
        /\ maint.cmd \in {0, 2} /\ ~MaintenanceFailed(ok) => ~line'[x][y].dirty
        /\ line'[x][y].valid => line[x][y].valid
        /\ line'[x][y].dirty => line[x][y].dirty
        /\ maint.cmd # 3
    BY <1>1, <1>3, <1>5, <1>6
  <2> QED
    BY <1>1, <1>2, <1>4, <1>6, <2>1, NextLineScan
<1> HIDE DEF x, y, l
<1>8. DirtyIsValid'
  BY <1>1, <1>3, <1>6 DEF DataInv, DirtyIsValid, l
<1>9. ~SelfTesting
  BY <1>1 DEF SelfTesting
<1>10. CleanMatchesMemory'
  <2> SUFFICES ASSUME NEW w \in Way, NEW s \in Set,
                      line'[w][s].valid, ~line'[w][s].dirty
               PROVE  line'[w][s].data = memory[line'[w][s].tag][s]
    BY <1>2 DEF CleanMatchesMemory
  <2>1. CASE w = x /\ s = y
    BY <1>1, <1>3, <1>6, <2>1
  <2>2. CASE w # x \/ s # y
    BY <1>6, <1>9, <2>2 DEF DataInv, CleanMatchesMemory
  <2> QED
    BY <2>1, <2>2
<1>11. state' \in Quiet
  BY <1>1, <1>2, NextLineFacts DEF Base, Quiet
<1> QED
  BY <1>2, <1>7, <1>8, <1>10, <1>11
  DEF DataInv, WriteProgress, RefillProgress, Refilling, WritebackCarriesLine, Quiet

(* The self-test overwrites lines from phase 1 on and discards them all in *)
(* phase 4; until it is over no line is read.                              *)
LEMMA BistData ==
  ASSUME Base, DataInv, Bist
  PROVE  DataInv'
<1> DEFINE x == maint.way
           y == maint.set
<1>1. /\ maint # None /\ x \in Way /\ y \in Set /\ maint.cmd = 3
      /\ maint.phase \in 0..4 /\ Scanned = line[x][y]
      /\ state = "MAINT_SCAN" /\ BistNext
  BY ScanFacts DEF Bist
<1>2. /\ line'[x][y] = BistLine
      /\ \A w \in Way, s \in Set : w # x \/ s # y => line'[w][s] = line[w][s]
  BY BistStepLine
<1>3. /\ \/ BistLine.valid = Scanned.valid /\ BistLine.dirty = Scanned.dirty
         \/ ~BistLine.valid /\ ~BistLine.dirty
      /\ maint.phase = 4 /\ maint.word = Beats - 1 => ~BistLine.valid /\ ~BistLine.dirty
      /\ maint.phase = 0 => BistLine = Scanned
  BY <1>1, BistLineFacts DEF Base
<1>4. memory' = memory /\ ~wb_failed'
  BY <1>1 DEF Bist, axiVars, DataInv, WriteProgress
<1>5. \/ /\ LastLine /\ maint.phase = 4 /\ maint.word = Beats - 1
         /\ maint' = None /\ state' = "IDLE"
      \/ /\ state' = "MAINT_SCAN" /\ maint' # None /\ maint'.cmd = 3
         /\ \/ maint'.phase = maint.phase + 1 /\ maint'.set = 0 /\ maint'.way = 0
            \/ /\ maint'.phase = maint.phase
               /\ \A w \in Way, s \in Set :
                    Passed(maint', w, s)
                      => \/ Passed(maint, w, s)
                         \/ maint.word = Beats - 1 /\ w = x /\ s = y
  <2>1. \A m \in Maintenance : m # None
    BY NoneAssumption
  <2> QED
    BY <1>1, <2>1, BistFacts DEF Base
<1>6. DirtyIsValid'
  <2> SUFFICES ASSUME 1 \notin Command, NEW w \in Way, NEW s \in Set, line'[w][s].dirty
               PROVE  line'[w][s].valid
    BY DEF DirtyIsValid
  <2>1. CASE w = x /\ s = y
    BY <1>1, <1>2, <1>3, <2>1 DEF DataInv, DirtyIsValid
  <2>2. CASE w # x \/ s # y
    BY <1>2, <2>2 DEF DataInv, DirtyIsValid
  <2> QED
    BY <2>1, <2>2
<1>7. CASE maint' = None
  <2>1. LastLine /\ maint.phase = 4 /\ maint.word = Beats - 1 /\ state' = "IDLE"
    BY <1>5, <1>7
  <2>2. \A w \in Way, s \in Set : ~line'[w][s].valid
    <3> TAKE w \in Way, s \in Set
    <3>1. CASE w = x /\ s = y
      BY <1>2, <1>3, <2>1, <3>1
    <3>2. CASE w # x \/ s # y
      <4>1. Passed(maint, w, s)
        BY <1>1, <2>1, <3>2, LastIsLast DEF Base
      <4> QED
        BY <1>1, <1>2, <2>1, <3>2, <4>1 DEF DataInv, ScanProgress
    <3> QED
      BY <3>1, <3>2
  <2>3. CleanMatchesMemory'
    BY <2>2 DEF CleanMatchesMemory
  <2> QED
    BY <1>4, <1>6, <1>7, <2>1, <2>3
    DEF DataInv, ScanProgress, WriteProgress, RefillProgress, Refilling, WritebackCarriesLine
<1>8. CASE maint' # None
  <2>1. state' = "MAINT_SCAN" /\ maint'.cmd = 3
    BY <1>5, <1>8
  <2>2. ScanProgress'
    <3>1. CASE maint'.set = 0 /\ maint'.way = 0
      <4>1. \A w \in Way, s \in Set : ~Passed(maint', w, s)
        BY <3>1, WayFacts DEF Passed
      <4> QED
        BY <4>1 DEF ScanProgress
    <3>2. CASE ~(maint'.set = 0 /\ maint'.way = 0)
      <4> SUFFICES ASSUME NEW w \in Way, NEW s \in Set, Passed(maint', w, s),
                          maint'.phase = 4
                   PROVE  ~line'[w][s].valid /\ ~line'[w][s].dirty
        BY <2>1 DEF ScanProgress
      <4>1. /\ maint.phase = 4
            /\ Passed(maint, w, s) \/ (maint.word = Beats - 1 /\ w = x /\ s = y)
        BY <1>5, <1>8, <3>2
      <4>2. CASE w = x /\ s = y /\ maint.word = Beats - 1
        BY <1>2, <1>3, <4>1, <4>2
      <4>3. CASE ~(w = x /\ s = y /\ maint.word = Beats - 1)
        <5>1. ~line[w][s].valid /\ ~line[w][s].dirty
          BY <1>1, <4>1, <4>3 DEF DataInv, ScanProgress
        <5> QED
          BY <1>1, <1>2, <1>3, <5>1
      <4> QED
        BY <4>2, <4>3
    <3> QED
      BY <3>1, <3>2
  <2>3. CleanMatchesMemory'
    <3>1. CASE maint'.phase # 0
      BY <1>8, <2>1, <3>1 DEF CleanMatchesMemory, SelfTesting
    <3>2. CASE maint'.phase = 0
      <4>1. maint.phase = 0
        BY <1>1, <1>5, <1>8, <3>2
      <4>2. \A w \in Way, s \in Set : line'[w][s] = line[w][s]
        BY <1>1, <1>2, <1>3, <4>1
      <4> QED
        BY <1>4, <4>1, <4>2 DEF DataInv, CleanMatchesMemory, SelfTesting
    <3> QED
      BY <3>1, <3>2
  <2> QED
    BY <1>4, <1>6, <2>1, <2>2, <2>3
    DEF DataInv, WriteProgress, RefillProgress, Refilling, WritebackCarriesLine
<1> QED
  BY <1>7, <1>8

LEMMA NextData ==
  ASSUME SafeCommands, Base, DataInv, [Next]_vars
  PROVE  DataInv'
<1>1. CASE UNCHANGED vars
  BY <1>1
  DEF vars, cpuVars, arrayVars, burstVars, maintVars, axiVars, DataInv, DirtyIsValid,
      ScanProgress, WriteProgress, RefillProgress, Refilling, CleanMatchesMemory, SelfTesting,
      WritebackCarriesLine
<1> QED
  BY <1>1, AcceptData, ResetData, AnswerData, HitData, MissData, AddressData,
     WriteBeatData, WriteResponseData, MaintenanceData, RefillBeatData,
     RefillFinishData, ScanWritebackData, ScanNextData, BistData
  DEF Next, Step, Serve

(* With safe commands the control and the data invariant hold together.    *)
THEOREM Data ==
  ASSUME SafeCommands
  PROVE  Spec => [](Base /\ DataInv)
<1>1. Base /\ DataInv /\ [Next]_vars => (Base /\ DataInv)'
  BY SafeCommands, NextBase, NextData
<1>2. Init => Base /\ DataInv
  BY InitBase, InitData
<1> QED
  BY <1>1, <1>2, PTL DEF Spec

(* A valid clean line equals memory, whatever bursts fail: it may be       *)
(* replaced without a write-back.                                          *)
THEOREM CleanLines ==
  ASSUME SafeCommands
  PROVE  Spec => []CleanMatchesMemory
<1>1. Base /\ DataInv => CleanMatchesMemory
  BY DEF DataInv
<1>2. Spec => [](Base /\ DataInv)
  BY Data
<1> QED
  BY <1>1, <1>2, PTL

(* A write burst carries a valid dirty line, the one whose address went    *)
(* out: nothing discarded is ever written back.                            *)
THEOREM BurstsCarryLines ==
  ASSUME SafeCommands
  PROVE  Spec => []WritebackCarriesLine
<1>1. Base /\ DataInv => WritebackCarriesLine
  BY DEF DataInv
<1>2. Spec => [](Base /\ DataInv)
  BY Data
<1> QED
  BY <1>1, <1>2, PTL

-----------------------------------------------------------------------------
(* The refinement.  The memory the CPU sees is the line that hits, or      *)
(* memory; it differs from memory in the words of dirty lines only.        *)
DirtyAt(a) == \E w \in Way : Present(w, a.tag, a.set) /\ line[w][a.set].dirty

SeenFacts ==
  /\ DOMAIN Seen = Addr /\ DOMAIN Durable = Addr
  /\ \A a \in Addr :
       /\ Durable[a] = memory[a.tag][a.set][a.word] /\ Durable[a] \in Word
       /\ Seen[a] \in Word
       /\ SelfTesting \/ ~DirtyAt(a) => Seen[a] = Durable[a]
       /\ ~SelfTesting => \A w \in Way : Present(w, a.tag, a.set) =>
                            Seen[a] = line[w][a.set].data[a.word]

LEMMA SeenWord == Base /\ DataInv => SeenFacts
<1> SUFFICES ASSUME Base, DataInv PROVE SeenFacts
  OBVIOUS
<1>1. DOMAIN Seen = Addr /\ DOMAIN Durable = Addr
  BY DEF Seen, Durable
<1> SUFFICES ASSUME NEW a \in Addr
             PROVE  /\ Durable[a] = memory[a.tag][a.set][a.word] /\ Durable[a] \in Word
                    /\ Seen[a] \in Word
                    /\ SelfTesting \/ ~DirtyAt(a) => Seen[a] = Durable[a]
                    /\ ~SelfTesting => \A w \in Way : Present(w, a.tag, a.set) =>
                                         Seen[a] = line[w][a.set].data[a.word]
  BY <1>1 DEF SeenFacts
<1>2. /\ a.tag \in Tag /\ a.set \in Set /\ a.word \in Beat
      /\ Durable[a] = memory[a.tag][a.set][a.word] /\ Seen[a] = Visible(a)
  BY DEF Addr, Seen, Durable
<1>3. memory[a.tag][a.set] \in LineData
      /\ \A w \in Way : line[w][a.set].data \in LineData /\ line[w][a.set].dirty \in BOOLEAN
  BY <1>2, Fields DEF Base
<1>4. Durable[a] \in Word /\ \A w \in Way : line[w][a.set].data[a.word] \in Word
  BY <1>2, <1>3 DEF LineData
<1>5. CASE SelfTesting \/ ~\E w \in Way : Present(w, a.tag, a.set)
  <2>1. Seen[a] = Durable[a]
    BY <1>2, <1>5 DEF Visible
  <2> QED
    BY <1>2, <1>4, <1>5, <2>1
<1>6. CASE ~SelfTesting /\ \E w \in Way : Present(w, a.tag, a.set)
  <2> DEFINE w == CHOOSE v \in Way : Present(v, a.tag, a.set)
  <2>1. w \in Way /\ Present(w, a.tag, a.set)
    BY <1>6
  <2>2. Seen[a] = line[w][a.set].data[a.word]
    BY <1>2, <1>6 DEF Visible
  <2> HIDE DEF w
  <2>3. \A v \in Way : Present(v, a.tag, a.set) => v = w
    BY <1>2, <2>1 DEF Base, OneCopy
  <2>4. ~DirtyAt(a) => Seen[a] = Durable[a]
    <3> HAVE ~DirtyAt(a)
    <3>1. line[w][a.set].valid /\ ~line[w][a.set].dirty /\ line[w][a.set].tag = a.tag
      BY <2>1 DEF DirtyAt, Present
    <3>2. line[w][a.set].data = memory[a.tag][a.set]
      BY <1>2, <1>6, <2>1, <3>1 DEF DataInv, CleanMatchesMemory
    <3> QED
      BY <1>2, <2>2, <3>2
  <2> QED
    BY <1>2, <1>4, <1>6, <2>1, <2>2, <2>3, <2>4
<1> QED
  BY <1>5, <1>6

LEMMA SeenWordNext == (Base /\ DataInv)' => SeenFacts'
BY SeenWord, PTL

Inv == Base /\ DataInv

LEMMA SeenBoth ==
  ASSUME Inv, Inv'
  PROVE  SeenFacts /\ SeenFacts'
BY SeenWord, SeenWordNext DEF Inv

LEMMA EqualMemories ==
  /\ (\A a \in Addr : Seen'[a] = Seen[a]) => Seen' = Seen
  /\ (\A a \in Addr : Seen'[a] = Durable'[a]) => Seen' = Durable'
  /\ (\A a \in Addr : Seen[a] = Durable[a]) => Durable = Seen
  /\ memory' = memory => Durable' = Durable
BY DEF Seen, Durable

LEMMA Untouched ==
  ASSUME UNCHANGED <<line, memory>>, SelfTesting <=> SelfTesting'
  PROVE  Seen' = Seen /\ Durable' = Durable
<1>1. \A a \in Addr, w \in Way : Present(w, a.tag, a.set)' <=> Present(w, a.tag, a.set)
  BY DEF Present
<1>2. \A a \in Addr : Visible(a)' = Visible(a)
  BY <1>1 DEF Visible, Present
<1> QED
  BY <1>2 DEF Seen, Durable

(* What the CPU sees stays the same if every line keeps its content or     *)
(* holds nothing but memory's before and after.                            *)
LEMMA SameSeen ==
  ASSUME Inv, Inv', ~SelfTesting, ~SelfTesting', memory' = memory,
         \A w \in Way, s \in Set :
           \/ /\ line'[w][s].valid = line[w][s].valid /\ line'[w][s].tag = line[w][s].tag
              /\ line'[w][s].data = line[w][s].data
           \/ /\ line[w][s].valid => line[w][s].data = memory[line[w][s].tag][s]
              /\ line'[w][s].valid => line'[w][s].data = memory[line'[w][s].tag][s]
  PROVE  Seen' = Seen /\ Durable' = Durable
<1>1. Durable' = Durable
  BY EqualMemories
<1>2. ASSUME NEW a \in Addr PROVE Seen'[a] = Seen[a]
  <2>1. /\ a.set \in Set /\ Durable[a] = memory[a.tag][a.set][a.word]
        /\ ~DirtyAt(a) => Seen[a] = Durable[a]
        /\ ~DirtyAt(a)' => Seen'[a] = Durable[a]
        /\ \A w \in Way : Present(w, a.tag, a.set) =>
                            Seen[a] = line[w][a.set].data[a.word]
        /\ \A w \in Way : Present(w, a.tag, a.set)' =>
                            Seen'[a] = line'[w][a.set].data[a.word]
    BY <1>1, SeenBoth DEF SeenFacts, Addr
  <2>2. CASE \E w \in Way : Present(w, a.tag, a.set)
    <3>1. PICK w \in Way : Present(w, a.tag, a.set)
      BY <2>2
    <3>2. CASE Present(w, a.tag, a.set)'
      <4>1. line'[w][a.set].data[a.word] = line[w][a.set].data[a.word]
        BY SMTT(30), <2>1, <3>1, <3>2 DEF Present
      <4> QED
        BY <2>1, <3>1, <3>2, <4>1
    <3>3. CASE ~Present(w, a.tag, a.set)'
      <4>1. Seen[a] = Durable[a]
        BY <2>1, <3>1, <3>3 DEF Present
      <4>2. \A v \in Way : Present(v, a.tag, a.set)' =>
                             line'[v][a.set].data = memory[a.tag][a.set]
        <5> SUFFICES ASSUME NEW v \in Way, Present(v, a.tag, a.set)'
                     PROVE  line'[v][a.set].data = memory[a.tag][a.set]
          OBVIOUS
        <5>1. v # w /\ ~Present(v, a.tag, a.set)
          BY <2>1, <3>1, <3>3 DEF Inv, Base, OneCopy, Addr
        <5> QED
          BY SMTT(30), <2>1, <5>1 DEF Present
      <4>3. Seen'[a] = Durable[a]
        <5>1. CASE DirtyAt(a)'
          BY <2>1, <4>2, <5>1 DEF DirtyAt
        <5>2. CASE ~DirtyAt(a)'
          BY <2>1, <5>2
        <5> QED
          BY <5>1, <5>2
      <4> QED
        BY <4>1, <4>3
    <3> QED
      BY <3>2, <3>3
  <2>3. CASE ~\E w \in Way : Present(w, a.tag, a.set)
    <3>1. Seen[a] = Durable[a]
      BY <2>1, <2>3 DEF DirtyAt
    <3>2. \A v \in Way : Present(v, a.tag, a.set)' =>
                           line'[v][a.set].data = memory[a.tag][a.set]
      BY SMTT(30), <2>1, <2>3 DEF Present
    <3>3. CASE DirtyAt(a)'
      BY SMTT(30), <2>1, <3>1, <3>2, <3>3 DEF DirtyAt
    <3>4. CASE ~DirtyAt(a)'
      BY <2>1, <3>1, <3>4
    <3> QED
      BY <3>3, <3>4
  <2> QED
    BY <2>2, <2>3
<1> QED
  BY <1>1, <1>2, EqualMemories

-----------------------------------------------------------------------------
LEMMA InitRefines == Init => Memory!WInit
<1> SUFFICES ASSUME Init PROVE Memory!WInit
  OBVIOUS
<1>1. SeenFacts
  BY InitBase, InitData, SeenWord
<1>2. Seen \in [Addr -> Word]
  BY <1>1 DEF SeenFacts, Seen
<1>3. \A a \in Addr : ~DirtyAt(a)
  BY DEF DirtyAt, Init, PowerUpLine, Addr
<1>4. Durable = Seen
  BY <1>1, <1>3, EqualMemories DEF SeenFacts
<1> QED
  BY <1>2, <1>4 DEF Init, Memory!WInit, Memory!Word, Word, Byte, Ordered

LEMMA AcceptRefines ==
  ASSUME Inv, Accept
  PROVE  Memory!WAccept \/ Memory!WCommand
<1>1. req = None /\ rsp = None /\ maint = None /\ UNCHANGED <<line, memory, rsp>>
  BY DEF Accept, AcceptMaintenance, AcceptRequest, arrayVars, axiVars, cpuVars, Inv, Base,
         Phase, Flushes, Replacing, Refilling
<1>2. CASE \E cmd \in Command : AcceptMaintenance(cmd)
  <2> PICK cmd \in Command : AcceptMaintenance(cmd)
    BY <1>2
  <2>1. /\ maint'.cmd = cmd /\ maint'.phase = 0 /\ maint_error' = FALSE /\ req' = req
        /\ maint' \in Maintenance
    BY WayFacts DEF AcceptMaintenance, cpuVars, Maintenance
  <2>2. maint' # None
    BY <2>1, NoneAssumption
  <2>3. Seen' = Seen /\ Durable' = Durable
    BY <1>1, <2>1, Untouched DEF SelfTesting
  <2>4. cmd \in {0, 1, 2, 3}
    BY CommandAssumption
  <2> QED
    BY <1>1, <2>1, <2>2, <2>3, <2>4
    DEF Memory!WCommand, Memory!Flushing, Memory!Discarding, Ordered
<1>3. CASE \E r \in Request : AcceptRequest(r)
  <2>1. req' \in Request /\ UNCHANGED maintVars
    BY <1>3 DEF AcceptRequest
  <2>2. Seen' = Seen /\ Durable' = Durable
    BY <1>1, <2>1, Untouched DEF SelfTesting, maintVars
  <2>3. req' \in Memory!Request
    BY <2>1 DEF Request, Memory!Request, Word, Memory!Word, Byte
  <2> QED
    BY <1>1, <2>1, <2>2, <2>3 DEF Memory!WAccept, Ordered, maintVars
<1> QED
  BY <1>2, <1>3 DEF Accept

(* Steps inside a burst, which nobody sees.                                *)
LEMMA HiddenRefines ==
  ASSUME Inv, Miss \/ WriteAddress \/ RefillAddress \/ ScanWriteback
              \/ (\E data \in Word, error \in BOOLEAN : RefillBeat(data, error))
              \/ UNCHANGED vars
  PROVE  UNCHANGED Memory!wVars
<1>1. UNCHANGED <<req, rsp, line, memory, maint, maint_error>>
  BY DEF Miss, WriteAddress, RefillAddress, ScanWriteback, RefillBeat, cpuVars, arrayVars,
         maintVars, axiVars, vars
<1>2. Seen' = Seen /\ Durable' = Durable
  BY <1>1, Untouched DEF SelfTesting
<1> QED
  BY <1>1, <1>2 DEF Memory!wVars, Ordered

LEMMA AnswerRefines ==
  ASSUME Inv, Misaligned \/ TakeResponse
  PROVE  Memory!WFail \/ Memory!WTake
<1>1. UNCHANGED <<line, memory, maint, maint_error>>
  BY DEF Misaligned, TakeResponse, arrayVars, maintVars, axiVars
<1>2. Seen' = Seen /\ Durable' = Durable
  BY <1>1, Untouched DEF SelfTesting
<1>3. CASE Misaligned
  BY <1>1, <1>2, <1>3
  DEF Misaligned, Looking, Respond, Inv, Base, Phase, Memory!WFail, Memory!Zero, Zero,
      Ordered
<1>4. CASE TakeResponse
  BY <1>1, <1>2, <1>4 DEF TakeResponse, Inv, Base, Phase, Memory!WTake, Ordered
<1> QED
  BY <1>3, <1>4

(* A hit performs the request on what the CPU sees.                        *)
LEMMA HitRefines ==
  ASSUME Inv, Inv', Hit
  PROVE  Memory!WPerform
<1> DEFINE x == HitWay
           y == req.addr.set
           l == line[x][y]
           n == Stored(l)
<1>1. /\ req # None /\ y \in Set /\ x \in Way /\ l.valid /\ l.tag = req.addr.tag
      /\ line' = IF req.write THEN [line EXCEPT ![x][y] = n] ELSE line
  BY HitFacts DEF Inv
<1>2. /\ req.addr \in Addr /\ req.addr.word \in Beat /\ l \in Line
      /\ req \in Request
  BY <1>1, Fields DEF Inv, Base, Request
<1>3. /\ n.valid = l.valid /\ n.tag = l.tag
      /\ \A b \in Beat : n.data[b] = IF b = req.addr.word
                                     THEN Merge(l.data[b], req.data, req.strobe)
                                     ELSE l.data[b]
      /\ n \in Line
  BY <1>1, <1>2, StoredFacts DEF Inv, Base
<1>4. /\ maint = None /\ maint' = None /\ maint_error' = maint_error /\ memory' = memory
      /\ req' = None /\ req.aligned /\ Durable' = Durable
  BY EqualMemories
  DEF Hit, Looking, Respond, Inv, Base, Phase, Flushes, maintVars, axiVars
<1>5. ~SelfTesting /\ ~SelfTesting' /\ Ordered' = Ordered
  BY <1>4 DEF SelfTesting, Ordered
<1>6. Present(x, req.addr.tag, y)
  BY <1>1 DEF Present
<1>7. Seen[req.addr] = l.data[req.addr.word]
  BY <1>1, <1>2, <1>5, <1>6, SeenBoth DEF SeenFacts
<1>8. CASE ~req.write
  <2>1. Seen' = Seen
    BY <1>1, <1>4, <1>5, <1>8, Untouched
  <2>2. rsp' = [data |-> Seen[req.addr], error |-> FALSE]
    BY <1>7, <1>8 DEF Hit, Respond
  <2> QED
    BY <1>1, <1>4, <1>5, <1>8, <2>1, <2>2 DEF Memory!WPerform
<1>9. CASE req.write
  <2> DEFINE m == Merge(l.data[req.addr.word], req.data, req.strobe)
  <2>1. /\ line'[x][y] = n
        /\ \A v \in Way, r \in Set : v # x \/ r # y => line'[v][r] = line[v][r]
    <3> HIDE DEF x, y, n
    <3>1. line \in [Way -> [Set -> Line]] /\ line' = [line EXCEPT ![x][y] = n]
      BY <1>1, <1>9 DEF Inv, Base, TypeOK
    <3> QED
      BY <1>1, <1>3, <3>1, LinesType
  <2>2. \A w \in Way, a \in Addr :
          /\ Present(w, a.tag, a.set)' <=> Present(w, a.tag, a.set)
          /\ line'[w][a.set].data[a.word] =
               IF w = x /\ a.set = y /\ a.word = req.addr.word
               THEN m ELSE line[w][a.set].data[a.word]
    <3> HIDE DEF n, m
    <3> TAKE w \in Way, a \in Addr
    <3>1. a.set \in Set /\ a.word \in Beat
      BY DEF Addr
    <3>2. CASE w = x /\ a.set = y
      BY SMTT(30), <1>3, <2>1, <3>1, <3>2 DEF Present, m
    <3>3. CASE w # x \/ a.set # y
      BY <2>1, <3>1, <3>3 DEF Present
    <3> QED
      BY <3>2, <3>3
  <2> HIDE DEF m, n
  <2>3. Seen'[req.addr] = m
    BY SMTT(30), <1>1, <1>2, <1>5, <1>6, <2>2, SeenBoth DEF SeenFacts
  <2>4. ASSUME NEW a \in Addr, a # req.addr PROVE Seen'[a] = Seen[a]
    <3>1. a.tag \in Tag /\ a.set \in Set /\ a.word \in Beat
          /\ ~(a.tag = req.addr.tag /\ a.set = y /\ a.word = req.addr.word)
      BY <1>2, <2>4 DEF Addr
    <3>2. Durable'[a] = Durable[a]
      BY <1>4
    <3>3. CASE \E w \in Way : Present(w, a.tag, a.set)
      <4> PICK w \in Way : Present(w, a.tag, a.set)
        BY <3>3
      <4>1. ~(w = x /\ a.set = y /\ a.word = req.addr.word)
        BY <1>1, <3>1 DEF Present
      <4>2. line'[w][a.set].data[a.word] = line[w][a.set].data[a.word]
        BY <2>2, <4>1
      <4> QED
        BY <1>5, <2>2, <4>2, SeenBoth DEF SeenFacts
    <3>4. CASE ~\E w \in Way : Present(w, a.tag, a.set)
      <4>1. ~DirtyAt(a) /\ ~DirtyAt(a)'
        BY <2>2, <3>4 DEF DirtyAt
      <4> QED
        BY <3>2, <4>1, SeenBoth DEF SeenFacts
    <3> QED
      BY <3>3, <3>4
  <2>5. Seen' = [Seen EXCEPT ![req.addr] = m]
    BY <1>2, <2>3, <2>4 DEF Seen
  <2>6. m = [i \in Lane |-> IF i \in req.strobe THEN req.data[i] ELSE Seen[req.addr][i]]
    BY <1>7 DEF m, Merge
  <2>7. Seen' = [Seen EXCEPT ![req.addr] =
                   [i \in Lane |-> IF i \in req.strobe THEN req.data[i] ELSE @[i]]]
    BY <2>5, <2>6
  <2>8. rsp' = [data |-> Memory!Zero, error |-> FALSE]
    BY <1>9 DEF Hit, Respond, Memory!Zero, Zero
  <2> QED
    BY <1>1, <1>4, <1>5, <1>9, <2>7, <2>8 DEF Memory!WPerform
<1> QED
  BY <1>8, <1>9

(* A beat that is stored brings one word of memory up to date.             *)
LEMMA WriteBeatRefines ==
  ASSUME Inv, Inv', NEW stored \in BOOLEAN, WriteBeat(stored)
  PROVE  Memory!WWriteBack \/ UNCHANGED Memory!wVars
<1>1. /\ victim # None /\ state \in {"WB_W", "MAINT_WB_W"}
      /\ UNCHANGED <<line, maint, maint_error, req, rsp>>
  BY DEF Inv, Base, VictimFits, WriteBeat, Replacing, Flushes, arrayVars, maintVars, cpuVars
<1>2. victim.way \in Way /\ victim.set \in Set /\ victim.tag \in Tag /\ beat \in Beat
  BY <1>1, Fields DEF Inv, Base, TypeOK
<1>3. ~SelfTesting /\ ~SelfTesting' /\ Ordered' = Ordered
  BY <1>1 DEF SelfTesting, Ordered, Inv, Base, Phase, Flushes, Replacing
<1>4. CASE ~stored
  <2>1. memory' = memory
    BY <1>4 DEF WriteBeat, StoreBeat
  <2>2. Seen' = Seen /\ Durable' = Durable
    BY <1>1, <1>3, <2>1, Untouched
  <2> QED
    BY <1>1, <1>3, <2>2 DEF Memory!wVars
<1>5. CASE stored
  <2> DEFINE c == [tag |-> victim.tag, set |-> victim.set, word |-> beat]
  <2>1. c \in Addr /\ c.tag = victim.tag /\ c.set = victim.set /\ c.word = beat
    BY <1>2 DEF Addr
  <2>2. Present(victim.way, c.tag, c.set) /\ line[victim.way][c.set].dirty
    BY <1>1, <2>1 DEF Present, Inv, DataInv, WritebackCarriesLine
  <2> HIDE DEF c
  <2>3. Seen[c] = line[victim.way][victim.set].data[beat]
    BY <1>2, <1>3, <2>1, <2>2, SeenBoth DEF SeenFacts
  <2>4. \A a \in Addr : a # c =>
          ~(a.tag = victim.tag /\ a.set = victim.set /\ a.word = beat)
    BY <2>1 DEF Addr
  <2>5. \A a \in Addr : Durable'[a] = IF a = c THEN Seen[c] ELSE Durable[a]
    <3> TAKE a \in Addr
    <3>1. a.tag \in Tag /\ a.set \in Set /\ a.word \in Beat
      BY DEF Addr
    <3>2. memory'[a.tag][a.set][a.word] =
            IF a.tag = victim.tag /\ a.set = victim.set /\ a.word = beat
            THEN line[victim.way][victim.set].data[beat] ELSE memory[a.tag][a.set][a.word]
      <4>1. \A t \in Tag, s \in Set, b \in Beat :
              memory'[t][s][b] =
                IF stored /\ t = victim.tag /\ s = victim.set /\ b = beat
                THEN line[victim.way][victim.set].data[b] ELSE memory[t][s][b]
        BY <1>1, StoreBeatFacts DEF Inv, Base, WriteBeat
      <4> QED
        BY <1>5, <3>1, <4>1
    <3> QED
      BY <2>1, <2>3, <2>4, <3>2, SeenBoth DEF SeenFacts
  <2>6. Durable' = [Durable EXCEPT ![c] = Seen[c]]
    BY <2>1, <2>5 DEF Durable
  <2>7. \A a \in Addr : Seen'[a] = Seen[a]
    <3> TAKE a \in Addr
    <3>1. \A w \in Way : Present(w, a.tag, a.set)' <=> Present(w, a.tag, a.set)
      BY <1>1 DEF Present
    <3>2. CASE \E w \in Way : Present(w, a.tag, a.set)
      BY <1>1, <1>3, <3>1, <3>2, SeenBoth DEF SeenFacts
    <3>3. CASE ~\E w \in Way : Present(w, a.tag, a.set)
      <4>1. ~DirtyAt(a) /\ ~DirtyAt(a)'
        BY <3>1, <3>3 DEF DirtyAt
      <4>2. a # c
        BY <1>2, <2>2, <3>3
      <4> QED
        BY <2>5, <4>1, <4>2, SeenBoth DEF SeenFacts
    <3> QED
      BY <3>2, <3>3
  <2>8. Seen' = Seen
    BY <2>7, EqualMemories
  <2> QED
    BY <1>1, <1>3, <2>1, <2>6, <2>8 DEF Memory!WWriteBack
<1> QED
  BY <1>4, <1>5

LEMMA WriteResponseRefines ==
  ASSUME Inv, Inv', NEW ok \in BOOLEAN, WriteResponse(ok)
  PROVE  Memory!WFail \/ UNCHANGED Memory!wVars
<1>1. /\ victim # None /\ req # None /\ state = "WB_B" /\ maint = None
      /\ UNCHANGED <<maint, maint_error, memory>>
  BY DEF Inv, Base, Phase, VictimFits, WriteResponse, Replacing, Flushes, maintVars
<1>2. ~SelfTesting /\ ~SelfTesting' /\ Ordered' = Ordered
  BY <1>1 DEF SelfTesting, Ordered
<1>3. CASE ~ok
  <2>1. Seen' = Seen /\ Durable' = Durable
    BY <1>1, <1>2, <1>3, Untouched DEF WriteResponse
  <2> QED
    BY <1>1, <1>2, <1>3, <2>1
    DEF WriteResponse, Respond, Memory!WFail, Memory!Zero, Zero
<1>4. CASE ok
  <2> DEFINE x == victim.way
             y == victim.set
             c == [line[x][y] EXCEPT !.dirty = FALSE]
  <2>1. /\ x \in Way /\ y \in Set /\ line \in [Way -> [Set -> Line]] /\ line' = Cleaned
        /\ UNCHANGED <<req, rsp>>
    BY <1>1, <1>4, Fields DEF WriteResponse, Inv, Base, TypeOK, cpuVars
  <2>2. /\ Cleaned = [line EXCEPT ![x][y] = c]
        /\ c \in Line /\ c.valid = line[x][y].valid /\ c.tag = line[x][y].tag
        /\ c.data = line[x][y].data
    BY <1>1, CleanedFacts DEF Inv, Base
  <2> HIDE DEF x, y, c
  <2>3. /\ line'[x][y] = c
        /\ \A v \in Way, r \in Set : v # x \/ r # y => line'[v][r] = line[v][r]
    BY <2>1, <2>2, LinesType
  <2>4. \A w \in Way, s \in Set :
          /\ line'[w][s].valid = line[w][s].valid /\ line'[w][s].tag = line[w][s].tag
          /\ line'[w][s].data = line[w][s].data
    BY <2>2, <2>3
  <2>5. Seen' = Seen /\ Durable' = Durable
    BY <1>1, <1>2, <2>4, SameSeen
  <2> QED
    BY <1>1, <1>2, <2>1, <2>5 DEF Memory!wVars
<1> QED
  BY <1>3, <1>4

LEMMA RefillFinishRefines ==
  ASSUME Inv, Inv', RefillFinish
  PROVE  Memory!WFail \/ UNCHANGED Memory!wVars
<1>1. /\ state = "REFILL_FINISH" /\ maint = None /\ UNCHANGED <<maint, maint_error, memory>>
  BY DEF Inv, Base, Phase, RefillFinish, Refilling, Flushes, maintVars, axiVars
<1>2. ~SelfTesting /\ ~SelfTesting' /\ Ordered' = Ordered
  BY <1>1 DEF SelfTesting, Ordered
<1>3. /\ req # None /\ victim.way \in Way /\ victim.set \in Set /\ NewLine \in Line
      /\ victim.set = req.addr.set /\ NewLine.tag = req.addr.tag
      /\ NewLine.data = refill_buf
  BY NewLineFacts DEF Inv
<1>4. CASE refill_error
  <2>1. Seen' = Seen /\ Durable' = Durable
    BY <1>1, <1>2, <1>4, Untouched DEF RefillFinish
  <2> QED
    BY <1>1, <1>2, <1>3, <1>4, <2>1
    DEF RefillFinish, Respond, Memory!WFail, Memory!Zero, Zero
<1>5. CASE ~refill_error
  <2> DEFINE x == victim.way
             y == victim.set
  <2>1. /\ line' = [line EXCEPT ![x][y] = NewLine] /\ UNCHANGED <<req, rsp>>
        /\ line \in [Way -> [Set -> Line]]
    BY <1>5 DEF RefillFinish, NewLine, Inv, Base, TypeOK
  <2>2. NewLine.data = memory[NewLine.tag][y]
    BY <1>1, <1>3, <1>5 DEF Inv, DataInv, RefillProgress
  <2>3. line[x][y].valid => line[x][y].data = memory[line[x][y].tag][y]
    BY <1>1, <1>2, <1>3
    DEF Inv, DataInv, RefillProgress, Refilling, NeedsWriteback, CleanMatchesMemory
  <2> HIDE DEF x, y
  <2>4. /\ line'[x][y] = NewLine
        /\ \A v \in Way, r \in Set : v # x \/ r # y => line'[v][r] = line[v][r]
    BY <1>3, <2>1, LinesType DEF x, y
  <2>5. \A w \in Way, s \in Set :
          \/ /\ line'[w][s].valid = line[w][s].valid /\ line'[w][s].tag = line[w][s].tag
             /\ line'[w][s].data = line[w][s].data
          \/ /\ line[w][s].valid => line[w][s].data = memory[line[w][s].tag][s]
             /\ line'[w][s].valid => line'[w][s].data = memory[line'[w][s].tag][s]
    <3> TAKE w \in Way, s \in Set
    <3>1. CASE w = x /\ s = y
      BY <2>2, <2>3, <2>4, <3>1
    <3>2. CASE w # x \/ s # y
      BY <2>4, <3>2
    <3> QED
      BY <3>1, <3>2
  <2>6. Seen' = Seen /\ Durable' = Durable
    BY <1>1, <1>2, <2>5, SameSeen
  <2> QED
    BY <1>1, <1>2, <2>1, <2>6 DEF Memory!wVars
<1> QED
  BY <1>4, <1>5

LEMMA ResetRefines ==
  ASSUME Inv, Inv', Reset
  PROVE  Memory!WReset
<1>1. \A w \in Way, s \in Set : ~line'[w][s].valid
  BY ResetLines DEF Inv, Base
<1>2. \A a \in Addr : ~DirtyAt(a)'
  BY <1>1 DEF DirtyAt, Present, Addr
<1>3. memory' = memory /\ maint' = None
  BY DEF Reset
<1>4. Seen' = Durable' /\ Durable' = Durable
  BY <1>2, <1>3, SeenBoth, EqualMemories DEF SeenFacts
<1> QED
  BY <1>3, <1>4 DEF Reset, Memory!WReset, Ordered

(* The end of a flush that saw no error: no line is dirty any more.        *)
LEMMA FlushDone ==
  ASSUME Inv, Inv', memory' = memory, maint # None, maint.cmd \in {0, 2},
         ~maint.error, LastLine, maint' = None, Seen' = Seen,
         \A w \in Way, s \in Set : w # maint.way \/ s # maint.set =>
                                     line'[w][s] = line[w][s],
         ~line'[maint.way][maint.set].dirty
  PROVE  Durable = Seen
<1>1. \A w \in Way, s \in Set : ~line'[w][s].dirty
  <2> TAKE w \in Way, s \in Set
  <2>1. CASE w = maint.way /\ s = maint.set
    BY <2>1
  <2>2. CASE w # maint.way \/ s # maint.set
    <3>1. Passed(maint, w, s)
      BY <2>2, LastIsLast DEF Inv, Base
    <3> QED
      BY <2>2, <3>1 DEF Inv, DataInv, ScanProgress
  <2> QED
    BY <2>1, <2>2
<1>2. \A a \in Addr : ~DirtyAt(a)'
  BY <1>1 DEF DirtyAt, Addr
<1>3. Durable' = Durable
  BY EqualMemories
<1>4. \A a \in Addr : Seen'[a] = Durable'[a]
  BY <1>2, SeenBoth DEF SeenFacts
<1> QED
  BY <1>3, <1>4, EqualMemories

(* FLUSH and FLUSH_INVALIDATE pass over lines that memory already has;     *)
(* INVALIDATE lets the CPU see memory where it saw a dirty line.           *)
LEMMA ScanNextRefines ==
  ASSUME Inv, Inv', ScanNext
  PROVE  Memory!WDiscard \/ Memory!WDone \/ UNCHANGED Memory!wVars
<1> DEFINE x == maint.way
           y == maint.set
           l == [Scanned EXCEPT !.valid = FALSE]
<1>1. /\ maint # None /\ x \in Way /\ y \in Set /\ maint.error \in BOOLEAN
      /\ maint.cmd \in Command /\ Scanned = line[x][y] /\ maint.cmd # 3
      /\ NextLine(maint.error) /\ memory' = memory /\ UNCHANGED <<req, rsp>>
  BY ScanFacts DEF ScanNext, Inv, cpuVars, axiVars
<1>2. /\ line' = IF maint.cmd = 0 THEN line ELSE [line EXCEPT ![x][y] = l]
      /\ l \in Line /\ l.valid = FALSE /\ l.dirty = Scanned.dirty
  BY ScanNextLine DEF Inv
<1>3. maint.cmd # 1 => ~Scanned.dirty
  BY DEF ScanNext, MustFlush
<1>4. maint.cmd \in {0, 1, 2}
  <2>1. maint.cmd \in 0..3 /\ maint.cmd # 3
    BY <1>1, CommandAssumption
  <2> QED
    BY <2>1
<1> HIDE DEF l
<1>5. /\ line'[x][y] = IF maint.cmd = 0 THEN Scanned ELSE l
      /\ \A w \in Way, s \in Set : w # x \/ s # y => line'[w][s] = line[w][s]
  <2> HIDE DEF x, y
  <2>1. CASE maint.cmd = 0
    BY <1>1, <1>2, <2>1
  <2>2. CASE maint.cmd # 0
    <3>1. line \in [Way -> [Set -> Line]] /\ line' = [line EXCEPT ![x][y] = l]
      BY <1>2, <2>2 DEF Inv, Base, TypeOK
    <3>2. /\ line'[x][y] = l
          /\ \A w \in Way, s \in Set : w # x \/ s # y => line'[w][s] = line[w][s]
      BY <1>1, <1>2, <3>1, LinesType
    <3> QED
      BY <2>2, <3>2
  <2> QED
    BY <2>1, <2>2
<1>6. \/ LastLine /\ maint' = None /\ maint_error' = maint.error
      \/ /\ maint' # None /\ maint'.cmd = maint.cmd /\ maint_error' = maint_error
  <2>1. \A m \in Maintenance : m # None
    BY NoneAssumption
  <2> QED
    BY <1>1, <2>1, NextLineFacts DEF Inv, Base
<1>7. ~SelfTesting /\ ~SelfTesting'
  BY <1>1, <1>6 DEF SelfTesting
<1>8. Ordered = maint.cmd /\ (maint' = None => Ordered' = None)
      /\ (maint' # None => Ordered' = Ordered) /\ maint.cmd # None
  BY <1>1, <1>6, NoneAssumption DEF Ordered
<1>9. Durable' = Durable
  BY <1>1, EqualMemories
<1>10. CASE maint.cmd # 1
  <2>1. \A w \in Way, s \in Set :
          \/ /\ line'[w][s].valid = line[w][s].valid /\ line'[w][s].tag = line[w][s].tag
             /\ line'[w][s].data = line[w][s].data
          \/ /\ line[w][s].valid => line[w][s].data = memory[line[w][s].tag][s]
             /\ line'[w][s].valid => line'[w][s].data = memory[line'[w][s].tag][s]
    <3> TAKE w \in Way, s \in Set
    <3>1. CASE w = x /\ s = y
      <4>1. line[w][s].valid => line[w][s].data = memory[line[w][s].tag][s]
        BY <1>1, <1>3, <1>7, <1>10, <3>1 DEF Inv, DataInv, CleanMatchesMemory
      <4> QED
        BY <1>1, <1>2, <1>5, <3>1, <4>1
    <3>2. CASE w # x \/ s # y
      BY <1>5, <3>2
    <3> QED
      BY <3>1, <3>2
  <2>2. Seen' = Seen
    BY <1>1, <1>7, <2>1, SameSeen
  <2>3. CASE maint' # None
    BY <1>1, <1>6, <1>8, <1>9, <2>2, <2>3 DEF Memory!wVars
  <2>4. CASE maint' = None
    <3>1. LastLine /\ maint_error' = maint.error
      BY <1>6, <2>4
    <3>2. ~line'[x][y].dirty
      BY <1>2, <1>3, <1>5, <1>10
    <3>3. ~maint_error' => Durable = Seen
      BY <1>1, <1>4, <1>5, <1>10, <2>2, <2>4, <3>1, <3>2, FlushDone
    <3> QED
      BY <1>1, <1>4, <1>8, <1>9, <1>10, <2>2, <2>4, <3>1, <3>3
      DEF Memory!WDone, Memory!Discarding
  <2> QED
    BY <2>3, <2>4
<1>11. CASE maint.cmd = 1
  <2>1. ~line'[x][y].valid
    BY <1>2, <1>5, <1>11
  <2>2. CASE maint' # None
    <3>1. ASSUME NEW a \in Addr PROVE Seen'[a] \in {Seen[a], Durable[a]}
      <4>1. a.set \in Set
        BY DEF Addr
      <4>2. CASE \E w \in Way : Present(w, a.tag, a.set)'
        <5> PICK w \in Way : Present(w, a.tag, a.set)'
          BY <4>2
        <5>1. w # x \/ a.set # y
          BY <2>1 DEF Present
        <5>2. line'[w][a.set] = line[w][a.set]
          BY <1>5, <4>1, <5>1
        <5>3. Present(w, a.tag, a.set)
          BY <5>2 DEF Present
        <5> QED
          BY <1>7, <5>2, <5>3, SeenBoth DEF SeenFacts
      <4>3. CASE ~\E w \in Way : Present(w, a.tag, a.set)'
        <5>1. ~DirtyAt(a)'
          BY <4>3 DEF DirtyAt
        <5> QED
          BY <1>9, <5>1, SeenBoth DEF SeenFacts
      <4> QED
        BY <4>2, <4>3
    <3>2. DOMAIN Seen' = Addr
      BY SeenBoth DEF SeenFacts
    <3> QED
      BY <1>1, <1>6, <1>8, <1>9, <1>11, <2>2, <3>1, <3>2
      DEF Memory!WDiscard, Memory!Discarding
  <2>3. CASE maint' = None
    <3>1. LastLine /\ maint_error' = maint.error
      BY <1>6, <2>3
    <3>2. \A w \in Way, s \in Set : ~line'[w][s].valid
      <4> TAKE w \in Way, s \in Set
      <4>1. CASE w = x /\ s = y
        BY <2>1, <4>1
      <4>2. CASE w # x \/ s # y
        <5>1. Passed(maint, w, s)
          BY <1>1, <3>1, <4>2, LastIsLast DEF Inv, Base
        <5> QED
          BY <1>1, <1>5, <1>11, <4>2, <5>1 DEF Inv, DataInv, ScanProgress
      <4> QED
        BY <4>1, <4>2
    <3>3. \A a \in Addr : ~DirtyAt(a)'
      BY <3>2 DEF DirtyAt, Present, Addr
    <3>4. Seen' = Durable
      BY <1>9, <3>3, SeenBoth, EqualMemories DEF SeenFacts
    <3> QED
      BY <1>1, <1>8, <1>9, <1>11, <2>3, <3>1, <3>4
      DEF Memory!WDone, Memory!Discarding, Memory!Flushing
  <2> QED
    BY <2>2, <2>3
<1> QED
  BY <1>10, <1>11

LEMMA MaintenanceRefines ==
  ASSUME Inv, Inv', NEW ok \in BOOLEAN, MaintenanceWriteResponse(ok)
  PROVE  Memory!WDone \/ UNCHANGED Memory!wVars
<1> DEFINE x == maint.way
           y == maint.set
           l == line[x][y]
           f == FlushedLine(ok)
<1>1. /\ maint # None /\ victim # None /\ x \in Way /\ y \in Set
      /\ victim.way = x /\ victim.set = y
      /\ maint.cmd \in {0, 2} /\ MaintenanceFailed(ok) \in BOOLEAN
      /\ line' = [line EXCEPT ![x][y] = f]
      /\ f \in Line /\ f.tag = l.tag /\ f.data = l.data
      /\ f.valid = (l.valid /\ ~(ok /\ maint.cmd = 2))
      /\ f.dirty = (l.dirty /\ ~ok)
  BY MaintenanceLine DEF Inv
<1>2. /\ state = "MAINT_WB_B" /\ memory' = memory /\ UNCHANGED <<req, rsp>>
      /\ ok => ~wb_failed
      /\ NextLine(MaintenanceFailed(ok))
  BY DEF MaintenanceWriteResponse, cpuVars
<1>3. l.valid /\ l.dirty /\ (ok => l.data = memory[l.tag][y])
  <2>1. l.valid /\ l.dirty /\ l.tag = victim.tag
    BY <1>1, <1>2 DEF Inv, DataInv, WritebackCarriesLine
  <2>2. ok => memory[victim.tag][victim.set] = l.data
    BY <1>1, <1>2 DEF Inv, DataInv, WriteProgress
  <2> QED
    BY <1>1, <2>1, <2>2
<1> HIDE DEF f
<1>4. /\ line'[x][y] = f
      /\ \A w \in Way, s \in Set : w # x \/ s # y => line'[w][s] = line[w][s]
  BY <1>1, LinesType DEF Inv, Base, TypeOK
<1>5. \/ LastLine /\ maint' = None /\ maint_error' = MaintenanceFailed(ok)
      \/ /\ maint' # None /\ maint'.cmd = maint.cmd /\ maint_error' = maint_error
  <2>1. \A m \in Maintenance : m # None
    BY NoneAssumption
  <2> QED
    BY <1>1, <1>2, <2>1, NextLineFacts DEF Inv, Base
<1>6. ~SelfTesting /\ ~SelfTesting'
  BY <1>1, <1>5 DEF SelfTesting
<1>7. Ordered = maint.cmd /\ (maint' = None => Ordered' = None)
      /\ (maint' # None => Ordered' = Ordered) /\ maint.cmd # None
  <2>1. maint.cmd \in Command
    BY <1>1, Fields DEF Inv, Base
  <2> QED
    BY <1>1, <1>5, <2>1, NoneAssumption DEF Ordered
<1>8. \A w \in Way, s \in Set :
        \/ /\ line'[w][s].valid = line[w][s].valid /\ line'[w][s].tag = line[w][s].tag
           /\ line'[w][s].data = line[w][s].data
        \/ /\ line[w][s].valid => line[w][s].data = memory[line[w][s].tag][s]
           /\ line'[w][s].valid => line'[w][s].data = memory[line'[w][s].tag][s]
  <2> TAKE w \in Way, s \in Set
  <2>1. CASE w = x /\ s = y
    BY <1>1, <1>3, <1>4, <2>1
  <2>2. CASE w # x \/ s # y
    BY <1>4, <2>2
  <2> QED
    BY <2>1, <2>2
<1>9. Seen' = Seen /\ Durable' = Durable
  BY <1>2, <1>6, <1>8, SameSeen
<1>10. CASE maint' # None
  BY <1>2, <1>5, <1>7, <1>9, <1>10 DEF Memory!wVars
<1>11. CASE maint' = None
  <2>1. LastLine /\ maint_error' = MaintenanceFailed(ok)
    BY <1>5, <1>11
  <2>2. ~maint_error' => ok /\ ~maint.error
    BY <2>1 DEF MaintenanceFailed
  <2>3. ok => ~line'[x][y].dirty
    BY <1>1, <1>4
  <2>4. ~maint_error' => Durable = Seen
    BY <1>1, <1>2, <1>4, <1>9, <1>11, <2>1, <2>2, <2>3, FlushDone
  <2> QED
    BY <1>1, <1>2, <1>7, <1>9, <1>11, <2>1, <2>4 DEF Memory!WDone, Memory!Discarding
<1> QED
  BY <1>10, <1>11

(* During the self-test the CPU, which waits, sees memory.                 *)
LEMMA BistRefines ==
  ASSUME Inv, Inv', Bist
  PROVE  Memory!WDiscard \/ Memory!WDone \/ UNCHANGED Memory!wVars
<1>1. /\ maint # None /\ maint.cmd = 3 /\ maint.phase \in 0..4
      /\ maint.cmd \in Command /\ memory' = memory /\ UNCHANGED <<req, rsp>>
      /\ maint.way \in Way /\ maint.set \in Set
      /\ Scanned = line[maint.way][maint.set] /\ state = "MAINT_SCAN" /\ BistNext
  BY ScanFacts DEF Bist, Inv, cpuVars, axiVars
<1>2. /\ maint_error' \in BOOLEAN
      /\ \/ maint.phase = 4 /\ maint' = None
         \/ /\ maint_error' = maint_error /\ maint' # None /\ maint'.cmd = maint.cmd
            /\ maint'.phase \in {maint.phase, maint.phase + 1}
  <2>1. \A m \in Maintenance : m # None
    BY NoneAssumption
  <2> QED
    BY <1>1, <2>1, BistFacts DEF Inv, Base
<1>3. Ordered = 3 /\ (maint' = None => Ordered' = None)
      /\ (maint' # None => Ordered' = Ordered) /\ Ordered # None
  BY <1>1, <1>2, NoneAssumption DEF Ordered
<1>4. Durable' = Durable
  BY <1>1, EqualMemories
<1>5. SelfTesting => Seen = Durable
  BY SeenBoth, EqualMemories DEF SeenFacts
<1>6. CASE maint' = None
  <2>1. \A w \in Way, s \in Set : line'[w][s].valid => ~line'[w][s].dirty
    <3> SUFFICES ASSUME NEW w \in Way, NEW s \in Set PROVE ~line'[w][s].dirty
      OBVIOUS
    <3>1. /\ LastLine /\ maint.phase = 4 /\ maint.word = Beats - 1
      BY <1>1, <1>6, NoneAssumption, BistFacts DEF Inv, Base
    <3>2. CASE w = maint.way /\ s = maint.set
      BY <1>1, <3>1, <3>2, BistStepLine, BistLineFacts DEF Inv, Base
    <3>3. CASE w # maint.way \/ s # maint.set
      <4>1. Passed(maint, w, s)
        BY <1>1, <3>1, <3>3, LastIsLast DEF Inv, Base
      <4> QED
        BY <1>1, <3>1, <3>3, <4>1, BistStepLine DEF Inv, DataInv, ScanProgress
    <3> QED
      BY <3>2, <3>3
  <2>2. \A a \in Addr : ~DirtyAt(a)'
    BY <2>1 DEF DirtyAt, Present, Addr
  <2>3. Seen' = Durable
    BY <1>4, <2>2, SeenBoth, EqualMemories DEF SeenFacts
  <2> QED
    BY <1>1, <1>2, <1>3, <1>4, <1>6, <2>3
    DEF Memory!WDone, Memory!Discarding, Memory!Flushing
<1>7. CASE maint' # None /\ maint'.phase # 0
  <2>1. Seen' = Durable
    <3>1. SelfTesting'
      BY <1>1, <1>2, <1>7 DEF SelfTesting
    <3> QED
      BY <1>4, <3>1, SeenBoth, EqualMemories DEF SeenFacts
  <2>2. DOMAIN Seen' = Addr /\ \A a \in Addr : Seen'[a] \in {Seen[a], Durable[a]}
    BY <2>1, SeenBoth DEF SeenFacts
  <2> QED
    BY <1>1, <1>2, <1>3, <1>4, <1>7, <2>2 DEF Memory!WDiscard, Memory!Discarding
<1>8. CASE maint' # None /\ maint'.phase = 0
  <2>1. maint.phase = 0
    BY <1>1, <1>2, <1>8
  <2>2. BistLine = Scanned
    BY <1>1, <2>1, BistLineFacts DEF Inv, Base
  <2>3. line' = line
    BY <1>1, <2>2 DEF Bist, Inv, Base, TypeOK
  <2>4. Seen' = Seen
    BY <1>1, <1>8, <2>1, <2>3, Untouched DEF SelfTesting
  <2> QED
    BY <1>1, <1>2, <1>3, <1>4, <1>8, <2>4 DEF Memory!wVars
<1> QED
  BY <1>6, <1>7, <1>8

LEMMA NextRefines ==
  ASSUME Inv, Inv', [Next]_vars
  PROVE  [Memory!WNext]_Memory!wVars
BY AcceptRefines, ResetRefines, AnswerRefines, HitRefines, HiddenRefines,
   WriteBeatRefines, WriteResponseRefines, MaintenanceRefines, RefillFinishRefines,
   ScanNextRefines, BistRefines
DEF Next, Step, Serve, Memory!WNext

(* The cache in front of its AXI memory implements a memory with atomic    *)
(* requests: across failed bursts, maintenance, self-tests and resets, a   *)
(* request is performed once or fails without an effect, and a flush that  *)
(* reports no error has brought all of memory up to date.                  *)
THEOREM Refinement ==
  ASSUME SafeCommands
  PROVE  Spec => RefinesWriteBackMemory
<1>1. Inv /\ Inv' /\ [Next]_vars => [Memory!WNext]_Memory!wVars
  BY NextRefines
<1>2. Init => Memory!WInit
  BY InitRefines
<1>3. Spec => []Inv
  BY Data DEF Inv
<1> QED
  BY <1>1, <1>2, <1>3, PTL DEF Spec, RefinesWriteBackMemory, Memory!WSpec

=============================================================================
