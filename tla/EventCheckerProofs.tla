------------------------- MODULE EventCheckerProofs -------------------------
(***************************************************************************)
(* Proofs about EventChecker, for every number of sets, tags and words,    *)
(* every set of values and any number of open stores and responses.        *)
(***************************************************************************)
EXTENDS EventChecker, TLAPS

USE DEF Depth

LEMMA OtherHart == ASSUME NEW h \in Hart
                   PROVE  Other(h) \in Hart /\ Other(h) # h /\ Other(Other(h)) = h
  BY DEF Other, Hart

LEMMA AtMostDepth == \A n \in Nat : n <= 2 => n \in 0..2 /\ (n >= 2 => n = 2)
  OBVIOUS

LEMMA EmptyIsTyped == EmptyLines \in [Hart -> [Set -> Line]]
  BY ValueAssumption, TagAssumption DEF EmptyLines, Line

(* The lines and the memory a request leaves have their types.             *)
LEMMA RequestTyped ==
  ASSUME TypeOK, NEW h \in Hart, NEW a \in Addr, NEW write \in BOOLEAN, NEW v \in Value
  PROVE  /\ Committed(h, a) \in [Addr -> Value]
         /\ Filled(h, a) \in [Word -> Value]
         /\ LocalLine(h, a, write, v) \in Line
         /\ RemoteLine(h, a, write) \in Line
<1>1. Other(h) \in Hart /\ a.set \in Set /\ a.tag \in Tag /\ a.word \in Word
  BY OtherHart DEF Addr
<1>2. lines[h][a.set] \in Line /\ lines[Other(h)][a.set] \in Line
  BY <1>1 DEF TypeOK
<1>3. ASSUME NEW m \in [Addr -> Value], NEW line \in Line
      PROVE  WriteBack(m, a.set, line) \in [Addr -> Value]
  BY <1>1 DEF WriteBack, Line, Addr
<1>4. Committed(h, a) \in [Addr -> Value]
  BY <1>2, <1>3 DEF Committed, TypeOK
<1>5. \A w \in Word : [a EXCEPT !.word = w] \in Addr
  BY DEF Addr
<1>6. Filled(h, a) \in [Word -> Value]
  BY <1>2, <1>4, <1>5 DEF Filled, Line
<1>7. LocalLine(h, a, write, v) \in Line
  BY <1>1, <1>2, <1>6 DEF LocalLine, Line
<1>8. RemoteLine(h, a, write) \in Line
  BY <1>2 DEF RemoteLine, Line
<1> QED
  BY <1>4, <1>6, <1>7, <1>8

(* The replay keeps its variables typed and its store buffers within their *)
(* depth, whatever rows it is given.                                       *)
THEOREM TypeCorrect == Spec => []TypeOK
<1>1. ASSUME Init PROVE TypeOK
  <2>1. lines \in [Hart -> [Set -> Line]] /\ memory \in [Addr -> Value]
    BY <1>1, EmptyIsTyped, ValueAssumption DEF Init
  <2>2. /\ store_buffer \in [Hart -> Seq(Entry)] /\ pending \in [Hart -> Seq(Owed)]
        /\ \A h \in Hart : Len(store_buffer[h]) <= Depth
    BY <1>1 DEF Init
  <2> QED
    BY <1>1, <2>1, <2>2 DEF Init, TypeOK, Verdict
<1>2. TypeOK /\ [Next]_vars => TypeOK'
  <2> SUFFICES ASSUME TypeOK, [Next]_vars PROVE TypeOK'
    OBVIOUS
  <2> USE DEF TypeOK, Verdict, Row, Replaying, Expect
  <2>1. CASE reset
    BY <2>1, EmptyIsTyped DEF reset
  <2>2. CASE finish
    BY <2>2 DEF finish
  <2>3. ASSUME NEW a \in Addr, NEW v \in Value, memory_init(a, v) PROVE TypeOK'
    BY <2>3 DEF memory_init
  <2>4. ASSUME NEW a \in Addr, NEW v \in Value, final_backing(a, v) PROVE TypeOK'
    BY <2>4 DEF final_backing
  <2>5. ASSUME NEW a \in Addr, NEW v \in Value, NEW h \in Hart, NEW n \in 1..Depth,
               enqueue(h, a, v, n)
        PROVE TypeOK'
    <3>1. [addr |-> a, data |-> v] \in Entry
      BY DEF Entry
    <3>2. /\ Append(store_buffer[h], [addr |-> a, data |-> v]) \in Seq(Entry)
          /\ Len(Append(store_buffer[h], [addr |-> a, data |-> v])) = Len(store_buffer[h]) + 1
      BY <3>1
    <3>3. store_buffer' \in [Hart -> Seq(Entry)] /\ \A g \in Hart : Len(store_buffer'[g]) <= Depth
      <4>1. \A g \in Hart : store_buffer[g] \in Seq(Entry) /\ Len(store_buffer[g]) \in Nat
        OBVIOUS
      <4>2. store_buffer' \in [Hart -> Seq(Entry)]
        BY <2>5, <3>2 DEF enqueue
      <4>3. \A g \in Hart : g # h => store_buffer'[g] = store_buffer[g]
        BY <2>5 DEF enqueue
      <4>4. Len(store_buffer'[h]) <= Depth
        BY <2>5, <3>2, <4>1 DEF enqueue
      <4> QED
        BY <4>2, <4>3, <4>4
    <3> QED
      BY <2>5, <3>3 DEF enqueue
  <2>6. ASSUME NEW a \in Addr, NEW v \in Value, NEW h \in Hart, NEW b \in BOOLEAN,
               drain(h, a, v, b)
        PROVE TypeOK'
    <3>1. store_buffer[h] # <<>> => /\ Tail(store_buffer[h]) \in Seq(Entry)
                                    /\ Len(Tail(store_buffer[h])) <= Len(store_buffer[h])
      OBVIOUS
    <3>2. store_buffer' \in [Hart -> Seq(Entry)] /\ \A g \in Hart : Len(store_buffer'[g]) <= Depth
      <4>1. \A g \in Hart : store_buffer[g] \in Seq(Entry) /\ Len(store_buffer[g]) \in Nat
        OBVIOUS
      <4>2. store_buffer' \in [Hart -> Seq(Entry)]
        BY <2>6, <3>1 DEF drain
      <4>3. \A g \in Hart : g # h => store_buffer'[g] = store_buffer[g]
        BY <2>6 DEF drain
      <4>4. Len(store_buffer'[h]) <= Depth
        BY <2>6, <3>1, <4>1 DEF drain
      <4> QED
        BY <4>2, <4>3, <4>4
    <3> QED
      BY <2>6, <3>2 DEF drain
  <2>7. ASSUME NEW a \in Addr, NEW v \in Value, NEW h \in Hart, NEW b \in BOOLEAN,
               request(h, a, b, v)
        PROVE TypeOK'
    <3>1. /\ a.set \in Set /\ a.word \in Word /\ Other(h) \in Hart
          /\ Committed(h, a) \in [Addr -> Value]
          /\ LocalLine(h, a, b, v) \in Line /\ RemoteLine(h, a, b) \in Line
      BY RequestTyped, OtherHart DEF Addr
    <3>2. lines' \in [Hart -> [Set -> Line]]
      BY <2>7, <3>1 DEF request
    <3>3. [write |-> b, expected |-> LocalLine(h, a, b, v).data[a.word]] \in Owed
      BY <3>1 DEF Owed, Line
    <3>4. pending' \in [Hart -> Seq(Owed)]
      <4>1. Append(pending[h], [write |-> b, expected |-> LocalLine(h, a, b, v).data[a.word]])
              \in Seq(Owed)
        BY <3>3
      <4> QED
        BY <2>7, <4>1 DEF request
    <3> QED
      BY <2>7, <3>1, <3>2, <3>4 DEF request
  <2>8. ASSUME NEW a \in Addr, NEW v \in Value, NEW h \in Hart, forward(h, a, v)
        PROVE TypeOK'
    BY <2>8 DEF forward
  <2>9. ASSUME NEW a \in Addr, NEW v \in Value, NEW h \in Hart,
               NEW s \in {"I", "S", "M"}, final_line(h, a, s, v)
        PROVE TypeOK'
    BY <2>9 DEF final_line, FinalMismatch
  <2>10. ASSUME NEW h \in Hart, NEW v \in Value, NEW b \in BOOLEAN, response(h, v, b)
         PROVE TypeOK'
    <3>1. pending[h] # <<>> => Tail(pending[h]) \in Seq(Owed)
      OBVIOUS
    <3> QED
      BY <2>10, <3>1 DEF response
  <2>11. CASE UNCHANGED vars
    BY <2>11 DEF vars
  <2> QED
    BY <2>1, <2>2, <2>3, <2>4, <2>5, <2>6, <2>7, <2>8, <2>9, <2>10, <2>11 DEF Next
<1> QED
  BY <1>1, <1>2, PTL DEF Spec

-----------------------------------------------------------------------------
(* Word w of the line with the given tag in the set of a.                  *)
WordOf(a, tag, w) == [set |-> a.set, tag |-> tag, word |-> w]

(* Writing a line back changes its own words only.                         *)
LEMMA WriteBackWords ==
  ASSUME NEW m \in [Addr -> Value], NEW s \in Set, NEW line \in Line, NEW b \in Addr
  PROVE  /\ line.state = "M" /\ b.set = s /\ b.tag = line.tag
              => WriteBack(m, s, line)[b] = line.data[b.word]
         /\ ~(line.state = "M" /\ b.set = s /\ b.tag = line.tag)
              => WriteBack(m, s, line)[b] = m[b]
         /\ WriteBack(m, s, line) \in [Addr -> Value]
<1>1. \A c \in Addr : c.word \in Word
  BY DEF Addr
<1> QED
  BY <1>1 DEF WriteBack, Line

(* What a request commits: on a miss, the victim, then the remote copy.    *)
LEMMA CommittedWords ==
  ASSUME TypeOK, NEW h \in Hart, NEW a \in Addr, NEW b \in Addr
  PROVE  LET local == lines[h][a.set]  remote == lines[Other(h)][a.set]
         IN  Committed(h, a)[b] =
               IF Hit(local, a) \/ b.set # a.set THEN memory[b]
               ELSE IF Hit(remote, a) /\ remote.state = "M" /\ b.tag = a.tag
                    THEN remote.data[b.word]
               ELSE IF local.state = "M" /\ b.tag = local.tag THEN local.data[b.word]
               ELSE memory[b]
<1> DEFINE local == lines[h][a.set]
           remote == lines[Other(h)][a.set]
           victim == WriteBack(memory, a.set, local)
<1>1. a.set \in Set /\ local \in Line /\ remote \in Line /\ memory \in [Addr -> Value]
  BY OtherHart DEF TypeOK, Addr
<1>2. /\ local.state = "M" /\ b.set = a.set /\ b.tag = local.tag
           => victim[b] = local.data[b.word]
      /\ ~(local.state = "M" /\ b.set = a.set /\ b.tag = local.tag) => victim[b] = memory[b]
      /\ victim \in [Addr -> Value]
  BY <1>1, WriteBackWords
<1>3. /\ remote.state = "M" /\ b.set = a.set /\ b.tag = remote.tag
           => WriteBack(victim, a.set, remote)[b] = remote.data[b.word]
      /\ ~(remote.state = "M" /\ b.set = a.set /\ b.tag = remote.tag)
           => WriteBack(victim, a.set, remote)[b] = victim[b]
  BY <1>1, <1>2, WriteBackWords
<1> HIDE DEF local, remote, victim
<1>4. Committed(h, a) = IF Hit(local, a) THEN memory
                        ELSE IF Hit(remote, a) THEN WriteBack(victim, a.set, remote)
                        ELSE victim
  BY DEF Committed, local, remote, victim
<1>5. Committed(h, a)[b] =
        IF Hit(local, a) \/ b.set # a.set THEN memory[b]
        ELSE IF Hit(remote, a) /\ remote.state = "M" /\ b.tag = a.tag
             THEN remote.data[b.word]
        ELSE IF local.state = "M" /\ b.tag = local.tag THEN local.data[b.word]
        ELSE memory[b]
  BY <1>2, <1>3, <1>4 DEF Hit
<1> QED
  BY <1>5 DEF local, remote

(* The two lines a request leaves in its set agree with each other and     *)
(* with memory, and other sets of memory are untouched.                    *)
LEMMA RequestCoherent ==
  ASSUME TypeOK, ReferenceCoherent,
         NEW h \in Hart, NEW a \in Addr, NEW write \in BOOLEAN, NEW v \in Value
  PROVE  LET L == LocalLine(h, a, write, v)  R == RemoteLine(h, a, write)
         IN  /\ L.state # "I" /\ L.tag = a.tag
             /\ L.state = "M" /\ R.state # "I" => R.tag # a.tag
             /\ R.state = "M" => R.tag # a.tag
             /\ L.state = "S" => \A w \in Word :
                  L.data[w] = Committed(h, a)[WordOf(a, L.tag, w)]
             /\ R.state = "S" => \A w \in Word :
                  R.data[w] = Committed(h, a)[WordOf(a, R.tag, w)]
             /\ \A b \in Addr : b.set # a.set => Committed(h, a)[b] = memory[b]
<1> DEFINE local == lines[h][a.set]
           remote == lines[Other(h)][a.set]
           L == LocalLine(h, a, write, v)
           R == RemoteLine(h, a, write)
<1>1. /\ a.set \in Set /\ a.tag \in Tag /\ Other(h) \in Hart
      /\ local \in Line /\ remote \in Line
  BY OtherHart DEF TypeOK, Addr
<1>2. /\ local.state = "M" /\ remote.state # "I" => remote.tag # local.tag
      /\ remote.state = "M" /\ local.state # "I" => remote.tag # local.tag
      /\ local.state = "S" => \A w \in Word : local.data[w] = memory[WordOf(a, local.tag, w)]
      /\ remote.state = "S" => \A w \in Word : remote.data[w] = memory[WordOf(a, remote.tag, w)]
  BY <1>1, OtherHart DEF ReferenceCoherent, WordOf
<1>3. ASSUME NEW b \in Addr
      PROVE  Committed(h, a)[b] =
               IF Hit(local, a) \/ b.set # a.set THEN memory[b]
               ELSE IF Hit(remote, a) /\ remote.state = "M" /\ b.tag = a.tag
                    THEN remote.data[b.word]
               ELSE IF local.state = "M" /\ b.tag = local.tag THEN local.data[b.word]
               ELSE memory[b]
  BY CommittedWords
<1>4. ASSUME NEW t \in Tag, NEW w \in Word
      PROVE  /\ WordOf(a, t, w) \in Addr /\ WordOf(a, t, w).set = a.set
             /\ WordOf(a, t, w).tag = t /\ WordOf(a, t, w).word = w
  BY <1>1 DEF WordOf, Addr
<1>5. ASSUME NEW w \in Word PROVE [a EXCEPT !.word = w] = WordOf(a, a.tag, w)
  BY DEF WordOf, Addr
<1>6. L.tag = a.tag /\ L.state = IF write THEN "M" ELSE IF Hit(local, a) THEN local.state ELSE "S"
  BY DEF LocalLine
<1>7. /\ R.tag = remote.tag /\ R.data = remote.data
      /\ R.state = IF Hit(remote, a) /\ write THEN "I"
                   ELSE IF Hit(remote, a) /\ ~Hit(local, a) THEN "S" ELSE remote.state
  BY <1>1 DEF RemoteLine, Line
<1>8. ~write => L.data = Filled(h, a)
  BY DEF LocalLine
<1> HIDE DEF L, R
<1>9. L.state # "I" /\ L.tag = a.tag
  BY <1>6 DEF Hit
<1>10. L.state = "M" /\ R.state # "I" => R.tag # a.tag
  BY <1>1, <1>2, <1>6, <1>7 DEF Hit, Line
<1>11. R.state = "M" => R.tag # a.tag
  BY <1>1, <1>2, <1>6, <1>7 DEF Hit, Line
<1>12. ASSUME L.state = "S", NEW w \in Word
       PROVE  L.data[w] = Committed(h, a)[WordOf(a, L.tag, w)]
  <2>1. ~write /\ L.data = Filled(h, a)
    BY <1>6, <1>8, <1>12
  <2> DEFINE word == WordOf(a, a.tag, w)
  <2>2. word \in Addr /\ word.set = a.set /\ word.tag = a.tag /\ word.word = w
    BY <1>1, <1>4
  <2>3. CASE Hit(local, a)
    <3>1. local.state = "S" /\ local.tag = a.tag /\ Filled(h, a) = local.data
      BY <2>1, <2>3, <1>6, <1>12 DEF Hit, Filled
    <3> QED
      BY <2>1, <2>2, <2>3, <3>1, <1>2, <1>3, <1>6
  <2>4. CASE ~Hit(local, a) /\ Hit(remote, a)
    <3>1. Filled(h, a) = remote.data /\ remote.tag = a.tag /\ remote.state \in {"S", "M"}
      BY <1>1, <2>4 DEF Hit, Filled, Line
    <3>2. Committed(h, a)[word] = remote.data[w]
      BY SMTT(30), <2>2, <2>4, <3>1, <1>2, <1>3 DEF Hit
    <3> QED
      BY <2>1, <3>1, <3>2, <1>6
  <2>5. CASE ~Hit(local, a) /\ ~Hit(remote, a)
    <3>1. Filled(h, a)[w] = Committed(h, a)[[a EXCEPT !.word = w]]
      BY <2>5 DEF Filled
    <3> QED
      BY <2>1, <3>1, <1>5, <1>6
  <2> QED
    BY <2>3, <2>4, <2>5
<1>13. ASSUME R.state = "S", NEW w \in Word
       PROVE  R.data[w] = Committed(h, a)[WordOf(a, R.tag, w)]
  <2> DEFINE word == WordOf(a, remote.tag, w)
  <2>1. word \in Addr /\ word.set = a.set /\ word.tag = remote.tag /\ word.word = w
    BY <1>1, <1>4 DEF Line
  <2>2. CASE Hit(local, a)
    <3>1. remote.state = "S"
      BY <2>2, <1>7, <1>13
    <3>2. Committed(h, a)[word] = memory[word]
      BY <2>1, <2>2, <1>3
    <3> QED
      BY <3>1, <3>2, <1>2, <1>7
  <2>3. CASE ~Hit(local, a) /\ Hit(remote, a)
    <3>1. remote.tag = a.tag /\ remote.state \in {"S", "M"}
      BY <1>1, <2>3 DEF Hit, Line
    <3> QED
      BY SMTT(30), <2>1, <2>3, <3>1, <1>2, <1>3, <1>7 DEF Hit
  <2>4. CASE ~Hit(local, a) /\ ~Hit(remote, a)
    <3>1. remote.state = "S"
      BY <2>4, <1>7, <1>13
    <3>2. local.state = "M" => remote.tag # local.tag
      BY <3>1, <1>2
    <3>3. Committed(h, a)[word] = memory[word]
      BY <2>1, <2>4, <3>2, <1>3
    <3> QED
      BY <3>1, <3>3, <1>2, <1>7
  <2> QED
    BY <2>2, <2>3, <2>4
<1>14. \A b \in Addr : b.set # a.set => Committed(h, a)[b] = memory[b]
  BY <1>3
<1> QED
  BY <1>9, <1>10, <1>11, <1>12, <1>13, <1>14 DEF L, R

(* The reference caches are coherent after every row the bench can write,  *)
(* so the ownership check of the replay never reports anything.            *)
THEOREM Coherence == Spec => []ReferenceCoherent
<1>1. ASSUME Init PROVE ReferenceCoherent
  <2>1. \A h \in Hart, s \in Set : lines[h][s].state = "I"
    BY <1>1 DEF Init, EmptyLines
  <2>2. first_mismatch # "ownership"
    BY <1>1 DEF Init
  <2> QED
    BY <2>1, <2>2, OtherHart DEF ReferenceCoherent
<1>2. TypeOK /\ ReferenceCoherent /\ [Next]_vars => ReferenceCoherent'
  <2> SUFFICES ASSUME TypeOK, ReferenceCoherent, [Next]_vars PROVE ReferenceCoherent'
    OBVIOUS
  <2> USE DEF Row, Replaying, Expect
  <2>1. CASE reset
    BY <2>1, OtherHart DEF reset, ReferenceCoherent, EmptyLines
  <2>2. ASSUME UNCHANGED <<lines, memory>>, first_mismatch' # "ownership"
        PROVE  ReferenceCoherent'
    BY <2>2, OtherHart DEF ReferenceCoherent
  <2>3. CASE finish
    BY <2>2, <2>3 DEF finish
  <2>4. ASSUME NEW a \in Addr, NEW v \in Value, memory_init(a, v) PROVE ReferenceCoherent'
    BY <2>4, OtherHart DEF memory_init, ReferenceCoherent
  <2>5. ASSUME NEW a \in Addr, NEW v \in Value, final_backing(a, v) PROVE ReferenceCoherent'
    BY <2>2, <2>5 DEF final_backing
  <2>6. ASSUME NEW a \in Addr, NEW v \in Value, NEW h \in Hart, NEW n \in 1..Depth,
               enqueue(h, a, v, n)
        PROVE ReferenceCoherent'
    BY <2>2, <2>6 DEF enqueue
  <2>7. ASSUME NEW a \in Addr, NEW v \in Value, NEW h \in Hart, NEW b \in BOOLEAN,
               drain(h, a, v, b)
        PROVE ReferenceCoherent'
    BY <2>2, <2>7 DEF drain
  <2>8. ASSUME NEW a \in Addr, NEW v \in Value, NEW h \in Hart, NEW b \in BOOLEAN,
               request(h, a, b, v)
        PROVE ReferenceCoherent'
    <3> DEFINE local == LocalLine(h, a, b, v)
               remote == RemoteLine(h, a, b)
    <3>1. /\ local.state # "I" /\ local.tag = a.tag
          /\ local.state = "M" /\ remote.state # "I" => remote.tag # a.tag
          /\ remote.state = "M" => remote.tag # a.tag
          /\ local.state = "S" => \A w \in Word :
               local.data[w] = memory'[[set |-> a.set, tag |-> local.tag, word |-> w]]
          /\ remote.state = "S" => \A w \in Word :
               remote.data[w] = memory'[[set |-> a.set, tag |-> remote.tag, word |-> w]]
          /\ \A c \in Addr : c.set # a.set => memory'[c] = memory[c]
      BY <2>8, RequestCoherent DEF request, WordOf
    <3>2. local \in Line /\ remote \in Line /\ a.set \in Set
      BY RequestTyped DEF Addr
    <3>3. Other(h) \in Hart /\ Other(h) # h /\ Other(Other(h)) = h
      BY OtherHart
    <3>4. lines' = [lines EXCEPT ![h][a.set] = local, ![Other(h)][a.set] = remote]
      BY <2>8 DEF request
    <3> HIDE DEF local, remote
    <3>5. /\ lines'[h][a.set] = local /\ lines'[Other(h)][a.set] = remote
          /\ \A g \in Hart, s \in Set : s # a.set => lines'[g][s] = lines[g][s]
      BY <3>2, <3>3, <3>4 DEF TypeOK
    <3>6. ASSUME NEW s \in Set, NEW g \in Hart
          PROVE  /\ lines'[g][s].state = "M" /\ lines'[Other(g)][s].state # "I"
                      => lines'[Other(g)][s].tag # lines'[g][s].tag
                 /\ lines'[g][s].state = "S" => \A w \in Word :
                      lines'[g][s].data[w]
                        = memory'[[set |-> s, tag |-> lines'[g][s].tag, word |-> w]]
      <4>1. CASE s = a.set /\ g = h
        BY <4>1, <3>1, <3>5
      <4>2. CASE s = a.set /\ g = Other(h)
        BY <4>2, <3>1, <3>3, <3>5
      <4>3. CASE s # a.set
        <5>1. Other(g) \in Hart
          BY OtherHart
        <5>2. lines'[g][s] = lines[g][s] /\ lines'[Other(g)][s] = lines[Other(g)][s]
          BY <4>3, <5>1, <3>5
        <5>3. lines[g][s].tag \in Tag
          BY DEF TypeOK, Line
        <5>4. ASSUME NEW w \in Word
              PROVE  memory'[[set |-> s, tag |-> lines[g][s].tag, word |-> w]]
                       = memory[[set |-> s, tag |-> lines[g][s].tag, word |-> w]]
          BY <4>3, <5>3, <3>1 DEF Addr
        <5> QED
          BY <5>2, <5>4 DEF ReferenceCoherent
      <4> QED
        BY <4>1, <4>2, <4>3 DEF Other, Hart
    <3>7. ~Conflict(lines'[0][a.set], lines'[1][a.set], a.tag)
      <4>1. \A g \in Hart : lines'[g][a.set].state = "M" /\ lines'[Other(g)][a.set].state # "I"
                               => lines'[Other(g)][a.set].tag # lines'[g][a.set].tag
        BY <3>2, <3>6
      <4>2. 0 \in Hart /\ 1 \in Hart /\ Other(0) = 1 /\ Other(1) = 0
        BY DEF Hart, Other
      <4> QED
        BY <4>1, <4>2 DEF Conflict
    <3>8. first_mismatch' # "ownership"
      BY <2>8, <3>7 DEF request
    <3> QED
      BY <3>6, <3>8 DEF ReferenceCoherent
  <2>9. ASSUME NEW a \in Addr, NEW v \in Value, NEW h \in Hart, forward(h, a, v)
        PROVE ReferenceCoherent'
    BY <2>2, <2>9 DEF forward
  <2>10. ASSUME NEW a \in Addr, NEW v \in Value, NEW h \in Hart,
                NEW s \in {"I", "S", "M"}, final_line(h, a, s, v)
         PROVE ReferenceCoherent'
    BY <2>2, <2>10 DEF final_line, FinalMismatch
  <2>11. ASSUME NEW h \in Hart, NEW v \in Value, NEW b \in BOOLEAN, response(h, v, b)
         PROVE ReferenceCoherent'
    BY <2>2, <2>11 DEF response
  <2>12. CASE UNCHANGED vars
    BY <2>2, <2>12 DEF vars, ReferenceCoherent
  <2> QED
    BY <2>1, <2>3, <2>4, <2>5, <2>6, <2>7, <2>8, <2>9, <2>10, <2>11, <2>12 DEF Next
<1> QED
  BY <1>1, <1>2, TypeCorrect, PTL DEF Spec

-----------------------------------------------------------------------------
(* Visible and ReferenceCoherent, of any lines and memory, so that the     *)
(* lemmas below serve the state after a step too.                          *)
Modified(line, a) == line.state = "M" /\ line.tag = a.tag

Seen(ls, m, a) ==
  IF \E h \in Hart : Modified(ls[h][a.set], a)
  THEN ls[CHOOSE h \in Hart : Modified(ls[h][a.set], a)][a.set].data[a.word]
  ELSE m[a]

CoherentLines(ls, m) ==
  \A s \in Set, h \in Hart :
    LET line == ls[h][s]  other == ls[Other(h)][s]
    IN  /\ line.state = "M" /\ other.state # "I" => other.tag # line.tag
        /\ line.state = "S" => \A w \in Word :
             line.data[w] = m[[set |-> s, tag |-> line.tag, word |-> w]]

LEMMA VisibleIsSeen ==
  /\ Visible = [a \in Addr |-> Seen(lines, memory, a)]
  /\ Visible' = [a \in Addr |-> Seen(lines', memory', a)]
BY DEF Visible, Seen, Modified

LEMMA CoherentNowAndNext ==
  /\ ReferenceCoherent => CoherentLines(lines, memory)
  /\ ReferenceCoherent' => CoherentLines(lines', memory')
BY DEF ReferenceCoherent, CoherentLines

LEMMA VisibleUnchanged == ASSUME UNCHANGED <<lines, memory>> PROVE Visible' = Visible
BY DEF Visible

(* A valid copy holds what is seen of its words.                           *)
LEMMA CachedIsSeen ==
  ASSUME NEW ls, NEW m, CoherentLines(ls, m), NEW a \in Addr, NEW h \in Hart,
         ls[h][a.set].state \in {"S", "M"}, ls[h][a.set].tag = a.tag
  PROVE  Seen(ls, m, a) = ls[h][a.set].data[a.word]
<1>1. /\ a.set \in Set /\ a.word \in Word
      /\ a = [set |-> a.set, tag |-> a.tag, word |-> a.word]
  BY DEF Addr
<1>2. Other(h) \in Hart /\ Other(Other(h)) = h /\ \A g \in Hart : g = h \/ g = Other(h)
  BY OtherHart DEF Other, Hart
<1>3. ~Modified(ls[Other(h)][a.set], a)
  BY <1>1, <1>2 DEF CoherentLines, Modified
<1>4. CASE ls[h][a.set].state = "M"
  <2>1. \A g \in Hart : Modified(ls[g][a.set], a) <=> g = h
    BY <1>2, <1>3, <1>4 DEF Modified
  <2> QED
    BY <2>1 DEF Seen
<1>5. CASE ls[h][a.set].state = "S"
  <2>1. \A g \in Hart : ~Modified(ls[g][a.set], a)
    BY <1>2, <1>3, <1>5 DEF Modified
  <2>2. ls[h][a.set].data[a.word] = m[a]
    BY <1>1, <1>5 DEF CoherentLines
  <2> QED
    BY <2>1, <2>2 DEF Seen
<1> QED
  BY <1>4, <1>5

(* A request fills its line with what is seen of it.                       *)
LEMMA FilledIsSeen ==
  ASSUME TypeOK, ReferenceCoherent, NEW h \in Hart, NEW a \in Addr,
         NEW b \in Addr, b.set = a.set, b.tag = a.tag
  PROVE  Filled(h, a)[b.word] = Seen(lines, memory, b)
<1> DEFINE local == lines[h][a.set]
           remote == lines[Other(h)][a.set]
<1>1. /\ a.set \in Set /\ b.word \in Word /\ Other(h) \in Hart
      /\ \A g \in Hart : g = h \/ g = Other(h)
      /\ b = [a EXCEPT !.word = b.word]
  BY OtherHart DEF Addr, Other, Hart
<1>2. local \in Line /\ remote \in Line
  BY <1>1 DEF TypeOK
<1>3. CoherentLines(lines, memory)
  BY CoherentNowAndNext
<1>4. CASE Hit(local, a)
  <2>1. local.state \in {"S", "M"} /\ local.tag = b.tag /\ Filled(h, a) = local.data
    BY <1>2, <1>4 DEF Hit, Line, Filled
  <2> QED
    BY <1>3, <2>1, CachedIsSeen
<1>5. CASE ~Hit(local, a) /\ Hit(remote, a)
  <2>1. remote.state \in {"S", "M"} /\ remote.tag = b.tag /\ Filled(h, a) = remote.data
    BY <1>2, <1>5 DEF Hit, Line, Filled
  <2> QED
    BY <1>1, <1>3, <2>1, CachedIsSeen
<1>6. CASE ~Hit(local, a) /\ ~Hit(remote, a)
  <2>1. Filled(h, a)[b.word] = Committed(h, a)[b]
    BY <1>1, <1>6 DEF Filled
  <2>2. Committed(h, a)[b] = memory[b]
    <3>1. ~(local.state = "M" /\ b.tag = local.tag)
      BY <1>6 DEF Hit
    <3> QED
      BY <1>6, <3>1, CommittedWords
  <2>3. \A g \in Hart : ~Modified(lines[g][b.set], b)
    BY <1>1, <1>6 DEF Hit, Modified
  <2> QED
    BY <2>1, <2>2, <2>3 DEF Seen
<1> QED
  BY <1>4, <1>5, <1>6

(* What a request commits to a word is what was seen of it, if it changes  *)
(* the word at all.                                                        *)
LEMMA CommitsWhatIsSeen ==
  ASSUME TypeOK, ReferenceCoherent, NEW h \in Hart, NEW a \in Addr, NEW b \in Addr
  PROVE  Committed(h, a)[b] \in {memory[b], Seen(lines, memory, b)}
<1> DEFINE local == lines[h][a.set]
           remote == lines[Other(h)][a.set]
<1>1. CoherentLines(lines, memory) /\ Other(h) \in Hart
  BY CoherentNowAndNext, OtherHart
<1>2. Committed(h, a)[b] =
        IF Hit(local, a) \/ b.set # a.set THEN memory[b]
        ELSE IF Hit(remote, a) /\ remote.state = "M" /\ b.tag = a.tag THEN remote.data[b.word]
        ELSE IF local.state = "M" /\ b.tag = local.tag THEN local.data[b.word]
        ELSE memory[b]
  BY CommittedWords
<1>3. ASSUME b.set = a.set, Hit(remote, a), remote.state = "M", b.tag = a.tag
      PROVE  remote.data[b.word] = Seen(lines, memory, b)
  BY <1>1, <1>3, CachedIsSeen DEF Hit
<1>4. ASSUME b.set = a.set, local.state = "M", b.tag = local.tag
      PROVE  local.data[b.word] = Seen(lines, memory, b)
  BY <1>1, <1>4, CachedIsSeen
<1> QED
  BY <1>2, <1>3, <1>4

(* A request changes what is seen of its own word only, and only if it is  *)
(* a store; the answer it is owed is what is seen of its word afterwards.  *)
LEMMA RequestWrites ==
  ASSUME TypeOK, ReferenceCoherent, ReferenceCoherent',
         NEW h \in Hart, NEW a \in Addr, NEW write \in BOOLEAN, NEW v \in Value,
         request(h, a, write, v), NEW b \in Addr
  PROVE  /\ Seen(lines', memory', b) = IF write /\ b = a THEN v ELSE Seen(lines, memory, b)
         /\ LocalLine(h, a, write, v).data[a.word] = Seen(lines', memory', a)
<1> DEFINE local == lines[h][a.set]
           remote == lines[Other(h)][a.set]
           L == LocalLine(h, a, write, v)
           R == RemoteLine(h, a, write)
<1>1. /\ a.set \in Set /\ a.word \in Word /\ b.word \in Word /\ Other(h) \in Hart
      /\ Other(h) # h /\ \A g \in Hart : g = h \/ g = Other(h)
      /\ a = b <=> a.set = b.set /\ a.tag = b.tag /\ a.word = b.word
  BY OtherHart DEF Addr, Other, Hart
<1>2. /\ local \in Line /\ remote \in Line /\ L \in Line /\ R \in Line
      /\ Filled(h, a) \in [Word -> Value]
  BY <1>1, RequestTyped DEF TypeOK
<1>3. CoherentLines(lines, memory) /\ CoherentLines(lines', memory')
  BY CoherentNowAndNext
<1>4. L.state \in {"S", "M"} /\ L.tag = a.tag
  BY <1>2, RequestCoherent DEF Line
<1>5. L.data = IF write THEN [Filled(h, a) EXCEPT ![a.word] = v] ELSE Filled(h, a)
  BY DEF LocalLine
<1>6. /\ R.tag = remote.tag /\ R.data = remote.data
      /\ ~Hit(remote, a) => R.state = remote.state
  BY <1>2 DEF RemoteLine, Line
<1>7. /\ lines' = [lines EXCEPT ![h][a.set] = L, ![Other(h)][a.set] = R]
      /\ memory' = Committed(h, a)
  BY DEF request
<1> HIDE DEF L, R
<1>8. /\ lines'[h][a.set] = L /\ lines'[Other(h)][a.set] = R
      /\ \A g \in Hart, s \in Set : s # a.set => lines'[g][s] = lines[g][s]
  BY <1>1, <1>2, <1>7 DEF TypeOK
<1>9. memory'[b] =
        IF Hit(local, a) \/ b.set # a.set THEN memory[b]
        ELSE IF Hit(remote, a) /\ remote.state = "M" /\ b.tag = a.tag THEN remote.data[b.word]
        ELSE IF local.state = "M" /\ b.tag = local.tag THEN local.data[b.word]
        ELSE memory[b]
  BY <1>7, CommittedWords
<1>10. ASSUME NEW c \in Addr, c.set = a.set, c.tag = a.tag
       PROVE  Seen(lines', memory', c) = L.data[c.word]
  BY <1>3, <1>4, <1>8, <1>10, CachedIsSeen
<1>11. Seen(lines', memory', b) = IF write /\ b = a THEN v ELSE Seen(lines, memory, b)
  <2>1. CASE b.set # a.set
    <3>1. memory'[b] = memory[b]
      BY <2>1, <1>9
    <3>2. \A g \in Hart : lines'[g][b.set] = lines[g][b.set]
      BY <2>1, <1>8 DEF Addr
    <3>3. Seen(lines', memory', b) = Seen(lines, memory, b)
      BY <3>1, <3>2 DEF Seen
    <3> QED
      BY <2>1, <3>3
  <2>2. CASE b.set = a.set /\ b.tag = a.tag
    <3>1. Seen(lines', memory', b) = L.data[b.word]
      BY <2>2, <1>10
    <3>2. Filled(h, a)[b.word] = Seen(lines, memory, b)
      BY <2>2, FilledIsSeen
    <3>3. L.data[b.word] = IF write /\ b.word = a.word THEN v ELSE Filled(h, a)[b.word]
      BY <1>1, <1>2, <1>5
    <3> QED
      BY <2>2, <3>1, <3>2, <3>3, <1>1
  <2>3. CASE b.set = a.set /\ b.tag # a.tag /\ remote.state # "I" /\ remote.tag = b.tag
    <3>1. R.state = remote.state /\ remote.state \in {"S", "M"}
      BY <2>3, <1>2, <1>6 DEF Hit, Line
    <3>2. Seen(lines, memory, b) = remote.data[b.word]
      BY <2>3, <3>1, <1>1, <1>3, CachedIsSeen
    <3>3. Seen(lines', memory', b) = remote.data[b.word]
      BY <2>3, <3>1, <1>1, <1>3, <1>6, <1>8, CachedIsSeen
    <3> QED
      BY <2>3, <3>2, <3>3
  <2>4. CASE b.set = a.set /\ b.tag # a.tag /\ ~(remote.state # "I" /\ remote.tag = b.tag)
    <3>1. ~Modified(R, b) /\ ~Modified(L, b) /\ ~Modified(remote, b)
      BY <2>4, <1>4, <1>6 DEF Modified, Hit
    <3>2. Seen(lines', memory', b) = memory'[b]
      BY <2>4, <3>1, <1>1, <1>8 DEF Seen
    <3>3. CASE Modified(local, b)
      <4>1. Seen(lines, memory, b) = local.data[b.word]
        BY <2>4, <3>3, <1>3, CachedIsSeen DEF Modified
      <4>2. memory'[b] = local.data[b.word]
        BY <2>4, <3>3, <1>9 DEF Modified, Hit
      <4> QED
        BY <2>4, <3>2, <4>1, <4>2
    <3>4. CASE ~Modified(local, b)
      <4>1. Seen(lines, memory, b) = memory[b]
        BY <2>4, <3>1, <3>4, <1>1 DEF Seen
      <4>2. memory'[b] = memory[b]
        BY <2>4, <3>4, <1>9 DEF Modified
      <4> QED
        BY <2>4, <3>2, <4>1, <4>2
    <3> QED
      BY <3>3, <3>4
  <2> QED
    BY <2>1, <2>2, <2>3, <2>4
<1>12. L.data[a.word] = Seen(lines', memory', a)
  BY <1>10
<1> QED
  BY <1>11, <1>12 DEF L

(* Of the buffered stores to an address one is the youngest.               *)
LEMMA YoungestMatch ==
  ASSUME TypeOK, NEW h \in Hart, NEW a \in Addr, Matching(h, a) # {}
  PROVE  \E n \in Matching(h, a) : \A m \in Matching(h, a) : m <= n
<1>1. Len(store_buffer[h]) \in 0..2
  <2>1. store_buffer[h] \in Seq(Entry) /\ Len(store_buffer[h]) <= 2
    BY DEF TypeOK
  <2>2. Len(store_buffer[h]) \in Nat
    BY <2>1
  <2> QED
    BY <2>1, <2>2, AtMostDepth
<1>2. Matching(h, a) \in SUBSET {1, 2}
  BY <1>1 DEF Matching
<1>3. CASE 2 \in Matching(h, a)
  BY <1>2, <1>3
<1>4. CASE 2 \notin Matching(h, a)
  BY <1>2, <1>4
<1> QED
  BY <1>3, <1>4

(* The replay implements one flat memory with a FIFO of stores for each    *)
(* hart: initial states map to initial states, and each kind of row to the *)
(* row of LoggedMemory with the same name and verdict.                     *)
THEOREM Refinement == Spec => RefinesLoggedMemory
<1>1. ASSUME Init PROVE Logged!LInit
  <2>1. \A a \in Addr, h \in Hart : lines[h][a.set].state = "I"
    BY <1>1 DEF Init, EmptyLines, Addr
  <2>2. Visible = [a \in Addr |-> Zero] /\ memory = [a \in Addr |-> Zero]
    BY <1>1, <2>1 DEF Init, Visible
  <2> QED
    BY <1>1, <2>2 DEF Init, Logged!LInit
<1>2. TypeOK /\ ReferenceCoherent /\ ReferenceCoherent' /\ [Next]_vars
        => [Logged!LNext]_(Logged!lVars)
  <2> SUFFICES ASSUME TypeOK, ReferenceCoherent, ReferenceCoherent', [Next]_vars
               PROVE  Logged!LNext \/ UNCHANGED Logged!lVars
    OBVIOUS
  <2> USE DEF Row, Replaying, Expect, Logged!Judge
  <2>1. ASSUME \A h \in Hart, s \in Set : lines[h][s].state = "I" PROVE Visible = memory
    <3>1. \A a \in Addr : a.set \in Set
      BY DEF Addr
    <3>2. memory = [a \in Addr |-> memory[a]]
      BY DEF TypeOK
    <3> QED
      BY <2>1, <3>1, <3>2 DEF Visible
  <2>2. CASE reset
    <3>1. Visible' = memory
      <4>1. \A h \in Hart, a \in Addr : lines'[h][a.set].state = "I"
        BY <2>2 DEF reset, EmptyLines, Addr
      <4>2. memory = [a \in Addr |-> memory[a]] /\ memory' = memory
        BY <2>2 DEF TypeOK, reset
      <4> QED
        BY <4>1, <4>2 DEF Visible
    <3>2. Logged!LReset
      BY <2>2, <3>1 DEF reset, Logged!LReset
    <3> QED
      BY <3>2 DEF Logged!LNext
  <2>3. CASE finish
    <3>1. Logged!LEnd
      BY <2>3, VisibleUnchanged DEF finish, Logged!LEnd
    <3> QED
      BY <3>1 DEF Logged!LNext
  <2>4. ASSUME NEW a \in Addr, NEW v \in Value, memory_init(a, v) PROVE Logged!LNext
    <3>1. Visible = memory
      BY <2>1, <2>4 DEF memory_init
    <3>2. Visible' = memory'
      <4>1. \A h \in Hart, b \in Addr : lines'[h][b.set].state = "I"
        BY <2>4 DEF memory_init, Addr
      <4>2. memory' = [b \in Addr |-> memory'[b]]
        BY <2>4 DEF TypeOK, memory_init
      <4> QED
        BY <4>1, <4>2 DEF Visible
    <3>3. Logged!LInitialise(a, v)
      BY <2>4, <3>1, <3>2 DEF memory_init, Logged!LInitialise
    <3> QED
      BY <3>3 DEF Logged!LNext
  <2>5. ASSUME NEW a \in Addr, NEW v \in Value, final_backing(a, v) PROVE Logged!LNext
    <3>1. Logged!LBacking(a, v)
      BY <2>5, VisibleUnchanged DEF final_backing, Logged!LBacking
    <3> QED
      BY <3>1 DEF Logged!LNext
  <2>6. ASSUME NEW a \in Addr, NEW v \in Value, NEW h \in Hart, NEW n \in 1..Depth,
               enqueue(h, a, v, n)
        PROVE Logged!LNext
    <3>1. /\ Len(store_buffer[h]) \in Nat /\ Len(store_buffer[h]) <= 2
          /\ Len(Append(store_buffer[h], [addr |-> a, data |-> v])) = Len(store_buffer[h]) + 1
      <4>1. store_buffer[h] \in Seq(Entry) /\ [addr |-> a, data |-> v] \in Entry
            /\ Len(store_buffer[h]) <= 2
        BY DEF TypeOK, Entry
      <4> QED
        BY <4>1
    <3>2. Logged!LEnqueue(h, a, v, n)
      <4>1. CASE Len(store_buffer[h]) >= 2
        <5>1. Len(store_buffer[h]) = 2
          BY <4>1, <3>1, AtMostDepth
        <5>2. UNCHANGED store_buffer /\ first_mismatch' # "none"
          BY <2>6, <4>1 DEF enqueue
        <5> QED
          BY <2>6, <5>1, <5>2, VisibleUnchanged DEF enqueue, Logged!LEnqueue
      <4>2. CASE ~(Len(store_buffer[h]) >= 2)
        <5>1. /\ Len(store_buffer[h]) # 2
              /\ store_buffer' = [store_buffer EXCEPT ![h] = Append(@, [addr |-> a, data |-> v])]
              /\ first_mismatch' = IF n = Len(store_buffer'[h]) THEN first_mismatch ELSE "occupancy"
          BY <2>6, <4>2, <3>1 DEF enqueue
        <5>2. Len(store_buffer'[h]) = Len(store_buffer[h]) + 1
          BY <5>1, <3>1 DEF TypeOK
        <5>3. (first_mismatch' = "none")
                = (first_mismatch = "none" /\ n = Len(store_buffer[h]) + 1)
          BY <2>6, <5>1, <5>2 DEF enqueue
        <5> QED
          BY <2>6, <5>1, <5>3, VisibleUnchanged DEF enqueue, Logged!LEnqueue
      <4> QED
        BY <4>1, <4>2
    <3> QED
      BY <3>2 DEF Logged!LNext, Logged!LRow
  <2>7. ASSUME NEW a \in Addr, NEW v \in Value, NEW h \in Hart, NEW b \in BOOLEAN,
               drain(h, a, v, b)
        PROVE Logged!LNext
    <3>1. Logged!LDrain(h, a, v, b)
      BY <2>7, VisibleUnchanged DEF drain, Logged!LDrain
    <3> QED
      BY <3>1 DEF Logged!LNext, Logged!LRow
  <2>8. ASSUME NEW a \in Addr, NEW v \in Value, NEW h \in Hart, NEW write \in BOOLEAN,
               request(h, a, write, v)
        PROVE Logged!LNext
    <3>1. ASSUME NEW b \in Addr
          PROVE  /\ Visible[b] = Seen(lines, memory, b) /\ Visible'[b] = Seen(lines', memory', b)
                 /\ Visible'[b] = IF write /\ b = a THEN v ELSE Visible[b]
                 /\ LocalLine(h, a, write, v).data[a.word] = Visible'[a]
      BY <2>8, VisibleIsSeen, RequestWrites
    <3>2. Visible' = IF write THEN [Visible EXCEPT ![a] = v] ELSE Visible
      <4>1. /\ Visible = [b \in Addr |-> Visible[b]]
            /\ Visible' = [b \in Addr |-> IF write /\ b = a THEN v ELSE Visible[b]]
        BY <3>1, VisibleIsSeen
      <4> QED
        BY <4>1
    <3>3. \A b \in Addr : memory'[b] \in {memory[b], Visible[b]}
      BY <2>8, <3>1, CommitsWhatIsSeen DEF request
    <3>4. ~Conflict(lines'[0][a.set], lines'[1][a.set], a.tag)
      BY <2>8 DEF ReferenceCoherent, request
    <3>5. first_mismatch' = first_mismatch
      BY <2>8, <3>4 DEF request
    <3>6. pending' = [pending EXCEPT ![h] = Append(@, [write |-> write, expected |-> Visible'[a]])]
      BY <2>8, <3>1 DEF request
    <3>7. Logged!LRequest(h, a, write, v)
      BY <2>8, <3>2, <3>3, <3>5, <3>6 DEF request, Logged!LRequest
    <3> QED
      BY <3>7 DEF Logged!LNext, Logged!LRow
  <2>9. ASSUME NEW a \in Addr, NEW v \in Value, NEW h \in Hart, forward(h, a, v)
        PROVE Logged!LNext
    <3> DEFINE fifo == store_buffer[h]
               legal == \E n \in 1..Len(fifo) :
                          /\ fifo[n] = [addr |-> a, data |-> v]
                          /\ \A m \in n + 1..Len(fifo) : fifo[m].addr # a
    <3>1. fifo \in Seq(Entry) /\ Len(fifo) \in Nat
      BY DEF TypeOK
    <3>2. \A n \in 1..Len(fifo) : fifo[n] = [addr |-> fifo[n].addr, data |-> fifo[n].data]
      <4> SUFFICES ASSUME NEW n \in 1..Len(fifo)
                   PROVE  fifo[n] = [addr |-> fifo[n].addr, data |-> fifo[n].data]
        OBVIOUS
      <4>1. fifo[n] \in Entry
        BY <3>1
      <4> HIDE DEF fifo
      <4> QED
        BY <4>1 DEF Entry
    <3>3. CASE Matching(h, a) = {}
      <4>1. first_mismatch' # "none"
        BY <2>9, <3>3 DEF forward
      <4>2. ~legal
        BY <3>1, <3>3 DEF Matching
      <4> QED
        BY <2>9, <4>1, <4>2, VisibleUnchanged
        DEF forward, Logged!LForward, Logged!LNext, Logged!LRow
    <3>4. CASE Matching(h, a) # {}
      <4> DEFINE youngest == CHOOSE n \in Matching(h, a) : \A m \in Matching(h, a) : m <= n
      <4>1. /\ youngest \in 1..Len(fifo) /\ fifo[youngest].addr = a
            /\ \A m \in Matching(h, a) : m <= youngest
        BY <3>4, YoungestMatch DEF Matching
      <4>2. first_mismatch' = IF v = fifo[youngest].data THEN first_mismatch ELSE "youngest"
        BY <2>9, <3>4 DEF forward
      <4> HIDE DEF youngest
      <4>3. legal <=> v = fifo[youngest].data
        <5>1. ASSUME v = fifo[youngest].data PROVE legal
          <6>1. fifo[youngest] = [addr |-> a, data |-> v]
            BY <5>1, <4>1, <3>2
          <6>2. \A m \in youngest + 1..Len(fifo) : fifo[m].addr # a
            BY <4>1, <3>1 DEF Matching
          <6> QED
            BY <4>1, <6>1, <6>2
        <5>2. ASSUME legal PROVE v = fifo[youngest].data
          <6> PICK n \in 1..Len(fifo) : /\ fifo[n] = [addr |-> a, data |-> v]
                                        /\ \A m \in n + 1..Len(fifo) : fifo[m].addr # a
            BY <5>2
          <6>1. n \in Matching(h, a)
            BY DEF Matching
          <6>2. youngest = n
            BY <4>1, <6>1, <3>1
          <6> QED
            BY <6>2
        <5> QED
          BY <5>1, <5>2
      <4> HIDE DEF legal
      <4>4. (first_mismatch' = "none") = (first_mismatch = "none" /\ legal)
        BY <2>9, <4>2, <4>3 DEF forward
      <4>5. Logged!LForward(h, a, v)
        BY <2>9, <4>4, VisibleUnchanged DEF forward, Logged!LForward, legal
      <4> QED
        BY <4>5 DEF Logged!LNext, Logged!LRow
    <3> QED
      BY <3>3, <3>4
  <2>10. ASSUME NEW a \in Addr, NEW v \in Value, NEW h \in Hart,
                NEW s \in {"I", "S", "M"}, final_line(h, a, s, v)
         PROVE Logged!LNext
    <3> DEFINE expected == lines[h][a.set]
    <3>1. ASSUME first_mismatch' = "none", s # "I" PROVE v = Visible[a]
      <4>1. expected.state \in {"S", "M"} /\ expected.tag = a.tag /\ v = expected.data[a.word]
        BY <2>10, <3>1 DEF final_line, FinalMismatch
      <4>2. Visible[a] = expected.data[a.word]
        BY <4>1, CoherentNowAndNext, CachedIsSeen, VisibleIsSeen
      <4> QED
        BY <4>1, <4>2
    <3>2. Logged!LCached(s # "I", a, v)
      BY <2>10, <3>1, VisibleUnchanged DEF final_line, Logged!LCached
    <3>3. (s # "I") \in BOOLEAN
      OBVIOUS
    <3> QED
      BY <3>2, <3>3 DEF Logged!LNext
  <2>11. ASSUME NEW h \in Hart, NEW v \in Value, NEW b \in BOOLEAN, response(h, v, b)
         PROVE Logged!LNext
    <3>1. Logged!LResponse(h, v, b)
      BY <2>11, VisibleUnchanged DEF response, Logged!LResponse
    <3> QED
      BY <3>1 DEF Logged!LNext, Logged!LRow
  <2>12. CASE UNCHANGED vars
    BY <2>12, VisibleUnchanged DEF vars, Logged!lVars
  <2> QED
    BY <2>2, <2>3, <2>4, <2>5, <2>6, <2>7, <2>8, <2>9, <2>10, <2>11, <2>12 DEF Next
<1> QED
  BY <1>1, <1>2, TypeCorrect, Coherence, PTL DEF Spec, RefinesLoggedMemory, Logged!LSpec
=============================================================================
