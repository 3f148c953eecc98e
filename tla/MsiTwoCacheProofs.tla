-------------------------- MODULE MsiTwoCacheProofs --------------------------
(***************************************************************************)
(* Proofs about MsiTwoCache, for every number of sets, tags and words and  *)
(* every set of values: type correctness, the coherence invariant, and the *)
(* refinement of SerialMemory.                                             *)
(***************************************************************************)
EXTENDS MsiTwoCache, TLAPS

(* Every variable keeps its type through every edge, request and reset.    *)
THEOREM TypeCorrect == Spec => []TypeOK
<1>1. Init => TypeOK
  BY ZeroAssumption, ZeroTagAssumption, NonEmptyAssumption
  DEF Init, TypeOK, ZeroRequest, ZeroLine, Request, Addr, Line, LineData, Cache
<1>2. TypeOK /\ [Next]_vars => TypeOK'
  <2> SUFFICES ASSUME TypeOK, [Next]_vars PROVE TypeOK'
    OBVIOUS
  <2> USE DEF TypeOK
  <2>1. CASE Reset
    BY <2>1, ZeroAssumption, ZeroTagAssumption, NonEmptyAssumption
    DEF Reset, ZeroRequest, ZeroLine, Request, Addr, Line, LineData, Cache
  <2>2. CASE MemInit
    <3> PICK a \in Addr, v \in Value :
          backing_mem' = [backing_mem EXCEPT ![a.tag][a.index][a.word] = v]
      BY <2>2 DEF MemInit
    <3>1. backing_mem' \in [Tag -> [Index -> LineData]]
      BY DEF Addr, LineData
    <3> QED
      BY <2>2, <3>1 DEF MemInit, ctrlVars, rspVars
  <2>3. ASSUME NEW c \in Cache, Present(c) PROVE TypeOK'
    BY <2>3 DEF Present, ctrlVars, rspVars
  <2>4. ASSUME NEW ready \in SUBSET Cache, NEW c \in Cache, Accept(c, ready)
        PROVE TypeOK'
    BY <2>4 DEF Accept, Left, Other, Cache
  <2>5. ASSUME NEW ready \in SUBSET Cache, TakeResponse(ready) PROVE TypeOK'
    BY <2>5 DEF TakeResponse, Left, ctrlVars
  <2>6. ASSUME NEW ready \in SUBSET Cache, Execute(ready) PROVE TypeOK'
    <3>1. Other(owner) \in Cache
      BY DEF Other, Cache
    <3>2. req.addr.tag \in Tag /\ req.addr.index \in Index
          /\ req.addr.word \in Word /\ req.data \in Value
      BY DEF Request, Addr
    <3>3. \A c \in Cache : Held(c) \in Line
      BY <3>2 DEF Held
    <3>4. FillData \in LineData
      BY <3>1, <3>2, <3>3 DEF FillData, Line
    <3>5. OwnerLine \in Line
      BY <3>2, <3>3, <3>4 DEF OwnerLine, Line, LineData
    <3>6. OtherLine \in Line
      BY <3>1, <3>3 DEF OtherLine, Line
    <3>7. backing_mem' \in [Tag -> [Index -> LineData]]
      BY <2>6, <3>1, <3>2, <3>3
      DEF Execute, Intervention, VictimWriteback, Line
    <3>8. line' \in [Cache -> [Index -> Line]]
      BY <2>6, <3>5, <3>6 DEF Execute
    <3>9. rsp_data' \in Value
      BY <2>6, <3>2, <3>4 DEF Execute, LineData
    <3> QED
      BY <2>6, <3>7, <3>8, <3>9 DEF Execute, Left
  <2>7. ASSUME NEW ready \in SUBSET Cache, Respond(ready) PROVE TypeOK'
    BY <2>7 DEF Respond, Left
  <2>8. CASE UNCHANGED vars
    BY <2>8 DEF vars
  <2> QED
    BY <2>1, <2>2, <2>3, <2>4, <2>5, <2>6, <2>7, <2>8 DEF Next, Step, Edge
<1> QED
  BY <1>1, <1>2, PTL DEF Spec

-----------------------------------------------------------------------------
(* The invariant a step preserves: types, exclusive modified copies, clean *)
(* shared copies and a single transaction.                                 *)
CoherenceInv ==
  TypeOK /\ ModifiedIsExclusive /\ SharedIsClean /\ OneTransaction

(* A step that leaves the lines and the memory alone keeps both line       *)
(* invariants.                                                             *)
LEMMA LinesUnchanged ==
  ASSUME ModifiedIsExclusive, SharedIsClean, UNCHANGED <<line, backing_mem>>
  PROVE  ModifiedIsExclusive' /\ SharedIsClean'
BY DEF ModifiedIsExclusive, SharedIsClean, Owns, Holds

(* With every line invalid there is nothing to keep coherent.              *)
LEMMA AllInvalid ==
  ASSUME \A c \in Cache, i \in Index : line[c][i].state = "I"
  PROVE  ModifiedIsExclusive /\ SharedIsClean
BY DEF ModifiedIsExclusive, SharedIsClean, Owns, Holds, Other, Cache

(* What Execute does, spelled out for the two caches.                      *)
LEMMA ExecuteLines ==
  ASSUME TypeOK, NEW ready \in SUBSET Cache, Execute(ready)
  PROVE  /\ owner \in Cache /\ Other(owner) \in Cache /\ Other(owner) # owner
         /\ req.addr.tag \in Tag /\ req.addr.index \in Index
         /\ req.addr.word \in Word /\ req.data \in Value
         /\ \A c \in Cache : c = owner \/ c = Other(owner)
         /\ \A c \in Cache, i \in Index : i # req.addr.index => line'[c][i] = line[c][i]
         /\ line'[owner][req.addr.index] = OwnerLine
         /\ line'[Other(owner)][req.addr.index] = OtherLine
<1>1. owner \in Cache /\ Other(owner) \in Cache /\ Other(owner) # owner
      /\ \A c \in Cache : c = owner \/ c = Other(owner)
  BY DEF TypeOK, Other, Cache
<1>2. req.addr.tag \in Tag /\ req.addr.index \in Index
      /\ req.addr.word \in Word /\ req.data \in Value
  BY DEF TypeOK, Request, Addr
<1>3. line' = [c \in Cache |-> [line[c] EXCEPT ![req.addr.index] =
                                 IF c = owner THEN OwnerLine ELSE OtherLine]]
  BY DEF Execute
<1>4. \A c \in Cache : line[c] \in [Index -> Line]
  BY DEF TypeOK
<1> QED
  BY <1>1, <1>2, <1>3, <1>4

(* The memory after Execute, row by row: only the line of the request and  *)
(* the victim's can change.                                                *)
LEMMA ExecuteMemory ==
  ASSUME TypeOK, NEW ready \in SUBSET Cache, Execute(ready)
  PROVE  \A t \in Tag, i \in Index :
           backing_mem'[t][i] =
             IF /\ i = req.addr.index /\ t = req.addr.tag
                /\ ~Hit(owner) /\ Hit(Other(owner)) /\ Held(Other(owner)).state = "M"
             THEN Held(Other(owner)).data
             ELSE IF /\ i = req.addr.index /\ t = Held(owner).tag
                     /\ ~Hit(owner) /\ Held(owner).state = "M"
             THEN Held(owner).data
             ELSE backing_mem[t][i]
<1>1. backing_mem' = Intervention(VictimWriteback(backing_mem))
  BY DEF Execute
<1>2. req.addr.tag \in Tag /\ req.addr.index \in Index
  BY DEF TypeOK, Request, Addr
<1>3. Held(owner) \in Line
  BY <1>2 DEF Held, TypeOK
<1>4. backing_mem \in [Tag -> [Index -> LineData]]
  BY DEF TypeOK
<1>5. VictimWriteback(backing_mem) \in [Tag -> [Index -> LineData]]
  BY <1>2, <1>3, <1>4 DEF VictimWriteback, Line
<1>6. \A t \in Tag, i \in Index :
        VictimWriteback(backing_mem)[t][i] =
          IF /\ i = req.addr.index /\ t = Held(owner).tag
             /\ ~Hit(owner) /\ Held(owner).state = "M"
          THEN Held(owner).data ELSE backing_mem[t][i]
  BY <1>2, <1>3, <1>4 DEF VictimWriteback, Line
<1> DEFINE m == VictimWriteback(backing_mem)
<1>7. \A t \in Tag, i \in Index :
        Intervention(m)[t][i] =
          IF /\ i = req.addr.index /\ t = req.addr.tag
             /\ ~Hit(owner) /\ Hit(Other(owner)) /\ Held(Other(owner)).state = "M"
          THEN Held(Other(owner)).data ELSE m[t][i]
  <2> HIDE DEF m
  <2>1. m \in [Tag -> [Index -> LineData]]
    BY <1>5 DEF m
  <2> QED
    BY <1>2, <2>1 DEF Intervention
<1> QED
  BY <1>1, <1>6, <1>7

(* Execute keeps a modified copy alone and every shared copy clean.        *)
LEMMA ExecuteCoherent ==
  ASSUME TypeOK, ModifiedIsExclusive, SharedIsClean,
         NEW ready \in SUBSET Cache, Execute(ready)
  PROVE  ModifiedIsExclusive' /\ SharedIsClean'
<1> DEFINE o == owner
           p == Other(owner)
           x == req.addr.index
<1>1. /\ o \in Cache /\ p \in Cache /\ p # o /\ x \in Index /\ req.addr.tag \in Tag
      /\ \A c \in Cache : c = o \/ c = p
      /\ \A c \in Cache, i \in Index : i # x => line'[c][i] = line[c][i]
      /\ line'[o][x] = OwnerLine /\ line'[p][x] = OtherLine
  BY ExecuteLines
<1>2. Other(o) = p /\ Other(p) = o
  BY <1>1 DEF Other, Cache
<1>3. \A c \in Cache, i \in Index : line[c][i] \in Line
  BY DEF TypeOK
<1>4. Held(o) = line[o][x] /\ Held(p) = line[p][x]
  BY DEF Held
<1>5. ModifiedIsExclusive'
  <2> SUFFICES ASSUME NEW c \in Cache, NEW t \in Tag, NEW i \in Index,
                      Owns(c, t, i)', Holds(Other(c), t, i)'
               PROVE  FALSE
    BY DEF ModifiedIsExclusive
  <2>1. Other(c) \in Cache
    BY DEF Other, Cache
  <2>2. CASE i # x
    BY <1>1, <2>1, <2>2 DEF ModifiedIsExclusive, Owns, Holds
  <2>3. CASE i = x /\ c = o
    BY SMTT(30), <1>1, <1>2, <1>3, <1>4, <2>3
    DEF ModifiedIsExclusive, Owns, Holds, OwnerLine, OtherLine, Hit, Line
  <2>4. CASE i = x /\ c = p
    BY SMTT(30), <1>1, <1>2, <1>3, <1>4, <2>4
    DEF ModifiedIsExclusive, Owns, Holds, OwnerLine, OtherLine, Hit, Line
  <2> QED
    BY <1>1, <2>2, <2>3, <2>4
<1>6. SharedIsClean'
  <2> SUFFICES ASSUME NEW c \in Cache, NEW i \in Index,
                      line'[c][i].state = "S"
               PROVE  line'[c][i].data = backing_mem'[line'[c][i].tag][i]
    BY DEF SharedIsClean
  <2>2. CASE i # x
    BY <1>1, <1>3, <2>2, ExecuteMemory DEF SharedIsClean, Line
  <2>3. CASE i = x /\ c = o
    <3>1. ~req.write /\ line'[o][x] = OwnerLine /\ OwnerLine.state = "S"
      BY <1>1, <2>3 DEF OwnerLine
    <3>2. CASE Hit(o)
      BY <1>1, <1>2, <1>3, <1>4, <2>3, <3>1, <3>2, ExecuteMemory
      DEF SharedIsClean, OwnerLine, Hit, Line
    <3>3. CASE ~Hit(o) /\ Hit(p)
      <4>1. OwnerLine.data = Held(p).data /\ OwnerLine.tag = req.addr.tag
        BY <3>1, <3>3 DEF OwnerLine, FillData
      <4>2. Held(p).tag = req.addr.tag /\ Held(p).state \in {"S", "M"}
        BY <1>1, <1>3, <1>4, <3>3 DEF Hit, Line
      <4>3. CASE Held(p).state = "M"
        BY <1>1, <2>3, <3>1, <3>3, <4>1, <4>3, ExecuteMemory
      <4>4. CASE Held(p).state = "S"
        <5>1. Held(p).data = backing_mem[req.addr.tag][x]
          BY <1>1, <1>4, <4>2, <4>4 DEF SharedIsClean
        <5>2. ~(Held(o).state = "M" /\ Held(o).tag = req.addr.tag)
          BY <1>1, <1>4, <3>3 DEF Hit
        <5>3. backing_mem'[req.addr.tag][x] = backing_mem[req.addr.tag][x]
          BY <1>1, <4>4, <5>2, ExecuteMemory
        <5> QED
          BY <1>1, <2>3, <4>1, <5>1, <5>3
      <4> QED
        BY <4>2, <4>3, <4>4
    <3>4. CASE ~Hit(o) /\ ~Hit(p)
      <4>1. OwnerLine.data = backing_mem[req.addr.tag][x]
            /\ OwnerLine.tag = req.addr.tag
        BY <3>1, <3>4 DEF OwnerLine, FillData
      <4>2. ~(Held(o).state = "M" /\ Held(o).tag = req.addr.tag)
        BY <1>1, <1>4, <3>4 DEF Hit
      <4>3. backing_mem'[req.addr.tag][x] = backing_mem[req.addr.tag][x]
        BY <1>1, <3>4, <4>2, ExecuteMemory
      <4> QED
        BY <1>1, <2>3, <4>1, <4>3
    <3> QED
      BY <3>2, <3>3, <3>4
  <2>4. CASE i = x /\ c = p
    <3>1. line'[p][x].tag = Held(p).tag /\ line'[p][x].data = Held(p).data
      BY <1>1, <1>3, <1>4 DEF OtherLine, Line
    <3>2. CASE Held(p).state = "S"
      <4>1. Held(p).data = backing_mem[Held(p).tag][x]
        BY <1>1, <1>4, <3>2 DEF SharedIsClean
      <4>2. ~(Held(o).state = "M" /\ Held(o).tag = Held(p).tag)
        BY <1>1, <1>2, <1>3, <1>4, <3>2 DEF ModifiedIsExclusive, Owns, Holds, Line
      <4>3. backing_mem'[Held(p).tag][x] = backing_mem[Held(p).tag][x]
        BY <1>1, <1>3, <1>4, <3>2, <4>2, ExecuteMemory DEF Line
      <4> QED
        BY <2>4, <3>1, <4>1, <4>3
    <3>3. CASE Held(p).state # "S"
      <4>1. /\ Hit(p) /\ ~Hit(o) /\ ~req.write
            /\ Held(p).state = "M" /\ Held(p).tag = req.addr.tag
        BY <1>1, <1>3, <1>4, <2>4, <3>3 DEF OtherLine, Hit, Line
      <4> QED
        BY <1>1, <2>4, <3>1, <4>1, ExecuteMemory
    <3> QED
      BY <3>2, <3>3
  <2> QED
    BY <1>1, <2>2, <2>3, <2>4
<1> QED
  BY <1>5, <1>6

(* The coherence invariant holds in every reachable state: no second copy  *)
(* beside a modified one, every shared copy clean, one response at a time. *)
THEOREM Coherence == Spec => []CoherenceInv
<1>1. Init => ModifiedIsExclusive /\ SharedIsClean /\ OneTransaction
  <2> SUFFICES ASSUME Init PROVE ModifiedIsExclusive /\ SharedIsClean /\ OneTransaction
    OBVIOUS
  <2>1. \A c \in Cache, i \in Index : line[c][i].state = "I"
    BY DEF Init, ZeroLine
  <2>2. OneTransaction
    BY DEF Init, OneTransaction, Cache
  <2> QED
    BY <2>1, <2>2, AllInvalid
<1>2. CoherenceInv /\ TypeOK' /\ [Next]_vars => CoherenceInv'
  <2> SUFFICES ASSUME CoherenceInv, TypeOK', [Next]_vars PROVE CoherenceInv'
    OBVIOUS
  <2> USE DEF CoherenceInv
  <2>1. CASE Reset
    <3>1. (\A c \in Cache, i \in Index : line[c][i].state = "I")'
      BY <2>1 DEF Reset, ZeroLine
    <3>2. ModifiedIsExclusive' /\ SharedIsClean'
      BY <3>1 DEF ModifiedIsExclusive, SharedIsClean, Owns, Holds, Other, Cache
    <3>3. OneTransaction'
      BY <2>1 DEF Reset, OneTransaction, Cache
    <3> QED
      BY <3>2, <3>3
  <2>2. CASE MemInit
    <3>1. (\A c \in Cache, i \in Index : line[c][i].state = "I")'
      BY <2>2 DEF MemInit
    <3>2. ModifiedIsExclusive' /\ SharedIsClean'
      BY <3>1 DEF ModifiedIsExclusive, SharedIsClean, Owns, Holds, Other, Cache
    <3>3. OneTransaction'
      BY <2>2 DEF MemInit, OneTransaction, ctrlVars, rspVars
    <3> QED
      BY <3>2, <3>3
  <2>3. ASSUME NEW c \in Cache, Present(c) PROVE CoherenceInv'
    BY <2>3, LinesUnchanged DEF Present, OneTransaction, ctrlVars, rspVars
  <2>4. ASSUME NEW ready \in SUBSET Cache, NEW c \in Cache, Accept(c, ready)
        PROVE CoherenceInv'
    <3>1. OneTransaction'
      BY <2>4 DEF Accept, ReqReady, OneTransaction, Left, Other, Cache, TypeOK
    <3> QED
      BY <2>4, <3>1, LinesUnchanged DEF Accept
  <2>5. ASSUME NEW ready \in SUBSET Cache, TakeResponse(ready)
        PROVE CoherenceInv'
    <3>1. OneTransaction'
      BY <2>5 DEF TakeResponse, OneTransaction, Left, Other, Cache, ctrlVars, TypeOK
    <3> QED
      BY <2>5, <3>1, LinesUnchanged DEF TakeResponse
  <2>6. ASSUME NEW ready \in SUBSET Cache, Execute(ready) PROVE CoherenceInv'
    <3>1. OneTransaction'
      BY <2>6 DEF Execute, OneTransaction, Left, Other, Cache
    <3> QED
      BY <2>6, <3>1, ExecuteCoherent
  <2>7. ASSUME NEW ready \in SUBSET Cache, Respond(ready) PROVE CoherenceInv'
    <3>1. OneTransaction'
      BY <2>7 DEF Respond, OneTransaction, Left, Other, Cache, TypeOK
    <3> QED
      BY <2>7, <3>1, LinesUnchanged DEF Respond
  <2>8. CASE UNCHANGED vars
    BY <2>8, LinesUnchanged DEF vars, OneTransaction
  <2> QED
    BY <2>1, <2>2, <2>3, <2>4, <2>5, <2>6, <2>7, <2>8 DEF Next, Step, Edge
<1> QED
  BY <1>1, <1>2, TypeCorrect, PTL DEF Spec, CoherenceInv

-----------------------------------------------------------------------------
(* The one modified copy of a line, if there is one, is its contents.      *)
LEMMA CurrentIsOwned ==
  ASSUME ModifiedIsExclusive, NEW a \in Addr, NEW c \in Cache,
         Owns(c, a.tag, a.index)
  PROVE  CurrentWord(a) = line[c][a.index].data[a.word]
<1>1. \A d \in Cache : Owns(d, a.tag, a.index) => d = c
  BY DEF ModifiedIsExclusive, Owns, Holds, Other, Cache, Addr
<1> QED
  BY <1>1 DEF CurrentWord

(* The line Execute fills from holds the current contents.                 *)
LEMMA FillIsCurrent ==
  ASSUME CoherenceInv, NEW ready \in SUBSET Cache, Execute(ready),
         NEW a \in Addr, a.tag = req.addr.tag, a.index = req.addr.index
  PROVE  FillData[a.word] = CurrentWord(a)
<1> DEFINE o == owner
           p == Other(owner)
<1>1. /\ o \in Cache /\ p \in Cache /\ p # o /\ \A c \in Cache : c = o \/ c = p
      /\ Other(p) = o
  BY ExecuteLines DEF CoherenceInv, Other, Cache
<1>2. a.tag \in Tag /\ a.index \in Index
  BY DEF Addr
<1>3. Held(o) = line[o][a.index] /\ Held(p) = line[p][a.index]
      /\ Held(o) \in Line /\ Held(p) \in Line
  BY <1>1, <1>2 DEF Held, CoherenceInv, TypeOK
<1>4. CASE Owns(o, a.tag, a.index)
  BY <1>1, <1>3, <1>4, CurrentIsOwned DEF FillData, Hit, Owns, CoherenceInv
<1>5. CASE Owns(p, a.tag, a.index)
  <2>1. ~Hit(o) /\ Hit(p)
    BY <1>1, <1>2, <1>3, <1>5
    DEF CoherenceInv, ModifiedIsExclusive, Owns, Holds, Hit
  <2> QED
    BY <1>1, <1>3, <1>5, <2>1, CurrentIsOwned DEF FillData, CoherenceInv
<1>6. CASE ~Owns(o, a.tag, a.index) /\ ~Owns(p, a.tag, a.index)
  <2>1. CurrentWord(a) = backing_mem[a.tag][a.index][a.word]
    BY <1>1, <1>6 DEF CurrentWord
  <2>2. Hit(o) => Held(o).data = backing_mem[a.tag][a.index]
    BY <1>1, <1>2, <1>3, <1>6 DEF CoherenceInv, SharedIsClean, Owns, Hit, Line
  <2>3. Hit(p) => Held(p).data = backing_mem[a.tag][a.index]
    BY <1>1, <1>2, <1>3, <1>6 DEF CoherenceInv, SharedIsClean, Owns, Hit, Line
  <2> QED
    BY <2>1, <2>2, <2>3 DEF FillData
<1> QED
  BY <1>4, <1>5, <1>6

(* Execute changes the current contents of the requested word only, and    *)
(* only when it is a store.                                                *)
LEMMA ExecuteWrites ==
  ASSUME CoherenceInv, CoherenceInv', NEW ready \in SUBSET Cache, Execute(ready),
         NEW a \in Addr
  PROVE  CurrentWord(a)' = IF req.write /\ a = req.addr THEN req.data
                           ELSE CurrentWord(a)
<1> DEFINE o == owner
           p == Other(owner)
           x == req.addr.index
<1>1. /\ o \in Cache /\ p \in Cache /\ p # o /\ x \in Index /\ req.addr.tag \in Tag
      /\ req.addr.word \in Word /\ req.data \in Value
      /\ \A c \in Cache : c = o \/ c = p
      /\ \A c \in Cache, i \in Index : i # x => line'[c][i] = line[c][i]
      /\ line'[o][x] = OwnerLine /\ line'[p][x] = OtherLine
      /\ Other(p) = o /\ owner' = owner
  <2>1. Other(p) = o /\ TypeOK
    BY DEF CoherenceInv, TypeOK, Other, Cache
  <2>2. owner' = owner
    BY DEF Execute
  <2> QED
    BY <2>1, <2>2, ExecuteLines
<1>2. a.tag \in Tag /\ a.index \in Index /\ a.word \in Word
  BY DEF Addr
<1>3. Held(o) = line[o][x] /\ Held(p) = line[p][x] /\ Held(o) \in Line /\ Held(p) \in Line
  BY <1>1 DEF Held, CoherenceInv, TypeOK
<1>4. \A c \in Cache : Owns(c, a.tag, a.index)'
        => CurrentWord(a)' = line'[c][a.index].data[a.word]
  <2>1. \A c, d \in Cache : Owns(c, a.tag, a.index)' /\ Owns(d, a.tag, a.index)' => d = c
    BY <1>2 DEF CoherenceInv, ModifiedIsExclusive, Owns, Holds, Other, Cache
  <2> QED
    BY <2>1 DEF CurrentWord
<1>5. CASE a.index # x
  <2>1. \A c \in Cache : Owns(c, a.tag, a.index)' <=> Owns(c, a.tag, a.index)
    BY <1>1, <1>2, <1>5 DEF Owns
  <2>2. backing_mem'[a.tag][a.index] = backing_mem[a.tag][a.index]
    BY <1>2, <1>5, ExecuteMemory DEF CoherenceInv
  <2>3. \A c \in Cache : line'[c][a.index] = line[c][a.index]
    BY <1>1, <1>2, <1>5
  <2>4. CASE \E c \in Cache : Owns(c, a.tag, a.index)
    BY <1>4, <1>5, <2>1, <2>3, <2>4, CurrentIsOwned DEF CoherenceInv
  <2>5. CASE ~\E c \in Cache : Owns(c, a.tag, a.index)
    BY <1>5, <2>1, <2>2, <2>5 DEF CurrentWord
  <2> QED
    BY <2>4, <2>5
<1>6. CASE a.index = x /\ a.tag = req.addr.tag
  <2>1. FillData[a.word] = CurrentWord(a)
    BY <1>6, FillIsCurrent
  <2>2. a = req.addr <=> a.word = req.addr.word
    <3>1. req.addr \in Addr
      BY DEF CoherenceInv, TypeOK, Request
    <3> QED
      BY <1>6, <3>1 DEF Addr
  <2>3. FillData \in LineData
    BY <1>1, <1>3 DEF FillData, Line, CoherenceInv, TypeOK
  <2>4. CASE req.write
    <3>1. Owns(o, a.tag, a.index)'
      BY <1>1, <1>6, <2>4 DEF Owns, OwnerLine
    <3>2. CurrentWord(a)' = [FillData EXCEPT ![req.addr.word] = req.data][a.word]
      <4>1. CurrentWord(a)' = line'[o][a.index].data[a.word]
        BY <1>1, <1>4, <3>1
      <4> QED
        BY <1>1, <1>6, <2>4, <4>1 DEF OwnerLine
    <3> QED
      BY <1>1, <1>2, <2>1, <2>2, <2>3, <2>4, <3>2 DEF LineData
  <2>5. CASE ~req.write /\ Hit(o)
    <3>1. line'[o][x] = line[o][x] /\ line'[p][x] = line[p][x]
      BY <1>1, <1>3, <2>5 DEF OwnerLine, OtherLine
    <3>2. \A c \in Cache : line'[c][x] = line[c][x]
      BY <1>1, <3>1
    <3>3. backing_mem'[a.tag][a.index] = backing_mem[a.tag][a.index]
      BY <1>2, <2>5, ExecuteMemory DEF CoherenceInv
    <3>4. CASE \E c \in Cache : Owns(c, a.tag, a.index)
      BY <1>4, <1>6, <2>5, <3>2, <3>4, CurrentIsOwned DEF CoherenceInv, Owns
    <3>5. CASE ~\E c \in Cache : Owns(c, a.tag, a.index)
      BY <1>6, <2>5, <3>2, <3>3, <3>5 DEF CurrentWord, Owns
    <3> QED
      BY <3>4, <3>5
  <2>6. CASE ~req.write /\ ~Hit(o)
    <3>1. line'[o][x].state = "S" /\ line'[o][x].tag = a.tag /\ line'[o][x].data = FillData
      BY <1>1, <1>6, <2>6 DEF OwnerLine
    <3>2. backing_mem'[a.tag][a.index] = FillData
      BY <1>1, <1>6, <3>1 DEF CoherenceInv, SharedIsClean
    <3>3. ~Owns(o, a.tag, a.index)' /\ ~Owns(p, a.tag, a.index)'
      BY <1>1, <1>3, <1>6, <2>6, <3>1 DEF Owns, OtherLine, Hit, Line
    <3>4. CurrentWord(a)' = backing_mem'[a.tag][a.index][a.word]
      BY <1>1, <3>3 DEF CurrentWord
    <3> QED
      BY <2>1, <2>6, <3>2, <3>4
  <2> QED
    BY <2>4, <2>5, <2>6
<1>7. CASE a.index = x /\ a.tag # req.addr.tag
  <2>1. ~Owns(o, a.tag, a.index)'
    BY <1>1, <1>3, <1>7 DEF Owns, OwnerLine, Hit
  <2>2. Owns(p, a.tag, a.index)' <=> Owns(p, a.tag, a.index)
    BY <1>1, <1>3, <1>7 DEF Owns, OtherLine, Hit, Line
  <2>3. CASE Owns(p, a.tag, a.index)
    <3>1. line'[p][x] = line[p][x]
      BY <1>1, <1>3, <1>7, <2>3 DEF Owns, OtherLine, Hit
    <3> QED
      BY <1>1, <1>4, <1>7, <2>2, <2>3, <3>1, CurrentIsOwned DEF CoherenceInv
  <2>4. CASE Owns(o, a.tag, a.index)
    <3>1. ~Owns(p, a.tag, a.index)
      BY <1>1, <1>2, <2>4 DEF CoherenceInv, ModifiedIsExclusive, Owns, Holds
    <3>2. CurrentWord(a)' = backing_mem'[a.tag][a.index][a.word]
      BY <1>1, <2>1, <2>2, <3>1 DEF CurrentWord
    <3>3. backing_mem'[a.tag][a.index] = Held(o).data
      BY <1>1, <1>2, <1>3, <1>7, <2>4, ExecuteMemory DEF Owns, Hit, CoherenceInv
    <3> QED
      BY <1>1, <1>3, <1>7, <2>4, <3>2, <3>3, CurrentIsOwned DEF CoherenceInv
  <2>5. CASE ~Owns(o, a.tag, a.index) /\ ~Owns(p, a.tag, a.index)
    <3>1. CurrentWord(a)' = backing_mem'[a.tag][a.index][a.word]
      BY <1>1, <2>1, <2>2, <2>5 DEF CurrentWord
    <3>2. CurrentWord(a) = backing_mem[a.tag][a.index][a.word]
      BY <1>1, <2>5 DEF CurrentWord
    <3>3. backing_mem'[a.tag][a.index] = backing_mem[a.tag][a.index]
      BY SMTT(30), <1>2, <1>3, <1>7, <2>5, ExecuteMemory DEF Owns, CoherenceInv
    <3> QED
      BY <1>7, <3>1, <3>2, <3>3
  <2> QED
    BY <2>3, <2>4, <2>5
<1> QED
  BY <1>5, <1>6, <1>7

(* What Execute commits to the backing memory is what the memory held just *)
(* before, so a reset never exposes a value the memory never had.          *)
LEMMA ExecuteCommits ==
  ASSUME CoherenceInv, NEW ready \in SUBSET Cache, Execute(ready), NEW a \in Addr
  PROVE  backing_mem'[a.tag][a.index][a.word]
           \in {backing_mem[a.tag][a.index][a.word], CurrentWord(a)}
<1> DEFINE o == owner
           p == Other(owner)
           x == req.addr.index
<1>1. o \in Cache /\ p \in Cache /\ a.tag \in Tag /\ a.index \in Index /\ TypeOK
  BY ExecuteLines DEF CoherenceInv, Addr
<1>2. CASE a.index = x /\ a.tag = req.addr.tag
           /\ ~Hit(o) /\ Hit(p) /\ Held(p).state = "M"
  <2>1. Owns(p, a.tag, a.index) /\ Held(p) = line[p][a.index]
    BY <1>2 DEF Owns, Hit, Held
  <2>2. backing_mem'[a.tag][a.index] = Held(p).data
    BY <1>1, <1>2, ExecuteMemory
  <2> QED
    BY <1>1, <2>1, <2>2, CurrentIsOwned DEF CoherenceInv
<1>3. CASE a.index = x /\ a.tag = Held(o).tag /\ a.tag # req.addr.tag
           /\ Held(o).state = "M"
  <2>1. Owns(o, a.tag, a.index) /\ Held(o) = line[o][a.index] /\ ~Hit(o)
    BY <1>3 DEF Owns, Hit, Held
  <2>2. backing_mem'[a.tag][a.index] = Held(o).data
    BY <1>1, <1>3, <2>1, ExecuteMemory
  <2> QED
    BY <1>1, <2>1, <2>2, CurrentIsOwned DEF CoherenceInv
<1>4. CASE backing_mem'[a.tag][a.index] = backing_mem[a.tag][a.index]
  BY <1>4
<1> QED
  BY <1>1, <1>2, <1>3, <1>4, ExecuteMemory DEF Hit, Held

(* An address whose line nobody holds modified reads as the backing word.  *)
LEMMA InitialMemory ==
  ASSUME TypeOK, \A c \in Cache, i \in Index : line[c][i].state = "I"
  PROVE  \A a \in Addr : /\ CurrentWord(a) = backing_mem[a.tag][a.index][a.word]
                         /\ backing_mem[a.tag][a.index][a.word] \in Value
BY SMTT(30) DEF CurrentWord, Owns, TypeOK, Addr, LineData

(* The mapped memory only depends on the lines and the backing memory.     *)
LEMMA MemoryUnchanged ==
  ASSUME UNCHANGED <<line, backing_mem>>
  PROVE  \A a \in Addr : /\ CurrentWord(a)' = CurrentWord(a)
                         /\ backing_mem'[a.tag][a.index][a.word]
                              = backing_mem[a.tag][a.index][a.word]
BY DEF CurrentWord, Owns

(* Executing a request is the atomic operation of the serial memory.       *)
LEMMA ExecutePerforms ==
  ASSUME CoherenceInv, CoherenceInv', NEW ready \in SUBSET Cache, Execute(ready),
         NEW c \in Cache, c = owner
  PROVE  Serial!SPerform(c)
<1> DEFINE mem(a) == CurrentWord(a)
           dur(a) == backing_mem[a.tag][a.index][a.word]
<1>1. /\ owner \in Cache /\ owner' = owner /\ ctrl_state = "EXECUTE"
      /\ ctrl_state' = "RESPOND" /\ request' = request /\ req' = req
      /\ request[owner] = None /\ req \in Request /\ req.addr \in Addr
      /\ \A d \in Cache : ~rsp_valid[d] /\ ~rsp_valid'[d]
      /\ req # None
  <2>1. \A d \in Cache : ~rsp_valid'[d]
    BY DEF Execute, CoherenceInv, OneTransaction, Left
  <2>2. req # None
    BY NoneAssumption DEF CoherenceInv, TypeOK
  <2> QED
    BY <2>1, <2>2 DEF Execute, CoherenceInv, TypeOK, OneTransaction, Request
<1>2. Operation(owner) = req /\ \A d \in Cache : d # owner => Operation(d) = request[d]
  BY <1>1 DEF Operation
<1>3. \A d \in Cache : Operation(d)' = IF d = owner THEN None ELSE Operation(d)
  BY <1>1, <1>2 DEF Operation
<1>4. \A a \in Addr : CurrentWord(a)' = IF req.write /\ a = req.addr THEN req.data
                                        ELSE CurrentWord(a)
  BY ExecuteWrites
<1>5. rsp_data' = CurrentWord(req.addr)'
  <2>1. FillData[req.addr.word] = CurrentWord(req.addr)
    BY <1>1, FillIsCurrent
  <2>2. rsp_data' = IF req.write THEN req.data ELSE FillData[req.addr.word]
    BY DEF Execute
  <2>3. CurrentWord(req.addr)' = IF req.write THEN req.data ELSE CurrentWord(req.addr)
    BY <1>1, <1>4
  <2> QED
    BY <2>1, <2>2, <2>3
<1>6. \A d \in Cache : Reply(d) = None
  BY <1>1 DEF Reply
<1>7. \A d \in Cache : Reply(d)' = IF d = owner THEN rsp_data' ELSE None
  BY <1>1 DEF Reply
<1>8. \A a \in Addr : dur(a)' \in {dur(a), mem(a)}
  BY ExecuteCommits
<1> QED
  BY <1>1, <1>2, <1>3, <1>4, <1>5, <1>6, <1>7, <1>8 DEF Serial!SPerform

(* The two caches implement one atomic memory that falls back on its       *)
(* durable part at a reset: initial states map to initial states, Execute  *)
(* to the operation, the other edges to a response taken or to a stutter.  *)
THEOREM Refinement == Spec => RefinesSerialMemory
<1>1. Init => Serial!SInit
  <2> SUFFICES ASSUME Init PROVE Serial!SInit
    OBVIOUS
  <2>1. backing_mem \in [Tag -> [Index -> LineData]]
        /\ \A c \in Cache, i \in Index : line[c][i].state = "I"
    BY DEF Init, ZeroLine
  <2>2. \A a \in Addr : /\ CurrentWord(a) = backing_mem[a.tag][a.index][a.word]
                        /\ backing_mem[a.tag][a.index][a.word] \in Value
    BY SMTT(30), <2>1 DEF CurrentWord, Owns, Addr, LineData
  <2>3. \A c \in Cache : Operation(c) = None /\ Reply(c) = None
    BY DEF Init, Operation, Reply
  <2> QED
    BY <2>2, <2>3 DEF Serial!SInit
<1>2. CoherenceInv /\ CoherenceInv' /\ [Next]_vars => [Serial!SNext]_(Serial!sVars)
  <2> SUFFICES ASSUME CoherenceInv, CoherenceInv', [Next]_vars
               PROVE  Serial!SNext \/ UNCHANGED Serial!sVars
    OBVIOUS
  <2> USE DEF Serial!sVars
  <2>1. CASE Reset
    <3>1. \A a \in Addr : CurrentWord(a)' = backing_mem[a.tag][a.index][a.word]
                          /\ backing_mem' = backing_mem
      BY <2>1 DEF Reset, ZeroLine, CurrentWord, Owns, Addr
    <3>2. \A c \in Cache : Operation(c)' = None /\ Reply(c)' = None
      BY <2>1 DEF Reset, Operation, Reply
    <3> QED
      BY <3>1, <3>2 DEF Serial!SNext, Serial!SReset
  <2>2. CASE MemInit
    <3> PICK b \in Addr, v \in Value :
          backing_mem' = [backing_mem EXCEPT ![b.tag][b.index][b.word] = v]
      BY <2>2 DEF MemInit
    <3>1. \A a \in Addr : CurrentWord(a) = backing_mem[a.tag][a.index][a.word]
      BY <2>2 DEF MemInit, CurrentWord, Owns, Addr
    <3>2. \A a \in Addr : CurrentWord(a)' = backing_mem'[a.tag][a.index][a.word]
      BY <2>2 DEF MemInit, CurrentWord, Owns, Addr
    <3>3. \A a \in Addr : backing_mem'[a.tag][a.index][a.word]
                            = IF a = b THEN v ELSE backing_mem[a.tag][a.index][a.word]
      <4>1. \A a \in Addr : a = b <=> a.tag = b.tag /\ a.index = b.index /\ a.word = b.word
        BY DEF Addr
      <4>2. backing_mem \in [Tag -> [Index -> [Word -> Value]]]
        BY DEF CoherenceInv, TypeOK, LineData
      <4>3. \A a \in Addr : a.tag \in Tag /\ a.index \in Index /\ a.word \in Word
        BY DEF Addr
      <4> QED
        BY <4>1, <4>2, <4>3
    <3>4. \A c \in Cache : Operation(c) = None /\ Reply(c) = None
                           /\ Operation(c)' = None /\ Reply(c)' = None
      BY <2>2 DEF MemInit, Operation, Reply, ctrlVars, rspVars
    <3>5. Serial!SInitialise(b, v)
      BY <3>1, <3>2, <3>3, <3>4 DEF Serial!SInitialise
    <3> QED
      BY <3>5 DEF Serial!SNext
  <2>3. ASSUME NEW c \in Cache, Present(c) PROVE Serial!SNext
    <3> PICK r \in Request : request' = [request EXCEPT ![c] = r]
      BY <2>3 DEF Present
    <3>1. Operation(c) = None /\ Reply(c) = None
      BY <2>3 DEF Present, Operation, Reply
    <3>2. \A d \in Cache : Operation(d)' = IF d = c THEN r ELSE Operation(d)
      BY <2>3, NoneAssumption DEF Present, Operation, ctrlVars, CoherenceInv, TypeOK
    <3>3. \A d \in Cache : Reply(d)' = Reply(d)
      BY <2>3 DEF Present, Reply, ctrlVars, rspVars
    <3>4. UNCHANGED <<line, backing_mem>>
      BY <2>3 DEF Present
    <3>5. r \in Serial!Request
      BY DEF Request, Serial!Request
    <3>6. Serial!SPresent(c)
      BY <3>1, <3>2, <3>3, <3>4, <3>5, MemoryUnchanged DEF Serial!SPresent
    <3> QED
      BY <3>6 DEF Serial!SNext
  <2>4. ASSUME NEW ready \in SUBSET Cache, NEW c \in Cache, Accept(c, ready)
        PROVE  UNCHANGED Serial!sVars
    <3>1. UNCHANGED <<line, backing_mem>> /\ \A d \in Cache : ~rsp_valid[d] /\ ~rsp_valid'[d]
      BY <2>4 DEF Accept, ReqReady, Left
    <3>2. \A d \in Cache : Operation(d)' = Operation(d)
      BY <2>4 DEF Accept, ReqReady, Operation, CoherenceInv, TypeOK
    <3>3. \A d \in Cache : Reply(d)' = Reply(d)
      BY <2>4, <3>1 DEF Accept, ReqReady, Reply
    <3> QED
      BY <3>1, <3>2, <3>3, MemoryUnchanged
  <2>5. ASSUME NEW ready \in SUBSET Cache, TakeResponse(ready)
        PROVE  Serial!SNext
    <3> DEFINE H == {c \in ready : rsp_valid[c]}
    <3>1. UNCHANGED <<line, backing_mem>>
      BY <2>5 DEF TakeResponse
    <3>2. \A d \in Cache : Operation(d)' = Operation(d)
      BY <2>5 DEF TakeResponse, Operation, ctrlVars
    <3>3. \A d \in Cache : Reply(d)' = IF d \in H THEN None ELSE Reply(d)
      BY <2>5 DEF TakeResponse, Reply, Left, ctrlVars
    <3>4. \E d \in H : Reply(d) # None
      BY <2>5, NoneAssumption DEF TakeResponse, Reply, CoherenceInv, TypeOK
    <3>5. H \in SUBSET Cache
      OBVIOUS
    <3>6. Serial!STake(H)
      BY <3>1, <3>2, <3>3, <3>4, <3>5, MemoryUnchanged DEF Serial!STake
    <3> QED
      BY <3>5, <3>6 DEF Serial!SNext
  <2>6. ASSUME NEW ready \in SUBSET Cache, Execute(ready) PROVE Serial!SNext
    <3> PICK c \in Cache : c = owner
      BY DEF CoherenceInv, TypeOK
    <3>1. Serial!SPerform(c)
      BY <2>6, ExecutePerforms
    <3> QED
      BY <3>1 DEF Serial!SNext
  <2>7. ASSUME NEW ready \in SUBSET Cache, Respond(ready)
        PROVE  UNCHANGED Serial!sVars
    <3>1. UNCHANGED <<line, backing_mem>>
      BY <2>7 DEF Respond
    <3>2. \A d \in Cache : Operation(d)' = Operation(d)
      BY <2>7 DEF Respond, Operation
    <3>3. ctrl_state = "RESPOND" /\ owner' = owner /\ ctrl_state' = "IDLE"
          /\ rsp_data' = rsp_data
          /\ \A d \in Cache : ~rsp_valid[d] /\ rsp_valid'[d] = (d = owner)
                              /\ rsp_rdata'[owner] = rsp_data
      BY <2>7 DEF Respond, Left, CoherenceInv, OneTransaction, TypeOK
    <3>4. \A d \in Cache : Reply(d)' = Reply(d)
      BY <3>3 DEF Reply
    <3> QED
      BY <3>1, <3>2, <3>4, MemoryUnchanged
  <2>8. CASE UNCHANGED vars
    <3>1. \A d \in Cache : Operation(d)' = Operation(d) /\ Reply(d)' = Reply(d)
      BY <2>8 DEF vars, Operation, Reply
    <3> QED
      BY <2>8, <3>1, MemoryUnchanged DEF vars
  <2> QED
    BY <2>1, <2>2, <2>3, <2>4, <2>5, <2>6, <2>7, <2>8 DEF Next, Step, Edge
<1> QED
  BY <1>1, <1>2, Coherence, PTL DEF Spec, RefinesSerialMemory, Serial!SSpec
-----------------------------------------------------------------------------
(* The parts of CoherenceInv that the runs check: one modified owner ...   *)
THEOREM SingleOwner == Spec => []ModifiedIsExclusive
BY Coherence, PTL DEF CoherenceInv

(* ... shared copies that equal memory ...                                 *)
THEOREM CleanShared == Spec => []SharedIsClean
BY Coherence, PTL DEF CoherenceInv

(* ... so the caches are coherent, ...                                     *)
THEOREM CoherentCaches == Spec => []CachesCoherent
BY SingleOwner, CleanShared, PTL DEF CachesCoherent

(* ... and one transaction at a time.                                      *)
THEOREM SingleTransaction == Spec => []OneTransaction
BY Coherence, PTL DEF CoherenceInv

(* Except at a reset, no step loses the data of a modified line: it stays  *)
(* modified somewhere or reaches memory (lines 153-178).                   *)
THEOREM DirtySurvival == Spec => DirtyDataSurvives
<1> DEFINE Lost(c, t, i) == Owns(c, t, i) /\ (\A d \in Cache : ~Owns(d, t, i)')
<1>1. ASSUME NEW c \in Cache, NEW t \in Tag, NEW i \in Index, Lost(c, t, i), UNCHANGED line
      PROVE FALSE
  BY <1>1 DEF Owns
<1>2. ASSUME TypeOK, NEW ready \in SUBSET Cache, Execute(ready),
             NEW c \in Cache, NEW t \in Tag, NEW i \in Index, Lost(c, t, i)
      PROVE backing_mem'[t][i] = line[c][i].data
  <2>1. \A d \in Cache : line'[d][i].state # "M" \/ line'[d][i].tag # t
    BY <1>2 DEF Owns
  <2>2. line[c][i].state = "M" /\ line[c][i].tag = t
    BY <1>2 DEF Owns
  <2>3. i = req.addr.index
    BY <1>2, <2>1, <2>2, ExecuteLines
  <2>4. /\ OwnerLine.state # "M" \/ OwnerLine.tag # t
        /\ OtherLine.state # "M" \/ OtherLine.tag # t
    BY <1>2, <2>1, <2>3, ExecuteLines
  <2>5. CASE c = owner
    <3>1. ~Hit(owner)
      BY <2>2, <2>3, <2>4, <2>5 DEF OwnerLine, Hit, Held
    <3> QED
      BY <1>2, <2>2, <2>3, <2>5, <3>1, ExecuteMemory DEF Hit, Held
  <2>6. CASE c = Other(owner)
    <3>1. Hit(Other(owner)) /\ ~Hit(owner)
      BY <2>2, <2>3, <2>4, <2>6 DEF OtherLine, OwnerLine, Hit, Held
    <3> QED
      BY <1>2, <2>2, <2>3, <2>6, <3>1, ExecuteMemory DEF Hit, Held
  <2> QED
    BY <1>2, <2>5, <2>6, ExecuteLines
<1>3. TypeOK /\ [Next]_vars =>
        [\/ Reset
         \/ \A c \in Cache, t \in Tag, i \in Index :
              Owns(c, t, i) /\ (\A d \in Cache : ~Owns(d, t, i)')
                => backing_mem'[t][i] = line[c][i].data]_vars
  <2> SUFFICES ASSUME TypeOK, Next, ~Reset,
                      NEW c \in Cache, NEW t \in Tag, NEW i \in Index, Lost(c, t, i)
               PROVE  backing_mem'[t][i] = line[c][i].data
    OBVIOUS
  <2>1. CASE MemInit
    BY <2>1, <1>1 DEF MemInit
  <2>2. ASSUME NEW d \in Cache, Present(d) PROVE FALSE
    BY <2>2, <1>1 DEF Present
  <2>3. ASSUME NEW ready \in SUBSET Cache, NEW d \in Cache, Accept(d, ready) PROVE FALSE
    BY <2>3, <1>1 DEF Accept
  <2>4. ASSUME NEW ready \in SUBSET Cache, TakeResponse(ready) PROVE FALSE
    BY <2>4, <1>1 DEF TakeResponse
  <2>5. ASSUME NEW ready \in SUBSET Cache, Respond(ready) PROVE FALSE
    BY <2>5, <1>1 DEF Respond
  <2> QED
    BY <2>1, <2>2, <2>3, <2>4, <2>5, <1>2 DEF Next, Step, Edge
<1> QED
  BY <1>3, TypeCorrect, PTL DEF Spec, DirtyDataSurvives
=============================================================================
