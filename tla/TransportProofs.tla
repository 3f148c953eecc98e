-------------------------- MODULE TransportProofs --------------------------
(***************************************************************************)
(* Proofs about Transport, for every set of words and values, all requests *)
(* and every injected fault.                                               *)
(***************************************************************************)
EXTENDS Transport, TLAPS

USE DEF Hart, Bank, Channel

(* A write whose address was taken and whose data was not; a transaction   *)
(* the target of its bank holds; a target that holds one.                  *)
Sent(h) == master[h].state = "WRITE" /\ master[h].aw_done
InTarget(h) == Sent(h) \/ master[h].state \in {"B", "R"}
Serving(b) == target[b].state # "IDLE" \/ target[b].aw_latched

MasterInv(h) ==
  LET m == master[h]
  IN  /\ m.state # "IDLE" => m.req # None
      /\ m.state \in {"WRITE", "B"} => m.req.write
      /\ m.state \in {"READ", "R"} => ~m.req.write
      /\ m.state = "IDLE" => ~m.aw_done
      /\ InTarget(h) => Serving(At(h)) /\ target[At(h)].id = h
      /\ route[h] = IF Sent(h) THEN <<At(h)>> ELSE <<>>

TargetInv(b) ==
  LET t == target[b]
  IN  /\ ~t.w_latched
      /\ t.aw_latched => t.state = "IDLE" /\ t.write /\ Sent(t.id)
      /\ t.state = "B" => t.write
      /\ t.state = "R" => ~t.write
      /\ t.state # "IDLE" => master[t.id].state = IF t.write THEN "B" ELSE "R"
      /\ t.state # "IDLE" /\ t.write => t.wdata = master[t.id].req.data
      /\ Serving(b) => /\ t.id \in Hart /\ t.owner = t.id
                       /\ t.write = master[t.id].req.write
                       /\ t.addr = master[t.id].req.addr /\ t.addr.bank = b
      /\ w_order[b] = IF t.aw_latched THEN <<t.id>> ELSE <<>>

(* A bank of the home holds a request exactly while its target waits.      *)
HomeInv(b) ==
  LET t == target[b]
  IN  /\ home[b] # None <=> t.state = "WAIT"
      /\ home[b] # None => /\ home[b].owner = t.id /\ home[b].write = t.write
                           /\ home[b].addr = t.addr /\ home[b].wdata = t.wdata
                           /\ response_bank[t.id] = b

(* A held grant belongs to a hart that still asks.                         *)
HoldInv(b) == \A c \in Channel : hold[b][c] # None => hold[b][c] \in Requests(b, c)

(* A hart that was overtaken is the next one.                              *)
AgeInv(h) ==
  /\ age[h] <= 1
  /\ \A c \in Channel : age[h] = 1 /\ Presents(h, c) =>
                          hold[At(h)][c] = h \/ Requests(At(h), c) = {h}

IInv == /\ TypeOK
        /\ \A h \in Hart : MasterInv(h) /\ AgeInv(h)
        /\ \A b \in Bank : TargetInv(b) /\ HomeInv(b) /\ HoldInv(b)

-----------------------------------------------------------------------------
LEMMA Singleton == \A x : <<x>> # <<>> /\ Head(<<x>>) = x /\ Tail(<<x>>) = <<>> /\ Len(<<x>>) = 1
  OBVIOUS

LEMMA RequestType ==
  ASSUME NEW r \in Request
  PROVE  r.write \in BOOLEAN /\ r.addr \in Addr /\ r.addr.bank \in Bank /\ r.data \in Value
  BY DEF Request, Addr

LEMMA MasterType ==
  ASSUME TypeOK, NEW h \in Hart
  PROVE  /\ master[h] \in Master
         /\ master[h].state \in {"IDLE", "WRITE", "B", "READ", "R", "RESP"}
         /\ master[h].aw_done \in BOOLEAN
         /\ master[h].req # None => /\ master[h].req \in Request /\ At(h) \in Bank
                                    /\ master[h].req.addr \in Addr
                                    /\ master[h].req.write \in BOOLEAN
                                    /\ master[h].req.data \in Value
  BY RequestType DEF TypeOK, Master, At

LEMMA TargetType ==
  ASSUME TypeOK, NEW b \in Bank
  PROVE  /\ target[b] \in Target
         /\ target[b].state \in {"IDLE", "REQ", "WAIT", "B", "R"}
         /\ target[b].aw_latched \in BOOLEAN /\ target[b].w_latched \in BOOLEAN
         /\ target[b].write \in BOOLEAN
         /\ target[b].wdata \in Value /\ target[b].rdata \in Value
         /\ target[b].error \in BOOLEAN
         /\ target[b].owner \in Hart \cup {None} /\ target[b].id \in Hart \cup {None}
         /\ target[b].addr \in Addr \cup {None}
  BY DEF TypeOK, Target

(* The one transaction of a hart is at the bank of its address.            *)
LEMMA OneBank ==
  ASSUME IInv, NEW b \in Bank, Serving(b)
  PROVE  target[b].id \in Hart /\ target[b].owner = target[b].id /\ At(target[b].id) = b
  BY DEF IInv, TargetInv, At

(* A port of the home carries the request of the bank of its hart.         *)
LEMMA AskingBank ==
  ASSUME IInv, NEW h \in Hart, NEW b \in Bank
  PROVE  b \in Asking(h) <=> target[b].state = "REQ" /\ target[b].id = h
  BY OneBank DEF Asking, Serving

(* What a bank is asked at the home is what its own target asks.           *)
LEMMA AskedTarget ==
  ASSUME IInv, NEW h \in Hart, Asking(h) # {}
  PROVE  At(h) \in Asking(h) /\ Asked(h) = target[At(h)]
<1>1. PICK b \in Bank : b \in Asking(h)
  BY DEF Asking
<1>2. \A c \in Bank : c \in Asking(h) => c = At(h)
  BY AskingBank, OneBank DEF Serving
<1>3. (IF 1 \in Asking(h) THEN 1 ELSE 0) = At(h)
  BY <1>1, <1>2
<1> QED
  BY <1>1, <1>2, <1>3 DEF Asked

LEMMA HomeBeatOwner ==
  ASSUME IInv, NEW favoured \in Hart, NEW b \in Bank
  PROVE  LET h == HomeBeat(b, favoured)
         IN  h # None => /\ h \in Hart /\ h = target[b].id /\ target[b].state = "REQ"
                         /\ home[b] = None /\ Asked(h) = target[b]
<1> DEFINE asking == {h \in Hart : Asking(h) # {} /\ Asked(h).addr.bank = b}
<1> SUFFICES ASSUME HomeBeat(b, favoured) # None
             PROVE  LET h == HomeBeat(b, favoured)
                    IN  /\ h \in Hart /\ h = target[b].id /\ target[b].state = "REQ"
                        /\ home[b] = None /\ Asked(h) = target[b]
  OBVIOUS
<1>1. home[b] = None /\ HomeBeat(b, favoured) \in asking
  BY DEF HomeBeat
<1>2. PICK h \in Hart : h = HomeBeat(b, favoured) /\ Asking(h) # {} /\ Asked(h).addr.bank = b
  BY <1>1
<1>3. At(h) \in Asking(h) /\ Asked(h) = target[At(h)]
  BY <1>2, AskedTarget
<1>4. At(h) \in Bank /\ target[At(h)].state = "REQ" /\ target[At(h)].id = h
  BY <1>3, AskingBank DEF Asking
<1>5. target[At(h)].addr.bank = At(h)
  BY <1>4 DEF IInv, TargetInv, Serving
<1>6. At(h) = b
  BY <1>2, <1>3, <1>5
<1> QED
  BY <1>1, <1>2, <1>3, <1>4, <1>6

LEMMA WaitingBank ==
  ASSUME IInv, NEW b \in Bank, target[b].state = "WAIT"
  PROVE  /\ Waiting(target[b].id)
         /\ HomeAnswers(target[b]) <=> home[b].reply # None
         /\ RspValid(b, target[b].id) <=> home[b].reply # None
         /\ home[b].reply # None => RspData(target[b].owner) = home[b].reply
<1>1. target[b].id \in Hart /\ target[b].owner = target[b].id /\ At(target[b].id) = b
  BY OneBank DEF Serving
<1>2. home[b] # None /\ home[b].owner = target[b].id /\ response_bank[target[b].id] = b
  BY DEF IInv, HomeInv
<1>3. \A c \in Bank : home[c] # None => target[c].state = "WAIT" /\ home[c].owner = target[c].id
  BY DEF IInv, HomeInv
<1>4. \A c \in Bank : home[c] # None /\ home[c].owner = target[b].id => c = b
  BY <1>1, <1>3, OneBank DEF Serving
<1> QED
  BY <1>1, <1>2, <1>4 DEF Waiting, HomeAnswers, RspValid, RspData

(* The bank whose answer a hart sees is the one that holds its request.    *)
LEMMA AnsweringBank ==
  ASSUME IInv, NEW h \in Hart, NEW s \in {"B", "R"}, NEW b \in Bank
  PROVE  /\ b \in Answering(h, s) <=> target[b].state = s /\ target[b].id = h
         /\ b \in Answering(h, s) => At(h) = b /\ Answer(h, s) = b
<1>1. \A c \in Bank : c \in Answering(h, s) <=> target[c].state = s /\ target[c].id = h
  BY DEF Answering
<1>2. \A c \in Bank : c \in Answering(h, s) => At(h) = c
  BY <1>1, OneBank DEF Serving
<1> QED
  BY <1>1, <1>2 DEF Answer

LEMMA AnsweredTarget ==
  ASSUME IInv, NEW b \in Bank
  PROVE  Answered(b) <=> target[b].state \in {"B", "R"}
<1> SUFFICES ASSUME target[b].state \in {"B", "R"} PROVE Answered(b)
  BY DEF Answered
<1>1. target[b].id \in Hart
  BY OneBank DEF Serving
<1>2. master[target[b].id].state = target[b].state
  BY DEF IInv, TargetInv
<1>3. b = Answer(target[b].id, target[b].state)
  BY <1>1, AnsweringBank
<1> QED
  BY <1>1, <1>2, <1>3 DEF Answered

-----------------------------------------------------------------------------
(* The beats of an edge.                                                   *)
LEMMA RequestsAt ==
  ASSUME IInv, NEW b \in Bank, NEW c \in Channel, NEW h \in Requests(b, c)
  PROVE  /\ h \in Hart /\ At(h) = b /\ Presents(h, c) /\ master[h].req # None
         /\ c = "AW" => /\ master[h].state = "WRITE" /\ ~master[h].aw_done
                        /\ master[h].req.write
         /\ c = "AR" => master[h].state = "READ" /\ ~master[h].req.write
<1>1. h \in Hart /\ At(h) = b /\ Presents(h, c)
  BY DEF Requests, At
<1> QED
  BY <1>1 DEF Presents, IInv, MasterInv

LEMMA GrantAsks ==
  ASSUME IInv, NEW b \in Bank, NEW c \in Channel, NEW favoured \in Hart
  PROVE  Grant(b, c, favoured) # None => Grant(b, c, favoured) \in Requests(b, c)
  BY DEF Grant, IInv, HoldInv

LEMMA AwBeatAsks ==
  ASSUME IInv, NEW b \in Bank, NEW allow, NEW favoured \in Hart
  PROVE  LET h == AwBeat(b, allow, favoured)
         IN  h # None => /\ h = Grant(b, "AW", favoured) /\ h \in Requests(b, "AW")
                         /\ target[b].state = "IDLE" /\ ~target[b].aw_latched
                         /\ select[b]
  BY GrantAsks DEF AwBeat, AwReady

LEMMA ArBeatAsks ==
  ASSUME IInv, NEW b \in Bank, NEW allow, NEW favoured \in Hart
  PROVE  LET h == ArBeat(b, allow, favoured)
         IN  h # None => /\ h = Grant(b, "AR", favoured) /\ h \in Requests(b, "AR")
                         /\ target[b].state = "IDLE" /\ ~target[b].aw_latched
                         /\ ~select[b]
  BY GrantAsks DEF ArBeat, ArReady

LEMMA WBeatFollows ==
  ASSUME IInv, NEW b \in Bank, NEW allow
  PROVE  LET h == WBeat(b, allow)
         IN  h # None => /\ h \in Hart /\ h = target[b].id /\ At(h) = b
                         /\ target[b].state = "IDLE" /\ target[b].aw_latched /\ select[b]
                         /\ Sent(h) /\ target[b].write
                         /\ target[b].owner = h /\ target[b].addr = master[h].req.addr
                         /\ w_order[b] = <<h>> /\ route[h] = <<b>>
<1> SUFFICES ASSUME WBeat(b, allow) # None
             PROVE  LET h == WBeat(b, allow)
                    IN  /\ h \in Hart /\ h = target[b].id /\ At(h) = b
                        /\ target[b].state = "IDLE" /\ target[b].aw_latched /\ select[b]
                        /\ Sent(h) /\ target[b].write
                        /\ target[b].owner = h /\ target[b].addr = master[h].req.addr
                        /\ w_order[b] = <<h>> /\ route[h] = <<b>>
  OBVIOUS
<1>1. WReady(b) /\ Selected(b) /\ WBeat(b, allow) = Head(w_order[b])
  BY DEF WBeat
<1>2. target[b].aw_latched /\ w_order[b] = <<target[b].id>>
  BY <1>1 DEF Selected, IInv, TargetInv
<1>3. WBeat(b, allow) = target[b].id
  BY <1>1, <1>2, Singleton
<1>4. /\ target[b].id \in Hart /\ At(target[b].id) = b /\ target[b].owner = target[b].id
      /\ target[b].write /\ Sent(target[b].id)
      /\ target[b].addr = master[target[b].id].req.addr
  BY <1>2, OneBank DEF IInv, TargetInv, Serving
<1>5. route[target[b].id] = <<b>>
  BY <1>4 DEF IInv, MasterInv
<1> QED
  BY <1>1, <1>2, <1>3, <1>4, <1>5 DEF WReady

(* What the invariant says of the beats of an edge.                        *)
Beats(aw, ar, w, asked) ==
  \A b \in Bank :
    /\ aw[b] # None => /\ aw[b] \in Requests(b, "AW") /\ ar[b] = None /\ w[b] = None
                       /\ target[b].state = "IDLE" /\ ~target[b].aw_latched /\ select[b]
    /\ ar[b] # None => /\ ar[b] \in Requests(b, "AR") /\ aw[b] = None /\ w[b] = None
                       /\ target[b].state = "IDLE" /\ ~target[b].aw_latched
    /\ w[b] # None => /\ w[b] \in Hart /\ aw[b] = None /\ ar[b] = None
                      /\ w[b] = target[b].id /\ At(w[b]) = b
                      /\ target[b].state = "IDLE" /\ target[b].aw_latched
                      /\ Sent(w[b]) /\ target[b].write
                      /\ target[b].owner = w[b] /\ target[b].addr = master[w[b]].req.addr
                      /\ w_order[b] = <<w[b]>> /\ route[w[b]] = <<b>>
    /\ asked[b] # None => /\ asked[b] \in Hart /\ asked[b] = target[b].id
                          /\ target[b].state = "REQ" /\ home[b] = None
                          /\ Asked(asked[b]) = target[b]

AwOf(allow, favoured) == [b \in Bank |-> AwBeat(b, allow, favoured)]
ArOf(allow, favoured) == [b \in Bank |-> ArBeat(b, allow, favoured)]
WOf(allow) == [b \in Bank |-> WBeat(b, allow)]
AskedOf(favoured) == [b \in Bank |-> HomeBeat(b, favoured)]

LEMMA EdgeBeats ==
  ASSUME IInv, NEW allow, NEW favoured \in Hart
  PROVE  Beats(AwOf(allow, favoured), ArOf(allow, favoured), WOf(allow), AskedOf(favoured))
<1> SUFFICES ASSUME NEW b \in Bank
             PROVE  LET aw == AwBeat(b, allow, favoured)
                        ar == ArBeat(b, allow, favoured)
                        w == WBeat(b, allow)
                        asked == HomeBeat(b, favoured)
                    IN  /\ aw # None => /\ aw \in Requests(b, "AW") /\ ar = None /\ w = None
                                        /\ target[b].state = "IDLE" /\ ~target[b].aw_latched
                                        /\ select[b]
                        /\ ar # None => /\ ar \in Requests(b, "AR") /\ aw = None /\ w = None
                                        /\ target[b].state = "IDLE" /\ ~target[b].aw_latched
                        /\ w # None => /\ w \in Hart /\ aw = None /\ ar = None
                                       /\ w = target[b].id /\ At(w) = b
                                       /\ target[b].state = "IDLE" /\ target[b].aw_latched
                                       /\ Sent(w) /\ target[b].write
                                       /\ target[b].owner = w
                                       /\ target[b].addr = master[w].req.addr
                                       /\ w_order[b] = <<w>> /\ route[w] = <<b>>
                        /\ asked # None => /\ asked \in Hart /\ asked = target[b].id
                                           /\ target[b].state = "REQ" /\ home[b] = None
                                           /\ Asked(asked) = target[b]
  BY DEF Beats, AwOf, ArOf, WOf, AskedOf
<1>1. LET aw == AwBeat(b, allow, favoured)
      IN  aw # None => /\ aw \in Requests(b, "AW") /\ target[b].state = "IDLE"
                       /\ ~target[b].aw_latched /\ select[b]
  BY AwBeatAsks
<1>2. LET ar == ArBeat(b, allow, favoured)
      IN  ar # None => /\ ar \in Requests(b, "AR") /\ target[b].state = "IDLE"
                       /\ ~target[b].aw_latched /\ ~select[b]
  BY ArBeatAsks
<1>3. LET w == WBeat(b, allow)
      IN  w # None => /\ w \in Hart /\ w = target[b].id /\ At(w) = b
                      /\ target[b].state = "IDLE" /\ target[b].aw_latched /\ select[b]
                      /\ Sent(w) /\ target[b].write /\ target[b].owner = w
                      /\ target[b].addr = master[w].req.addr
                      /\ w_order[b] = <<w>> /\ route[w] = <<b>>
  BY WBeatFollows
<1>4. LET asked == HomeBeat(b, favoured)
      IN  asked # None => /\ asked \in Hart /\ asked = target[b].id
                          /\ target[b].state = "REQ" /\ home[b] = None
                          /\ Asked(asked) = target[b]
  BY HomeBeatOwner
<1> QED
  BY <1>1, <1>2, <1>3, <1>4

(* A hart's beats are at the bank of its address.                          *)
LEMMA MovesAt ==
  ASSUME IInv, NEW aw, NEW ar, NEW w, NEW asked, Beats(aw, ar, w, asked), NEW h \in Hart
  PROVE  /\ Moves(aw, h) => At(h) \in Bank /\ aw[At(h)] = h
         /\ Moves(ar, h) => At(h) \in Bank /\ ar[At(h)] = h
         /\ Moves(w, h) => At(h) \in Bank /\ w[At(h)] = h
         /\ \A b \in Bank : target[b].state = "REQ" /\ target[b].id = h =>
              (Moves(asked, h) <=> asked[b] = h)
<1>0. h # None
  BY NoneAssumption
<1>1. Moves(aw, h) => At(h) \in Bank /\ aw[At(h)] = h
  BY <1>0, RequestsAt DEF Moves, Beats
<1>2. Moves(ar, h) => At(h) \in Bank /\ ar[At(h)] = h
  BY <1>0, RequestsAt DEF Moves, Beats
<1>3. Moves(w, h) => At(h) \in Bank /\ w[At(h)] = h
  BY <1>0 DEF Moves, Beats
<1>4. \A b \in Bank : asked[b] = h => At(h) = b
  BY <1>0, OneBank DEF Beats, Serving
<1>5. \A b \in Bank : target[b].state = "REQ" /\ target[b].id = h => At(h) = b
  BY OneBank DEF Serving
<1> QED
  BY <1>1, <1>2, <1>3, <1>4, <1>5 DEF Moves

-----------------------------------------------------------------------------
(* What an edge makes of a target, case by case.                           *)
SameRequest(n, t) == /\ n.id = t.id /\ n.owner = t.owner /\ n.write = t.write
                     /\ n.addr = t.addr /\ n.wdata = t.wdata
                     /\ ~n.aw_latched /\ ~n.w_latched

TargetStep(b, n, aw, ar, w, asked) ==
  LET t == target[b]
  IN  \/ /\ aw[b] # None /\ n.state = "IDLE" /\ n.aw_latched /\ ~n.w_latched
         /\ n.id = aw[b] /\ n.owner = aw[b] /\ n.write
         /\ n.addr = master[aw[b]].req.addr
      \/ /\ ar[b] # None /\ n.state \in {"REQ", "R"} /\ ~n.aw_latched /\ ~n.w_latched
         /\ n.id = ar[b] /\ n.owner = ar[b] /\ ~n.write
         /\ n.addr = master[ar[b]].req.addr
      \/ /\ w[b] # None /\ n.state \in {"REQ", "B"} /\ ~n.aw_latched /\ ~n.w_latched
         /\ n.id = w[b] /\ n.owner = w[b] /\ n.write
         /\ n.addr = master[w[b]].req.addr /\ n.wdata = master[w[b]].req.data
      \/ /\ t.state = "IDLE" /\ aw[b] = None /\ ar[b] = None /\ w[b] = None /\ n = t
      \/ /\ t.state = "REQ" /\ asked[b] # None /\ n.state = "WAIT" /\ SameRequest(n, t)
      \/ /\ t.state = "REQ" /\ asked[b] = None /\ n = t
      \/ /\ t.state = "WAIT" /\ home[b].reply # None
         /\ n.state = IF t.write THEN "B" ELSE "R"
         /\ SameRequest(n, t)
      \/ t.state = "WAIT" /\ home[b].reply = None /\ n = t
      \/ t.state \in {"B", "R"} /\ n = IdleTarget

LEMMA AddressedFields ==
  ASSUME TypeOK, NEW b \in Bank, NEW h \in Hart, NEW write \in BOOLEAN,
         master[h].req.addr \in Addr
  PROVE  LET n == Addressed(target[b], h, write)
         IN  /\ n \in Target
             /\ n.state = target[b].state /\ n.aw_latched = target[b].aw_latched
             /\ n.w_latched = target[b].w_latched /\ n.id = h /\ n.owner = h
             /\ n.write = write /\ n.addr = master[h].req.addr
             /\ n.wdata = target[b].wdata
  BY TargetType DEF Addressed, Target

LEMMA BegunFields ==
  ASSUME NEW t \in Target, NEW hit \in BOOLEAN
  PROVE  LET n == Begun(t, hit)
         IN  /\ n \in Target
             /\ n.state = IF ~hit THEN "REQ" ELSE IF t.write THEN "B" ELSE "R"
             /\ n.aw_latched = t.aw_latched /\ n.w_latched = t.w_latched
             /\ n.id = t.id /\ n.owner = t.owner /\ n.write = t.write
             /\ n.addr = t.addr /\ n.wdata = t.wdata /\ n.error = hit
  BY DEF Begun, Target

LEMMA TakesAddress ==
  ASSUME IInv, NEW aw, NEW ar, NEW w, NEW asked, Beats(aw, ar, w, asked),
         NEW b \in Bank, aw[b] # None
  PROVE  LET n == TargetEdge(b, aw, w, ar, asked)
         IN  n \in Target /\ TargetStep(b, n, aw, ar, w, asked)
<1> DEFINE r == Addressed(target[b], aw[b], TRUE)
           n == [r EXCEPT !.aw_latched = TRUE]
<1>1. /\ aw[b] \in Hart /\ master[aw[b]].req.addr \in Addr /\ ar[b] = None /\ w[b] = None
      /\ target[b].state = "IDLE"
  BY RequestsAt, MasterType DEF Beats, IInv
<1>2. TypeOK /\ ~target[b].w_latched
  BY DEF IInv, TargetInv
<1>4. Latched(b, aw, w) = n
  BY <1>1 DEF Latched
<1>r. /\ r \in Target /\ r.state = "IDLE" /\ r.w_latched = target[b].w_latched
      /\ r.id = aw[b] /\ r.owner = aw[b] /\ r.write = TRUE
      /\ r.addr = master[aw[b]].req.addr
  BY <1>1, <1>2, AddressedFields
<1> HIDE DEF r
<1>3. /\ n \in Target
      /\ n.state = "IDLE" /\ n.aw_latched = TRUE /\ n.w_latched = target[b].w_latched
      /\ n.id = aw[b] /\ n.owner = aw[b] /\ n.write = TRUE
      /\ n.addr = master[aw[b]].req.addr
  BY <1>r DEF Target
<1>5. ~Complete(n)
  BY <1>2, <1>3 DEF Complete
<1>6. TargetEdge(b, aw, w, ar, asked) = n
  BY <1>1, <1>4, <1>5 DEF TargetEdge
<1> HIDE DEF n
<1> QED
  BY <1>2, <1>3, <1>6 DEF TargetStep

LEMMA TakesRead ==
  ASSUME IInv, NEW aw, NEW ar, NEW w, NEW asked, Beats(aw, ar, w, asked),
         NEW b \in Bank, ar[b] # None
  PROVE  LET n == TargetEdge(b, aw, w, ar, asked)
         IN  n \in Target /\ TargetStep(b, n, aw, ar, w, asked)
<1> DEFINE r == Addressed(target[b], ar[b], FALSE)
           n == Begun(r, Faulty(FALSE, r.addr))
<1>1. /\ ar[b] \in Hart /\ master[ar[b]].req.addr \in Addr
      /\ target[b].state = "IDLE" /\ ~target[b].aw_latched
  BY RequestsAt, MasterType DEF Beats, IInv
<1>2. TypeOK /\ ~target[b].w_latched
  BY DEF IInv, TargetInv
<1>3. /\ r \in Target /\ r.aw_latched = target[b].aw_latched
      /\ r.w_latched = target[b].w_latched /\ r.id = ar[b] /\ r.owner = ar[b]
      /\ r.write = FALSE /\ r.addr = master[ar[b]].req.addr
  BY <1>1, <1>2, AddressedFields
<1>4. TargetEdge(b, aw, w, ar, asked) = n
  BY <1>1 DEF TargetEdge
<1> HIDE DEF r
<1>5. Faulty(FALSE, r.addr) \in BOOLEAN
  BY DEF Faulty
<1>6. /\ n \in Target /\ n.state \in {"REQ", "R"}
      /\ n.aw_latched = r.aw_latched /\ n.w_latched = r.w_latched
      /\ n.id = r.id /\ n.owner = r.owner /\ n.write = r.write /\ n.addr = r.addr
  BY <1>3, <1>5, BegunFields
<1> HIDE DEF n
<1> QED
  BY <1>1, <1>2, <1>3, <1>4, <1>6 DEF TargetStep

LEMMA TakesData ==
  ASSUME IInv, NEW aw, NEW ar, NEW w, NEW asked, Beats(aw, ar, w, asked),
         NEW b \in Bank, w[b] # None
  PROVE  LET n == TargetEdge(b, aw, w, ar, asked)
         IN  n \in Target /\ TargetStep(b, n, aw, ar, w, asked)
<1> DEFINE l == [target[b] EXCEPT !.w_latched = TRUE, !.wdata = master[w[b]].req.data]
           r == [l EXCEPT !.aw_latched = FALSE, !.w_latched = FALSE]
           hit == Faulty(TRUE, l.addr)
           n == Begun(r, hit)
<1>1. /\ w[b] \in Hart /\ w[b] = target[b].id /\ aw[b] = None /\ ar[b] = None
      /\ target[b].state = "IDLE" /\ target[b].aw_latched /\ target[b].write
      /\ target[b].owner = w[b] /\ target[b].addr = master[w[b]].req.addr
      /\ master[w[b]].state = "WRITE"
  BY DEF Beats, Sent
<1>2. TypeOK /\ master[w[b]].req # None
  BY <1>1 DEF IInv, MasterInv
<1>3. /\ master[w[b]].req.data \in Value /\ target[b] \in Target
      /\ target[b].write = TRUE
  BY <1>1, <1>2, MasterType, TargetType
<1>4. /\ r \in Target /\ r.aw_latched = FALSE /\ r.w_latched = FALSE /\ r.id = w[b] /\ r.owner = w[b]
      /\ r.write = TRUE /\ r.addr = target[b].addr /\ r.wdata = master[w[b]].req.data
      /\ Complete(l)
  BY <1>1, <1>3 DEF Target, Complete
<1>5. Latched(b, aw, w) = l
  BY <1>1 DEF Latched
<1>6. TargetEdge(b, aw, w, ar, asked) = n
  BY <1>1, <1>4, <1>5 DEF TargetEdge
<1>7. hit \in BOOLEAN
  BY DEF Faulty
<1> HIDE DEF l, r, hit
<1>8. /\ n \in Target /\ n.state \in {"REQ", "B"}
      /\ n.aw_latched = r.aw_latched /\ n.w_latched = r.w_latched
      /\ n.id = r.id /\ n.owner = r.owner /\ n.write = r.write /\ n.addr = r.addr
      /\ n.wdata = r.wdata
  BY <1>4, <1>7, BegunFields
<1> HIDE DEF n
<1> QED
  BY <1>1, <1>4, <1>6, <1>8 DEF TargetStep

LEMMA TargetMoves ==
  ASSUME IInv, NEW aw, NEW ar, NEW w, NEW asked, Beats(aw, ar, w, asked), NEW b \in Bank
  PROVE  LET n == TargetEdge(b, aw, w, ar, asked)
         IN  n \in Target /\ TargetStep(b, n, aw, ar, w, asked)
<1> DEFINE t == target[b]
           n == TargetEdge(b, aw, w, ar, asked)
<1>1. TypeOK /\ t \in Target /\ t.state \in {"IDLE", "REQ", "WAIT", "B", "R"}
      /\ t.write \in BOOLEAN
  BY TargetType DEF IInv
<1>2. ~t.w_latched /\ (t.state # "IDLE" => ~t.aw_latched)
  BY DEF IInv, TargetInv
<1>3. t.state # "IDLE" => t.id \in Hart /\ t.owner = t.id
  BY OneBank DEF Serving
<1>a. CASE aw[b] # None
  BY <1>a, TakesAddress
<1>b. CASE ar[b] # None
  BY <1>b, TakesRead
<1>c. CASE w[b] # None
  BY <1>c, TakesData
<1>d. CASE t.state = "IDLE" /\ aw[b] = None /\ ar[b] = None /\ w[b] = None
  <2>1. Latched(b, aw, w) = t
    BY <1>d DEF Latched
  <2>2. n = t
    BY <1>2, <1>d, <2>1 DEF TargetEdge, Complete
  <2> QED
    BY <1>1, <1>d, <2>2 DEF TargetStep
<1>e. CASE t.state = "REQ"
  <2>1. Moves(asked, t.owner) <=> asked[b] = t.id
    BY <1>3, <1>e, MovesAt
  <2>2. asked[b] = t.id <=> asked[b] # None
    BY <1>3, <1>e, NoneAssumption DEF Beats
  <2>3. CASE asked[b] = None
    <3>1. n = t
      BY <1>e, <2>1, <2>2, <2>3 DEF TargetEdge
    <3> QED
      BY <1>1, <1>e, <2>3, <3>1 DEF TargetStep
  <2>4. CASE asked[b] # None
    <3>1. n = [t EXCEPT !.state = "WAIT"]
      BY <1>e, <2>1, <2>2, <2>4 DEF TargetEdge
    <3> QED
      BY <1>1, <1>2, <1>e, <2>4, <3>1 DEF TargetStep, SameRequest, Target
  <2> QED
    BY <2>3, <2>4
<1>f. CASE t.state = "WAIT"
  <2>1. HomeAnswers(t) <=> home[b].reply # None
    BY <1>f, WaitingBank
  <2>2. CASE home[b].reply = None
    <3>1. n = t
      BY <1>f, <2>1, <2>2 DEF TargetEdge
    <3> QED
      BY <1>1, <1>f, <2>2, <3>1 DEF TargetStep
  <2>3. CASE home[b].reply # None
    <3>1. n = [t EXCEPT !.state = IF t.write THEN "B" ELSE "R", !.rdata = RspData(t.owner)]
      BY <1>f, <2>1, <2>3 DEF TargetEdge
    <3>2. home[b] # None /\ home[b] \in Accepted
      BY <1>1, <1>f DEF IInv, HomeInv, TypeOK
    <3>3. RspData(t.owner) \in Value
      BY <1>f, <2>3, <3>2, WaitingBank DEF Accepted
    <3>4. /\ n \in Target /\ SameRequest(n, t)
          /\ n.state = IF t.write THEN "B" ELSE "R"
      <4> DEFINE s == IF t.write THEN "B" ELSE "R"
                 d == RspData(t.owner)
      <4>1. s \in {"B", "R"}
        OBVIOUS
      <4>2. n = [t EXCEPT !.state = s, !.rdata = d] /\ d \in Value
        BY <3>1, <3>3
      <4> HIDE DEF s, d, n
      <4>3. n \in Target /\ SameRequest(n, t) /\ n.state = s
        BY <1>1, <1>2, <1>f, <4>1, <4>2 DEF SameRequest, Target
      <4> QED
        BY <4>3 DEF s
    <3> QED
      BY <1>f, <2>3, <3>4 DEF TargetStep
  <2> QED
    BY <2>2, <2>3
<1>g. CASE t.state \in {"B", "R"}
  <2>1. n = IdleTarget
    BY <1>g, AnsweredTarget DEF TargetEdge
  <2>2. IdleTarget \in Target
    BY ValueAssumption DEF IdleTarget, Target
  <2> QED
    BY <1>g, <2>1, <2>2 DEF TargetStep
<1> QED
  BY <1>1, <1>a, <1>b, <1>c, <1>d, <1>e, <1>f, <1>g

-----------------------------------------------------------------------------
(* What an edge makes of a master, case by case.                           *)
MasterStep(h, n, aw, w, ar) ==
  LET m == master[h]
  IN  \/ /\ m.state = "IDLE" /\ m.req # None /\ n.req = m.req /\ ~n.aw_done
         /\ n.state = IF m.req.write THEN "WRITE" ELSE "READ"
      \/ m.state = "IDLE" /\ m.req = None /\ n = m
      \/ /\ Sent(h) /\ w[At(h)] = h
         /\ n.state = "B" /\ n.req = m.req
      \/ /\ m.state = "WRITE" /\ ~m.aw_done /\ aw[At(h)] = h
         /\ n.state = "WRITE" /\ n.aw_done /\ n.req = m.req
      \/ m.state = "WRITE" /\ w[At(h)] # h /\ aw[At(h)] # h /\ n = m
      \/ m.state = "READ" /\ ar[At(h)] = h /\ n.state = "R" /\ n.req = m.req
      \/ m.state = "READ" /\ ar[At(h)] # h /\ n = m
      \/ /\ m.state \in {"B", "R"} /\ target[At(h)].state = m.state
         /\ n.state = "RESP" /\ n.req = m.req
      \/ m.state \in {"B", "R"} /\ target[At(h)].state \in {"REQ", "WAIT"} /\ n = m
      \/ m.state = "RESP" /\ (n = m \/ n = IdleMaster)

(* The target of a hart that waits for an answer serves it.                *)
LEMMA WaitsAtTarget ==
  ASSUME IInv, NEW h \in Hart, master[h].state \in {"B", "R"}
  PROVE  /\ At(h) \in Bank /\ target[At(h)].id = h
         /\ target[At(h)].state \in {"REQ", "WAIT", master[h].state}
<1>1. TypeOK /\ master[h].req # None /\ InTarget(h)
  BY DEF IInv, MasterInv, InTarget
<1>2. At(h) \in Bank /\ Serving(At(h)) /\ target[At(h)].id = h
  BY <1>1, MasterType DEF IInv, MasterInv
<1>3. ~Sent(h)
  BY DEF Sent
<1>4. target[At(h)].state # "IDLE"
  BY <1>2, <1>3 DEF Serving, IInv, TargetInv
<1>5. target[At(h)].state \in {"B", "R"} => target[At(h)].state = master[h].state
  BY <1>2, <1>4 DEF IInv, TargetInv
<1> QED
  BY <1>1, <1>2, <1>4, <1>5, TargetType

LEMMA MasterMoves ==
  ASSUME IInv, NEW aw, NEW ar, NEW w, NEW asked, Beats(aw, ar, w, asked),
         NEW h \in Hart, NEW taken
  PROVE  LET n == MasterEdge(h, aw, w, ar, taken)
         IN  n \in Master /\ MasterStep(h, n, aw, w, ar)
<1> DEFINE m == master[h]
           n == MasterEdge(h, aw, w, ar, taken)
<1>1. /\ m \in Master /\ m.state \in {"IDLE", "WRITE", "B", "READ", "R", "RESP"}
      /\ m.aw_done \in BOOLEAN
  BY MasterType DEF IInv
<1>2. /\ m.state # "IDLE" => m.req # None /\ At(h) \in Bank
      /\ m.state = "IDLE" => m.aw_done = FALSE
  BY <1>1, MasterType DEF IInv, MasterInv
<1>3. h # None /\ (At(h) \in Bank => /\ Moves(aw, h) <=> aw[At(h)] = h
                                     /\ Moves(ar, h) <=> ar[At(h)] = h
                                     /\ Moves(w, h) <=> w[At(h)] = h)
  BY MovesAt, NoneAssumption DEF Moves
<1>a. CASE m.state = "IDLE"
  <2>1. CASE m.req = None
    BY <1>1, <1>a, <2>1 DEF MasterEdge, MasterStep
  <2>2. CASE m.req # None
    <3> DEFINE s == IF m.req.write THEN "WRITE" ELSE "READ"
    <3>1. n = [m EXCEPT !.state = s] /\ s \in {"WRITE", "READ"}
      BY <1>a, <2>2 DEF MasterEdge
    <3> HIDE DEF n, s
    <3>2. n \in Master /\ n.state = s /\ n.req = m.req /\ n.aw_done = FALSE
      BY <1>1, <1>2, <1>a, <3>1 DEF Master
    <3> QED
      BY <1>a, <2>2, <3>2 DEF MasterStep, n, s
  <2> QED
    BY <2>1, <2>2
<1>b. CASE m.state = "WRITE" /\ w[At(h)] = h
  <2>1. Sent(h) /\ ~Moves(aw, h)
    <3>1. At(h) \in Bank /\ w[At(h)] # None
      BY <1>2, <1>3, <1>b
    <3>2. Sent(w[At(h)]) /\ aw[At(h)] # h
      BY <1>3, <3>1 DEF Beats
    <3> QED
      BY <1>3, <1>b, <3>1, <3>2
  <2>2. n = [m EXCEPT !.state = "B"]
    BY <1>2, <1>3, <1>b, <2>1 DEF MasterEdge
  <2> QED
    BY <1>1, <1>b, <2>1, <2>2 DEF MasterStep, Master
<1>c. CASE m.state = "WRITE" /\ w[At(h)] # h /\ aw[At(h)] = h
  <2>1. ~m.aw_done
    BY <1>2, <1>3, <1>c, RequestsAt DEF Beats
  <2>2. n = [m EXCEPT !.aw_done = TRUE]
    BY <1>2, <1>3, <1>c DEF MasterEdge
  <2> QED
    BY <1>1, <1>c, <2>1, <2>2 DEF MasterStep, Master
<1>d. CASE m.state = "WRITE" /\ w[At(h)] # h /\ aw[At(h)] # h
  <2>1. n = m
    BY <1>2, <1>3, <1>d DEF MasterEdge
  <2> QED
    BY <1>1, <1>d, <2>1 DEF MasterStep
<1>e. CASE m.state = "READ" /\ ar[At(h)] = h
  <2>1. n = [m EXCEPT !.state = "R"]
    BY <1>2, <1>3, <1>e DEF MasterEdge
  <2> QED
    BY <1>1, <1>e, <2>1 DEF MasterStep, Master
<1>f. CASE m.state = "READ" /\ ar[At(h)] # h
  <2>1. n = m
    BY <1>2, <1>3, <1>f DEF MasterEdge
  <2> QED
    BY <1>1, <1>f, <2>1 DEF MasterStep
<1>g. CASE m.state \in {"B", "R"}
  <2>1. /\ target[At(h)].id = h /\ At(h) \in Bank
        /\ target[At(h)].state \in {"REQ", "WAIT", m.state}
    BY <1>g, WaitsAtTarget
  <2>2. CASE target[At(h)].state = m.state
    <3>1. Answer(h, m.state) = At(h) /\ Answering(h, m.state) # {}
      BY <1>g, <2>1, <2>2, AnsweringBank
    <3>2. target[At(h)].error \in BOOLEAN /\ target[At(h)].rdata \in Value
      BY <2>1, TargetType DEF IInv
    <3>3. CASE m.state = "B"
      <4>1. n = [m EXCEPT !.state = "RESP", !.error = target[At(h)].error]
        BY <3>1, <3>3 DEF MasterEdge
      <4> QED
        BY <1>1, <1>g, <2>2, <3>2, <4>1 DEF MasterStep, Master
    <3>4. CASE m.state = "R"
      <4>1. n = [m EXCEPT !.state = "RESP", !.error = target[At(h)].error,
                          !.rdata = target[At(h)].rdata]
        BY <3>1, <3>4 DEF MasterEdge
      <4> QED
        BY <1>1, <1>g, <2>2, <3>2, <4>1 DEF MasterStep, Master
    <3> QED
      BY <1>g, <3>3, <3>4
  <2>3. CASE target[At(h)].state # m.state
    <3>1. Answering(h, m.state) = {}
      BY <1>g, <2>3, AnsweringBank DEF Answering
    <3>2. n = m
      BY <1>g, <3>1 DEF MasterEdge
    <3> QED
      BY <1>1, <1>g, <2>1, <2>3, <3>2 DEF MasterStep
  <2> QED
    BY <2>2, <2>3
<1>h. CASE m.state = "RESP"
  <2>1. n = m \/ n = IdleMaster
    BY <1>h DEF MasterEdge
  <2>2. IdleMaster \in Master
    BY ValueAssumption DEF IdleMaster, Master
  <2> QED
    BY <1>1, <1>h, <2>1, <2>2 DEF MasterStep
<1> QED
  BY <1>1, <1>a, <1>b, <1>c, <1>d, <1>e, <1>f, <1>g, <1>h

-----------------------------------------------------------------------------
(* An edge, by the cases of its masters and targets.                       *)
Step(aw, ar, w, asked) ==
  /\ Beats(aw, ar, w, asked)
  /\ \A h \in Hart : master'[h] \in Master /\ MasterStep(h, master'[h], aw, w, ar)
  /\ \A b \in Bank : target'[b] \in Target /\ TargetStep(b, target'[b], aw, ar, w, asked)
  /\ \A h \in Hart : route'[h] = RouteEdge(h, aw, w)
  /\ \A b \in Bank : w_order'[b] = OrderEdge(b, aw, w)
  /\ \A b \in Bank : home'[b] = HomeEdge(b, asked)

LEMMA EdgeIsStep ==
  ASSUME IInv, NEW allow, NEW favoured \in Hart, NEW taken, Edge(allow, favoured, taken)
  PROVE  Step(AwOf(allow, favoured), ArOf(allow, favoured), WOf(allow), AskedOf(favoured))
<1> DEFINE aw == AwOf(allow, favoured)
           ar == ArOf(allow, favoured)
           w == WOf(allow)
           asked == AskedOf(favoured)
<1>1. Beats(aw, ar, w, asked)
  BY EdgeBeats
<1>2. /\ master' = [h \in Hart |-> MasterEdge(h, aw, w, ar, taken)]
      /\ target' = [b \in Bank |-> TargetEdge(b, aw, w, ar, asked)]
      /\ route' = [h \in Hart |-> RouteEdge(h, aw, w)]
      /\ w_order' = [b \in Bank |-> OrderEdge(b, aw, w)]
      /\ home' = [b \in Bank |-> HomeEdge(b, asked)]
  BY DEF Edge, AwOf, ArOf, WOf, AskedOf
<1> HIDE DEF aw, ar, w, asked
<1>3. ASSUME NEW h \in Hart
      PROVE  master'[h] \in Master /\ MasterStep(h, master'[h], aw, w, ar)
  BY <1>1, <1>2, MasterMoves
<1>4. ASSUME NEW b \in Bank
      PROVE  target'[b] \in Target /\ TargetStep(b, target'[b], aw, ar, w, asked)
  BY <1>1, <1>2, TargetMoves
<1>5. Step(aw, ar, w, asked)
  BY <1>1, <1>2, <1>3, <1>4 DEF Step
<1> QED
  BY <1>5 DEF aw, ar, w, asked

(* The master of a request that its bank has not answered stays.           *)
LEMMA MasterStays ==
  ASSUME IInv, NEW aw, NEW ar, NEW w, NEW asked, Step(aw, ar, w, asked),
         NEW b \in Bank, target[b].state \in {"REQ", "WAIT"}
  PROVE  master'[target[b].id] = master[target[b].id]
<1>1. target[b].id \in Hart /\ At(target[b].id) = b
  BY OneBank DEF Serving
<1>2. master[target[b].id].state \in {"B", "R"}
  BY DEF IInv, TargetInv
<1> QED
  BY <1>1, <1>2 DEF Step, MasterStep, Sent

LEMMA StepMaster ==
  ASSUME IInv, NEW aw, NEW ar, NEW w, NEW asked, Step(aw, ar, w, asked), NEW h \in Hart
  PROVE  MasterInv(h)'
<1> DEFINE m == master[h]
           n == master'[h]
<1>0. h # None /\ Beats(aw, ar, w, asked) /\ MasterInv(h) /\ TypeOK
  BY NoneAssumption DEF Step, IInv
<1>1. /\ m \in Master /\ m.aw_done \in BOOLEAN /\ n \in Master
      /\ m.state \in {"IDLE", "WRITE", "B", "READ", "R", "RESP"}
      /\ m.req # None => At(h) \in Bank /\ At(h) = m.req.addr.bank /\ m.req.write \in BOOLEAN
  BY <1>0, MasterType DEF Step, At
<1>2. MasterStep(h, n, aw, w, ar)
  BY DEF Step
<1>3. At(h) \in Bank => /\ TargetStep(At(h), target'[At(h)], aw, ar, w, asked)
                        /\ Moves(aw, h) <=> aw[At(h)] = h
                        /\ Moves(w, h) <=> w[At(h)] = h
  BY <1>0, MovesAt DEF Step, Moves
<1>4. m.req # None => m.req.addr.bank = At(h)
  BY DEF At
<1>r. route'[h] = RouteEdge(h, aw, w)
  BY DEF Step
<1>m. /\ Moves(w, h) => Sent(h)
      /\ Moves(aw, h) => m.state = "WRITE" /\ ~m.aw_done
  <2>1. Moves(w, h) => Sent(h)
    <3> SUFFICES ASSUME Moves(w, h) PROVE Sent(h)
      OBVIOUS
    <3>1. PICK b \in Bank : w[b] = h
      BY DEF Moves
    <3>2. w[b] # None
      BY <1>0, <3>1
    <3>3. Sent(w[b])
      BY <1>0, <3>2 DEF Beats
    <3> QED
      BY <3>1, <3>3
  <2>2. Moves(aw, h) => m.state = "WRITE" /\ ~m.aw_done
    BY <1>0, RequestsAt DEF Moves, Beats
  <2> QED
    BY <2>1, <2>2
<1>n. m.state # "WRITE" => ~Moves(w, h) /\ ~Moves(aw, h) /\ ~Sent(h)
  BY <1>m DEF Sent
<1>o. ~Moves(w, h) /\ ~Moves(aw, h) => route'[h] = route[h]
  BY <1>r DEF RouteEdge
<1> DEFINE Parts(q) == /\ n.state # "IDLE" => n.req # None
                       /\ n.state \in {"WRITE", "B"} => n.req.write
                       /\ n.state \in {"READ", "R"} => ~n.req.write
                       /\ n.state = "IDLE" => ~n.aw_done
                       /\ q \/ n.state \in {"B", "R"} =>
                            /\ target'[n.req.addr.bank].state # "IDLE"
                               \/ target'[n.req.addr.bank].aw_latched
                            /\ target'[n.req.addr.bank].id = h
                       /\ route'[h] = IF q THEN <<n.req.addr.bank>> ELSE <<>>
<1>s. SUFFICES Parts(n.state = "WRITE" /\ n.aw_done)
  BY DEF MasterInv, InTarget, Serving, Sent, At
<1>a. CASE m.state = "IDLE" /\ m.req # None
  <2>1. n.req = m.req /\ ~n.aw_done /\ n.state = IF m.req.write THEN "WRITE" ELSE "READ"
    BY <1>2, <1>a DEF MasterStep, Sent
  <2>2. route'[h] = <<>>
    BY <1>0, <1>a, <1>n, <1>o DEF MasterInv
  <2> QED
    BY <1>a, <2>1, <2>2
<1>b. CASE m.state = "IDLE" /\ m.req = None
  <2>1. n = m
    BY <1>2, <1>b DEF MasterStep, Sent
  <2>2. route'[h] = <<>> /\ ~m.aw_done
    BY <1>0, <1>b, <1>n, <1>o DEF MasterInv
  <2> QED
    BY <1>b, <2>1, <2>2
<1>c. CASE Sent(h) /\ w[At(h)] = h
  <2>1. n.state = "B" /\ n.req = m.req /\ m.req # None /\ m.req.write /\ m.state = "WRITE"
    BY <1>0, <1>2, <1>c DEF MasterStep, Sent, MasterInv
  <2>2. At(h) \in Bank /\ w[At(h)] # None
    BY <1>0, <1>1, <1>c, <2>1
  <2>3. target'[At(h)].state \in {"REQ", "B"} /\ target'[At(h)].id = h
    <3>1. target[At(h)].state = "IDLE" /\ aw[At(h)] = None /\ ar[At(h)] = None
      BY <1>0, <2>2 DEF Beats
    <3> QED
      BY <1>3, <1>c, <2>2, <3>1 DEF TargetStep
  <2>4. Moves(w, h) /\ ~Moves(aw, h)
    BY <1>3, <1>c, <1>m, <2>2 DEF Sent
  <2>5. route'[h] = <<>>
    BY <1>0, <1>c, <1>r, <2>4, Singleton DEF RouteEdge, MasterInv
  <2> QED
    BY <1>4, <2>1, <2>3, <2>5
<1>d. CASE m.state = "WRITE" /\ ~m.aw_done /\ aw[At(h)] = h
  <2>1. n.state = "WRITE" /\ n.aw_done /\ n.req = m.req /\ m.req # None /\ m.req.write
    BY <1>0, <1>2, <1>d DEF MasterStep, Sent, MasterInv
  <2>2. At(h) \in Bank /\ aw[At(h)] # None
    BY <1>0, <1>1, <1>d, <2>1
  <2>3. target'[At(h)].aw_latched /\ target'[At(h)].id = h
    <3>1. target[At(h)].state = "IDLE" /\ w[At(h)] = None /\ ar[At(h)] = None
      BY <1>0, <2>2 DEF Beats
    <3> QED
      BY <1>3, <1>d, <2>2, <3>1 DEF TargetStep
  <2>4. Moves(aw, h) /\ ~Moves(w, h) /\ route[h] = <<>>
    BY <1>0, <1>3, <1>d, <1>m, <2>2 DEF Sent, MasterInv
  <2>5. route'[h] = <<m.req.addr.bank>>
    BY <1>r, <2>4 DEF RouteEdge
  <2> QED
    BY <1>4, <2>1, <2>3, <2>5
<1>e. CASE m.state = "WRITE" /\ w[At(h)] # h /\ aw[At(h)] # h
  <2>1. n = m /\ m.req # None /\ At(h) \in Bank /\ m.req.write
    BY <1>0, <1>1, <1>2, <1>e DEF MasterStep, Sent, MasterInv
  <2>2. ~Moves(w, h) /\ ~Moves(aw, h) /\ route'[h] = route[h]
    BY <1>3, <1>e, <1>o, <2>1
  <2>3. CASE Sent(h)
    <3>1. target[At(h)].id = h /\ target[At(h)].aw_latched /\ target[At(h)].state = "IDLE"
      <4>1. Serving(At(h)) /\ target[At(h)].id = h
        BY <1>0, <2>3 DEF MasterInv, InTarget
      <4>2. target[At(h)].state = "IDLE"
        BY <1>e, <2>1, <4>1 DEF IInv, TargetInv
      <4> QED
        BY <4>1, <4>2 DEF Serving
    <3>2. aw[At(h)] = None /\ ar[At(h)] = None
      BY <1>0, <2>1, <3>1 DEF Beats
    <3>3. w[At(h)] = None
      BY <1>0, <1>e, <2>1, <3>1 DEF Beats
    <3>4. target'[At(h)] = target[At(h)]
      BY <1>3, <2>1, <3>1, <3>2, <3>3 DEF TargetStep
    <3> QED
      BY <1>0, <1>4, <1>e, <2>1, <2>2, <2>3, <3>1, <3>4 DEF Sent, MasterInv
  <2>4. CASE ~Sent(h)
    BY <1>0, <1>e, <2>1, <2>2, <2>4 DEF Sent, MasterInv
  <2> QED
    BY <2>3, <2>4
<1>f. CASE m.state = "READ" /\ ar[At(h)] = h
  <2>1. n.state = "R" /\ n.req = m.req /\ m.req # None /\ ~m.req.write
    BY <1>0, <1>2, <1>f DEF MasterStep, Sent, MasterInv
  <2>2. At(h) \in Bank /\ ar[At(h)] # None
    BY <1>0, <1>1, <1>f, <2>1
  <2>3. target'[At(h)].state # "IDLE" /\ target'[At(h)].id = h
    <3>1. target[At(h)].state = "IDLE" /\ aw[At(h)] = None /\ w[At(h)] = None
      BY <1>0, <2>2 DEF Beats
    <3> QED
      BY <1>3, <1>f, <2>2, <3>1 DEF TargetStep
  <2>4. route'[h] = <<>>
    BY <1>0, <1>f, <1>n, <1>o DEF MasterInv
  <2> QED
    BY <1>4, <2>1, <2>3, <2>4
<1>g. CASE m.state = "READ" /\ ar[At(h)] # h
  <2>1. n = m
    BY <1>2, <1>g DEF MasterStep, Sent
  <2>2. route'[h] = <<>> /\ m.req # None /\ ~m.req.write
    BY <1>0, <1>g, <1>n, <1>o DEF MasterInv
  <2> QED
    BY <1>g, <2>1, <2>2
<1>h. CASE m.state \in {"B", "R"}
  <2>1. /\ At(h) \in Bank /\ target[At(h)].id = h /\ target[At(h)].state \in {"REQ", "WAIT", m.state}
        /\ m.req # None
    BY <1>0, <1>h, WaitsAtTarget DEF MasterInv
  <2>2. route'[h] = <<>>
    BY <1>0, <1>h, <1>n, <1>o DEF MasterInv
  <2>3. CASE target[At(h)].state = m.state
    <3>1. n.state = "RESP" /\ n.req = m.req
      BY <1>2, <1>h, <2>3 DEF MasterStep, Sent
    <3> QED
      BY <2>1, <2>2, <3>1
  <2>4. CASE target[At(h)].state \in {"REQ", "WAIT"}
    <3>1. n = m
      BY <1>2, <1>h, <2>4 DEF MasterStep, Sent
    <3>2. aw[At(h)] = None /\ ar[At(h)] = None /\ w[At(h)] = None
      BY <1>0, <2>1, <2>4 DEF Beats
    <3>3. target'[At(h)].state # "IDLE" /\ target'[At(h)].id = h
      <4>1. TargetStep(At(h), target'[At(h)], aw, ar, w, asked)
        BY <1>3, <2>1
      <4>2. "B" # "IDLE" /\ "R" # "IDLE"
        OBVIOUS
      <4> QED
        BY <2>1, <2>4, <3>2, <4>1, <4>2 DEF TargetStep, SameRequest
    <3> QED
      BY <1>0, <1>4, <1>h, <2>1, <2>2, <3>1, <3>3 DEF MasterInv
  <2> QED
    BY <2>1, <2>3, <2>4
<1>i. CASE m.state = "RESP"
  <2>1. n = m \/ n = IdleMaster
    BY <1>2, <1>i DEF MasterStep, Sent
  <2>2. route'[h] = <<>> /\ m.req # None
    BY <1>0, <1>i, <1>n, <1>o DEF MasterInv
  <2> QED
    BY <1>i, <2>1, <2>2 DEF IdleMaster
<1>j. CASE m.state = "WRITE"
  <2>1. At(h) \in Bank
    BY <1>0, <1>1, <1>j DEF MasterInv
  <2>2. w[At(h)] = h => Sent(h)
    BY <1>3, <1>m, <2>1
  <2>3. aw[At(h)] = h => ~m.aw_done
    BY <1>3, <1>m, <2>1
  <2> QED
    BY <1>c, <1>d, <1>e, <1>j, <2>2, <2>3
<1> QED
  BY <1>1, <1>a, <1>b, <1>f, <1>g, <1>h, <1>i, <1>j

LEMMA StepTarget ==
  ASSUME IInv, NEW aw, NEW ar, NEW w, NEW asked, Step(aw, ar, w, asked), NEW b \in Bank
  PROVE  TargetInv(b)'
<1> DEFINE t == target[b]
           n == target'[b]
<1>0. Beats(aw, ar, w, asked) /\ TargetInv(b) /\ TypeOK /\ n \in Target
  BY DEF Step, IInv
<1>1. TargetStep(b, n, aw, ar, w, asked)
  BY DEF Step
<1>2. w_order'[b] = OrderEdge(b, aw, w)
  BY DEF Step
<1>3. /\ t.state \in {"IDLE", "REQ", "WAIT", "B", "R"} /\ t.write \in BOOLEAN
      /\ n.write \in BOOLEAN /\ n.aw_latched \in BOOLEAN /\ n.w_latched \in BOOLEAN
  BY <1>0, TargetType DEF Target
<1>4. ASSUME NEW h \in Hart, master[h].req # None
      PROVE  /\ MasterStep(h, master'[h], aw, w, ar) /\ master[h].req.addr.bank = At(h)
             /\ master[h].req.write \in BOOLEAN
  BY <1>0, <1>4, MasterType DEF Step, At
<1>5. w[b] = None => OrderEdge(b, aw, w) = IF aw[b] # None THEN Append(w_order[b], aw[b])
                                           ELSE w_order[b]
  BY DEF OrderEdge
<1> DEFINE Parts ==
      /\ ~n.w_latched
      /\ n.aw_latched => /\ n.state = "IDLE" /\ n.write
                         /\ master'[n.id].state = "WRITE" /\ master'[n.id].aw_done
      /\ n.state = "B" => n.write
      /\ n.state = "R" => ~n.write
      /\ n.state # "IDLE" => master'[n.id].state = IF n.write THEN "B" ELSE "R"
      /\ n.state # "IDLE" /\ n.write => n.wdata = master'[n.id].req.data
      /\ n.state # "IDLE" \/ n.aw_latched =>
           /\ n.id \in Hart /\ n.owner = n.id
           /\ n.write = master'[n.id].req.write
           /\ n.addr = master'[n.id].req.addr /\ n.addr.bank = b
      /\ w_order'[b] = IF n.aw_latched THEN <<n.id>> ELSE <<>>
<1>s. SUFFICES Parts
  BY DEF TargetInv, Sent, Serving
<1>a. CASE aw[b] # None
  <2> DEFINE h == aw[b]
  <2>1. /\ h \in Requests(b, "AW") /\ ar[b] = None /\ w[b] = None /\ t.state = "IDLE"
        /\ ~t.aw_latched
    BY <1>0, <1>a DEF Beats
  <2>2. /\ h \in Hart /\ At(h) = b /\ master[h].req # None /\ master[h].req.write
        /\ master[h].state = "WRITE" /\ ~master[h].aw_done
    BY <2>1, RequestsAt
  <2>3. /\ n.state = "IDLE" /\ n.aw_latched /\ ~n.w_latched /\ n.id = h /\ n.owner = h
        /\ n.write /\ n.addr = master[h].req.addr
    BY <1>1, <1>a, <2>1 DEF TargetStep
  <2>4. w[b] # h
    BY <2>1, <2>2, NoneAssumption
  <2>5. /\ master'[h].state = "WRITE" /\ master'[h].aw_done
        /\ master'[h].req = master[h].req
    BY <1>4, <2>2, <2>4 DEF MasterStep, Sent
  <2>6. w_order'[b] = <<h>>
    BY <1>0, <1>2, <1>5, <1>a, <2>1 DEF TargetInv
  <2>7. n.write = master'[h].req.write
    BY <1>3, <1>4, <2>2, <2>3, <2>5
  <2>8. n.addr.bank = b
    BY <1>4, <2>2, <2>3
  <2> HIDE DEF h
  <2> QED
    BY <2>2, <2>3, <2>5, <2>6, <2>7, <2>8
<1>b. CASE ar[b] # None
  <2> DEFINE h == ar[b]
  <2>1. /\ h \in Requests(b, "AR") /\ aw[b] = None /\ w[b] = None /\ t.state = "IDLE"
        /\ ~t.aw_latched
    BY <1>0, <1>b DEF Beats
  <2>2. /\ h \in Hart /\ At(h) = b /\ master[h].req # None /\ ~master[h].req.write
        /\ master[h].state = "READ"
    BY <2>1, RequestsAt
  <2>3. /\ n.state \in {"REQ", "R"} /\ ~n.aw_latched /\ ~n.w_latched /\ n.id = h /\ n.owner = h
        /\ ~n.write /\ n.addr = master[h].req.addr
    BY <1>1, <1>b, <2>1 DEF TargetStep
  <2>5. master'[h].state = "R" /\ master'[h].req = master[h].req
    BY <1>4, <2>2 DEF MasterStep, Sent
  <2>6. w_order'[b] = <<>>
    BY <1>0, <1>2, <1>5, <1>b, <2>1 DEF TargetInv
  <2>7. n.write = master'[h].req.write
    BY <1>3, <1>4, <2>2, <2>3, <2>5
  <2>8. n.addr.bank = b
    BY <1>4, <2>2, <2>3
  <2> HIDE DEF h
  <2> QED
    BY <2>2, <2>3, <2>5, <2>6, <2>7, <2>8
<1>c. CASE w[b] # None
  <2> DEFINE h == w[b]
  <2>1. /\ h \in Hart /\ At(h) = b /\ aw[b] = None /\ ar[b] = None /\ t.state = "IDLE"
        /\ w_order[b] = <<h>> /\ Sent(h)
    BY <1>0, <1>c DEF Beats
  <2>2. master[h].req # None /\ master[h].req.write /\ master[h].state = "WRITE"
    BY <2>1 DEF Sent, IInv, MasterInv
  <2>3. /\ n.state \in {"REQ", "B"} /\ ~n.aw_latched /\ ~n.w_latched /\ n.id = h /\ n.owner = h
        /\ n.write /\ n.addr = master[h].req.addr /\ n.wdata = master[h].req.data
    BY <1>1, <1>c, <2>1 DEF TargetStep
  <2>5. master'[h].state = "B" /\ master'[h].req = master[h].req
    <3>1. w[At(h)] = h /\ master[h].aw_done
      BY <2>1 DEF Sent
    <3> QED
      BY <1>4, <2>1, <2>2, <3>1 DEF MasterStep
  <2>6. w_order'[b] = <<>>
    BY <1>2, <1>c, <2>1, Singleton DEF OrderEdge
  <2>7. n.write = master'[h].req.write
    BY <1>3, <1>4, <2>1, <2>2, <2>3, <2>5
  <2>8. n.addr.bank = b
    BY <1>4, <2>1, <2>2, <2>3
  <2> HIDE DEF h
  <2> QED
    BY <2>1, <2>3, <2>5, <2>6, <2>7, <2>8
<1>d. CASE t.state = "IDLE" /\ aw[b] = None /\ ar[b] = None /\ w[b] = None
  <2>1. n = t
    BY <1>1, <1>d DEF TargetStep
  <2>2. w_order'[b] = w_order[b]
    BY <1>2, <1>5, <1>d
  <2>3. CASE t.aw_latched
    <3>1. /\ t.id \in Hart /\ Sent(t.id) /\ At(t.id) = b /\ t.write
          /\ t.owner = t.id /\ t.write = master[t.id].req.write
          /\ t.addr = master[t.id].req.addr /\ t.addr.bank = b
      BY <1>0, <2>3, OneBank DEF TargetInv, Serving
    <3>2. master[t.id].req # None /\ master[t.id].state = "WRITE" /\ master[t.id].aw_done
      BY <3>1 DEF IInv, MasterInv, Sent
    <3>3. w[At(t.id)] # t.id /\ aw[At(t.id)] # t.id
      BY <1>d, <3>1, NoneAssumption
    <3>4. master'[t.id] = master[t.id]
      BY <1>4, <3>1, <3>2, <3>3 DEF MasterStep
    <3> QED
      BY <1>0, <1>d, <2>1, <2>2, <2>3, <3>1, <3>2, <3>4 DEF TargetInv
  <2>4. CASE ~t.aw_latched
    BY <1>0, <1>d, <2>1, <2>2, <2>4 DEF TargetInv
  <2> QED
    BY <2>3, <2>4
<1>e. CASE t.state \in {"REQ", "WAIT"}
  <2>1. aw[b] = None /\ ar[b] = None /\ w[b] = None
    BY <1>0, <1>e DEF Beats
  <2>2. master'[t.id] = master[t.id]
    BY <1>e, MasterStays
  <2>3. /\ t.id \in Hart /\ t.owner = t.id /\ ~t.aw_latched /\ ~t.w_latched
        /\ t.write = master[t.id].req.write
        /\ t.addr = master[t.id].req.addr /\ t.addr.bank = b
        /\ master[t.id].state = IF t.write THEN "B" ELSE "R"
        /\ t.write => t.wdata = master[t.id].req.data
    BY <1>0, <1>e DEF TargetInv, Serving
  <2>4. w_order'[b] = <<>>
    BY <1>0, <1>2, <1>5, <2>1, <2>3 DEF TargetInv
  <2>5. /\ n.id = t.id /\ n.owner = t.owner /\ n.write = t.write /\ n.addr = t.addr
        /\ n.wdata = t.wdata /\ ~n.aw_latched /\ ~n.w_latched
        /\ n.state = "REQ" \/ n.state = "WAIT" \/ n.state = IF t.write THEN "B" ELSE "R"
    BY <1>1, <1>e, <2>1, <2>3 DEF TargetStep, SameRequest
  <2> HIDE DEF n, t
  <2> QED
    BY <2>2, <2>3, <2>4, <2>5
<1>f. CASE t.state \in {"B", "R"}
  <2>1. aw[b] = None /\ ar[b] = None /\ w[b] = None /\ ~t.aw_latched
    BY <1>0, <1>f DEF Beats, TargetInv
  <2>2. w_order'[b] = <<>>
    BY <1>0, <1>2, <1>5, <2>1 DEF TargetInv
  <2>3. n = IdleTarget
    BY <1>1, <1>f, <2>1 DEF TargetStep
  <2> QED
    BY <2>2, <2>3 DEF IdleTarget
<1> QED
  BY <1>3, <1>a, <1>b, <1>c, <1>d, <1>e, <1>f

LEMMA StepHome ==
  ASSUME IInv, NEW aw, NEW ar, NEW w, NEW asked, Step(aw, ar, w, asked), NEW b \in Bank,
         \A h \in Hart : response_bank'[h] = IF \E c \in Bank : asked[c] = h
                                             THEN CHOOSE c \in Bank : asked[c] = h
                                             ELSE response_bank[h]
  PROVE  HomeInv(b)' /\ home'[b] \in Accepted \cup {None}
<1> DEFINE t == target[b]
           n == target'[b]
           hb == home'[b]
<1>0. Beats(aw, ar, w, asked) /\ TypeOK /\ HomeInv(b) /\ TargetInv(b) /\ None \notin Accepted
  BY AcceptedAssumption DEF Step, IInv
<1>1. TargetStep(b, n, aw, ar, w, asked) /\ hb = HomeEdge(b, asked)
  BY DEF Step
<1>2. /\ t.state \in {"IDLE", "REQ", "WAIT", "B", "R"} /\ t.write \in BOOLEAN
      /\ t.wdata \in Value
      /\ home[b] \in Accepted \cup {None}
  BY <1>0, TargetType DEF TypeOK
<1>3. \A c \in Bank : asked[c] # None => /\ asked[c] = target[c].id /\ target[c].state = "REQ"
                                         /\ asked[c] \in Hart /\ At(asked[c]) = c
  BY <1>0, OneBank DEF Beats, Serving
<1>a. CASE asked[b] # None
  <2>1. /\ t.state = "REQ" /\ asked[b] = t.id /\ Asked(asked[b]) = t /\ asked[b] \in Hart
        /\ aw[b] = None /\ ar[b] = None /\ w[b] = None
    BY <1>0, <1>a DEF Beats
  <2>2. n.state = "WAIT" /\ n.id = t.id /\ n.write = t.write /\ n.addr = t.addr /\ n.wdata = t.wdata
    BY <1>1, <1>a, <2>1 DEF TargetStep, SameRequest
  <2>3. hb = [owner |-> t.id, write |-> t.write, addr |-> t.addr, wdata |-> t.wdata,
              reply |-> None]
    BY <1>1, <1>a, <2>1 DEF HomeEdge
  <2>4. t.addr \in Addr
    <3>1. t.addr = master[t.id].req.addr /\ master[t.id].state \in {"B", "R"}
      BY <1>0, <2>1 DEF TargetInv, Serving
    <3> QED
      BY <1>0, <2>1, <3>1, MasterType DEF IInv, MasterInv
  <2>5. hb \in Accepted
    BY <1>2, <2>1, <2>3, <2>4 DEF Accepted
  <2>6. response_bank'[t.id] = b
    BY <1>3, <1>a, <2>1
  <2> HIDE DEF hb
  <2>7. hb # None /\ hb.owner = t.id /\ hb.write = t.write /\ hb.addr = t.addr /\ hb.wdata = t.wdata
    BY <1>0, <2>3, <2>5
  <2> QED
    BY <2>2, <2>5, <2>6, <2>7 DEF HomeInv, hb
<1>b. CASE asked[b] = None /\ home[b] = None
  <2>1. hb = None
    BY <1>1, <1>b DEF HomeEdge
  <2>2. t.state # "WAIT"
    BY <1>0, <1>b DEF HomeInv
  <2>3. n.state # "WAIT"
    <3>1. n.state \in {"IDLE", "REQ", "B", "R"} \/ n = t
      BY <1>1, <1>2, <1>b, <2>2 DEF TargetStep, IdleTarget
    <3> QED
      BY <2>2, <3>1
  <2> QED
    BY <2>1, <2>3 DEF HomeInv
<1>c. CASE asked[b] = None /\ home[b] # None
  <2>1. /\ t.state = "WAIT" /\ home[b].owner = t.id /\ home[b].write = t.write
        /\ home[b].addr = t.addr /\ home[b].wdata = t.wdata /\ response_bank[t.id] = b
    BY <1>0, <1>c DEF HomeInv
  <2>2. Waiting(t.id) /\ t.id \in Hart /\ At(t.id) = b
    BY <2>1, WaitingBank, OneBank DEF Serving
  <2>3. aw[b] = None /\ ar[b] = None /\ w[b] = None
    BY <1>0, <2>1 DEF Beats
  <2>4. CASE home[b].reply = None
    <3>1. hb = home[b] /\ n = t
      BY <1>1, <1>c, <2>1, <2>3, <2>4 DEF HomeEdge, TargetStep
    <3>2. \A c \in Bank : asked[c] # t.id
      BY <1>3, <1>c, <2>2, NoneAssumption
    <3>3. response_bank'[t.id] = b
      BY <2>1, <2>2, <3>2
    <3> QED
      BY <1>2, <1>c, <2>1, <3>1, <3>3 DEF HomeInv
  <2>5. CASE home[b].reply # None
    <3>1. hb = None
      BY <1>1, <1>c, <2>1, <2>2, <2>5 DEF HomeEdge
    <3>2. n.state \in {"B", "R"}
      BY <1>1, <2>1, <2>3, <2>5 DEF TargetStep
    <3> QED
      BY <3>1, <3>2 DEF HomeInv
  <2> QED
    BY <2>4, <2>5
<1> QED
  BY <1>a, <1>b, <1>c

-----------------------------------------------------------------------------
(* The grants: who is granted and not taken still asks.                    *)
BeatAt(c, aw, ar) == IF c = "AW" THEN aw ELSE ar

Grants(favoured, aw, ar, w) ==
  /\ \A b \in Bank, c \in Channel :
       LET beat == BeatAt(c, aw, ar)
       IN  /\ beat[b] # None => beat[b] = Grant(b, c, favoured)
           /\ hold'[b][c] = HoldEdge(b, c, favoured, beat)
  /\ \A h \in Hart : age'[h] = AgeEdge(h, aw, ar)
  /\ writing' = (writing \cup {h \in Hart : Moves(aw, h)}) \ Finished("B")
  /\ reading' = (reading \cup {h \in Hart : Moves(ar, h)}) \ Finished("R")

LEMMA EdgeGrants ==
  ASSUME IInv, NEW allow, NEW favoured \in Hart, NEW taken, Edge(allow, favoured, taken)
  PROVE  Grants(favoured, AwOf(allow, favoured), ArOf(allow, favoured), WOf(allow))
<1> DEFINE aw == AwOf(allow, favoured)
           ar == ArOf(allow, favoured)
<1>1. /\ hold' = [b \in Bank |-> [c \in Channel |->
                    HoldEdge(b, c, favoured, IF c = "AW" THEN aw ELSE ar)]]
      /\ age' = [h \in Hart |-> AgeEdge(h, aw, ar)]
      /\ writing' = (writing \cup {h \in Hart : Moves(aw, h)}) \ Finished("B")
      /\ reading' = (reading \cup {h \in Hart : Moves(ar, h)}) \ Finished("R")
  BY DEF Edge, AwOf, ArOf
<1>2. \A b \in Bank : aw[b] # None => aw[b] = Grant(b, "AW", favoured)
  BY AwBeatAsks DEF AwOf
<1>3. \A b \in Bank : ar[b] # None => ar[b] = Grant(b, "AR", favoured)
  BY ArBeatAsks DEF ArOf
<1> HIDE DEF aw, ar
<1>4. Grants(favoured, aw, ar, WOf(allow))
  BY <1>1, <1>2, <1>3 DEF Grants, BeatAt
<1> QED
  BY <1>4 DEF aw, ar

LEMMA StillPresents ==
  ASSUME IInv, NEW aw, NEW ar, NEW w, NEW asked, NEW favoured, Step(aw, ar, w, asked),
         Grants(favoured, aw, ar, w),
         NEW h \in Hart, NEW c \in Channel, Presents(h, c), BeatAt(c, aw, ar)[At(h)] # h
  PROVE  Presents(h, c)' /\ At(h)' = At(h) /\ master'[h] = master[h]
<1>0. Beats(aw, ar, w, asked) /\ MasterStep(h, master'[h], aw, w, ar) /\ h # None
  BY NoneAssumption DEF Step
<1>1. master[h].req # None /\ At(h) \in Bank /\ MasterInv(h)
  BY MasterType DEF Presents, IInv, MasterInv
<1>2. At(h)' = master'[h].req.addr.bank /\ At(h) = master[h].req.addr.bank
  BY DEF At
<1>3. ~Sent(h) /\ w[At(h)] # h
  <2>1. ~Sent(h)
    BY DEF Presents, Sent
  <2>2. ASSUME w[At(h)] = h PROVE FALSE
    <3>1. w[At(h)] # None
      BY <1>0, <2>2
    <3>2. Sent(w[At(h)])
      BY <1>0, <1>1, <3>1 DEF Beats
    <3> QED
      BY <2>1, <2>2, <3>2
  <2> QED
    BY <2>1, <2>2
<1>a. CASE c = "AW"
  <2>1. /\ master[h].state = "WRITE" /\ ~master[h].aw_done
        /\ Len(route[h]) < RouteDepth /\ h \notin writing /\ aw[At(h)] # h
    BY <1>a DEF Presents, BeatAt
  <2>2. master'[h] = master[h]
    BY <1>0, <1>3, <2>1 DEF MasterStep
  <2>3. ~Moves(aw, h) /\ ~Moves(w, h)
    BY <1>0, <1>1, <1>3, <2>1, MovesAt
  <2>4. route'[h] = route[h]
    BY <2>3 DEF Step, RouteEdge
  <2>5. h \notin writing'
    BY <2>1, <2>3 DEF Grants
  <2> QED
    BY <1>2, <1>a, <2>1, <2>2, <2>4, <2>5 DEF Presents
<1>b. CASE c = "AR"
  <2>1. master[h].state = "READ" /\ h \notin reading /\ ar[At(h)] # h
    BY <1>b DEF Presents, BeatAt
  <2>2. master'[h] = master[h]
    BY <1>0, <1>3, <2>1 DEF MasterStep
  <2>3. ~Moves(ar, h)
    BY <1>0, <1>1, <2>1, MovesAt
  <2>5. h \notin reading'
    BY <2>1, <2>3 DEF Grants
  <2> QED
    BY <1>2, <1>b, <2>1, <2>2, <2>5 DEF Presents
<1> QED
  BY <1>a, <1>b

(* A hart whose request was taken does not ask at once again.              *)
LEMMA TakenRests ==
  ASSUME IInv, NEW aw, NEW ar, NEW w, NEW asked, Step(aw, ar, w, asked),
         NEW b \in Bank, NEW c \in Channel, BeatAt(c, aw, ar)[b] # None
  PROVE  ~Presents(BeatAt(c, aw, ar)[b], c)'
<1> DEFINE h == BeatAt(c, aw, ar)[b]
<1>0. Beats(aw, ar, w, asked)
  BY DEF Step
<1>1. h \in Requests(b, c) /\ h # None /\ w[b] = None
  BY <1>0 DEF BeatAt, Beats
<1>2. /\ h \in Hart /\ At(h) = b
      /\ c = "AW" => master[h].state = "WRITE" /\ ~master[h].aw_done
      /\ c = "AR" => master[h].state = "READ"
  BY <1>1, RequestsAt
<1>a. CASE c = "AW"
  <2>1. MasterStep(h, master'[h], aw, w, ar) /\ aw[At(h)] = h
    BY <1>2, <1>a DEF Step, BeatAt
  <2>2. master'[h].aw_done
    BY <1>1, <1>2, <1>a, <2>1 DEF MasterStep, Sent
  <2> QED
    BY <1>a, <2>2 DEF Presents
<1>b. CASE c = "AR"
  <2>1. MasterStep(h, master'[h], aw, w, ar) /\ ar[At(h)] = h
    BY <1>2, <1>b DEF Step, BeatAt
  <2>2. master'[h].state = "R"
    BY <1>2, <1>b, <2>1 DEF MasterStep, Sent
  <2> QED
    BY <1>b, <2>2 DEF Presents
<1> QED
  BY <1>a, <1>b

LEMMA StepHold ==
  ASSUME IInv, NEW aw, NEW ar, NEW w, NEW asked, NEW favoured \in Hart,
         Step(aw, ar, w, asked), Grants(favoured, aw, ar, w), NEW b \in Bank
  PROVE  HoldInv(b)'
<1> SUFFICES ASSUME NEW c \in Channel, NEW h, hold'[b][c] = h, h # None
             PROVE  h \in Requests(b, c)'
  BY DEF HoldInv
<1> DEFINE beat == BeatAt(c, aw, ar)
<1>1. h = HoldEdge(b, c, favoured, beat)
  BY DEF Grants
<1>2. beat[b] = None /\ h = Grant(b, c, favoured)
  BY <1>1 DEF HoldEdge, Grant
<1>3. h \in Requests(b, c)
  BY <1>2, GrantAsks
<1>4. h \in Hart /\ At(h) = b /\ Presents(h, c)
  BY <1>3, RequestsAt
<1>5. beat[At(h)] # h
  BY <1>2, <1>4
<1>6. Presents(h, c)' /\ At(h)' = b
  BY <1>4, <1>5, StillPresents
<1> QED
  BY <1>4, <1>6 DEF Requests, At

LEMMA GrantOfOldest ==
  ASSUME IInv, NEW favoured \in Hart, NEW h \in Hart, NEW c \in Channel,
         age[h] = 1, Presents(h, c)
  PROVE  Grant(At(h), c, favoured) = h
<1>1. At(h) \in Bank
  BY MasterType DEF Presents, IInv, MasterInv
<1>2. hold[At(h)][c] = h \/ Requests(At(h), c) = {h}
  BY DEF IInv, AgeInv
<1>3. hold[At(h)][c] # None => hold[At(h)][c] \in Requests(At(h), c)
  BY <1>1 DEF IInv, HoldInv
<1> QED
  BY <1>2, <1>3, NoneAssumption DEF Grant

LEMMA StepAge ==
  ASSUME IInv, NEW aw, NEW ar, NEW w, NEW asked, NEW favoured \in Hart,
         Step(aw, ar, w, asked), Grants(favoured, aw, ar, w), NEW h \in Hart
  PROVE  AgeInv(h)' /\ age'[h] \in 0 .. 1
<1>0. age'[h] = AgeEdge(h, aw, ar) /\ age[h] \in 0 .. 1
  <2>1. age[h] \in 0 .. 63 /\ age[h] <= 1
    BY DEF IInv, AgeInv, TypeOK, MaxAge
  <2> QED
    BY <2>1 DEF Grants
<1>1. CASE ~ \E c \in Channel : Presents(h, c)
  BY <1>0, <1>1 DEF AgeEdge, AgeInv
<1>2. CASE \E c \in Channel : Presents(h, c)
  <2>1. PICK c \in Channel : Presents(h, c)
    BY <1>2
  <2>b. PICK b \in Bank : b = At(h)
    BY <2>1, MasterType DEF Presents, IInv, MasterInv
  <2> DEFINE beat == BeatAt(c, aw, ar)
  <2>2. /\ b = master[h].req.addr.bank
        /\ c = IF master[h].state = "READ" THEN "AR" ELSE "AW"
    BY <2>1, <2>b DEF Presents, At
  <2>3. AgeEdge(h, aw, ar) = IF beat[b] = h THEN 0
                             ELSE IF beat[b] # None /\ age[h] < MaxAge THEN age[h] + 1 ELSE age[h]
    BY <1>2, <2>2 DEF AgeEdge, BeatAt
  <2>4. age[h] = 1 => Grant(b, c, favoured) = h
    BY <2>1, <2>b, GrantOfOldest
  <2>5. beat[b] # None => beat[b] = Grant(b, c, favoured)
    BY DEF Grants
  <2>6. hold'[b][c] = HoldEdge(b, c, favoured, beat)
    BY DEF Grants
  <2> HIDE DEF beat
  <2>7. CASE beat[b] = h
    BY <1>0, <2>3, <2>7 DEF AgeInv
  <2>8. CASE beat[b] # h
    <3>1. Presents(h, c)' /\ At(h)' = b /\ master'[h] = master[h]
      BY <2>1, <2>b, <2>8, StillPresents DEF beat
    <3>2. \A d \in Channel : Presents(h, d)' => d = c
      BY <2>2, <3>1 DEF Presents
    <3>3. CASE beat[b] = None
      <4>1. age'[h] = age[h]
        BY <1>0, <2>3, <2>8, <3>3
      <4>2. age[h] = 1 => hold'[b][c] = h
        BY <2>4, <2>6, <3>3 DEF HoldEdge, Grant
      <4> QED
        BY <1>0, <3>1, <3>2, <4>1, <4>2 DEF AgeInv
    <3>4. CASE beat[b] # None
      <4>1. age[h] = 0 /\ age'[h] = 1
        BY <1>0, <2>3, <2>4, <2>5, <2>8, <3>4 DEF MaxAge
      <4>2. beat[b] \in Hart /\ ~Presents(beat[b], c)'
        <5>1. ~Presents(beat[b], c)'
          BY <2>2, <3>4, TakenRests DEF beat
        <5>2. beat[b] \in Requests(b, c)
          BY <2>2, <2>5, <3>4, GrantAsks
        <5> QED
          BY <5>1, <5>2 DEF Requests
      <4>3. Requests(b, c)' = {h}
        BY <2>8, <3>1, <4>2 DEF Requests, At
      <4> QED
        BY <3>1, <3>2, <4>1, <4>3 DEF AgeInv
    <3> QED
      BY <3>3, <3>4
  <2> QED
    BY <2>7, <2>8
<1> QED
  BY <1>1, <1>2

-----------------------------------------------------------------------------
(* The queues hold what the invariant says, so they stay within bounds.    *)
LEMMA QueueTypes ==
  /\ \A b \in Bank : <<b>> \in Seq(Bank) /\ Len(<<b>>) <= RouteDepth
  /\ \A h \in Hart : <<h>> \in Seq(Hart) /\ Len(<<h>>) <= TargetRouteDepth
  /\ <<>> \in Seq(Bank) /\ <<>> \in Seq(Hart)
  /\ Len(<<>>) <= RouteDepth /\ Len(<<>>) <= TargetRouteDepth
<1>1. \A x : Len(<<x>>) = 1
  BY Singleton
<1>2. RouteDepth = 2 /\ TargetRouteDepth = 4
  BY DEF RouteDepth, TargetRouteDepth
<1>3. Len(<<>>) = 0
  OBVIOUS
<1> QED
  BY <1>1, <1>2, <1>3

LEMMA EdgeTypes ==
  ASSUME IInv, NEW allow, NEW favoured \in Hart, NEW taken, Edge(allow, favoured, taken),
         NEW aw, NEW ar, NEW w, NEW asked, Step(aw, ar, w, asked),
         Grants(favoured, aw, ar, w)
  PROVE  TypeOK'
<1>0. TypeOK
  BY DEF IInv
<1>1. /\ master' = [h \in Hart |-> master'[h]] /\ target' = [b \in Bank |-> target'[b]]
      /\ select' = [b \in Bank |-> select'[b]]
      /\ route' = [h \in Hart |-> route'[h]] /\ w_order' = [b \in Bank |-> w_order'[b]]
      /\ hold' = [b \in Bank |-> [c \in Channel |-> hold'[b][c]]]
      /\ age' = [h \in Hart |-> age'[h]]
      /\ home' = [b \in Bank |-> home'[b]]
      /\ response_bank' = [h \in Hart |-> response_bank'[h]]
  BY DEF Edge
<1>2. master' \in [Hart -> Master] /\ target' \in [Bank -> Target]
  BY <1>1 DEF Step
<1>3. select' \in [Bank -> BOOLEAN]
  <2>1. \A b \in Bank : select'[b] \in BOOLEAN
    BY <1>0 DEF Edge, SelectEdge, TypeOK
  <2> QED
    BY <1>1, <2>1
<1>4. /\ route' \in [Hart -> Seq(Bank)] /\ \A h \in Hart : Len(route'[h]) <= RouteDepth
      /\ w_order' \in [Bank -> Seq(Hart)] /\ \A b \in Bank : Len(w_order'[b]) <= TargetRouteDepth
  <2>1. ASSUME NEW h \in Hart
        PROVE  route'[h] = <<>> \/ \E b \in Bank : route'[h] = <<b>>
    <3>1. MasterInv(h)' /\ master'[h] \in Master
      BY StepMaster DEF Step
    <3>2. route'[h] = <<>> \/ (Sent(h)' /\ route'[h] = <<master'[h].req.addr.bank>>)
      BY <3>1 DEF MasterInv, At
    <3>3. Sent(h)' => master'[h].req \in Request
      BY <3>1 DEF MasterInv, Sent, Master
    <3> QED
      BY <3>2, <3>3, RequestType
  <2>2. ASSUME NEW b \in Bank
        PROVE  w_order'[b] = <<>> \/ \E h \in Hart : w_order'[b] = <<h>>
    BY StepTarget DEF TargetInv, Serving
  <2>3. \A h \in Hart : route'[h] \in Seq(Bank) /\ Len(route'[h]) <= RouteDepth
    BY <2>1, QueueTypes
  <2>4. \A b \in Bank : w_order'[b] \in Seq(Hart) /\ Len(w_order'[b]) <= TargetRouteDepth
    BY <2>2, QueueTypes
  <2> HIDE DEF Bank, Hart
  <2> QED
    BY <1>1, <2>3, <2>4
<1>5. writing' \subseteq Hart /\ reading' \subseteq Hart
  BY <1>0 DEF Grants, TypeOK
<1>6. hold' \in [Bank -> [Channel -> Hart \cup {None}]]
  <2>1. ASSUME NEW b \in Bank, NEW c \in Channel
        PROVE  hold'[b][c] \in Hart \cup {None}
    BY StepHold DEF HoldInv, Requests
  <2> HIDE DEF Bank, Hart, Channel
  <2> QED
    BY <1>1, <2>1
<1>7. age' \in [Hart -> 0 .. MaxAge]
  <2>1. \A h \in Hart : age'[h] \in 0 .. MaxAge
    <3>1. \A h \in Hart : age'[h] \in 0 .. 1
      BY StepAge
    <3> QED
      BY <3>1 DEF MaxAge
  <2> QED
    BY <1>1, <2>1
<1>8. fault' \in Fault /\ consumed' \in BOOLEAN
  BY <1>0 DEF Edge, TypeOK
<1>9. response_bank' \in [Hart -> Bank]
  <2>1. \A h \in Hart : response_bank'[h] \in Bank
    <3>1. \A h \in Hart : response_bank'[h] =
            IF \E b \in Bank : AskedOf(favoured)[b] = h
            THEN CHOOSE b \in Bank : AskedOf(favoured)[b] = h ELSE response_bank[h]
      BY DEF Edge, AskedOf
    <3>2. \A h \in Hart : response_bank[h] \in Bank
      BY <1>0 DEF TypeOK
    <3> QED
      BY <3>1, <3>2
  <2> QED
    BY <1>1, <2>1
<1>10. mem' \in [Addr -> Value] /\ durable' \in [Addr -> Value]
  BY <1>0 DEF Edge, TypeOK
<1>11. home' \in [Bank -> Accepted \cup {None}]
  <2>1. \A b \in Bank : home'[b] \in Accepted \cup {None}
    <3> SUFFICES ASSUME NEW b \in Bank PROVE home'[b] \in Accepted \cup {None}
      OBVIOUS
    <3>1. home'[b] = HomeEdge(b, asked) /\ home[b] \in Accepted \cup {None}
      BY <1>0 DEF Step, TypeOK
    <3>2. CASE asked[b] = None
      BY <3>1, <3>2 DEF HomeEdge
    <3>3. CASE asked[b] # None
      <4>1. /\ asked[b] \in Hart /\ asked[b] = target[b].id
            /\ target[b].state = "REQ" /\ Asked(asked[b]) = target[b]
        BY <3>3 DEF Step, Beats
      <4>2. target[b].addr = master[target[b].id].req.addr /\ master[target[b].id].state \in {"B", "R"}
        BY <4>1 DEF IInv, TargetInv, Serving
      <4>3. target[b].addr \in Addr
        BY <1>0, <4>1, <4>2, MasterType DEF IInv, MasterInv
      <4>4. home'[b] = [owner |-> asked[b], write |-> target[b].write, addr |-> target[b].addr,
                        wdata |-> target[b].wdata, reply |-> None]
        BY <3>1, <3>3, <4>1 DEF HomeEdge
      <4> QED
        BY <1>0, <4>1, <4>3, <4>4, TargetType DEF Accepted
    <3> QED
      BY <3>2, <3>3
  <2> QED
    BY <1>1, <2>1
<1> QED
  BY <1>2, <1>3, <1>4, <1>5, <1>6, <1>7, <1>8, <1>9, <1>10, <1>11 DEF TypeOK

-----------------------------------------------------------------------------
LEMMA EdgePreserves ==
  ASSUME IInv, NEW allow, NEW favoured \in Hart, NEW taken, Edge(allow, favoured, taken)
  PROVE  IInv'
<1>1. PICK aw, ar, w, asked : /\ Step(aw, ar, w, asked) /\ Grants(favoured, aw, ar, w)
                              /\ asked = AskedOf(favoured)
  BY EdgeIsStep, EdgeGrants
<1>2. \A h \in Hart : response_bank'[h] = IF \E b \in Bank : asked[b] = h
                                          THEN CHOOSE b \in Bank : asked[b] = h
                                          ELSE response_bank[h]
  BY <1>1 DEF Edge, AskedOf
<1>3. TypeOK'
  BY <1>1, EdgeTypes
<1>4. \A h \in Hart : MasterInv(h)' /\ AgeInv(h)'
  BY <1>1, StepMaster, StepAge
<1>5. \A b \in Bank : TargetInv(b)' /\ HomeInv(b)' /\ HoldInv(b)'
  BY <1>1, <1>2, StepTarget, StepHome, StepHold
<1> QED
  BY <1>3, <1>4, <1>5 DEF IInv

(* Every register at its reset value, and the home empty.                  *)
Quiet == /\ master = ResetState.master /\ target = ResetState.target
         /\ select = ResetState.select /\ route = ResetState.route
         /\ w_order = ResetState.w_order /\ writing = {} /\ reading = {}
         /\ hold = ResetState.hold /\ age = ResetState.age
         /\ home = ResetState.home /\ response_bank = ResetState.response_bank
         /\ fault \in Fault /\ consumed = FALSE
         /\ mem \in [Addr -> Value] /\ durable \in [Addr -> Value]

LEMMA QuietInv == Quiet => IInv
<1> SUFFICES ASSUME Quiet PROVE IInv
  OBVIOUS
<1>1. /\ \A h \in Hart : /\ master[h] = IdleMaster /\ route[h] = <<>> /\ age[h] = 0
                         /\ response_bank[h] = 0
      /\ \A b \in Bank : /\ target[b] = IdleTarget /\ select[b] = FALSE /\ w_order[b] = <<>>
                         /\ home[b] = None
                         /\ hold[b] = [c \in Channel |-> None]
  BY DEF Quiet, ResetState
<1>2. /\ master = [h \in Hart |-> IdleMaster] /\ route = [h \in Hart |-> <<>>]
      /\ age = [h \in Hart |-> 0] /\ response_bank = [h \in Hart |-> 0]
      /\ target = [b \in Bank |-> IdleTarget] /\ select = [b \in Bank |-> FALSE]
      /\ w_order = [b \in Bank |-> <<>>] /\ home = [b \in Bank |-> None]
      /\ hold = [b \in Bank |-> [c \in Channel |-> None]]
      /\ writing = {} /\ reading = {} /\ fault \in Fault /\ consumed = FALSE
      /\ mem \in [Addr -> Value] /\ durable \in [Addr -> Value]
  BY DEF Quiet, ResetState
<1>3. IdleMaster \in Master /\ IdleTarget \in Target
  BY ValueAssumption DEF IdleMaster, IdleTarget, Master, Target
<1>4. TypeOK
  <2>1. /\ route \in [Hart -> Seq(Bank)] /\ \A h \in Hart : Len(route[h]) <= RouteDepth
        /\ w_order \in [Bank -> Seq(Hart)] /\ \A b \in Bank : Len(w_order[b]) <= TargetRouteDepth
    BY <1>1, <1>2, QueueTypes
  <2>2. age \in [Hart -> 0 .. MaxAge] /\ response_bank \in [Hart -> Bank]
    BY <1>2 DEF MaxAge
  <2>3. hold \in [Bank -> [Channel -> Hart \cup {None}]]
    BY <1>2
  <2>4. master \in [Hart -> Master] /\ target \in [Bank -> Target] /\ select \in [Bank -> BOOLEAN]
    BY <1>2, <1>3
  <2> QED
    BY <1>2, <2>1, <2>2, <2>3, <2>4 DEF TypeOK
<1>5. \A h \in Hart : MasterInv(h) /\ AgeInv(h)
  <2> SUFFICES ASSUME NEW h \in Hart PROVE MasterInv(h) /\ AgeInv(h)
    OBVIOUS
  <2>1. MasterInv(h)
    BY <1>1 DEF MasterInv, InTarget, Sent, IdleMaster
  <2>2. AgeInv(h)
    BY <1>1 DEF AgeInv
  <2> QED
    BY <2>1, <2>2
<1>6. \A b \in Bank : TargetInv(b) /\ HomeInv(b) /\ HoldInv(b)
  <2> SUFFICES ASSUME NEW b \in Bank PROVE TargetInv(b) /\ HomeInv(b) /\ HoldInv(b)
    OBVIOUS
  <2>1. TargetInv(b)
    BY <1>1 DEF TargetInv, Serving, IdleTarget
  <2>2. HomeInv(b) /\ HoldInv(b)
    BY <1>1 DEF HomeInv, HoldInv, IdleTarget
  <2> QED
    BY <2>1, <2>2
<1> QED
  BY <1>4, <1>5, <1>6 DEF IInv

LEMMA PresentPreserves ==
  ASSUME IInv, NEW h \in Hart, NEW r \in Access, Present(h, r)
  PROVE  IInv'
<1>1. /\ TypeOK /\ master[h].state = "IDLE" /\ master[h].req = None /\ r \in Request
      /\ master' = [master EXCEPT ![h].req = r]
      /\ UNCHANGED <<target, select, fabricVars, fault, consumed, homeVars>>
  BY AccessAssumption DEF IInv, Present
<1>2. /\ target' = target /\ select' = select /\ route' = route /\ w_order' = w_order
      /\ writing' = writing /\ reading' = reading /\ hold' = hold /\ age' = age
      /\ fault' = fault /\ consumed' = consumed /\ home' = home
      /\ response_bank' = response_bank /\ mem' = mem /\ durable' = durable
  BY <1>1 DEF fabricVars, homeVars
<1>3. /\ \A g \in Hart : g # h => master'[g] = master[g]
      /\ master'[h].state = "IDLE" /\ master'[h].aw_done = master[h].aw_done
      /\ master' \in [Hart -> Master]
  <2>1. master \in [Hart -> Master]
    BY <1>1 DEF TypeOK
  <2>2. master[h] \in Master /\ master'[h] = [master[h] EXCEPT !.req = r]
    BY <1>1, <2>1
  <2>3. /\ master'[h] \in Master /\ master'[h].state = master[h].state
        /\ master'[h].aw_done = master[h].aw_done
    BY <1>1, <2>2 DEF Master
  <2> QED
    BY <1>1, <2>1, <2>3
<1>4. TypeOK'
  BY <1>1, <1>2, <1>3 DEF TypeOK
<1>5. \A g \in Hart, c \in Channel : Presents(g, c)' = Presents(g, c)
  BY <1>1, <1>2, <1>3 DEF Presents
<1>6. \A g \in Hart, c \in Channel : Presents(g, c) => g # h
  BY <1>1 DEF Presents
<1>7. \A b \in Bank, c \in Channel : Requests(b, c)' = Requests(b, c)
  BY <1>3, <1>5, <1>6 DEF Requests
<1>8. ASSUME NEW g \in Hart PROVE MasterInv(g)' /\ AgeInv(g)'
  <2>1. CASE g = h
    BY <1>1, <1>2, <1>3, <1>6, <1>5, <2>1 DEF IInv, MasterInv, AgeInv, InTarget, Sent
  <2>2. CASE g # h
    <3>1. master'[g] = master[g]
      BY <1>3, <2>2
    <3>2. MasterInv(g)'
      BY <1>2, <3>1 DEF IInv, MasterInv, InTarget, Sent, Serving, At
    <3>3. AgeInv(g)'
      <4>1. Presents(g, "AW") \/ Presents(g, "AR") => At(g) \in Bank
        BY <1>1, MasterType DEF Presents, IInv, MasterInv
      <4>2. At(g)' = At(g)
        BY <3>1 DEF At
      <4> QED
        BY <1>2, <1>5, <1>7, <4>1, <4>2 DEF IInv, AgeInv
    <3> QED
      BY <3>2, <3>3
  <2> QED
    BY <2>1, <2>2
<1>9. ASSUME NEW b \in Bank PROVE TargetInv(b)' /\ HomeInv(b)' /\ HoldInv(b)'
  <2>1. Serving(b) => target[b].id \in Hart /\ target[b].id # h
    <3>1. Serving(b) => target[b].id \in Hart /\ master[target[b].id].state # "IDLE"
      BY OneBank DEF IInv, TargetInv, Serving, Sent
    <3> QED
      BY <1>1, <3>1
  <2>2. TargetInv(b)'
    BY <1>2, <1>3, <2>1 DEF IInv, TargetInv, Serving, Sent
  <2>3. HomeInv(b)' /\ HoldInv(b)'
    BY <1>2, <1>7 DEF IInv, HomeInv, HoldInv
  <2> QED
    BY <2>2, <2>3
<1> QED
  BY <1>4, <1>8, <1>9 DEF IInv

LEMMA PerformPreserves ==
  ASSUME IInv, NEW b \in Bank, Perform(b)
  PROVE  IInv'
<1>1. /\ TypeOK /\ home[b] # None /\ home[b] \in Accepted /\ home[b].reply = None
      /\ UNCHANGED <<master, target, select, fabricVars, fault, consumed, response_bank>>
  BY DEF IInv, Perform, TypeOK
<1>2. /\ master' = master /\ target' = target /\ select' = select /\ route' = route
      /\ w_order' = w_order /\ writing' = writing /\ reading' = reading /\ hold' = hold
      /\ age' = age /\ fault' = fault /\ consumed' = consumed
      /\ response_bank' = response_bank
  BY <1>1 DEF fabricVars
<1>3. home[b].addr \in Addr /\ home[b].wdata \in Value
  BY <1>1 DEF Accepted
<1>4. mem' \in [Addr -> Value]
  BY <1>1, <1>3 DEF Perform, TypeOK
<1>5. durable' \in [Addr -> Value]
  <2>1. PICK C \in SUBSET Word :
          durable' = [a \in Addr |-> IF a.bank = b /\ a.word \in C THEN mem[a] ELSE durable[a]]
    BY DEF Perform
  <2>2. \A a \in Addr : mem[a] \in Value /\ durable[a] \in Value
    BY <1>1 DEF TypeOK
  <2> QED
    BY <2>1, <2>2
<1>6. PICK v \in Value : home' = [home EXCEPT ![b].reply = v]
  BY <1>3, <1>4 DEF Perform
<1>7. /\ home' \in [Bank -> Accepted \cup {None}]
      /\ home'[b] \in Accepted
      /\ home'[b].owner = home[b].owner /\ home'[b].write = home[b].write
      /\ home'[b].addr = home[b].addr /\ home'[b].wdata = home[b].wdata
      /\ \A c \in Bank : c # b => home'[c] = home[c]
  BY <1>1, <1>6 DEF TypeOK, Accepted
<1>8. TypeOK'
  BY <1>1, <1>2, <1>4, <1>5, <1>7 DEF TypeOK
<1>9. \A g \in Hart : MasterInv(g)' /\ AgeInv(g)'
  BY <1>2 DEF IInv, MasterInv, AgeInv, InTarget, Sent, Serving, At, Presents, Requests
<1>10. \A c \in Bank : TargetInv(c)' /\ HoldInv(c)'
  BY <1>2 DEF IInv, TargetInv, HoldInv, Serving, Sent, Presents, Requests
<1>11. \A c \in Bank : HomeInv(c)'
  <2>1. home'[b] # None
    BY <1>7, AcceptedAssumption
  <2> QED
    BY <1>1, <1>2, <1>7, <2>1 DEF IInv, HomeInv
<1> QED
  BY <1>8, <1>9, <1>10, <1>11 DEF IInv

LEMMA NextPreserves == IInv /\ [Next]_vars => IInv'
<1> SUFFICES ASSUME IInv, [Next]_vars PROVE IInv'
  OBVIOUS
<1>1. CASE Reset
  <2>1. Quiet'
    BY <1>1 DEF Reset, Quiet, IInv, TypeOK
  <2> QED
    BY <2>1, QuietInv, PTL
<1>2. CASE \E h \in Hart, r \in Access : Present(h, r)
  BY <1>2, PresentPreserves
<1>3. CASE \E b \in Bank : Perform(b)
  BY <1>3, PerformPreserves
<1>4. CASE \E allow \in SUBSET Listening, favoured \in Rivals, taken \in SUBSET Answerable :
             Edge(allow, favoured, taken)
  <2>1. Rivals \subseteq Hart
    BY DEF Rivals
  <2> QED
    BY <1>4, <2>1, EdgePreserves
<1>5. CASE UNCHANGED vars
  <2>1. /\ master' = master /\ target' = target /\ select' = select /\ route' = route
        /\ w_order' = w_order /\ writing' = writing /\ reading' = reading /\ hold' = hold
        /\ age' = age /\ fault' = fault /\ consumed' = consumed /\ home' = home
        /\ response_bank' = response_bank /\ mem' = mem /\ durable' = durable
    BY <1>5 DEF vars
  <2>2. TypeOK'
    BY <2>1 DEF IInv, TypeOK
  <2>3. \A h \in Hart : MasterInv(h)' /\ AgeInv(h)'
    BY <2>1 DEF IInv, MasterInv, AgeInv, InTarget, Sent, Serving, At, Presents, Requests
  <2>4. \A b \in Bank : TargetInv(b)' /\ HomeInv(b)' /\ HoldInv(b)'
    BY <2>1 DEF IInv, TargetInv, HomeInv, HoldInv, Serving, Sent, Presents, Requests
  <2> QED
    BY <2>2, <2>3, <2>4 DEF IInv
<1> QED
  BY <1>1, <1>2, <1>3, <1>4, <1>5 DEF Next

(* The strengthening that every theorem below rests on.                    *)
THEOREM Inductive == Spec => []IInv
<1>1. Init => IInv
  <2>1. Init => Quiet
    BY ImageAssumption DEF Init, Quiet
  <2> QED
    BY <2>1, QuietInv
<1> QED
  BY <1>1, NextPreserves, PTL DEF Spec

(* TypeOK for every set of words, values and requests.                     *)
THEOREM TypeCorrect == Spec => []TypeOK
<1>1. IInv => TypeOK
  BY DEF IInv
<1> QED
  BY <1>1, Inductive, PTL

LEMMA InvServes == IInv => ServesOneRequest
<1> SUFFICES ASSUME IInv PROVE TargetCarriesRequest /\ OnePortOneBank
  BY DEF ServesOneRequest
<1>1. TargetCarriesRequest
  <2> SUFFICES ASSUME NEW b \in Bank, target[b].state # "IDLE"
               PROVE  LET t == target[b]
                          m == master[t.id]
                      IN  /\ t.owner \in Hart /\ t.owner = t.id
                          /\ m.state = IF t.write THEN "B" ELSE "R"
                          /\ m.req.write = t.write /\ m.req.addr = t.addr /\ t.addr.bank = b
                          /\ t.write => m.req.data = t.wdata
    BY DEF TargetCarriesRequest
  <2> QED
    BY DEF IInv, TargetInv, Serving
<1>2. \A b \in Bank : target[b].state \in {"REQ", "WAIT"} =>
        target[b].owner = target[b].id /\ At(target[b].id) = b
  BY OneBank DEF Serving
<1>3. ASSUME NEW b \in Bank, NEW h \in Hart, RspValid(b, h)
      PROVE  /\ target[b].state = "WAIT" /\ target[b].owner = h /\ At(h) = b
             /\ response_bank[h] = b /\ Waiting(h)
  <2>1. /\ home[b] # None /\ home[b].owner = h /\ target[b].state = "WAIT"
        /\ target[b].id = h /\ response_bank[h] = b
    BY <1>3 DEF RspValid, IInv, HomeInv
  <2> QED
    BY <1>2, <2>1 DEF Waiting
<1>4. OnePortOneBank
  BY <1>2, <1>3 DEF OnePortOneBank
<1> QED
  BY <1>1, <1>4

(* A bank serves one whole request at a time, and its answer finds the way *)
(* back, whatever the requests and the stalls are.                         *)
THEOREM OneRequestServed == Spec => []ServesOneRequest
  BY Inductive, InvServes, PTL

(* No request is overtaken twice, so aging never decides.                  *)
THEOREM OneOvertaking == Spec => []OvertakenOnce
<1>1. IInv => OvertakenOnce
  BY DEF IInv, AgeInv, OvertakenOnce
<1> QED
  BY <1>1, Inductive, PTL

-----------------------------------------------------------------------------
(* The refinement.  A request that goes on to the home does not match the  *)
(* injected fault, and its answer carries no error.                        *)
Spared(b) == target[b].state \in {"REQ", "WAIT"} =>
               ~target[b].error /\ ~Faulty(target[b].write, target[b].addr)
SInv == IInv /\ \A b \in Bank : Spared(b)

Begins(b, h, ar, w) == ar[b] = h \/ w[b] = h
Failing(h, aw, ar, w) == \E b \in Bank : Begins(b, h, ar, w) /\ Hit(b, aw, w, ar)

(* A fault answers the request that begins at that edge.                   *)
LEMMA HitBegins ==
  ASSUME IInv, NEW aw, NEW ar, NEW w, NEW asked, Beats(aw, ar, w, asked), NEW b \in Bank
  PROVE  /\ Hit(b, aw, w, ar) \in BOOLEAN
         /\ Hit(b, aw, w, ar) => ar[b] # None \/ w[b] # None
         /\ ar[b] # None =>
              Hit(b, aw, w, ar) <=> Faulty(FALSE, master[ar[b]].req.addr)
<1> DEFINE t == target[b]
<1>1. TypeOK /\ ~t.w_latched /\ t \in Target
  BY TargetType DEF IInv, TargetInv
<1>2. Hit(b, aw, w, ar) \in BOOLEAN
  BY DEF Hit
<1>3. ar[b] # None => Hit(b, aw, w, ar) <=> Faulty(FALSE, master[ar[b]].req.addr)
  BY DEF Hit, Beats, Faulty
<1>5. ASSUME ar[b] = None, w[b] = None PROVE ~Hit(b, aw, w, ar)
  <2> DEFINE r == Addressed(t, aw[b], TRUE)
  <2>1. CASE aw[b] = None
    BY <1>1, <1>5, <2>1 DEF Hit, Latched, Complete
  <2>2. CASE aw[b] # None
    <3>1. Latched(b, aw, w) = [r EXCEPT !.aw_latched = TRUE]
      BY <1>5, <2>2 DEF Latched
    <3>2. aw[b] \in Hart /\ master[aw[b]].req.addr \in Addr
      BY <2>2, RequestsAt, MasterType DEF Beats, IInv
    <3>3. r \in Target /\ r.w_latched = t.w_latched
      BY <1>1, <3>2, AddressedFields
    <3> HIDE DEF r
    <3>4. ~Complete(Latched(b, aw, w))
      BY <1>1, <3>1, <3>3 DEF Complete, Target
    <3> QED
      BY <1>5, <3>4 DEF Hit
  <2> QED
    BY <2>1, <2>2
<1> QED
  BY <1>2, <1>3, <1>5

LEMMA HitOfData ==
  ASSUME IInv, NEW aw, NEW ar, NEW w, NEW asked, Beats(aw, ar, w, asked), NEW b \in Bank,
         w[b] # None
  PROVE  Hit(b, aw, w, ar) <=> Faulty(TRUE, master[w[b]].req.addr)
<1> DEFINE t == target[b]
           l == [t EXCEPT !.w_latched = TRUE, !.wdata = master[w[b]].req.data]
<1>1. TypeOK /\ t \in Target
  BY TargetType DEF IInv
<1>2. /\ aw[b] = None /\ ar[b] = None /\ t.state = "IDLE" /\ t.aw_latched
      /\ t.addr = master[w[b]].req.addr
  BY DEF Beats
<1>3. Latched(b, aw, w) = l
  BY <1>2 DEF Latched
<1>4. Complete(l) /\ l.addr = t.addr
  BY <1>1, <1>2 DEF Complete, Target
<1> HIDE DEF l
<1> QED
  BY <1>2, <1>3, <1>4 DEF Hit, Faulty

LEMMA TargetData ==
  ASSUME IInv, NEW aw, NEW ar, NEW w, NEW asked, Beats(aw, ar, w, asked), NEW b \in Bank
  PROVE  LET t == target[b]
             n == TargetEdge(b, aw, w, ar, asked)
             hit == Hit(b, aw, w, ar)
         IN  /\ ar[b] # None \/ w[b] # None =>
                  /\ n.error = hit
                  /\ hit => n.state \in {"B", "R"}
                  /\ ~hit => n.state = "REQ"
             /\ t.state \in {"REQ", "WAIT"} => n.error = t.error
             /\ t.state = "WAIT" /\ home[b].reply # None => n.rdata = home[b].reply
<1> DEFINE t == target[b]
           n == TargetEdge(b, aw, w, ar, asked)
           hit == Hit(b, aw, w, ar)
<1>1. TypeOK /\ t \in Target /\ t.write \in BOOLEAN
  BY TargetType DEF IInv
<1>2. hit \in BOOLEAN
  BY HitBegins
<1>3. ASSUME ar[b] # None
      PROVE  /\ n.error = hit
             /\ hit => n.state \in {"B", "R"}
             /\ ~hit => n.state = "REQ"
  <2> DEFINE r == Addressed(t, ar[b], FALSE)
  <2>1. ar[b] \in Hart /\ master[ar[b]].req.addr \in Addr /\ t.state = "IDLE"
    BY <1>3, RequestsAt, MasterType DEF Beats, IInv
  <2>2. r \in Target /\ r.addr = master[ar[b]].req.addr
    BY <1>1, <2>1, AddressedFields
  <2>3. n = Begun(r, Faulty(FALSE, r.addr))
    BY <1>3, <2>1 DEF TargetEdge
  <2>4. hit <=> Faulty(FALSE, r.addr)
    <3>1. Hit(b, aw, w, ar) <=> Faulty(FALSE, master[ar[b]].req.addr)
      BY <1>3, HitBegins
    <3> HIDE DEF r
    <3> QED
      BY <2>2, <3>1
  <2> DEFINE f == Faulty(FALSE, r.addr)
  <2>5. f \in BOOLEAN /\ n = Begun(r, f) /\ (hit <=> f)
    BY <2>3, <2>4 DEF Faulty
  <2> HIDE DEF r, hit, n, f
  <2> QED
    BY <1>2, <2>2, <2>5, BegunFields
<1>4. ASSUME w[b] # None
      PROVE  /\ n.error = hit
             /\ hit => n.state \in {"B", "R"}
             /\ ~hit => n.state = "REQ"
  <2> DEFINE l == [t EXCEPT !.w_latched = TRUE, !.wdata = master[w[b]].req.data]
             r == [l EXCEPT !.aw_latched = FALSE, !.w_latched = FALSE]
  <2>1. /\ aw[b] = None /\ ar[b] = None /\ t.state = "IDLE" /\ t.aw_latched
        /\ t.addr = master[w[b]].req.addr /\ w[b] \in Hart /\ Sent(w[b])
    BY <1>4 DEF Beats
  <2>2. master[w[b]].req.data \in Value
    BY <1>1, <2>1, MasterType DEF IInv, MasterInv, Sent
  <2>3. Latched(b, aw, w) = l
    BY <1>4, <2>1 DEF Latched
  <2>4. Complete(l) /\ l.addr = t.addr /\ r \in Target
    BY <1>1, <2>1, <2>2 DEF Complete, Target
  <2>5. n = Begun(r, Faulty(TRUE, l.addr))
    BY <2>1, <2>3, <2>4 DEF TargetEdge
  <2>6. hit <=> Faulty(TRUE, l.addr)
    <3> HIDE DEF l, r
    <3>1. Hit(b, aw, w, ar) <=> Faulty(TRUE, master[w[b]].req.addr)
      BY <1>4, HitOfData
    <3> QED
      BY <2>1, <2>4, <3>1
  <2> DEFINE f == Faulty(TRUE, l.addr)
  <2>7. f \in BOOLEAN /\ n = Begun(r, f) /\ (hit <=> f)
    BY <2>5, <2>6 DEF Faulty
  <2> HIDE DEF r, hit, n, l, f
  <2> QED
    BY <1>2, <2>4, <2>7, BegunFields
<1>5. ASSUME t.state = "REQ" PROVE n.error = t.error
  <2>1. n = t \/ n = [t EXCEPT !.state = "WAIT"]
    BY <1>5 DEF TargetEdge
  <2> QED
    BY <1>1, <2>1 DEF Target
<1>6. ASSUME t.state = "WAIT"
      PROVE  n.error = t.error /\ (home[b].reply # None => n.rdata = home[b].reply)
  <2>1. CASE home[b].reply = None
    <3>1. n = t
      BY <1>6, <2>1, WaitingBank DEF TargetEdge
    <3> QED
      BY <2>1, <3>1
  <2>2. CASE home[b].reply # None
    <3> DEFINE s == IF t.write THEN "B" ELSE "R"
    <3>1. n = [t EXCEPT !.state = s, !.rdata = RspData(t.owner)]
      BY <1>6, <2>2, WaitingBank DEF TargetEdge
    <3>2. RspData(t.owner) = home[b].reply
      BY <1>6, <2>2, WaitingBank
    <3> HIDE DEF n, s
    <3> QED
      BY <1>1, <3>1, <3>2 DEF Target
  <2> QED
    BY <2>1, <2>2
<1>7. t.state \in {"REQ", "WAIT"} => n.error = t.error
  BY <1>5, <1>6
<1>8. ar[b] # None \/ w[b] # None =>
        /\ n.error = hit
        /\ hit => n.state \in {"B", "R"}
        /\ ~hit => n.state = "REQ"
  BY <1>3, <1>4
<1>9. t.state = "WAIT" /\ home[b].reply # None => n.rdata = home[b].reply
  BY <1>6
<1> HIDE DEF n, hit, t
<1> QED
  BY <1>7, <1>8, <1>9 DEF n, hit, t

LEMMA MasterData ==
  ASSUME IInv, NEW aw, NEW ar, NEW w, NEW h \in Hart, NEW taken
  PROVE  LET m == master[h]
             n == MasterEdge(h, aw, w, ar, taken)
         IN  /\ m.state \in {"B", "R"} /\ target[At(h)].state = m.state =>
                  /\ n.error = target[At(h)].error
                  /\ m.state = "R" => n.rdata = target[At(h)].rdata
             /\ m.state = "RESP" => n = IF h \in taken THEN IdleMaster ELSE m
<1> DEFINE m == master[h]
           n == MasterEdge(h, aw, w, ar, taken)
<1>1. m \in Master
  BY MasterType DEF IInv
<1>2. ASSUME m.state \in {"B", "R"}, target[At(h)].state = m.state
      PROVE  /\ n.error = target[At(h)].error
             /\ m.state = "R" => n.rdata = target[At(h)].rdata
  <2>1. At(h) \in Bank /\ target[At(h)].id = h
    BY <1>2, WaitsAtTarget
  <2>2. Answer(h, m.state) = At(h) /\ Answering(h, m.state) # {}
    BY <1>2, <2>1, AnsweringBank
  <2>3. CASE m.state = "B"
    <3>1. n = [m EXCEPT !.state = "RESP", !.error = target[At(h)].error]
      BY <2>2, <2>3 DEF MasterEdge
    <3> QED
      BY <1>1, <2>3, <3>1 DEF Master
  <2>4. CASE m.state = "R"
    <3>1. n = [m EXCEPT !.state = "RESP", !.error = target[At(h)].error,
                        !.rdata = target[At(h)].rdata]
      BY <2>2, <2>4 DEF MasterEdge
    <3> QED
      BY <1>1, <3>1 DEF Master
  <2> QED
    BY <1>2, <2>3, <2>4
<1>3. m.state = "RESP" => n = IF h \in taken THEN IdleMaster ELSE m
  BY DEF MasterEdge
<1> QED
  BY <1>2, <1>3

(* What an edge does to the answers.                                       *)
Answers(aw, ar, w, taken) ==
  /\ \A b \in Bank :
       /\ ar[b] # None \/ w[b] # None =>
            /\ target'[b].error = Hit(b, aw, w, ar)
            /\ Hit(b, aw, w, ar) => target'[b].state \in {"B", "R"}
            /\ ~Hit(b, aw, w, ar) => target'[b].state = "REQ"
       /\ target[b].state \in {"REQ", "WAIT"} => target'[b].error = target[b].error
       /\ target[b].state = "WAIT" /\ home[b].reply # None => target'[b].rdata = home[b].reply
  /\ \A h \in Hart :
       LET m == master[h]
       IN  /\ m.state \in {"B", "R"} /\ target[At(h)].state = m.state =>
                /\ master'[h].error = target[At(h)].error
                /\ m.state = "R" => master'[h].rdata = target[At(h)].rdata
           /\ m.state = "RESP" => master'[h] = IF h \in taken THEN IdleMaster ELSE m

LEMMA EdgeAnswers ==
  ASSUME IInv, NEW allow, NEW favoured \in Hart, NEW taken, Edge(allow, favoured, taken)
  PROVE  Answers(AwOf(allow, favoured), ArOf(allow, favoured), WOf(allow), taken)
<1> DEFINE aw == AwOf(allow, favoured)
           ar == ArOf(allow, favoured)
           w == WOf(allow)
           asked == AskedOf(favoured)
<1>1. Beats(aw, ar, w, asked)
  BY EdgeBeats
<1>2. /\ \A h \in Hart : master'[h] = MasterEdge(h, aw, w, ar, taken)
      /\ \A b \in Bank : target'[b] = TargetEdge(b, aw, w, ar, asked)
  BY DEF Edge, AwOf, ArOf, WOf, AskedOf
<1> HIDE DEF aw, ar, w, asked
<1>3. Answers(aw, ar, w, taken)
  BY <1>1, <1>2, TargetData, MasterData DEF Answers
<1> QED
  BY <1>3 DEF aw, ar, w

OpOf(h) == IF Done(h) THEN None ELSE master[h].req
ReplyOf(h) ==
  IF ~Done(h) THEN None ELSE IF Failed(h) THEN Error
  ELSE IF master[h].req.write THEN master[h].req.data ELSE Read(h)

LEMMA OpReply ==
  /\ Op = [h \in Hart |-> OpOf(h)] /\ \A h \in Hart : Op[h] = OpOf(h)
  /\ Reply = [h \in Hart |-> ReplyOf(h)] /\ \A h \in Hart : Reply[h] = ReplyOf(h)
  BY DEF Op, Reply, OpOf, ReplyOf

(* A failing request is the one its bank begins.                           *)
LEMMA FailingAt ==
  ASSUME IInv, NEW aw, NEW ar, NEW w, NEW asked, Beats(aw, ar, w, asked), NEW h \in Hart,
         NEW b \in Bank, Begins(b, h, ar, w)
  PROVE  /\ b = At(h) /\ master[h].req # None /\ master[h].req \in Request
         /\ \/ ar[b] = h /\ master[h].state = "READ" /\ ~master[h].req.write
            \/ w[b] = h /\ Sent(h) /\ master[h].req.write
         /\ Hit(b, aw, w, ar) <=> Faulty(master[h].req.write, master[h].req.addr)
<1>0. h # None
  BY NoneAssumption
<1>1. CASE ar[b] = h
  <2>1. /\ At(h) = b /\ master[h].state = "READ" /\ master[h].req # None
        /\ ~master[h].req.write
    BY <1>0, <1>1, RequestsAt DEF Beats
  <2>2. master[h].req \in Request /\ master[h].req.write = FALSE
    BY <2>1, MasterType DEF IInv
  <2>3. Hit(b, aw, w, ar) <=> Faulty(FALSE, master[h].req.addr)
    BY <1>0, <1>1, HitBegins
  <2> QED
    BY <1>1, <2>1, <2>2, <2>3
<1>2. CASE w[b] = h
  <2>1. w[b] # None
    BY <1>0, <1>2
  <2>2. At(w[b]) = b /\ Sent(w[b])
    BY <2>1 DEF Beats
  <2>3. At(h) = b /\ Sent(h)
    BY <1>2, <2>2
  <2>4. master[h].req # None /\ master[h].req.write
    BY <2>3 DEF Sent, IInv, MasterInv
  <2>5. master[h].req \in Request /\ master[h].req.write = TRUE
    BY <2>4, MasterType DEF IInv
  <2>6. Hit(b, aw, w, ar) <=> Faulty(TRUE, master[w[b]].req.addr)
    BY <2>1, HitOfData
  <2>7. Hit(b, aw, w, ar) <=> Faulty(TRUE, master[h].req.addr)
    BY <1>2, <2>6
  <2> QED
    BY <1>2, <2>3, <2>4, <2>5, <2>7
<1> QED
  BY <1>1, <1>2 DEF Begins

LEMMA EdgeReply ==
  ASSUME SInv, NEW aw, NEW ar, NEW w, NEW asked, NEW taken, Step(aw, ar, w, asked),
         Answers(aw, ar, w, taken), NEW h \in Hart
  PROVE  LET failing == Failing(h, aw, ar, w)
             takes == master[h].state = "RESP" /\ h \in taken
         IN  /\ OpOf(h)' = IF failing THEN None ELSE OpOf(h)
             /\ ReplyOf(h)' = IF takes THEN None ELSE IF failing THEN Error ELSE ReplyOf(h)
             /\ takes => ReplyOf(h) # None /\ ~failing
             /\ failing => /\ OpOf(h) = master[h].req /\ master[h].req \in Request
                           /\ Faulty(master[h].req.write, master[h].req.addr)
<1> DEFINE m == master[h]
           n == master'[h]
           failing == Failing(h, aw, ar, w)
           takes == m.state = "RESP" /\ h \in taken
           Kept == OpOf(h)' = OpOf(h) /\ ReplyOf(h)' = ReplyOf(h) /\ ~failing /\ ~takes
<1>0. IInv /\ Beats(aw, ar, w, asked) /\ MasterInv(h) /\ TypeOK
  BY DEF SInv, IInv, Step
<1>1. MasterStep(h, n, aw, w, ar)
  BY DEF Step
<1>2. /\ m \in Master /\ m.state \in {"IDLE", "WRITE", "B", "READ", "R", "RESP"}
      /\ m.req # None => m.req \in Request /\ At(h) \in Bank /\ m.req.data \in Value
      /\ m.rdata \in Value
  BY <1>0, MasterType DEF Master
<1>3. At(h) = m.req.addr.bank /\ At(h)' = n.req.addr.bank
  BY DEF At
<1>4. failing => /\ \/ ar[At(h)] = h /\ m.state = "READ"
                    \/ w[At(h)] = h /\ Sent(h)
                 /\ Hit(At(h), aw, w, ar) /\ m.req \in Request
                 /\ Faulty(m.req.write, m.req.addr)
  BY <1>0, FailingAt DEF Failing
<1>5. m.state \in {"READ", "WRITE", "IDLE"} => OpOf(h) = m.req /\ ReplyOf(h) = None /\ ~takes
  BY DEF OpOf, ReplyOf, Done
<1>6. n.state \in {"READ", "WRITE", "IDLE"} => OpOf(h)' = n.req /\ ReplyOf(h)' = None
  BY DEF OpOf, ReplyOf, Done
<1>7. m.state \notin {"READ", "WRITE"} => ~failing
  BY <1>4 DEF Sent
<1>a. CASE m.state = "IDLE"
  <2>1. n.req = m.req /\ n.state \in {"READ", "WRITE", "IDLE"}
    BY <1>1, <1>a DEF MasterStep, Sent
  <2>2. Kept
    BY <1>5, <1>6, <1>7, <1>a, <2>1
  <2> QED
    BY <2>2
<1>b. CASE m.state \in {"READ", "WRITE"} /\ n.state \in {"READ", "WRITE"}
  <2>1. n.req = m.req
    BY <1>1, <1>b DEF MasterStep, Sent
  <2>2. ~failing
    <3>1. ar[At(h)] = h /\ m.state = "READ" => n.state = "R"
      BY <1>1 DEF MasterStep, Sent
    <3>2. w[At(h)] = h /\ Sent(h) => n.state = "B"
      BY <1>1 DEF MasterStep, Sent
    <3> QED
      BY <1>4, <1>b, <3>1, <3>2
  <2>3. Kept
    BY <1>5, <1>6, <1>b, <2>1, <2>2
  <2> QED
    BY <2>3
<1>c. CASE m.state \in {"READ", "WRITE"} /\ n.state \notin {"READ", "WRITE"}
  <2> DEFINE b == At(h)
             hit == Hit(b, aw, w, ar)
  <2>1. /\ n.state \in {"B", "R"} /\ n.req = m.req
        /\ ar[b] = h \/ w[b] = h
    BY <1>1, <1>c DEF MasterStep, Sent
  <2>2. m.req # None /\ b \in Bank /\ (ar[b] # None \/ w[b] # None)
    BY <1>0, <1>2, <1>c, <2>1, NoneAssumption DEF MasterInv
  <2>3. /\ target'[b].error = hit
        /\ hit => target'[b].state \in {"B", "R"}
        /\ ~hit => target'[b].state = "REQ"
    BY <2>2 DEF Answers
  <2>4. hit <=> failing
    <3>1. hit => failing
      BY <2>1, <2>2 DEF Failing, Begins
    <3> QED
      BY <1>4, <3>1
  <2>5. At(h)' = b
    BY <1>3, <2>1
  <2> HIDE DEF hit, b
  <2>6. CASE failing
    <3>1. Done(h)' /\ Failed(h)'
      BY <2>1, <2>3, <2>4, <2>5, <2>6 DEF Done, Failed
    <3>2. OpOf(h)' = None /\ ReplyOf(h)' = Error
      BY <3>1 DEF OpOf, ReplyOf
    <3> QED
      BY <1>4, <1>5, <1>c, <2>6, <3>2
  <2>7. CASE ~failing
    <3>1. ~Done(h)'
      BY <2>1, <2>3, <2>4, <2>5, <2>7 DEF Done
    <3>2. OpOf(h)' = n.req /\ ReplyOf(h)' = None
      BY <3>1 DEF OpOf, ReplyOf
    <3> QED
      BY <1>5, <1>c, <2>1, <2>7, <3>2
  <2> QED
    BY <2>6, <2>7
<1>d. CASE m.state \in {"B", "R"}
  <2> DEFINE b == At(h)
  <2>1. /\ b \in Bank /\ target[b].id = h /\ target[b].state \in {"REQ", "WAIT", m.state}
        /\ m.req # None
    BY <1>0, <1>d, WaitsAtTarget DEF MasterInv
  <2>2. ~failing /\ ~takes
    BY <1>7, <1>d
  <2>3. SUFFICES OpOf(h)' = OpOf(h) /\ ReplyOf(h)' = ReplyOf(h)
    BY <2>2
  <2>4. CASE target[b].state = m.state
    <3>1. n.state = "RESP" /\ n.req = m.req
      BY <1>1, <1>d, <2>4 DEF MasterStep, Sent
    <3>2. n.error = target[b].error /\ (m.state = "R" => n.rdata = target[b].rdata)
      BY <1>d, <2>4 DEF Answers
    <3>3. ~m.req.write => m.state = "R"
      BY <1>0, <1>d DEF MasterInv
    <3>4. Done(h) /\ Done(h)' /\ (Failed(h)' <=> Failed(h))
      BY <1>d, <2>4, <3>1, <3>2 DEF Done, Failed
    <3>5. ~m.req.write => Read(h)' = Read(h)
      BY <1>d, <2>4, <3>1, <3>2, <3>3 DEF Read
    <3> QED
      BY <3>1, <3>4, <3>5 DEF OpOf, ReplyOf
  <2>5. CASE target[b].state \in {"REQ", "WAIT"}
    <3>1. n = m /\ At(h)' = b
      BY <1>1, <1>3, <1>d, <2>5 DEF MasterStep, Sent
    <3>2. aw[b] = None /\ ar[b] = None /\ w[b] = None
      BY <1>0, <2>1, <2>5 DEF Beats
    <3>3. /\ TargetStep(b, target'[b], aw, ar, w, asked) /\ home'[b] = HomeEdge(b, asked)
          /\ ~target[b].error /\ target'[b].error = target[b].error
      BY <2>1, <2>5 DEF Step, Answers, SInv, Spared
    <3>4. CASE target[b].state = "REQ" /\ asked[b] = None
      <4>1. target'[b] = target[b]
        BY <3>2, <3>3, <3>4 DEF TargetStep
      <4> QED
        BY <1>d, <3>1, <3>4, <4>1 DEF OpOf, ReplyOf, Done
    <3>5. CASE target[b].state = "REQ" /\ asked[b] # None
      <4>1. target'[b].state = "WAIT"
        BY <3>2, <3>3, <3>5 DEF TargetStep
      <4>2. home'[b].reply = None
        BY <3>3, <3>5 DEF HomeEdge
      <4> QED
        BY <1>d, <3>1, <3>5, <4>1, <4>2 DEF OpOf, ReplyOf, Done
    <3>6. CASE target[b].state = "WAIT" /\ home[b].reply = None
      <4>1. target'[b] = target[b]
        BY <3>2, <3>3, <3>6 DEF TargetStep
      <4>2. asked[b] = None
        BY <1>0, <2>1, <3>6 DEF Beats
      <4>3. home'[b] = home[b]
        BY <3>3, <3>6, <4>2 DEF HomeEdge
      <4> QED
        BY <1>d, <3>1, <3>6, <4>1, <4>3 DEF OpOf, ReplyOf, Done
    <3>7. CASE target[b].state = "WAIT" /\ home[b].reply # None
      <4>1. target'[b].state \in {"B", "R"}
        BY <3>2, <3>3, <3>7 DEF TargetStep
      <4>2. target'[b].rdata = home[b].reply
        BY <2>1, <3>7 DEF Answers
      <4>3. Done(h) /\ Done(h)' /\ ~Failed(h) /\ ~Failed(h)' /\ Read(h)' = Read(h)
        BY <1>d, <3>1, <3>3, <3>7, <4>1, <4>2 DEF Done, Failed, Read
      <4> QED
        BY <3>1, <4>3 DEF OpOf, ReplyOf
    <3> QED
      BY <2>5, <3>4, <3>5, <3>6, <3>7
  <2> QED
    BY <2>1, <2>4, <2>5
<1>e. CASE m.state = "RESP"
  <2>1. ~failing /\ Done(h)
    BY <1>7, <1>e DEF Done
  <2>2. n = IF h \in taken THEN IdleMaster ELSE m
    BY <1>e DEF Answers
  <2>3. CASE h \in taken
    <3>1. n.state = "IDLE" /\ n.req = None
      BY <2>2, <2>3 DEF IdleMaster
    <3>2. OpOf(h)' = None /\ ReplyOf(h)' = None
      BY <1>6, <3>1
    <3>3. OpOf(h) = None /\ ReplyOf(h) # None
      BY <1>0, <1>2, <1>e, <2>1, ValueAssumption DEF OpOf, ReplyOf, Failed, Read, MasterInv
    <3> QED
      BY <1>e, <2>1, <2>3, <3>2, <3>3
  <2>4. CASE h \notin taken
    <3>1. n = m
      BY <2>2, <2>4
    <3>2. OpOf(h)' = OpOf(h) /\ ReplyOf(h)' = ReplyOf(h)
      BY <1>e, <3>1 DEF OpOf, ReplyOf, Done, Failed, Read
    <3> QED
      BY <2>1, <2>4, <3>2
  <2> QED
    BY <2>3, <2>4
<1> QED
  BY <1>2, <1>a, <1>b, <1>c, <1>d, <1>e

LEMMA EdgeSpares ==
  ASSUME SInv, NEW aw, NEW ar, NEW w, NEW asked, NEW taken, Step(aw, ar, w, asked),
         Answers(aw, ar, w, taken), fault' = fault, consumed => consumed', NEW b \in Bank
  PROVE  Spared(b)'
<1> DEFINE t == target[b]
           n == target'[b]
<1>0. IInv /\ Beats(aw, ar, w, asked) /\ Spared(b) /\ t.state \in {"IDLE", "REQ", "WAIT", "B", "R"}
  BY TargetType DEF SInv, IInv, Step
<1>1. TargetStep(b, n, aw, ar, w, asked)
  BY DEF Step
<1>2. SUFFICES ASSUME n.state \in {"REQ", "WAIT"}
               PROVE  ~n.error /\ ~(fault = [write |-> n.write, addr |-> n.addr] /\ ~consumed)
  BY DEF Spared, Faulty
<1>a. CASE ar[b] # None \/ w[b] # None
  <2>1. ~Hit(b, aw, w, ar) /\ (n.error <=> Hit(b, aw, w, ar))
    BY <1>2, <1>a DEF Answers
  <2>2. CASE ar[b] # None
    <3>1. n.write = FALSE /\ n.addr = master[ar[b]].req.addr
      <4>1. ~n.write /\ n.addr = master[ar[b]].req.addr
        BY <1>0, <1>1, <2>2 DEF TargetStep, Beats
      <4>2. n.write \in BOOLEAN
        BY DEF Step, Target
      <4> QED
        BY <4>1, <4>2
    <3>2. ~Faulty(FALSE, master[ar[b]].req.addr)
      BY <1>0, <2>1, <2>2, HitBegins
    <3> QED
      BY <2>1, <3>1, <3>2 DEF Faulty
  <2>3. CASE w[b] # None
    <3>1. n.write = TRUE /\ n.addr = master[w[b]].req.addr
      <4>1. n.write /\ n.addr = master[w[b]].req.addr
        BY <1>0, <1>1, <2>3 DEF TargetStep, Beats
      <4>2. n.write \in BOOLEAN
        BY DEF Step, Target
      <4> QED
        BY <4>1, <4>2
    <3>2. ~Faulty(TRUE, master[w[b]].req.addr)
      BY <1>0, <2>1, <2>3, HitOfData
    <3> QED
      BY <2>1, <3>1, <3>2 DEF Faulty
  <2> QED
    BY <1>a, <2>2, <2>3
<1>b. CASE ar[b] = None /\ w[b] = None
  <2>1. t.state \in {"REQ", "WAIT"} /\ n.write = t.write /\ n.addr = t.addr
    BY <1>0, <1>1, <1>2, <1>b DEF TargetStep, SameRequest, IdleTarget
  <2>2. n.error = t.error
    BY <2>1 DEF Answers
  <2> QED
    BY <1>0, <2>1, <2>2 DEF Spared, Faulty
<1> QED
  BY <1>a, <1>b

LEMMA SparedPreserved == SInv /\ [Next]_vars => SInv'
<1> SUFFICES ASSUME SInv, [Next]_vars PROVE SInv'
  OBVIOUS
<1>1. IInv /\ IInv'
  BY NextPreserves DEF SInv
<1>2. SUFFICES ASSUME NEW b \in Bank PROVE Spared(b)'
  BY <1>1 DEF SInv
<1>3. Spared(b)
  BY DEF SInv
<1>a. CASE Reset
  BY <1>a DEF Reset, ResetState, Spared, IdleTarget
<1>b. CASE \E h \in Hart, r \in Access : Present(h, r)
  BY <1>3, <1>b DEF Present, Spared, Faulty
<1>c. CASE \E c \in Bank : Perform(c)
  BY <1>3, <1>c DEF Perform, Spared, Faulty
<1>d. CASE \E allow \in SUBSET Listening, favoured \in Rivals, taken \in SUBSET Answerable :
             Edge(allow, favoured, taken)
  <2>1. PICK allow \in SUBSET Listening, favoured \in Rivals, taken \in SUBSET Answerable :
               Edge(allow, favoured, taken)
    BY <1>d
  <2>2. favoured \in Hart
    BY DEF Rivals
  <2>3. PICK aw, ar, w, asked : Step(aw, ar, w, asked) /\ Answers(aw, ar, w, taken)
    BY <1>1, <2>1, <2>2, EdgeIsStep, EdgeAnswers
  <2>4. fault' = fault /\ (consumed => consumed')
    BY <2>1 DEF Edge
  <2> QED
    BY <2>3, <2>4, EdgeSpares
<1>e. CASE UNCHANGED vars
  BY <1>3, <1>e DEF vars, Spared, Faulty
<1> QED
  BY <1>a, <1>b, <1>c, <1>d, <1>e DEF Next

LEMMA SparedInductive == Spec => []SInv
<1>1. Init => SInv
  <2>1. Init => Quiet
    BY ImageAssumption DEF Init, Quiet
  <2>2. Init => \A b \in Bank : Spared(b)
    BY DEF Init, ResetState, Spared, IdleTarget
  <2> QED
    BY <2>1, <2>2, QuietInv DEF SInv
<1> QED
  BY <1>1, SparedPreserved, PTL DEF Spec

(* The steps of the abstract memory.                                       *)
LEMMA ResetMaps == ASSUME Reset PROVE Port!PReset
<1>1. \A h \in Hart : master'[h] = IdleMaster
  BY DEF Reset, ResetState
<1>2. \A h \in Hart : OpOf(h)' = None /\ ReplyOf(h)' = None
  BY <1>1 DEF OpOf, ReplyOf, Done, IdleMaster
<1>3. Op' = [h \in Hart |-> OpOf(h)'] /\ Reply' = [h \in Hart |-> ReplyOf(h)']
  BY DEF Op, Reply, OpOf, ReplyOf
<1>4. Op' = [h \in Hart |-> None] /\ Reply' = [h \in Hart |-> None]
  BY <1>2, <1>3
<1> QED
  BY <1>4 DEF Reset, Port!PReset, Port!SReset

LEMMA PresentMaps ==
  ASSUME SInv, NEW h \in Hart, NEW r \in Access, Present(h, r)
  PROVE  Port!PPresent(h)
<1>1. /\ TypeOK /\ master[h].state = "IDLE" /\ master[h].req = None
      /\ master' = [master EXCEPT ![h].req = r] /\ r \in Request
  BY AccessAssumption DEF SInv, IInv, Present
<1>2. /\ target' = target /\ home' = home /\ mem' = mem /\ durable' = durable
      /\ fault' = fault /\ consumed' = consumed
  BY DEF Present, homeVars
<1>3. /\ \A g \in Hart : g # h => master'[g] = master[g]
      /\ master'[h].state = "IDLE" /\ master'[h].req = r
  <2>1. master \in [Hart -> Master]
    BY <1>1 DEF TypeOK
  <2>2. master[h] \in Master /\ master'[h] = [master[h] EXCEPT !.req = r]
    BY <1>1, <2>1
  <2>3. master'[h].state = master[h].state /\ master'[h].req = r
    BY <2>2 DEF Master
  <2> QED
    BY <1>1, <2>1, <2>3
<1>4. \A g \in Hart : g # h => OpOf(g)' = OpOf(g) /\ ReplyOf(g)' = ReplyOf(g)
  BY <1>2, <1>3 DEF OpOf, ReplyOf, Done, Failed, Read, At
<1>5. OpOf(h) = None /\ ReplyOf(h) = None /\ OpOf(h)' = r /\ ReplyOf(h)' = None
  BY <1>1, <1>3 DEF OpOf, ReplyOf, Done
<1>6. /\ Op = [g \in Hart |-> OpOf(g)] /\ Reply = [g \in Hart |-> ReplyOf(g)]
      /\ Op' = [g \in Hart |-> OpOf(g)'] /\ Reply' = [g \in Hart |-> ReplyOf(g)']
  BY DEF Op, Reply, OpOf, ReplyOf
<1>7. Op' = [Op EXCEPT ![h] = r] /\ Reply' = Reply /\ Op[h] = None /\ Reply[h] = None
  BY <1>4, <1>5, <1>6
<1>8. Port!SPresent(h)
  BY <1>1, <1>2, <1>7 DEF Port!SPresent, Port!Request, Request
<1> QED
  BY <1>2, <1>8 DEF Port!PPresent

LEMMA PerformMaps ==
  ASSUME SInv, NEW b \in Bank, Perform(b)
  PROVE  \E h \in Hart : Port!PPerform(h)
<1>1. /\ TypeOK /\ home[b] # None /\ home[b] \in Accepted /\ home[b].reply = None
      /\ target[b].state = "WAIT" /\ Spared(b)
  BY DEF SInv, IInv, Perform, TypeOK, HomeInv
<1>2. /\ master' = master /\ target' = target /\ fault' = fault /\ consumed' = consumed
      /\ mem' = IF home[b].write THEN [mem EXCEPT ![home[b].addr] = home[b].wdata] ELSE mem
      /\ home' = [home EXCEPT ![b].reply = mem'[home[b].addr]]
  BY DEF Perform
<1>3. PICK h \in Hart : h = target[b].id
  BY <1>1, OneBank DEF SInv, Serving
<1>4. /\ At(h) = b /\ master[h].state = IF target[b].write THEN "B" ELSE "R"
      /\ target[b].write = master[h].req.write /\ target[b].addr = master[h].req.addr
      /\ target[b].write => target[b].wdata = master[h].req.data
      /\ home[b].write = target[b].write /\ home[b].addr = target[b].addr
      /\ home[b].wdata = target[b].wdata
  BY <1>1, <1>3, OneBank DEF SInv, IInv, TargetInv, HomeInv, Serving
<1>5. /\ master[h].req \in Request /\ master[h].req # None
      /\ master[h].req.addr \in Addr /\ master[h].req.data \in Value
      /\ master[h].req.write \in BOOLEAN
  BY <1>1, <1>4, MasterType DEF SInv, IInv, MasterInv
<1> DEFINE r == master[h].req
           v == mem'[r.addr]
<1>6. mem' = (IF r.write THEN [mem EXCEPT ![r.addr] = r.data] ELSE mem) /\ v \in Value
  BY <1>1, <1>2, <1>4, <1>5 DEF TypeOK
<1>7. home'[b].reply = v /\ v # None /\ \A c \in Bank : c # b => home'[c] = home[c]
  <2>1. home \in [Bank -> Accepted \cup {None}]
    BY <1>1 DEF TypeOK
  <2> HIDE DEF v
  <2>2. home' = [home EXCEPT ![b].reply = v]
    BY <1>2, <1>4 DEF v
  <2>3. home'[b] = [home[b] EXCEPT !.reply = v] /\ \A c \in Bank : c # b => home'[c] = home[c]
    BY <2>1, <2>2
  <2> QED
    BY <1>1, <1>6, <2>3, ValueAssumption DEF Accepted
<1>8. \A g \in Hart : g # h => OpOf(g)' = OpOf(g) /\ ReplyOf(g)' = ReplyOf(g)
  <2> SUFFICES ASSUME NEW g \in Hart, g # h
               PROVE  OpOf(g)' = OpOf(g) /\ ReplyOf(g)' = ReplyOf(g)
    OBVIOUS
  <2>1. CASE master[g].state \in {"B", "R"}
    <3>1. At(g) \in Bank /\ target[At(g)].id = g
      BY <2>1, WaitsAtTarget DEF SInv
    <3>2. At(g) # b
      BY <1>3, <3>1
    <3> QED
      BY <1>2, <1>7, <3>1, <3>2 DEF OpOf, ReplyOf, Done, Failed, Read, At
  <2>2. CASE master[g].state \notin {"B", "R"}
    BY <1>2, <2>2 DEF OpOf, ReplyOf, Done, Failed, Read
  <2> QED
    BY <2>1, <2>2
<1>9. OpOf(h) = r /\ ReplyOf(h) = None
  BY <1>1, <1>4 DEF OpOf, ReplyOf, Done
<1>10. OpOf(h)' = None /\ ReplyOf(h)' = v
  <2>1. Done(h)' /\ ~Failed(h)' /\ Read(h)' = v
    BY <1>1, <1>2, <1>4, <1>7 DEF Done, Failed, Read, At
  <2>2. r.write => v = r.data
    BY <1>1, <1>5, <1>6 DEF TypeOK
  <2> QED
    BY <1>2, <2>1, <2>2 DEF OpOf, ReplyOf
<1>11. /\ Op = [g \in Hart |-> OpOf(g)] /\ Reply = [g \in Hart |-> ReplyOf(g)]
       /\ Op' = [g \in Hart |-> OpOf(g)'] /\ Reply' = [g \in Hart |-> ReplyOf(g)']
  BY DEF Op, Reply, OpOf, ReplyOf
<1>12. /\ Op[h] = r /\ Op' = [Op EXCEPT ![h] = None]
       /\ Reply' = [Reply EXCEPT ![h] = v]
  BY <1>8, <1>9, <1>10, <1>11
<1>13. \A a \in Addr : durable'[a] \in {durable[a], mem[a]}
  BY DEF Perform
<1>14. Port!SPerform(h)
  BY <1>5, <1>6, <1>12, <1>13 DEF Port!SPerform
<1>15. ~Port!Faulty(h)
  <2>1. ~Faulty(r.write, r.addr)
    BY <1>1, <1>4 DEF Spared
  <2> QED
    BY <1>12, <2>1 DEF Port!Faulty, Faulty
<1> QED
  BY <1>2, <1>14, <1>15 DEF Port!PPerform

LEMMA EdgeMaps ==
  ASSUME SInv, NEW allow, NEW favoured \in Hart, NEW taken, Edge(allow, favoured, taken)
  PROVE  [Port!PNext]_(Port!pVars)
<1>0. IInv
  BY DEF SInv
<1>1. PICK aw, ar, w, asked : /\ Step(aw, ar, w, asked) /\ Answers(aw, ar, w, taken)
                              /\ aw = AwOf(allow, favoured) /\ ar = ArOf(allow, favoured)
                              /\ w = WOf(allow)
  BY <1>0, EdgeIsStep, EdgeAnswers
<1> DEFINE took(h) == master[h].state = "RESP" /\ h \in taken
<1>2. PICK T \in SUBSET Hart : \A h \in Hart : h \in T <=> took(h)
  <2>1. \A h \in Hart : h \in {g \in Hart : took(g)} <=> took(h)
    OBVIOUS
  <2> QED
    BY <2>1
<1>3. PICK F \in SUBSET Hart : \A h \in Hart : h \in F <=> Failing(h, aw, ar, w)
  <2>1. \A h \in Hart : h \in {g \in Hart : Failing(g, aw, ar, w)} <=> Failing(h, aw, ar, w)
    OBVIOUS
  <2> QED
    BY <2>1
<1>4. Beats(aw, ar, w, asked)
  BY <1>1 DEF Step
<1>5. ASSUME NEW h \in Hart
      PROVE  /\ OpOf(h)' = IF h \in F THEN None ELSE OpOf(h)
             /\ ReplyOf(h)' = IF h \in T THEN None ELSE IF h \in F THEN Error ELSE ReplyOf(h)
             /\ h \in T => ReplyOf(h) # None
             /\ h \in F => /\ OpOf(h) = master[h].req /\ master[h].req \in Request
                           /\ Faulty(master[h].req.write, master[h].req.addr)
  BY <1>1, <1>2, <1>3, EdgeReply
<1>6. /\ Op = [h \in Hart |-> OpOf(h)] /\ Reply = [h \in Hart |-> ReplyOf(h)]
      /\ Op' = [h \in Hart |-> OpOf(h)'] /\ Reply' = [h \in Hart |-> ReplyOf(h)']
  BY DEF Op, Reply, OpOf, ReplyOf
<1>7. /\ Op' = [h \in Hart |-> IF h \in F THEN None ELSE Op[h]]
      /\ Reply' = [h \in Hart |-> IF h \in T THEN None
                                 ELSE IF h \in F THEN Error ELSE Reply[h]]
      /\ \A h \in T : Reply[h] # None
  BY <1>5, <1>6
<1>8. \A h \in F : Port!Faulty(h)
  <2> SUFFICES ASSUME NEW h \in F PROVE Port!Faulty(h)
    OBVIOUS
  <2>1. /\ Op[h] = master[h].req /\ master[h].req \in Request
        /\ Faulty(master[h].req.write, master[h].req.addr)
    BY <1>5, <1>6
  <2>2. master[h].req # None /\ master[h].req.write \in BOOLEAN /\ master[h].req.addr \in Addr
    BY <2>1, NoneAssumption, RequestType
  <2>3. fault # None
    BY <2>1, <2>2, NoneAssumption DEF Faulty
  <2> QED
    BY <2>1, <2>2, <2>3 DEF Port!Faulty, Faulty
<1>9. F \in Port!Once
  <2>1. ASSUME NEW g \in F, NEW h \in F PROVE g = h
    <3>1. PICK c \in Bank : Begins(c, g, ar, w)
      BY <1>3 DEF Failing
    <3>2. PICK b \in Bank : Begins(b, h, ar, w)
      BY <1>3 DEF Failing
    <3>3. c = At(g) /\ b = At(h)
      BY <1>0, <1>4, <3>1, <3>2, FailingAt
    <3>4. /\ fault = [write |-> master[g].req.write, addr |-> master[g].req.addr]
          /\ fault = [write |-> master[h].req.write, addr |-> master[h].req.addr]
      BY <1>5 DEF Faulty
    <3>5. master[g].req.addr = master[h].req.addr
      BY <3>4
    <3>6. c = b
      BY <3>3, <3>5 DEF At
    <3>7. ar[b] # None => w[b] = None
      BY <1>4 DEF Beats
    <3> QED
      BY <3>1, <3>2, <3>6, <3>7, NoneAssumption DEF Begins
  <2>2. F = {} \/ \E h \in Hart : F = {h}
    BY <2>1
  <2> QED
    BY <2>2 DEF Port!Once
<1>10. consumed' = (consumed \/ F # {})
  <2>1. consumed' = (consumed \/ \E b \in Bank : Hit(b, aw, w, ar))
    BY <1>1 DEF Edge, AwOf, ArOf, WOf
  <2>2. (\E b \in Bank : Hit(b, aw, w, ar)) => F # {}
    <3> SUFFICES ASSUME NEW b \in Bank, Hit(b, aw, w, ar) PROVE F # {}
      OBVIOUS
    <3>1. ar[b] # None \/ w[b] # None
      BY <1>0, <1>4, HitBegins
    <3>2. PICK h \in Hart : Begins(b, h, ar, w)
      BY <1>4, <3>1, RequestsAt, <1>0 DEF Beats, Begins
    <3> QED
      BY <1>3, <3>2 DEF Failing
  <2>3. F # {} => \E b \in Bank : Hit(b, aw, w, ar)
    BY <1>3 DEF Failing
  <2> QED
    BY <2>1, <2>2, <2>3
<1>11. mem' = mem /\ durable' = durable /\ fault' = fault
  BY DEF Edge
<1>12. CASE T \cup F # {}
  <2>1. Port!PAnswer(T, F)
    BY <1>7, <1>8, <1>10, <1>11, <1>12 DEF Port!PAnswer
  <2> QED
    BY <1>9, <2>1 DEF Port!PNext
<1>13. CASE T \cup F = {}
  <2>1. Op' = Op /\ Reply' = Reply
    BY <1>6, <1>7, <1>13
  <2>2. consumed' = consumed
    BY <1>0, <1>10, <1>13 DEF IInv, TypeOK
  <2> QED
    BY <1>11, <2>1, <2>2 DEF Port!pVars, Port!sVars
<1> QED
  BY <1>12, <1>13

(* Whatever is asked, the transport and the home are the atomic memory of  *)
(* PortMemory: every request takes effect once or fails without an effect. *)
THEOREM Refinement == Spec => RefinesPortMemory
<1>1. Init => Port!PInit
  <2> SUFFICES ASSUME Init PROVE Port!PInit
    OBVIOUS
  <2>1. \A h \in Hart : master[h] = IdleMaster
    BY DEF Init, ResetState
  <2>2. \A h \in Hart : OpOf(h) = None /\ ReplyOf(h) = None
    BY <2>1 DEF OpOf, ReplyOf, Done, IdleMaster
  <2>3. Op = [h \in Hart |-> None] /\ Reply = [h \in Hart |-> None]
    BY <2>2, OpReply
  <2> QED
    BY <2>3, ImageAssumption DEF Init, Port!PInit, Port!SInit
<1>2. SInv /\ [Next]_vars => [Port!PNext]_(Port!pVars)
  <2> SUFFICES ASSUME SInv, [Next]_vars PROVE [Port!PNext]_(Port!pVars)
    OBVIOUS
  <2>1. CASE Reset
    BY <2>1, ResetMaps DEF Port!PNext
  <2>2. CASE \E h \in Hart, r \in Access : Present(h, r)
    BY <2>2, PresentMaps DEF Port!PNext
  <2>3. CASE \E b \in Bank : Perform(b)
    BY <2>3, PerformMaps DEF Port!PNext
  <2>4. CASE \E allow \in SUBSET Listening, favoured \in Rivals, taken \in SUBSET Answerable :
               Edge(allow, favoured, taken)
    <3>1. Rivals \subseteq Hart
      BY DEF Rivals
    <3> QED
      BY <2>4, <3>1, EdgeMaps
  <2>5. CASE UNCHANGED vars
    BY <2>5 DEF vars, Port!pVars, Port!sVars, Op, Reply, Done, Failed, Read, At
  <2> QED
    BY <2>1, <2>2, <2>3, <2>4, <2>5 DEF Next
<1> QED
  BY <1>1, <1>2, SparedInductive, PTL DEF Spec, RefinesPortMemory, Port!PSpec
=============================================================================
