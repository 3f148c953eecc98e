---------------------------- MODULE EventChecker ----------------------------
(***************************************************************************)
(* Checker of scripts/check_coherent_rtl_events.py, the oracle that        *)
(* replays the event trace of an RTL run: its own two caches, memory,      *)
(* store buffers and owed responses, and one action for each kind of row.  *)
(* A row is anything the benches can write: rows that are wrong too.       *)
(* The script reports the first mismatch, so no row follows one here.      *)
(* bank and index are one Set, as both are bits of the address.  Row       *)
(* identifiers and the enriched log are left out; no verdict reads them.   *)
(***************************************************************************)
EXTENDS Naturals, Sequences

CONSTANTS Set, Tag, Word, Value, Zero,
          MaxOpen   \* bound: buffered stores and owed responses together

ASSUME ValueAssumption == Zero \in Value
ASSUME TagAssumption == Tag # {}

Hart == {0, 1}
Other(h) == 1 - h
Depth == 2
Addr == [set : Set, tag : Tag, word : Word]
Line == [state : {"I", "S", "M"}, tag : Tag, data : [Word -> Value]]

VARIABLES lines, memory, pending, store_buffer, first_mismatch, ended

vars == <<lines, memory, pending, store_buffer, first_mismatch, ended>>

EmptyLines == [h \in Hart |-> [s \in Set |->
                [state |-> "I", tag |-> CHOOSE t \in Tag : TRUE, data |-> [w \in Word |-> Zero]]]]

Init == /\ lines = EmptyLines
        /\ memory = [a \in Addr |-> Zero]
        /\ pending = [h \in Hart |-> <<>>]
        /\ store_buffer = [h \in Hart |-> <<>>]
        /\ first_mismatch = "none"
        /\ ended = FALSE

Replaying == first_mismatch = "none" /\ ~ended
Row == Replaying /\ UNCHANGED ended
Expect(ok, what) == first_mismatch' = IF ok THEN first_mismatch ELSE what

Open == Len(pending[0]) + Len(pending[1]) + Len(store_buffer[0]) + Len(store_buffer[1])

(* Memory and the mismatches survive a reset.                              *)
reset == /\ Row
         /\ lines' = EmptyLines
         /\ pending' = [h \in Hart |-> <<>>]
         /\ store_buffer' = [h \in Hart |-> <<>>]
         /\ UNCHANGED <<memory, first_mismatch>>

(* The benches initialise memory before the harts run.                     *)
memory_init(a, v) == /\ Row
                     /\ \A h \in Hart, s \in Set : lines[h][s].state = "I"
                     /\ memory' = [memory EXCEPT ![a] = v]
                     /\ UNCHANGED <<lines, pending, store_buffer, first_mismatch>>

(* Defect: an overflowing store is reported and kept.                      *)
enqueueKept(h, a, v, occupancy) ==
  /\ Row
  /\ Len(store_buffer[h]) >= Depth \/ Open < MaxOpen
  /\ store_buffer' = [store_buffer EXCEPT ![h] = Append(@, [addr |-> a, data |-> v])]
  /\ Expect(Len(store_buffer[h]) < Depth /\ occupancy = Len(store_buffer'[h]), "occupancy")
  /\ UNCHANGED <<lines, memory, pending>>

enqueue(h, a, v, occupancy) ==
  /\ Row
  /\ IF Len(store_buffer[h]) >= Depth
     THEN Expect(FALSE, "store_buffer_overflow") /\ UNCHANGED store_buffer
     ELSE /\ Open < MaxOpen
          /\ store_buffer' = [store_buffer EXCEPT ![h] = Append(@, [addr |-> a, data |-> v])]
          /\ Expect(occupancy = Len(store_buffer'[h]), "occupancy")
  /\ UNCHANGED <<lines, memory, pending>>

drain(h, a, v, error) ==
  /\ Row
  /\ IF store_buffer[h] = <<>>
     THEN Expect(FALSE, "drain_empty") /\ UNCHANGED store_buffer
     ELSE /\ Expect([addr |-> a, data |-> v] = Head(store_buffer[h]), "drain")
          /\ store_buffer' = IF error THEN store_buffer
                             ELSE [store_buffer EXCEPT ![h] = Tail(@)]
  /\ UNCHANGED <<lines, memory, pending>>

Matching(h, a) == {n \in 1..Len(store_buffer[h]) : store_buffer[h][n].addr = a}

forward(h, a, v) ==
  /\ Row
  /\ IF Matching(h, a) = {} THEN Expect(FALSE, "forward_without_match")
     ELSE LET youngest == CHOOSE n \in Matching(h, a) : \A m \in Matching(h, a) : m <= n
          IN  Expect(v = store_buffer[h][youngest].data, "youngest")
  /\ UNCHANGED <<lines, memory, pending, store_buffer>>

Hit(line, a) == line.state # "I" /\ line.tag = a.tag

(* Memory after a line has been written back, if it is modified.           *)
WriteBack(m, s, line) ==
  IF line.state # "M" THEN m
  ELSE [b \in Addr |-> IF b.set = s /\ b.tag = line.tag THEN line.data[b.word] ELSE m[b]]

(* Defect: the victim's words are lost.                                    *)
CommittedVictimLost(h, a) ==
  LET local == lines[h][a.set]  remote == lines[Other(h)][a.set]
  IN  IF ~Hit(local, a) /\ Hit(remote, a) THEN WriteBack(memory, a.set, remote) ELSE memory

(* On a miss: the victim, then a modified remote copy, go to memory.       *)
Committed(h, a) ==
  LET local == lines[h][a.set]  remote == lines[Other(h)][a.set]
  IN  IF Hit(local, a) THEN memory
      ELSE IF Hit(remote, a) THEN WriteBack(WriteBack(memory, a.set, local), a.set, remote)
      ELSE WriteBack(memory, a.set, local)

(* The line before the operation: as it is, or filled.                     *)
Filled(h, a) ==
  LET local == lines[h][a.set]  remote == lines[Other(h)][a.set]
  IN  IF Hit(local, a) THEN local.data
      ELSE IF Hit(remote, a) THEN remote.data
      ELSE [w \in Word |-> Committed(h, a)[[a EXCEPT !.word = w]]]

LocalLine(h, a, write, v) ==
  LET local == lines[h][a.set]
  IN  [state |-> IF write THEN "M" ELSE IF Hit(local, a) THEN local.state ELSE "S",
       tag |-> a.tag,
       data |-> IF write THEN [Filled(h, a) EXCEPT ![a.word] = v] ELSE Filled(h, a)]

(* Defect: a write leaves the other copy valid.                            *)
RemoteLineKept(h, a, write) ==
  LET local == lines[h][a.set]  remote == lines[Other(h)][a.set]
  IN  IF Hit(remote, a) /\ ~Hit(local, a) THEN [remote EXCEPT !.state = "S"] ELSE remote

RemoteLine(h, a, write) ==
  LET local == lines[h][a.set]  remote == lines[Other(h)][a.set]
  IN  IF Hit(remote, a) /\ write THEN [remote EXCEPT !.state = "I"]
      ELSE IF Hit(remote, a) /\ ~Hit(local, a) THEN [remote EXCEPT !.state = "S"]
      ELSE remote

(* What check_ownership looks for in the two lines of a set.               *)
Conflict(a, b, tag) ==
  /\ a.tag = tag /\ b.tag = tag
  /\ <<a.state, b.state>> \in {<<"M", "M">>, <<"M", "S">>, <<"S", "M">>}

request(h, a, write, v) ==
  /\ Row /\ Open < MaxOpen
  /\ memory' = Committed(h, a)
  /\ lines' = [lines EXCEPT ![h][a.set] = LocalLine(h, a, write, v),
                            ![Other(h)][a.set] = RemoteLine(h, a, write)]
  /\ pending' = [pending EXCEPT ![h] =
                   Append(@, [write |-> write, expected |-> LocalLine(h, a, write, v).data[a.word]])]
  /\ Expect(~Conflict(lines'[0][a.set], lines'[1][a.set], a.tag), "ownership")
  /\ UNCHANGED store_buffer

response(h, v, error) ==
  /\ Row
  /\ IF pending[h] = <<>>
     THEN Expect(error, "response_without_request") /\ UNCHANGED pending
     ELSE /\ pending' = [pending EXCEPT ![h] = Tail(@)]
          /\ Expect(Head(pending[h]).write \/ error \/ v = Head(pending[h]).expected, "data")
  /\ UNCHANGED <<lines, memory, store_buffer>>

final_backing(a, v) == /\ Row
                       /\ Expect(v = memory[a], "final_backing")
                       /\ UNCHANGED <<lines, memory, pending, store_buffer>>

(* The state decides first; an invalid line is compared no further.        *)
FinalMismatch(h, a, state, v) ==
  LET expected == lines[h][a.set]
  IN  IF state # expected.state THEN "state"
      ELSE IF expected.state = "I" THEN "none"
      ELSE IF a.tag # expected.tag THEN "tag"
      ELSE IF v # expected.data[a.word] THEN "word"
      ELSE "none"

final_line(h, a, state, v) ==
  /\ Row
  /\ first_mismatch' = FinalMismatch(h, a, state, v)
  /\ UNCHANGED <<lines, memory, pending, store_buffer>>

(* The end of check(): nothing may be outstanding.                         *)
finish == /\ Replaying
          /\ ended' = TRUE
          /\ first_mismatch' = IF \E h \in Hart : pending[h] # <<>> THEN "outstanding_response"
                               ELSE IF \E h \in Hart : store_buffer[h] # <<>>
                               THEN "store_buffer_not_empty" ELSE "none"
          /\ UNCHANGED <<lines, memory, pending, store_buffer>>

Next == \/ reset \/ finish
        \/ \E a \in Addr, v \in Value :
             \/ memory_init(a, v) \/ final_backing(a, v)
             \/ \E h \in Hart :
                  \/ \E n \in 1..Depth : enqueue(h, a, v, n)
                  \/ \E b \in BOOLEAN : drain(h, a, v, b) \/ request(h, a, b, v)
                  \/ forward(h, a, v)
                  \/ \E s \in {"I", "S", "M"} : final_line(h, a, s, v)
        \/ \E h \in Hart, v \in Value, b \in BOOLEAN : response(h, v, b)

Spec == Init /\ [][Next]_vars

-----------------------------------------------------------------------------
Entry == [addr : Addr, data : Value]
Owed == [write : BOOLEAN, expected : Value]
Verdict == {"none", "occupancy", "store_buffer_overflow", "drain_empty", "drain",
            "forward_without_match", "youngest", "ownership", "response_without_request",
            "data", "final_backing", "state", "tag", "word", "outstanding_response",
            "store_buffer_not_empty"}

(* Every variable has its type; a store buffer never exceeds its depth,    *)
(* whatever occupancy the rows claim.                                      *)
TypeOK == /\ lines \in [Hart -> [Set -> Line]]
          /\ memory \in [Addr -> Value]
          /\ pending \in [Hart -> Seq(Owed)]
          /\ store_buffer \in [Hart -> Seq(Entry)]
          /\ \A h \in Hart : Len(store_buffer[h]) <= Depth
          /\ first_mismatch \in Verdict
          /\ ended \in BOOLEAN

(* The reference caches are coherent whatever rows the RTL wrote: a        *)
(* modified line is the only copy, a shared one equals memory, so that     *)
(* check_ownership (lines 144-150), which looks at the reference's own     *)
(* lines, can report nothing: an ownership error of the RTL is found by    *)
(* response and final_line rows or not at all.                             *)
ReferenceCoherent ==
  /\ first_mismatch # "ownership"
  /\ \A s \in Set, h \in Hart :
       LET line == lines[h][s]  other == lines[Other(h)][s]
       IN  /\ line.state = "M" /\ other.state # "I" => other.tag # line.tag
           /\ line.state = "S" => \A w \in Word :
                line.data[w] = memory[[set |-> s, tag |-> line.tag, word |-> w]]

(* What the reference holds of a word: the modified copy, or memory.       *)
Visible == [a \in Addr |->
              IF \E h \in Hart : lines[h][a.set].state = "M" /\ lines[h][a.set].tag = a.tag
              THEN lines[CHOOSE h \in Hart : lines[h][a.set].state = "M"
                                             /\ lines[h][a.set].tag = a.tag][a.set].data[a.word]
              ELSE memory[a]]

Logged == INSTANCE LoggedMemory WITH mem <- Visible, durable <- memory, owed <- pending,
                                     fifo <- store_buffer, legal <- first_mismatch = "none"

(* The replay through two caches accepts and rejects the rows of one flat  *)
(* memory with a FIFO of stores for each hart: it raises no false alarm    *)
(* and misses no wrong datum, across evictions, interventions and resets.  *)
RefinesLoggedMemory == Logged!LSpec
=============================================================================
