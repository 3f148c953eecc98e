---------------------------- MODULE LoggedMemory ----------------------------
(***************************************************************************)
(* What a replay of coherent events promises, without caches: one memory,  *)
(* a FIFO of buffered stores for each hart, and the answers each hart is   *)
(* still owed.  A row is legal if it says what these say; `legal' is the   *)
(* verdict over the rows so far.  As in SerialMemory, `durable' is what    *)
(* survives a reset: it only ever catches up with a value mem has held.    *)
(***************************************************************************)
EXTENDS Naturals, Sequences

CONSTANTS Hart,   \* the harts
          Addr,   \* word addresses
          Value,  \* word values
          Zero,   \* what memory holds before it is written
          Depth   \* entries of a store buffer

VARIABLES mem, durable, owed, fifo, legal

lVars == <<mem, durable, owed, fifo, legal>>

LInit == /\ mem = [a \in Addr |-> Zero]
         /\ durable = mem
         /\ owed = [h \in Hart |-> <<>>]
         /\ fifo = [h \in Hart |-> <<>>]
         /\ legal = TRUE

Judge(ok) == legal' = (legal /\ ok)

LReset == /\ mem' = durable
          /\ owed' = [h \in Hart |-> <<>>]
          /\ fifo' = [h \in Hart |-> <<>>]
          /\ UNCHANGED <<durable, legal>>

LInitialise(a, v) == /\ mem = durable
                     /\ mem' = [mem EXCEPT ![a] = v]
                     /\ durable' = mem'
                     /\ UNCHANGED <<owed, fifo, legal>>

LEnqueue(h, a, v, occupancy) ==
  /\ IF Len(fifo[h]) = Depth
     THEN Judge(FALSE) /\ UNCHANGED fifo
     ELSE /\ fifo' = [fifo EXCEPT ![h] = Append(@, [addr |-> a, data |-> v])]
          /\ Judge(occupancy = Len(fifo[h]) + 1)
  /\ UNCHANGED <<mem, durable, owed>>

(* The oldest store leaves; one that failed stays.                         *)
LDrain(h, a, v, error) ==
  /\ IF fifo[h] = <<>> THEN Judge(FALSE) /\ UNCHANGED fifo
     ELSE /\ Judge(Head(fifo[h]) = [addr |-> a, data |-> v])
          /\ fifo' = IF error THEN fifo ELSE [fifo EXCEPT ![h] = Tail(@)]
  /\ UNCHANGED <<mem, durable, owed>>

(* A load is forwarded the youngest buffered store to its address.         *)
LForward(h, a, v) ==
  /\ Judge(\E n \in 1..Len(fifo[h]) :
             /\ fifo[h][n] = [addr |-> a, data |-> v]
             /\ \A m \in n + 1..Len(fifo[h]) : fifo[h][m].addr # a)
  /\ UNCHANGED <<mem, durable, owed, fifo>>

LRequest(h, a, write, v) ==
  /\ mem' = IF write THEN [mem EXCEPT ![a] = v] ELSE mem
  /\ owed' = [owed EXCEPT ![h] = Append(@, [write |-> write, expected |-> mem'[a]])]
  /\ \A b \in Addr : durable'[b] \in {durable[b], mem[b]}
  /\ UNCHANGED <<fifo, legal>>

(* Answers come in order; a failed one, and that of a store, carry no data *)
LResponse(h, v, error) ==
  /\ IF owed[h] = <<>> THEN Judge(error) /\ UNCHANGED owed
     ELSE /\ Judge(Head(owed[h]).write \/ error \/ v = Head(owed[h]).expected)
          /\ owed' = [owed EXCEPT ![h] = Tail(@)]
  /\ UNCHANGED <<mem, durable, fifo>>

LBacking(a, v) == Judge(v = durable[a]) /\ UNCHANGED <<mem, durable, owed, fifo>>

(* A valid cached word that is found legal is the word of memory.          *)
LCached(valid, a, v) == /\ Judge(TRUE) \/ Judge(FALSE)
                        /\ legal' /\ valid => v = mem[a]
                        /\ UNCHANGED <<mem, durable, owed, fifo>>

LEnd == /\ Judge(\A h \in Hart : owed[h] = <<>> /\ fifo[h] = <<>>)
        /\ UNCHANGED <<mem, durable, owed, fifo>>

LRow(h) == \/ \E a \in Addr, v \in Value :
                \/ \E n \in 1..Depth : LEnqueue(h, a, v, n)
                \/ \E b \in BOOLEAN : LDrain(h, a, v, b) \/ LRequest(h, a, b, v)
                \/ LForward(h, a, v)
           \/ \E v \in Value, b \in BOOLEAN : LResponse(h, v, b)

LNext == \/ \E h \in Hart : LRow(h)
         \/ \E a \in Addr, v \in Value :
              \/ LInitialise(a, v) \/ LBacking(a, v)
              \/ \E b \in BOOLEAN : LCached(b, a, v)
         \/ LReset \/ LEnd

LSpec == LInit /\ [][LNext]_lVars
=============================================================================
