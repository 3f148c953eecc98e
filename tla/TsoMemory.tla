------------------------------ MODULE TsoMemory ------------------------------
(***************************************************************************)
(* What the two store buffers promise the harts: every hart's stores reach *)
(* one shared memory in program order, exactly once each; a load returns   *)
(* the youngest store to its address that is still buffered, and otherwise *)
(* the memory; a FENCE completes when no store is left.  A store stays in  *)
(* the buffer, and is forwarded, until its completion is known, which is   *)
(* later than its effect on memory.  A failed store blocks its hart's      *)
(* later ones until the fault is cleared, and is then tried again.         *)
(***************************************************************************)
EXTENDS Naturals, Sequences

CONSTANTS Hart, Addr, Value, Depth,
          None,    \* no operation, no result
          Error    \* the result of a load that failed

VARIABLES mem,        \* the shared memory
          buf,        \* [Hart -> Seq(Entry)], the oldest store first
          performed,  \* the oldest store has reached memory
          fault,      \* the oldest store has failed
          op,         \* the operation the hart waits for, or None
          fetched,    \* what its load read from memory, or None
          result      \* the result of the hart's last load

tVars == <<mem, buf, performed, fault, op, fetched, result>>

Entry == [addr : Addr, data : Value]
Operation == [op : {"store"}, addr : Addr, data : Value]
               \cup [op : {"load"}, addr : Addr]
               \cup [op : {"clear", "fence"}]

TInit == /\ mem \in [Addr -> Value]
         /\ buf = [h \in Hart |-> <<>>]
         /\ performed = [h \in Hart |-> FALSE]
         /\ fault = [h \in Hart |-> FALSE]
         /\ op = [h \in Hart |-> None]
         /\ fetched = [h \in Hart |-> None]
         /\ result = [h \in Hart |-> None]

Matches(h) == {n \in 1 .. Len(buf[h]) : buf[h][n].addr = op[h].addr}
Youngest(h) == CHOOSE n \in Matches(h) : \A m \in Matches(h) : m <= n

TIssue(h) == /\ op[h] = None
             /\ \E o \in Operation : op' = [op EXCEPT ![h] = o]
             /\ UNCHANGED <<mem, buf, performed, fault, fetched, result>>

(* The oldest store takes effect in memory.                                *)
TPerform(h) == /\ buf[h] # <<>> /\ ~performed[h] /\ ~fault[h]
               /\ mem' = [mem EXCEPT ![Head(buf[h]).addr] = Head(buf[h]).data]
               /\ performed' = [performed EXCEPT ![h] = TRUE]
               /\ UNCHANGED <<buf, fault, op, fetched, result>>

(* A load that no buffered store serves reads memory, or fails.            *)
TFetch(h) == /\ op[h] # None /\ fetched[h] = None
             /\ op[h].op = "load" /\ Matches(h) = {} /\ ~performed[h]
             /\ \E v \in {mem[op[h].addr], Error} :
                  fetched' = [fetched EXCEPT ![h] = v]
             /\ UNCHANGED <<mem, buf, performed, fault, op, result>>

(* The completion of the oldest store leaves b as h's buffer.              *)
Completion(h, b) ==
  \/ b = buf[h] /\ UNCHANGED performed
  \/ /\ performed[h] /\ b = Tail(buf[h])
     /\ performed' = [performed EXCEPT ![h] = FALSE]

Failure(h) == buf[h] # <<>> /\ ~performed[h] /\ fault' = [fault EXCEPT ![h] = TRUE]

(* What h's operation does to its buffer b, if it completes now.           *)
Completes(h, b) ==
  /\ op[h] # None
  /\ op' = [op EXCEPT ![h] = None]
  /\ CASE op[h].op = "store" -> /\ Len(buf[h]) < Depth
                                /\ buf' = [buf EXCEPT ![h] =
                                     Append(b, [addr |-> op[h].addr, data |-> op[h].data])]
                                /\ UNCHANGED <<fetched, result>>
       [] op[h].op = "load"  -> /\ IF Matches(h) # {}
                                   THEN result' = [result EXCEPT ![h] = buf[h][Youngest(h)].data]
                                   ELSE /\ fetched[h] # None
                                        /\ result' = [result EXCEPT ![h] = fetched[h]]
                                /\ fetched' = [fetched EXCEPT ![h] = None]
                                /\ buf' = [buf EXCEPT ![h] = b]
       [] op[h].op = "fence" -> /\ buf[h] = <<>>
                                /\ UNCHANGED <<buf, fetched, result>>
       [] op[h].op = "clear" -> /\ buf' = [buf EXCEPT ![h] = b]
                                /\ UNCHANGED <<fetched, result>>

Waits(h, b) == buf' = [buf EXCEPT ![h] = b] /\ UNCHANGED <<op, fetched, result>>

(* One step of hart h's buffer: the completion or failure of its oldest    *)
(* store and the completion of its operation may coincide.                 *)
TStep(h) ==
  /\ UNCHANGED mem
  /\ \E b \in {buf[h]} \cup (IF buf[h] = <<>> THEN {} ELSE {Tail(buf[h])}) :
       /\ Completion(h, b)
       /\ \/ Waits(h, b) /\ UNCHANGED fault
          \/ Completes(h, b) /\ fault' = [fault EXCEPT ![h] = @ /\ op[h].op # "clear"]
          \/ (Waits(h, b) \/ Completes(h, b)) /\ Failure(h)

TReset == /\ buf' = [h \in Hart |-> <<>>]
          /\ performed' = [h \in Hart |-> FALSE]
          /\ fault' = [h \in Hart |-> FALSE]
          /\ op' = [h \in Hart |-> None]
          /\ fetched' = [h \in Hart |-> None]
          /\ result' = [h \in Hart |-> None]
          /\ mem' \in [Addr -> Value]

TNext == TReset \/ \E h \in Hart : TIssue(h) \/ TPerform(h) \/ TFetch(h) \/ TStep(h)

TSpec == TInit /\ [][TNext]_tVars
=============================================================================
