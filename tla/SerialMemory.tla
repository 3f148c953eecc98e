---------------------------- MODULE SerialMemory ----------------------------
(***************************************************************************)
(* What a coherent home promises its requesters: one memory, one request   *)
(* outstanding per hart, every request performed atomically at some point  *)
(* between its acceptance and its response.  `durable' is the part of the  *)
(* memory that survives a reset: it may lag behind `mem', but it only ever *)
(* catches up with a value `mem' really held, and a reset falls back on it *)
(* (docs/coherent_memory_system.md:51 promises dirty data nothing more).   *)
(***************************************************************************)
EXTENDS Naturals

CONSTANTS Hart,   \* the requesters
          Addr,   \* word addresses
          Value,  \* word values
          None    \* no request, no reply

VARIABLES mem, durable, op, reply

sVars == <<mem, durable, op, reply>>

Request == [write : BOOLEAN, addr : Addr, data : Value]

SInit == /\ mem \in [Addr -> Value]
         /\ durable = mem
         /\ op = [h \in Hart |-> None]
         /\ reply = [h \in Hart |-> None]

SPresent(h) == /\ op[h] = None /\ reply[h] = None
               /\ \E r \in Request : op' = [op EXCEPT ![h] = r]
               /\ UNCHANGED <<mem, durable, reply>>

(* A read returns the current word, a write returns the word it stored.    *)
SPerform(h) ==
  /\ op[h] # None
  /\ LET r == op[h]
     IN  /\ mem' = IF r.write THEN [mem EXCEPT ![r.addr] = r.data] ELSE mem
         /\ reply' = [reply EXCEPT ![h] = mem'[r.addr]]
  /\ op' = [op EXCEPT ![h] = None]
  /\ \A a \in Addr : durable'[a] \in {durable[a], mem[a]}

STake(H) == /\ \E h \in H : reply[h] # None
            /\ reply' = [h \in Hart |-> IF h \in H THEN None ELSE reply[h]]
            /\ UNCHANGED <<mem, durable, op>>

SReset == /\ mem' = durable
          /\ op' = [h \in Hart |-> None]
          /\ reply' = [h \in Hart |-> None]
          /\ UNCHANGED durable

SInitialise(a, v) == /\ mem = durable
                     /\ \A h \in Hart : op[h] = None /\ reply[h] = None
                     /\ mem' = [mem EXCEPT ![a] = v]
                     /\ durable' = mem'
                     /\ UNCHANGED <<op, reply>>

SNext == \/ \E h \in Hart : SPresent(h) \/ SPerform(h)
         \/ \E H \in SUBSET Hart : STake(H)
         \/ SReset
         \/ \E a \in Addr, v \in Value : SInitialise(a, v)

SSpec == SInit /\ [][SNext]_sVars
=============================================================================
