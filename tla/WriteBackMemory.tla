--------------------------- MODULE WriteBackMemory ---------------------------
(***************************************************************************)
(* What a blocking write-back cache promises its CPU and its maintenance   *)
(* port.  `mem' is the memory the CPU sees, `durable' the memory behind    *)
(* the cache.  A request is performed atomically or fails and changes      *)
(* nothing.  `durable' only catches up with `mem'; `mem' falls back on     *)
(* `durable' in a command that discards lines, and at a reset.  A FLUSH    *)
(* that reports no error has written everything back.                      *)
(***************************************************************************)
EXTENDS Naturals

CONSTANTS Addr,   \* word addresses
          Lane,   \* the byte lanes of a word
          Byte,   \* 0 .. the largest byte
          None    \* no request, no reply, no command

VARIABLES mem, durable, op, reply, command, command_error

wVars == <<mem, durable, op, reply, command, command_error>>

Word == [Lane -> Byte]
Zero == [l \in Lane |-> 0]
Request == [write : BOOLEAN, aligned : BOOLEAN, addr : Addr, data : Word,
            strobe : SUBSET Lane]
Flushing   == {0, 2}   \* FLUSH and FLUSH_INVALIDATE
Discarding == {1, 3}   \* INVALIDATE and the destructive self-test

WInit == /\ mem \in [Addr -> Word]
         /\ durable = mem
         /\ op = None /\ reply = None
         /\ command = None /\ command_error = FALSE

WAccept == /\ op = None /\ reply = None /\ command = None
           /\ op' \in Request
           /\ UNCHANGED <<mem, durable, reply, command, command_error>>

WPerform == /\ op # None /\ op.aligned
            /\ IF op.write
               THEN /\ mem' = [mem EXCEPT ![op.addr] =
                                 [l \in Lane |-> IF l \in op.strobe
                                                 THEN op.data[l] ELSE @[l]]]
                    /\ reply' = [data |-> Zero, error |-> FALSE]
               ELSE /\ reply' = [data |-> mem[op.addr], error |-> FALSE]
                    /\ UNCHANGED mem
            /\ op' = None
            /\ UNCHANGED <<durable, command, command_error>>

WFail == /\ op # None
         /\ op' = None
         /\ reply' = [data |-> Zero, error |-> TRUE]
         /\ UNCHANGED <<mem, durable, command, command_error>>

WTake == /\ reply # None
         /\ reply' = None
         /\ UNCHANGED <<mem, durable, op, command, command_error>>

(* Some word of a line reaches the memory behind the cache.                *)
WWriteBack == \E a \in Addr : /\ durable' = [durable EXCEPT ![a] = mem[a]]
                              /\ UNCHANGED <<mem, op, reply, command, command_error>>

WCommand == /\ op = None /\ reply = None /\ command = None
            /\ command' \in Flushing \cup Discarding
            /\ command_error' = FALSE
            /\ UNCHANGED <<mem, durable, op, reply>>

WDiscard == /\ command \in Discarding
            /\ \A a \in Addr : mem'[a] \in {mem[a], durable[a]}
            /\ DOMAIN mem' = Addr
            /\ UNCHANGED <<durable, op, reply, command, command_error>>

WDone == /\ command # None /\ command' = None
         /\ command_error' \in BOOLEAN
         /\ mem' = IF command \in Discarding THEN durable ELSE mem
         /\ command \in Flushing /\ ~command_error' => durable = mem
         /\ UNCHANGED <<durable, op, reply>>

WReset == /\ mem' = durable
          /\ op' = None /\ reply' = None
          /\ command' = None /\ command_error' = FALSE
          /\ UNCHANGED durable

WNext == \/ WAccept \/ WPerform \/ WFail \/ WTake
         \/ WWriteBack
         \/ WCommand \/ WDiscard \/ WDone
         \/ WReset

WSpec == WInit /\ [][WNext]_wVars
=============================================================================
