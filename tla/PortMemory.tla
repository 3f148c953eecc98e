----------------------------- MODULE PortMemory -----------------------------
(***************************************************************************)
(* What the transport and the home together promise the store buffers: the *)
(* atomic memory of SerialMemory, except that the first transaction after  *)
(* a reset that matches the injected fault fails, and memory never sees it. *)
(***************************************************************************)
EXTENDS SerialMemory

CONSTANTS Error,  \* the reply of a failed transaction
          Fault   \* the injected faults: None, or a direction and an address

VARIABLES fault, consumed

pVars == <<sVars, fault, consumed>>

Faulty(h) == /\ op[h] # None /\ fault # None /\ ~consumed
             /\ fault = [write |-> op[h].write, addr |-> op[h].addr]

PInit == SInit /\ fault \in Fault /\ consumed = FALSE

PPresent(h) == SPresent(h) /\ UNCHANGED <<fault, consumed>>

PPerform(h) == ~Faulty(h) /\ SPerform(h) /\ UNCHANGED <<fault, consumed>>

(* Replies are taken, and the fault may hit, at once.                      *)
PAnswer(taken, failed) ==
  /\ taken \cup failed # {}
  /\ \A h \in taken : reply[h] # None
  /\ \A h \in failed : Faulty(h)
  /\ op' = [h \in Hart |-> IF h \in failed THEN None ELSE op[h]]
  /\ reply' = [h \in Hart |-> IF h \in taken THEN None
                             ELSE IF h \in failed THEN Error ELSE reply[h]]
  /\ consumed' = (consumed \/ failed # {})
  /\ UNCHANGED <<mem, durable, fault>>

PReset == SReset /\ consumed' = FALSE /\ UNCHANGED fault

Once == {{}} \cup {{h} : h \in Hart}

PNext == \/ PReset
         \/ \E h \in Hart : PPresent(h) \/ PPerform(h)
         \/ \E taken \in SUBSET Hart, failed \in Once : PAnswer(taken, failed)

PSpec == PInit /\ [][PNext]_pVars
=============================================================================
