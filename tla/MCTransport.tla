---------------------------- MODULE MCTransport ----------------------------
(***************************************************************************)
(* Transport with one word in each bank: both harts read and write bank 0  *)
(* and write bank 1, and the injected fault is the first write of bank 0.  *)
(***************************************************************************)
EXTENDS Transport

WordOf(b) == [bank |-> b, word |-> 0]
ReadOf(b) == [write |-> FALSE, addr |-> WordOf(b), data |-> 0]
WriteTo(b) == [write |-> TRUE, addr |-> WordOf(b), data |-> 1]

Requested == {ReadOf(0), WriteTo(0), WriteTo(1)}
Injected == {[write |-> TRUE, addr |-> WordOf(0)]}
Cleared == {[a \in Addr |-> 0]}
=============================================================================
