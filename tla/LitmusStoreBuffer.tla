-------------------------- MODULE LitmusStoreBuffer --------------------------
(***************************************************************************)
(* The litmus tests on the store buffers: the two harts run a test's       *)
(* programs through StoreBuffer, as the litmus firmware does on the RTL,   *)
(* without faults or a reset.                                              *)
(***************************************************************************)
EXTENDS StoreBuffer, Litmus

(* What the tests need of StoreBuffer's constants.                         *)
TwoHarts == Hart = {1, 2} /\ Addr = Location

VARIABLES test, pc,   \* the test, and each hart's next position in it
          loads       \* the values its loads have returned

lVars == <<vars, test, pc, loads>>

LInit == /\ Init /\ mem = [a \in Addr |-> 0]
         /\ test \in Test
         /\ pc = [h \in Hart |-> 1]
         /\ loads = [e \in {} |-> 0]

(* The core meets its next instruction when the last one has retired.      *)
LIssue(h) == /\ pc[h] <= Len(Program[test][h])
             /\ Issue(h) /\ access'[h] = Program[test][h][pc[h]]
             /\ pc' = [pc EXCEPT ![h] = @ + 1]
             /\ UNCHANGED <<test, loads>>

LEdge(h) == /\ Edge(h)
            /\ loads' = IF Active(h, "load") /\ Ready(h)
                        THEN [e \in DOMAIN loads \cup {<<h, pc[h] - 1>>} |->
                                IF e = <<h, pc[h] - 1>> THEN prdata'[h] ELSE loads[e]]
                        ELSE loads
            /\ UNCHANGED <<test, pc>>

LPerform(h) == Perform(h) /\ UNCHANGED <<test, pc, loads>>

LNext == \E h \in Hart : LIssue(h) \/ LEdge(h) \/ LPerform(h)

(* The cores run their programs, the clock runs, the transport answers.    *)
LSpec == /\ LInit /\ [][LNext]_lVars
         /\ \A h \in Hart : WF_lVars(LIssue(h)) /\ WF_lVars(LEdge(h)) /\ WF_lVars(LPerform(h))

Finished == \A h \in Hart : /\ pc[h] > Len(Program[test][h]) /\ access[h] = None
                            /\ FenceDone(h)

(* Every outcome of the hardware, the values of all its loads and the      *)
(* memory it leaves, is one RVWMO allows: "exact allowed-set membership"   *)
(* of docs/coherent_memory_system.md:14, for every schedule.               *)
OutcomeAllowed ==
  Finished => [loads |-> loads, final |-> mem] \in Allowed[test]

(* Every test ends with its stores drained: loads, drains and fences of    *)
(* the two harts never wait on each other for ever.                        *)
EveryTestFinishes == <>Finished
=============================================================================
