-------------------------------- MODULE Litmus -------------------------------
(***************************************************************************)
(* The sixteen two-hart litmus tests (LITMUS in                            *)
(* scripts/run_coherent_model.py, and the same programs in                 *)
(* firmware/coherent_litmus.c), and the outcomes RVWMO allows for them,    *)
(* which the flow takes from herd7.  No test has a syntactic dependency,   *)
(* so of the preserved-program-order rules only same-address order (1, 2)  *)
(* and FENCE rw,rw (4) apply.                                              *)
(***************************************************************************)
EXTENDS Naturals, Sequences, SequencesExt

CONSTANT Location   \* the words programs use; the tests use two
ASSUME LocationAssumption == {"x", "y"} \subseteq Location

W(a, v) == [op |-> "store", addr |-> a, data |-> v]
R(a)    == [op |-> "load", addr |-> a]
F       == [op |-> "fence"]

(* A test without its FENCEs, and with them in each listed hart.           *)
Program ==
  [SB        |-> << <<W("x", 1), R("y")>>,          <<W("y", 1), R("x")>> >>,
   SB_FENCE  |-> << <<W("x", 1), F, R("y")>>,       <<W("y", 1), F, R("x")>> >>,
   MP        |-> << <<W("x", 1), W("y", 1)>>,       <<R("y"), R("x")>> >>,
   MP_FENCE  |-> << <<W("x", 1), F, W("y", 1)>>,    <<R("y"), F, R("x")>> >>,
   LB        |-> << <<R("x"), W("y", 1)>>,          <<R("y"), W("x", 1)>> >>,
   LB_FENCE  |-> << <<R("x"), F, W("y", 1)>>,       <<R("y"), F, W("x", 1)>> >>,
   RW        |-> << <<R("x"), W("y", 1)>>,          <<W("x", 1), R("y")>> >>,
   RW_FENCE  |-> << <<R("x"), F, W("y", 1)>>,       <<W("x", 1), F, R("y")>> >>,
   WR        |-> << <<W("x", 1), R("x")>>,          <<W("y", 1), R("y")>> >>,
   WR_FENCE  |-> << <<W("x", 1), F, R("x")>>,       <<W("y", 1), F, R("y")>> >>,
   CO_RR     |-> << <<W("x", 1), F, W("x", 2)>>,    <<R("x"), R("x")>> >>,
   CO_RR_FENCE |-> << <<W("x", 1), F, W("x", 2)>>,  <<R("x"), F, R("x")>> >>,
   CO_WW     |-> << <<W("x", 1), W("x", 3)>>,       <<W("x", 2), R("x")>> >>,
   CO_WW_FENCE |-> << <<W("x", 1), F, W("x", 3)>>,  <<W("x", 2), F, R("x")>> >>,
   WRC       |-> << <<W("x", 1), R("y")>>,          <<R("x"), W("y", 1)>> >>,
   WRC_FENCE |-> << <<W("x", 1), F, R("y")>>,       <<R("x"), F, W("y", 1)>> >>]

Test == DOMAIN Program

-----------------------------------------------------------------------------
(* A program p is a pair of instruction sequences, an event                *)
(* <<hart, position>>, a global memory order g a sequence of all the loads *)
(* and stores of a program.                                                *)
Op(p, e)   == p[e[1]][e[2]]
Kind(p, k) == {e \in {1, 2} \X (1 .. 4) : e[2] <= Len(p[e[1]]) /\ Op(p, e).op = k}
Events(p)  == Kind(p, "load") \cup Kind(p, "store")

PoBefore(d, e) == d[1] = e[1] /\ d[2] < e[2]
GmoBefore(g, d, e) ==
  \E m, n \in DOMAIN g : m < n /\ g[m] = d /\ g[n] = e

(* Load value axiom: the latest store to the word among those before the   *)
(* load in memory order or in program order; {} stands for the initial 0.  *)
ReadsFrom(p, g, e) ==
  LET seen == {s \in Kind(p, "store") :
                 Op(p, s).addr = Op(p, e).addr /\ (GmoBefore(g, s, e) \/ PoBefore(s, e))}
  IN  {s \in seen : \A r \in seen : r = s \/ GmoBefore(g, r, s)}

Ppo(p, g, d, e) ==
  /\ PoBefore(d, e)
  /\ \/ \E f \in Kind(p, "fence") : PoBefore(d, f) /\ PoBefore(f, e)
     \/ /\ Op(p, d).addr = Op(p, e).addr
        /\ \/ Op(p, e).op = "store"
           \/ /\ Op(p, d).op = "load" /\ Op(p, e).op = "load"
              /\ ReadsFrom(p, g, d) # ReadsFrom(p, g, e)

Consistent(p, g) ==
  \A d, e \in Events(p) : Ppo(p, g, d, e) => GmoBefore(g, d, e)

ValueOf(p, stores) == IF stores = {} THEN 0 ELSE Op(p, CHOOSE s \in stores : TRUE).data

(* What every load of the program returns, and the memory it leaves.       *)
Outcome(p, g) ==
  [loads |-> [e \in Kind(p, "load") |-> ValueOf(p, ReadsFrom(p, g, e))],
   final |-> [a \in Location |->
     LET to == {s \in Kind(p, "store") : Op(p, s).addr = a}
     IN  ValueOf(p, {s \in to : \A r \in to : r = s \/ GmoBefore(g, r, s)})]]

AllowedFor(p) == {Outcome(p, g) : g \in {s \in SetToSeqs(Events(p)) : Consistent(p, s)}}

Allowed == [t \in Test |-> AllowedFor(Program[t])]
=============================================================================
