--------------------------- MODULE OperationalModel --------------------------
(***************************************************************************)
(* scripts/run_coherent_model.py: the operational model that explores      *)
(* two-hart programs in software, two FIFO store buffers over two caches   *)
(* that change state atomically, with the mutations it plants in itself    *)
(* and the verdicts its modes give.  The random choice among the enabled   *)
(* steps, and backpressure, which only narrows it, are the choice of the   *)
(* next action.  Of the event log only the facts a verdict reads are kept. *)
(***************************************************************************)
EXTENDS Litmus

CONSTANT Value   \* the data that a generated program may store
ASSUME ValueAssumption == Value \subseteq 1 .. 255

Hart == {1, 2}
Other(h) == 3 - h
Absent == 256   \* above every datum: the address has no entry in cache_data

(* Each hart stores to its word and loads the other's, with a FENCE or     *)
(* without.                                                                *)
StoreLoad(a, v, fence, b) == <<W(a, v)>> \o (IF fence THEN <<F>> ELSE <<>>) \o <<R(b)>>
generated_program == {<<StoreLoad(a, u, f, b), StoreLoad(b, v, g, a)>> :
                        a, b \in Location, u, v \in Value, f, g \in BOOLEAN}

(* store_buffer_disabled: a FENCE after every store.                       *)
Unbuffered(p) == [h \in Hart |-> <<Head(p[h]), F>> \o Tail(p[h])]

Probe == << <<W("x", 9), F>>, <<R("x")>> >>

MutationRun == [early_fence_completion |-> Program["MP_FENCE"], broken_forwarding |-> Program["WR"],
                dropped_buffered_store |-> Program["MP_FENCE"], skipped_invalidation |-> Probe,
                stale_intervention_data |-> Probe, illegal_dual_modified |-> Probe]

NoMutation == ""
Run(m, p, mut, b) == [mode |-> m, program |-> p, mutation |-> mut, backpressure |-> b]

LitmusRuns == {Run("litmus", Program[t], NoMutation, FALSE) : t \in Test}
RandomRuns == {Run("random", p, NoMutation, b) : p \in generated_program, b \in BOOLEAN}
PerformanceRuns == {Run("performance", Unbuffered(p), NoMutation, b) :
                      p \in generated_program, b \in BOOLEAN}
MutationRuns == {Run("mutations", MutationRun[m], m, FALSE) : m \in DOMAIN MutationRun}
Runs == LitmusRuns \cup RandomRuns \cup PerformanceRuns \cup MutationRuns

VARIABLES run, pc, buffers, registers, memory, cache_state, cache_data,
          seen,   \* what the log says that a verdict of run_mutations asks for
          ended   \* "no"; "done"; "limit", the 500 cycles are over; "raised"

shared == <<memory, cache_state, cache_data>>
vars == <<run, pc, buffers, registers, shared, seen, ended>>

(* An address that is absent from cache_state counts as invalid.           *)
Init == /\ run \in Runs
        /\ pc = [h \in Hart |-> 1]
        /\ buffers = [h \in Hart |-> <<>>]
        /\ registers = [e \in {} |-> 0]
        /\ memory = [a \in Location |-> 0]
        /\ cache_state = [h \in Hart |-> [a \in Location |-> "I"]]
        /\ cache_data = [h \in Hart |-> [a \in Location |-> Absent]]
        /\ seen = {}
        /\ ended = "no"

Mutated(m) == run.mutation = m
Unmutated == Mutated(NoMutation)
Running(h) == pc[h] <= Len(run.program[h])
Current(h) == run.program[h][pc[h]]
Execute(h, kind) == /\ ended = "no" /\ Running(h) /\ Current(h).op = kind
                    /\ pc' = [pc EXCEPT ![h] = @ + 1]
                    /\ UNCHANGED run

Store(h) == /\ Execute(h, "store") /\ Len(buffers[h]) < 2
            /\ buffers' = [buffers EXCEPT ![h] = Append(@, Current(h))]
            /\ UNCHANGED <<registers, shared, seen, ended>>

(* Defect: a FENCE never waits.                                            *)
FenceEarly(h) ==
  /\ Execute(h, "fence")
  /\ seen' = IF buffers[h] = <<>> THEN seen ELSE seen \cup {"fence over a store"}
  /\ UNCHANGED <<buffers, registers, shared, ended>>

Fence(h) ==
  /\ Execute(h, "fence")
  /\ buffers[h] = <<>> \/ Mutated("early_fence_completion")
  /\ seen' = IF buffers[h] = <<>> THEN seen ELSE seen \cup {"fence over a store"}
  /\ UNCHANGED <<buffers, registers, shared, ended>>

Matching(h, a) == {n \in DOMAIN buffers[h] : buffers[h][n].addr = a}
Forward(h, a) ==
  buffers[h][CHOOSE m \in Matching(h, a) : \A n \in Matching(h, a) : n <= m].data
Forwarded(h) == Matching(h, Current(h).addr) # {} /\ ~Mutated("broken_forwarding")

Flip(v) == IF v % 2 = 0 THEN v + 1 ELSE v - 1
Intervenes(h, a) == cache_state[h][a] = "I" /\ cache_state[Other(h)][a] = "M"

(* A read miss takes the other cache's modified copy, or memory.           *)
ReadValue(h, a) == IF cache_state[h][a] # "I" THEN cache_data[h][a]
                   ELSE IF ~Intervenes(h, a) THEN memory[a]
                   ELSE IF Mutated("stale_intervention_data") THEN Flip(cache_data[Other(h)][a])
                   ELSE cache_data[Other(h)][a]

(* Defect: a modified copy is supplied but not committed.                  *)
CoherentReadUncommitted(h, a) ==
  LET miss == cache_state[h][a] = "I"
  IN  /\ cache_state' = IF ~miss THEN cache_state
                        ELSE [cache_state EXCEPT ![h][a] = "S",
                                ![Other(h)][a] = IF @ = "M" THEN "S" ELSE @]
      /\ cache_data' = [cache_data EXCEPT ![h][a] = ReadValue(h, a)]
      /\ UNCHANGED memory

CoherentRead(h, a) ==
  LET miss == cache_state[h][a] = "I"
  IN  /\ cache_state' = IF ~miss THEN cache_state
                        ELSE [cache_state EXCEPT ![h][a] = "S",
                                ![Other(h)][a] = IF @ = "M" THEN "S" ELSE @]
      /\ cache_data' = [cache_data EXCEPT ![h][a] = ReadValue(h, a)]
      /\ memory' = IF Intervenes(h, a) THEN [memory EXCEPT ![a] = cache_data[Other(h)][a]]
                   ELSE memory

Load(h) ==
  /\ Execute(h, "load")
  /\ LET a == Current(h).addr
         value == IF Forwarded(h) THEN Forward(h, a) ELSE ReadValue(h, a)
     IN  /\ Forwarded(h) \/ value # Absent
         /\ registers' = [e \in DOMAIN registers \cup {<<h, pc[h]>>} |->
                            IF e = <<h, pc[h]>> THEN value ELSE registers[e]]
         /\ IF Forwarded(h) THEN UNCHANGED <<shared, seen>>
            ELSE /\ CoherentRead(h, a)
                 /\ seen' = seen \cup {"load not forwarded"}
                                 \cup (IF value # 9 THEN {"read other than 9"} ELSE {})
  /\ UNCHANGED <<buffers, ended>>

(* illegal_dual_modified marks a line modified that has no data: a read    *)
(* of it before the cache holds the address raises KeyError.               *)
LoadRaises(h) ==
  /\ Execute(h, "load") /\ ~Forwarded(h) /\ ReadValue(h, Current(h).addr) = Absent
  /\ ended' = "raised"
  /\ UNCHANGED <<buffers, registers, shared, seen>>

CoherentWrite(h, a, v) ==
  LET other == cache_state[Other(h)][a]
  IN  /\ memory' = IF other = "M" THEN [memory EXCEPT ![a] = cache_data[Other(h)][a]] ELSE memory
      /\ cache_state' = [cache_state EXCEPT ![h][a] = "M",
           ![Other(h)][a] = IF Mutated("illegal_dual_modified") THEN "M"
                            ELSE IF Mutated("skipped_invalidation") THEN other ELSE "I"]
      /\ cache_data' = [cache_data EXCEPT ![h][a] = v]

Drain(h) ==
  /\ ended = "no" /\ buffers[h] # <<>>
  /\ buffers' = [buffers EXCEPT ![h] = Tail(@)]
  /\ IF Mutated("dropped_buffered_store") THEN UNCHANGED shared
     ELSE CoherentWrite(h, Head(buffers[h]).addr, Head(buffers[h]).data)
  /\ UNCHANGED <<run, pc, registers, seen, ended>>

Finished == \A h \in Hart : ~Running(h) /\ buffers[h] = <<>>

(* The loop ends when both harts have nothing left to do, or after 500     *)
(* cycles, which only backpressure can use up.                             *)
End == /\ ended = "no"
       /\ \/ Finished /\ ended' = "done"
          \/ run.backpressure /\ ended' = "limit"
       /\ UNCHANGED <<run, pc, buffers, registers, shared, seen>>

Next == \/ \E h \in Hart : Store(h) \/ Fence(h) \/ Load(h) \/ LoadRaises(h) \/ Drain(h)
        \/ End

Spec == Init /\ [][Next]_vars

-----------------------------------------------------------------------------
(* The verdicts.                                                           *)

(* The last load of each hart; 0 for a hart without one.                   *)
outcome ==
  [h \in Hart |-> LET loads == {n \in 1..4 : <<h, n>> \in DOMAIN registers}
                  IN  IF loads = {} THEN 0
                      ELSE registers[<<h, CHOOSE n \in loads : \A m \in loads : m <= n>>]]

(* Defect: a pair that the FENCEs of MP allow.                             *)
forbiddenPlain == IF run.program = Program["SB_FENCE"] THEN {<<0, 0>>}
                  ELSE IF run.program = Program["MP_FENCE"] THEN {<<0, 1>>}
                  ELSE {}

forbidden == IF run.program = Program["SB_FENCE"] THEN {<<0, 0>>}
             ELSE IF run.program = Program["MP_FENCE"] THEN {<<1, 0>>}
             ELSE {}

(* Defect: "or" for "and".                                                 *)
invariant_failureAny ==
  \E a \in Location : \E h \in Hart : cache_state[h][a] = "M"

invariant_failure == \E a \in Location : \A h \in Hart : cache_state[h][a] = "M"

(* Three mutations count as detected whatever happens; two of them are     *)
(* not simulated at all.                                                   *)
detected(mutation) ==
  \/ mutation \in {"response_hart_corruption", "axi_home_id_corruption", "skipped_invalidation"}
  \/ mutation = "early_fence_completion" /\ "fence over a store" \in seen
  \/ mutation = "broken_forwarding" /\ "load not forwarded" \in seen
  \/ mutation = "dropped_buffered_store" /\ (memory["x"] = 0 \/ memory["y"] = 0)
  \/ mutation \in {"stale_intervention_data", "illegal_dual_modified"} /\ invariant_failure
  \/ mutation = "stale_intervention_data" /\ "read other than 9" \in seen

run_litmus == outcome \notin forbidden /\ ~invariant_failure
run_random == ~invariant_failure
run_mutations == detected(run.mutation)

-----------------------------------------------------------------------------
(* What memory and the caches together hold.                               *)
Final == [a \in Location |->
            IF \E h \in Hart : cache_state[h][a] = "M"
            THEN cache_data[CHOOSE h \in Hart : cache_state[h][a] = "M"][a]
            ELSE memory[a]]

AllowedOutcomes == [p \in {r.program : r \in Runs} |-> AllowedFor(p)]

(* Without a mutation the explored schedules of every litmus test and      *)
(* every generated program, buffered or not, end in outcomes that RVWMO    *)
(* allows, with all loads and the final memory and not only the reported   *)
(* pair.                                                                   *)
OutcomeAllowed ==
  Unmutated /\ ended = "done"
    => [loads |-> registers, final |-> Final] \in AllowedOutcomes[run.program]

(* Stronger than invariant_failure (lines 200-204), which only looks for   *)
(* two modified copies: a modified copy is the only one, and shared copies *)
(* equal memory.                                                           *)
CachesCoherent ==
  Unmutated => \A h \in Hart, a \in Location :
                   /\ cache_state[h][a] = "M" => cache_state[Other(h)][a] = "I"
                   /\ cache_state[h][a] = "S" => cache_data[h][a] = memory[a]

(* An unmutated simulation never fails: it raises nothing, and neither the *)
(* forbidden pairs of LITMUS (lines 50, 52), an opinion of its own about   *)
(* RVWMO, nor the invariant reports it, cut off by backpressure or not.    *)
NoFalseAlarm ==
  ended # "no" /\ Unmutated =>
    /\ ended # "raised"
    /\ run.mode = "litmus" => run_litmus
    /\ run.mode = "random" => run_random

(* Two of the detectors of run_mutations tell a mutant from the program:   *)
(* illegal_dual_modified is reported on every schedule that ends, and      *)
(* neither it nor early_fence_completion is ever reported of an unmutated  *)
(* run of any program.  The other six report unmutated runs as well.       *)
DetectorsDiscriminate ==
  /\ Unmutated => ~detected("illegal_dual_modified") /\ ~detected("early_fence_completion")
  /\ Mutated("illegal_dual_modified") /\ ended = "done" => run_mutations
=============================================================================
