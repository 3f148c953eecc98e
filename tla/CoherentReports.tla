--------------------------- MODULE CoherentReports ---------------------------
(***************************************************************************)
(* The scripts of the coherent lane that run nothing: they derive reports  *)
(* from the reports and the traces that the others left.                   *)
(***************************************************************************)
EXTENDS CoherentLane

(* A file a report names is there, whichever age it has.                   *)
Named(d) == files[d] \cap {"now", "old"}

(* Derive reports from inputs, or raise when one is missing.               *)
Derives(line, inputs, directories, outputs, failures, pass) ==
  IF (\A r \in inputs : Exists(r)) /\ (\A d \in directories : Named(d) # {})
  THEN /\ report' = [r \in Report |-> IF r \in DOMAIN outputs THEN outputs[r] ELSE report[r]]
       /\ Quiet /\ Judge(line, failures, pass)
  ELSE Abort

(* ---- gen_coherent_closure_summary: of the six QoS tests, four count ---- *)
ClosureInputs == {"directed", "error_reset", "qos"}

combined(core) ==
  report["directed"].good /\ report["error_reset"].good /\ (report["qos"].good \/ core)

gen_coherent_closure_summary ==
  /\ At("closure_summary")
  /\ UNCHANGED files
  /\ \E core \in BOOLEAN :
       Derives("closure_summary", ClosureInputs, {},
               [closure |-> Rows(Sources(ClosureInputs), TRUE, combined(core))],
               IF combined(core) THEN {} ELSE {"failed_row"}, combined(core))

(* ---- gen_coherent_advanced_coverage ----                                *)
(* A bin is covered when the trace of its scenario, found through the      *)
(* report, holds the event; the verdict of the row is not read.            *)
ClosureTraces == {"closure_traces", "edge_traces", "transport_traces"}
NamedAges(ds) == UNION {Named(d) : d \in ds}

gen_coherent_advanced_coverage ==
  /\ At("advanced_coverage")
  /\ UNCHANGED files
  /\ \E seen \in Observations({"bin_missing"}) :
       Derives("advanced_coverage", ClosureInputs, ClosureTraces,
               [advanced |-> Rows(Sources(ClosureInputs) \cup NamedAges(ClosureTraces),
                                  TRUE, seen = {})],
               seen, seen = {})

(* ---- gen_coherent_assertion_activation ----                             *)
ActivationInputs == {"error_reset", "qos"}

gen_coherent_assertion_activation ==
  /\ At("assertion_activation")
  /\ UNCHANGED files
  /\ \E seen \in Observations({"not_activated"}) :
       Derives("assertion_activation", ActivationInputs, {"edge_traces", "transport_traces"},
               [activation |-> Rows(Sources(ActivationInputs) \cup Ages({"closure_traces"})
                                      \cup NamedAges({"edge_traces", "transport_traces"}),
                                    TRUE, seen = {})],
               seen, seen = {})

(* ---- gen_coherent_coverage ----                                         *)
(* Every trace found in these directories is searched, whatever run left   *)
(* it there.  The replayed performance traces have another suffix and are  *)
(* never found.                                                            *)
event_index == Ages({"rtl_litmus_traces", "event_traces", "edge_traces", "coverage_edge_traces"})
CoverageInputs == {"rtl_litmus", "error_reset", "performance"}

gen_coherent_coverage ==
  /\ At("coherent_coverage")
  /\ UNCHANGED files
  /\ \E seen \in Observations({"point_missing", "cross_missing"}) :
       LET ages == Sources(CoverageInputs) \cup event_index
       IN  Derives("coherent_coverage", CoverageInputs, {},
                   [functional |-> Rows(ages, TRUE, "point_missing" \notin seen),
                    crosses |-> Rows(ages, TRUE, "cross_missing" \notin seen)],
                   seen, seen = {})

(* ---- gen_coherent_dashboard ----                                        *)
(* It raises without the oracle, a litmus trace or any row; without        *)
(* performance rows it raises too, the reference report already written.   *)
(* Otherwise it exits with 0 whatever the rows say.                        *)
RefInputs == {"rtl_litmus", "directed", "model_litmus", "gcc", "random"}
refs == {r \in RefInputs : Exists(r)}

gen_coherent_dashboard ==
  /\ At("dashboard")
  /\ UNCHANGED files
  /\ IF /\ Exists("herd") /\ refs # {}
        /\ Exists("rtl_litmus") => Named("rtl_litmus_traces") # {}
     THEN LET good == \A r \in refs : report[r].good
          IN  /\ Write("reference", Rows(Sources(refs), TRUE, good)) /\ Quiet
              /\ Judge("dashboard", IF good THEN {} ELSE {"failed_row"}, Exists("performance"))
     ELSE Abort
=============================================================================
