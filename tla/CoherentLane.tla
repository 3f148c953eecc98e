---------------------------- MODULE CoherentLane ----------------------------
(***************************************************************************)
(* The scripts of the coherent lane, one action for each: how a run is     *)
(* judged, which report and traces it leaves, which artefacts it reads and *)
(* how it exits.                                                           *)
(***************************************************************************)
EXTENDS Evidence

SimulationFailure == {"exit_code", "no_summary", "event_replay"}

(* ---- run_coherent_rv32 ----                                             *)
TraceFailure == {"order_gap", "fence_over_a_store", "empty_trace", "iss_mismatch"}
check_trace(seen) == seen \cap TraceFailure = {}

(* Defect: the retirement trace is not asked for.                          *)
run_caseNoTrace(seen) ==
  "exit_code" \notin seen /\ "no_summary" \notin seen /\ "event_replay" \notin seen

run_case(seen) == /\ "exit_code" \notin seen
                  /\ "no_summary" \notin seen
                  /\ check_trace(seen)
                  /\ "event_replay" \notin seen

(* A build that fails, a timeout, or sources that differ from the pinned   *)
(* ones: nothing is reported, and some traces may be written.              *)
RunAborts(d) == /\ files' \in {files, [files EXCEPT ![d] = @ \cup {"now"}]}
                /\ Abort

run_coherent_rv32(mode, r) ==
  /\ At(mode)
  /\ \/ RunAborts("event_traces")
     \/ \E seen \in Observations(SimulationFailure \cup TraceFailure) :
          /\ Write(r, Rows({"now"}, TRUE, run_case(seen)))
          /\ Refill("event_traces") /\ Quiet
          /\ Judge(mode, seen, run_case(seen))

(* ---- run_coherent_herd ----                                             *)
HerdFailure == {"not_installed", "no_observation"}

run_coherent_herd ==
  /\ At("herd")
  /\ UNCHANGED files /\ Quiet
  /\ \E seen \in Observations(HerdFailure) :
       /\ Write("herd", Rows({"now"}, TRUE, seen = {}))
       /\ Judge("herd", seen, seen = {})

(* ---- run_coherent_rtl_litmus ----                                       *)
LitmusFailure == SimulationFailure \cup {"forbidden_outcome", "not_done"}

permitted(seen) == "forbidden_outcome" \notin seen

litmus_row(seen) ==
  "exit_code" \notin seen /\ "no_summary" \notin seen /\ permitted(seen)
    /\ "event_replay" \notin seen /\ "not_done" \notin seen

(* herd runs first, and writes its report again; the outcomes it allows    *)
(* are read from there.                                                    *)
run_coherent_rtl_litmus ==
  /\ At("rtl_litmus")
  /\ \/ /\ \E pass \in BOOLEAN : Write("herd", Rows({"now"}, TRUE, pass))
        /\ files' \in {files, [files EXCEPT !["rtl_litmus_traces"] = @ \cup {"now"}]}
        /\ Exit(FALSE) /\ UNCHANGED <<readme, swallowed>>
     \/ \E seen \in Observations(LitmusFailure) :
          /\ report' = [report EXCEPT !["herd"] = Rows({"now"}, TRUE, TRUE),
                                      !["rtl_litmus"] = Rows({"now"}, TRUE, litmus_row(seen))]
          /\ Refill("rtl_litmus_traces") /\ Quiet
          /\ Judge("rtl_litmus", seen, litmus_row(seen))

(* ---- run_coherent_model: the verdicts are those of OperationalModel ---- *)
run_coherent_model(mode, r) ==
  /\ At(mode)
  /\ UNCHANGED files /\ Quiet
  /\ \E seen \in IF mode = "model_performance" THEN {{}}
                 ELSE Observations({"model_verdict"}) :
       /\ Write(r, Rows({"now"}, TRUE, seen = {}))
       /\ Judge(mode, seen, seen = {})

(* ---- run_coherent_closure ----                                          *)
closure_row(seen) ==
  "exit_code" \notin seen /\ "scoreboard" \notin seen /\ "event_replay" \notin seen

(* The build directory, the traces with it, is removed first.              *)
run_coherent_closure ==
  /\ At("directed")
  /\ \/ \E ages \in {{}, {"now"}} : Replace("closure_traces", ages) /\ Abort
     \/ \E seen \in Observations({"exit_code", "scoreboard", "event_replay"}) :
          /\ Write("directed", Rows({"now"}, TRUE, closure_row(seen)))
          /\ Replace("closure_traces", {"now"}) /\ Quiet
          /\ Judge("directed", seen, closure_row(seen))

(* ---- run_coherent_error_reset ----                                      *)
execute(seen) == seen \cap {"exit_code", "not_done", "event_replay"} = {}

reset_row(seen) ==
  /\ execute(seen)
  /\ "wrong_result" \notin seen /\ "fault_pending" \notin seen /\ "wrong_epoch" \notin seen

(* The phases of the resets are looked up in the traces of three probes,   *)
(* whose own verdicts are dropped; a phase that is not found raises.       *)
run_coherent_error_reset ==
  /\ At("error_reset")
  /\ \/ RunAborts("edge_traces")
     \/ \E seen \in Observations({"exit_code", "not_done", "event_replay", "wrong_result",
                                  "fault_pending", "wrong_epoch"}),
           probe \in Observations({"probe_failed"}) :
          /\ Write("error_reset", Rows({"now"}, TRUE, reset_row(seen)))
          /\ Refill("edge_traces") /\ Quiet
          /\ Judge("error_reset", seen \cup probe, reset_row(seen))

(* ---- run_coherent_transport_edges ----                                  *)
transport_row(seen) == "exit_code" \notin seen /\ "scoreboard" \notin seen

run_coherent_transport_edges ==
  /\ At("qos")
  /\ \/ \E ages \in {{}, {"now"}} : Replace("transport_traces", ages) /\ Abort
     \/ \E seen \in Observations({"exit_code", "scoreboard"}) :
          /\ Write("qos", Rows({"now"}, TRUE, transport_row(seen)))
          /\ Replace("transport_traces", {"now"}) /\ Quiet
          /\ Judge("qos", seen, transport_row(seen))

(* ---- run_coherent_coverage_edges ----                                   *)
edge_row(seen) == /\ "exit_code" \notin seen /\ "no_summary" \notin seen
                  /\ "event_replay" \notin seen /\ "required_event_missing" \notin seen

run_coherent_coverage_edges ==
  /\ At("coverage_edges")
  /\ \/ RunAborts("coverage_edge_traces")
     \/ \E seen \in Observations(SimulationFailure \cup {"required_event_missing"}) :
          /\ Write("coverage_edges", Rows({"now"}, TRUE, edge_row(seen)))
          /\ Refill("coverage_edge_traces") /\ Quiet
          /\ Judge("coverage_edges", seen, edge_row(seen))

(* ---- run_coherent_performance_rtl: its traces are never read again ----  *)
performance_row(seen) ==
  "exit_code" \notin seen /\ "no_summary" \notin seen /\ "event_replay" \notin seen

run_coherent_performance_rtl ==
  /\ At("rtl_performance")
  /\ UNCHANGED files
  /\ \/ Abort
     \/ \E seen \in Observations(SimulationFailure) :
          /\ Write("performance", Rows({"now"}, TRUE, performance_row(seen))) /\ Quiet
          /\ Judge("rtl_performance", seen, performance_row(seen))

(* ---- run_coherent_formal ----                                           *)
formal_row(seen) == "prove" \notin seen /\ "cover" \notin seen

(* No sby, or a task that takes longer than 120 s, raises.                 *)
run_coherent_formal ==
  /\ At("formal")
  /\ UNCHANGED files
  /\ \/ Abort
     \/ \E seen \in Observations({"prove", "cover"}) :
          /\ Write("formal", Rows({"now"}, TRUE, formal_row(seen))) /\ Quiet
          /\ Judge("formal", seen, formal_row(seen))

(* ---- run_coherent_rtl_mutations ----                                    *)
Symptom == [firmware |-> {"timeout", "exit_code", "no_summary", "wrong_result"},
            integration |-> {"timeout", "exit_code", "scoreboard"},
            reset |-> {"timeout", "exit_code"}]

(* A planted defect that shows no symptom has survived.                    *)
detected(kind, seen) == seen \cap Symptom[kind] # {}

run_coherent_rtl_mutations ==
  /\ At("rtl_mutations")
  /\ UNCHANGED files
  /\ \/ Abort
     \/ \E kind \in DOMAIN Symptom : \E seen \in Observations(Symptom[kind]) :
          LET survived == IF seen = {} THEN {"survived"} ELSE {}
          IN  /\ Write("rtl_mutation", Rows({"now"}, TRUE, detected(kind, seen))) /\ Quiet
              /\ Judge("rtl_mutations", survived, detected(kind, seen))

(* ---- run_coherent_code_coverage ----                                    *)
(* A run that fails, or leaves no coverage data, raises: what is counted   *)
(* comes from runs that passed.                                            *)
status(low) == "line" \notin low /\ low \cap {"branch", "expression"} = {}

run_coherent_code_coverage ==
  /\ At("code_coverage")
  /\ UNCHANGED files
  /\ \/ Abort
     \/ \E low \in Observations({"line", "branch", "expression"}), unreviewed \in BOOLEAN :
          /\ report' = [report EXCEPT
               !["coherent_code_coverage"] =
                   Rows({"now"}, TRUE, low \cap {"line", "branch"} = {}),
               !["coherent_holes"] = Rows({"now"}, TRUE, ~unreviewed)]
          /\ Quiet /\ Judge("code_coverage", low, status(low))

(* ---- check_coherent_coverage_review ----                                *)
unresolved == IF report["coherent_holes"].good THEN {} ELSE {"hole"}

check_coherent_coverage_review ==
  /\ At("coverage_review")
  /\ UNCHANGED files
  /\ IF Exists("coherent_holes")
     THEN /\ UNCHANGED report /\ Quiet
          /\ Judge("coverage_review", unresolved, unresolved = {})
     ELSE Abort
=============================================================================
