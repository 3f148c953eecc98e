----------------------------- MODULE EvidenceFlow -----------------------------
(***************************************************************************)
(* The flow of the verification evidence: a developer runs make goals and  *)
(* changes the code in between; a goal runs the scripts of its recipe one  *)
(* after the other and stops at the first that exits with an error.  The   *)
(* reports are committed; build/ is not.                                   *)
(***************************************************************************)
EXTENDS CoherentReports, CacheLane, Summaries

CONSTANTS Goal,     \* the goals the developer runs
          MaxCalls  \* how often

ASSUME GoalAssumption == MaxCalls \in Nat

(* ---- The recipes, with the prerequisites make runs first ----           *)
Closing == <<"metrics", "readme", "docs">>

(* Defect: the table is written before the coverage is summarised.         *)
CoherentClosingReadmeFirst ==
  <<"metrics", "readme", "coherent_coverage", "dashboard", "docs">>
CoherentClosing == <<"coherent_coverage", "dashboard">> \o Closing

CoherentRelease ==
  <<"coherent_lint", "smoke", "gcc", "herd", "rtl_litmus", "model_litmus", "model_random",
    "directed", "error_reset", "qos", "closure_summary", "advanced_coverage",
    "assertion_activation", "coverage_edges", "formal", "model_mutations", "rtl_mutations",
    "code_coverage", "coverage_review", "model_performance", "rtl_performance">>
    \o CoherentClosing

ProjectChecks ==
  <<"lint", "model_test", "regress", "replay_regress", "functional_coverage", "performance",
    "stress_manifest", "coherence", "msi_random", "msi_mutations", "bist", "array_bist">>

(* Defect: the geometries are compared before they are synthesised.        *)
ImplementationChecksSynthesisLast ==
  <<"associativity", "characterize", "synthesis", "integration_synthesis", "nonblocking">>
ImplementationChecks ==
  <<"associativity", "synthesis", "characterize", "integration_synthesis", "nonblocking">>

Release ==
  ProjectChecks \o <<"metrics", "readme", "stress", "replay_stress", "cross_scenarios",
    "cross_coverage", "bug_validation", "debug_waveform", "ras", "regress_coverage",
    "merge_coverage", "review_holes", "edges", "merge_coverage", "review_holes">>
    \o ImplementationChecks \o <<"replay_all">> \o Closing

Recipe == [g \in Goal |->
  CASE g = "release-check"          -> Release
    [] g = "project-check"          -> ProjectChecks \o <<"metrics", "readme">>
    [] g = "coherent-release-check" -> CoherentRelease
    [] g = "smoke"                  -> <<"regress_smoke">>
    [] g = "coverage-edges"         -> <<"edges", "merge_coverage", "review_holes">>
    [] g = "coherent-dashboard"     -> <<"coherent_coverage", "dashboard">>
    [] g = "readme-metrics"         -> <<"metrics", "readme">>
    [] g = "formal-prove"           -> <<"all">>
    [] g = "formal-cover"           -> <<"cover">>
    [] g = "uvm-runtime-smoke"      -> <<"uvm_environment", "uvm_runtime">>
    [] OTHER                        -> <<"docs">>]

(* ---- The developer ----                                                 *)
Idle == result # "running" /\ calls < MaxCalls

Start(g) ==
  /\ Idle
  /\ goal' = g /\ todo' = Recipe[g] /\ result' = "running" /\ swallowed' = {}
  /\ calls' = calls + 1
  /\ UNCHANGED <<report, files, readme>>

Aged(ages) == {IF a = "now" THEN "old" ELSE a : a \in ages}

(* The code changes.  A case may go with it, or be renamed: what it left   *)
(* in build/ stays.                                                        *)
Edit(dropped) ==
  /\ Idle
  /\ goal' = "none" /\ todo' = <<>> /\ result' = "idle" /\ swallowed' = {}
  /\ report' = [r \in Report |-> [report[r] EXCEPT !.from = Aged(@)]]
  /\ readme' = [r \in Report |-> [readme[r] EXCEPT !.from = Aged(@)]]
  /\ files' = [d \in Directory |->
       Aged(files[d]) \cup IF d \in dropped /\ files[d] # {} THEN {"stale"} ELSE {}]
  /\ UNCHANGED calls

(* make clean                                                              *)
Clean == /\ Idle
         /\ goal' = "none" /\ todo' = <<>> /\ result' = "idle" /\ swallowed' = {}
         /\ files' = [d \in Directory |-> {}]
         /\ UNCHANGED <<report, readme, calls>>

(* A fresh checkout, with the evidence committed or deleted.               *)
Init ==
  /\ goal = "none" /\ todo = <<>> /\ result = "idle" /\ swallowed = {} /\ calls = 0
  /\ report \in {[r \in Report |-> Rows({"old"}, TRUE, TRUE)], [r \in Report |-> NoFile]}
  /\ readme = [r \in Report |-> Rows({"old"}, TRUE, TRUE)]
  /\ files = [d \in Directory |-> {}]

CacheScripts ==
  \/ \E line \in {"lint", "model_test", "coherent_lint"} : Tool(line)
  \/ \E mode \in {"regress", "regress_smoke", "regress_coverage"} : run_regression(mode)
  \/ run_model_trace("replay_regress", Listed("traces"))
  \/ run_model_trace("replay_stress", files["stress_traces"])
  \/ run_model_trace("replay_all", Ages(CacheTrace))
  \/ gen_coverage_report \/ run_performance_sweep \/ gen_stress_manifest \/ run_stress
  \/ run_feature("coherence") \/ run_feature("bist")
  \/ run_msi_random \/ run_msi_mutations \/ run_cache_array_bist
  \/ run_cross_scenarios \/ gen_cross_coverage \/ run_bug_validation \/ gen_debug_waveform
  \/ run_ras \/ run_coverage_edges \/ gen_code_coverage \/ gen_coverage_hole_review
  \/ check_variants \/ characterize \/ run_nonblocking_cache
  \/ run_synthesis("synthesis", "synthesis")
  \/ run_synthesis("integration_synthesis", "integration_synthesis")
  \/ \E only \in {"all", "cover"} : run_formal(only)
  \/ check_uvm_env \/ run_uvm

CoherentScripts ==
  \/ run_coherent_rv32("smoke", "rv32_smoke") \/ run_coherent_rv32("gcc", "gcc")
  \/ run_coherent_herd \/ run_coherent_rtl_litmus
  \/ run_coherent_model("model_litmus", "model_litmus")
  \/ run_coherent_model("model_random", "random")
  \/ run_coherent_model("model_mutations", "model_mutation")
  \/ run_coherent_model("model_performance", "model_performance")
  \/ run_coherent_closure \/ run_coherent_error_reset \/ run_coherent_transport_edges
  \/ run_coherent_coverage_edges \/ run_coherent_performance_rtl \/ run_coherent_formal
  \/ run_coherent_rtl_mutations \/ run_coherent_code_coverage
  \/ check_coherent_coverage_review \/ gen_coherent_closure_summary
  \/ gen_coherent_advanced_coverage \/ gen_coherent_assertion_activation
  \/ gen_coherent_coverage \/ gen_coherent_dashboard

ClosingScripts == gen_metrics \/ update_readme_metrics \/ check_docs

Next ==
  \/ \E g \in Goal : Start(g)
  \/ \E dropped \in {{}, CacheTrace \cup CoverageData \cup CoherentTrace} : Edit(dropped)
  \/ Clean
  \/ CacheScripts \/ CoherentScripts \/ ClosingScripts

Spec == Init /\ [][Next]_vars

-------------------------------------------------------------------------------
Gate == {"release-check", "coherent-release-check"}
Passed(gates) == result = "passed" /\ goal \in gates
AnswersFor == IF goal = "release-check" THEN CacheReport ELSE CoherentReport

(* The reports for which every trace or data file of a directory is        *)
(* searched: what a removed case left there still counts.                  *)
Searching == {"functional", "crosses", "model_trace", "cache_cross", "code_coverage",
              "hole_review"}

(* A release gate that passes has derived each report it answers for from  *)
(* runs of the present code, through however many other reports and trace  *)
(* files, and whatever failed or partial goal ran before; the reports that *)
(* search a directory may count removed cases besides (the make recipes).  *)
GateIsFresh ==
  Passed(Gate) => \A r \in AnswersFor :
    report[r].from \subseteq IF r \in Searching THEN {"now", "stale"} ELSE {"now"}

(* Each of these reports holds its whole suite, with no failing row, save  *)
(* the implementation proxies, skipped without yosys, and the holes worth  *)
(* testing: no later script of the gate has replaced a report by a part of *)
(* it (run_msi_mutations may run one seed, `smoke` one test).              *)
GateIsComplete ==
  Passed(Gate) => \A r \in AnswersFor \ {"synthesis", "integration_synthesis"} :
    report[r].full /\ (r # "hole_review" => report[r].good)

(* No failure any script of a passing gate has seen was dropped, but for   *)
(* the verdicts of the three probe runs of run_coherent_error_reset.       *)
NoFailureSwallowed ==
  Passed(Gate) => swallowed \subseteq {<<"error_reset", "probe_failed">>}

(* When a gate passes, the table of README quotes the reports as they are, *)
(* those of the other lane too: nothing is written after it is generated.  *)
ReadmeQuotesReports ==
  Passed(Gate) => \A r \in CacheRow \cup CoherentRow : readme[r] = report[r]
=============================================================================
