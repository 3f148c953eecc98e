------------------------------ MODULE CacheLane ------------------------------
(***************************************************************************)
(* The scripts of the L1 cache lane, one action for each, in the order of  *)
(* the release recipe.                                                     *)
(***************************************************************************)
EXTENDS Evidence

(* A suite that ran: its report is rewritten; a run that failed may have   *)
(* left its file of an earlier run in place.                               *)
Filed(ds, ok) ==
  files' = [d \in Directory |-> IF d \notin ds THEN files[d]
                                ELSE IF ok THEN Overwritten(d) ELSE files[d] \cup {"now"}]

Suite(line, rs, ds, ages, failures) ==
  \E seen \in Observations(failures) :
    /\ report' = [r \in Report |-> IF r \in rs THEN Rows(ages, TRUE, seen = {}) ELSE report[r]]
    /\ Filed(ds, seen = {}) /\ Quiet
    /\ Judge(line, seen, seen = {})

(* Lint, and the self-test of the C++ model: nothing is reported.          *)
Tool(line) == /\ At(line)
              /\ UNCHANGED <<report, files, readme, swallowed>>
              /\ \E ok \in BOOLEAN : Exit(ok)

(* ---- run_regression: every run rewrites the one summary, although       *)
(* "smoke" holds one test of it ----                                       *)
run_regression(mode) ==
  /\ At(mode)
  /\ \/ GivesUp
     \/ \E ok \in BOOLEAN :
          /\ Write("regress", Rows({"now"}, mode # "regress_smoke", ok))
          /\ files' = [files EXCEPT
               !["binary"] = {"now"},
               !["traces"] = IF ok /\ mode # "regress_smoke" THEN Overwritten("traces") ELSE @ \cup {"now"},
               !["coverage"] = IF mode # "regress_coverage" THEN @
                               ELSE IF ok THEN Overwritten("coverage") ELSE @ \cup {"now"}]
          /\ Quiet /\ Judge(mode, IF ok THEN {} ELSE {"failed_test"}, ok)

(* ---- run_model_trace: the traces it replays are found by their names -- *)
Listed(d) == files[d] \ {"stale"}

run_model_trace(line, ages) ==
  /\ At(line)
  /\ UNCHANGED files
  /\ \/ Abort
     \/ /\ ages # {}
        /\ \E seen \in Observations({"mismatch"}) :
             /\ Write("model_trace", Rows(ages, line = "replay_all", seen = {})) /\ Quiet
             /\ Judge(line, seen, seen = {})

(* ---- gen_coverage_report: a point needs the row of its test ----        *)
gen_coverage_report ==
  /\ At("functional_coverage")
  /\ UNCHANGED files
  /\ IF Exists("regress")
     THEN \E seen \in Observations({"point_missing"}) :
            /\ report["regress"].full \/ seen # {}
            /\ Write("functional_coverage", Rows(Sources({"regress"}), TRUE, seen = {}))
            /\ Quiet /\ Judge("functional_coverage", seen, seen = {})
     ELSE Abort

(* ---- run_performance_sweep: a run that fails raises ----                *)
run_performance_sweep ==
  /\ At("performance")
  /\ \/ Filed({"performance_points"}, FALSE) /\ Abort
     \/ /\ files["binary"] # {}
        /\ Write("cache_performance", Rows(files["binary"], TRUE, TRUE))
        /\ Filed({"performance_points"}, TRUE) /\ Quiet
        /\ Judge("performance", {}, TRUE)

(* ---- gen_stress_manifest: its scenarios are all legal for run_stress --- *)
gen_stress_manifest ==
  /\ At("stress_manifest")
  /\ UNCHANGED files
  /\ Write("stress_manifest", Rows({"now"}, TRUE, TRUE)) /\ Quiet
  /\ Judge("stress_manifest", {}, TRUE)

run_stress ==
  /\ At("stress")
  /\ IF Exists("stress_manifest") /\ files["binary"] # {}
     THEN Suite("stress", {"stress"}, {"stress_traces"},
                files["binary"] \cup Sources({"stress_manifest"}), {"exit_code", "no_result"})
     ELSE GivesUp

(* ---- run_integration_features ----                                      *)
run_feature(name) ==
  /\ At(name)
  /\ GivesUp \/ Suite(name, {name}, {}, {"now"}, {"exit_code", "check_missing", "check_failed"})

(* ---- run_msi_random ----                                                *)
MsiFailure == {"exit_code", "model", "not_covered"}

run_msi_random ==
  /\ At("msi_random")
  /\ \/ \E ages \in {{}, {"now"}} : Replace("msi_checker", ages) /\ Abort
     \/ \E seen \in Observations(MsiFailure) :
          /\ Write("msi_random", Rows({"now"}, TRUE, seen = {}))
          /\ Replace("msi_checker", {"now"}) /\ Quiet
          /\ Judge("msi_random", seen, seen = {})

(* ---- run_msi_mutations: without the checker it runs run_msi_random with *)
(* one seed, whose report replaces that of the 25, and raises if it fails; *)
(* that run may also end before it has a report, or the checker.           *)
(* Defect: the checker is always built again.                              *)
WithoutCheckerEver == TRUE
WithoutChecker == files["msi_checker"] = {}

run_msi_mutations ==
  /\ At("msi_mutations")
  /\ \/ WithoutChecker /\ \E ages \in {{}, {"now"}} : Replace("msi_checker", ages) /\ Abort
     \/ \E seen \in Observations({"missed"}), built \in IF WithoutChecker THEN BOOLEAN ELSE {TRUE} :
          /\ report' = [report EXCEPT
               !["msi_random"] = IF WithoutChecker THEN Rows({"now"}, FALSE, built) ELSE @,
               !["msi_mutation"] = IF built THEN Rows({"now"} \cup files["msi_checker"], TRUE, seen = {})
                                   ELSE @]
          /\ Replace("msi_checker", IF WithoutChecker THEN {"now"} ELSE files["msi_checker"])
          /\ Quiet /\ Judge("msi_mutations", seen, built /\ seen = {})

(* ---- run_cache_array_bist: a variant that does not build is a failure -- *)
run_cache_array_bist ==
  /\ At("array_bist")
  /\ Suite("array_bist", {"array_bist"}, {}, {"now"}, {"compile", "exit_code", "not_covered"})

(* ---- run_cross_scenarios: no report, the verdict is the exit code ----   *)
run_cross_scenarios ==
  /\ At("cross_scenarios")
  /\ IF files["binary"] # {} THEN Suite("cross_scenarios", {}, {"cross_trace"}, {}, {"exit_code"})
                              ELSE GivesUp

(* ---- gen_cross_coverage: every trace in the directory is searched ----   *)
gen_cross_coverage ==
  /\ At("cross_coverage")
  /\ Suite("cross_coverage", {"cache_cross"}, {}, Ages(CacheTrace), {"bin_missing"})

(* ---- run_bug_validation: a planted bug that does not build is missed --- *)
run_bug_validation ==
  /\ At("bug_validation")
  /\ Suite("bug_validation", {"bug_validation"}, {}, {"now"}, {"missed"})

(* ---- gen_debug_waveform: whatever is not as expected raises ----         *)
gen_debug_waveform ==
  /\ At("debug_waveform")
  /\ GivesUp \/ Suite("debug_waveform", {"debug_waveform"}, {}, {"now"}, {})

(* ---- run_ras ----                                                       *)
run_ras ==
  /\ At("ras")
  /\ GivesUp \/ Suite("ras", {"ras"}, {"coverage_secded"}, {"now"},
                      {"exit_code", "no_result", "not_covered"})

(* ---- run_coverage_edges ----                                            *)
run_coverage_edges ==
  /\ At("edges")
  /\ GivesUp \/ Suite("edges", {"cache_edges"}, {"coverage_edges", "coverage_direct_mapped"},
                      {"now"}, {"exit_code", "no_result"})

(* ---- gen_code_coverage ----                                             *)
(* Every data file found is merged, whatever run left it.  The rows README *)
(* quotes need both the baseline and the edge runs.                        *)
summarized == files["coverage"] # {} /\ files["coverage_edges"] # {}

gen_code_coverage ==
  /\ At("merge_coverage")
  /\ UNCHANGED files
  /\ \/ Abort
     \/ /\ Ages(CoverageData) # {}
        /\ Write("code_coverage", Rows(Ages(CoverageData), summarized, TRUE)) /\ Quiet
        /\ Judge("merge_coverage", {}, TRUE)

(* ---- gen_coverage_hole_review: holes worth testing are listed, and it   *)
(* exits with 0 whatever it lists ----                                     *)
gen_coverage_hole_review ==
  /\ At("review_holes")
  /\ UNCHANGED files
  /\ \E holes \in BOOLEAN :
       /\ Write("hole_review", IF Exists("code_coverage")
                               THEN Rows(Sources({"code_coverage"}), TRUE, ~holes)
                               ELSE report["hole_review"])
       /\ Quiet /\ Judge("review_holes", {}, TRUE)

(* ---- run_associativity ----                                             *)
check_variants ==
  /\ At("associativity")
  /\ GivesUp \/ Suite("associativity", {"associativity_check"}, {}, {"now"}, {"exit_code", "model"})

(* The cell counts are those of the synthesis report that is there; a      *)
(* workload that fails raises.                                             *)
characterize ==
  /\ At("characterize")
  /\ GivesUp \/ Suite("characterize", {"associativity"}, {},
                      {"now"} \cup Sources({"synthesis"}), {"no_advantage"})

(* ---- run_synthesis_characterization, run_integration_synthesis: without *)
(* yosys every row is a SKIP, and the script passes ----                   *)
run_synthesis(line, r) ==
  /\ At(line)
  /\ UNCHANGED files
  /\ \E skip \in BOOLEAN, seen \in Observations({"synthesis"}) :
       /\ Write(r, Rows({"now"}, ~skip, skip \/ seen = {})) /\ Quiet
       /\ Judge(line, IF skip THEN {} ELSE seen, skip \/ seen = {})

(* ---- run_nonblocking_cache: a row without its counters raises ----       *)
run_nonblocking_cache ==
  /\ At("nonblocking")
  /\ GivesUp \/ Suite("nonblocking", {"nonblocking"}, {}, {"now"},
                      {"exit_code", "no_result", "not_covered"})

(* ---- run_formal: no sby, no report; a part of the tasks rewrites the    *)
(* report of them all ----                                                 *)
run_formal(only) ==
  /\ At(only)
  /\ UNCHANGED files
  /\ \/ Abort
     \/ \E seen \in Observations({"unexpected"}) :
          /\ Write(IF only = "small" THEN "small_formal" ELSE "cache_formal",
                   Rows({"now"}, only \in {"all", "small"}, seen = {}))
          /\ Quiet /\ Judge(only, seen, seen = {})

(* ---- check_uvm_env, run_uvm: a test that takes too long is skipped ----  *)
check_uvm_env == Tool("uvm_environment")

run_uvm ==
  /\ At("uvm_runtime")
  /\ UNCHANGED files
  /\ \/ Abort
     \/ \E seen \in Observations({"timeout", "uvm_error"}) :
          /\ Write("uvm", Rows({"now"}, TRUE, seen = {})) /\ Quiet
          /\ Judge("uvm_runtime", seen, "uvm_error" \notin seen)
=============================================================================
