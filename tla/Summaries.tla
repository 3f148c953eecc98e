------------------------------ MODULE Summaries ------------------------------
(***************************************************************************)
(* The last scripts of every gate: the metrics derived from all reports,   *)
(* the generated table of README, and the check that both agree.           *)
(***************************************************************************)
EXTENDS Evidence

(* ---- gen_metrics: all but the functional coverage may be missing ----    *)
gen_metrics ==
  /\ At("metrics")
  /\ UNCHANGED files
  /\ IF Exists("functional_coverage")
     THEN /\ Write("metrics", Rows(Sources(Report \ {"metrics"}), TRUE, TRUE)) /\ Quiet
          /\ Judge("metrics", {}, TRUE)
     ELSE Abort

(* ---- update_readme_metrics ----                                         *)
CacheRow == {"regress", "stress", "model_trace", "functional_coverage", "cache_cross",
             "bug_validation", "ras", "coherence", "msi_random", "msi_mutation", "bist",
             "array_bist", "nonblocking", "code_coverage"}
CoherentRow == {"gcc", "rtl_litmus", "herd", "random", "functional", "crosses", "closure",
                "advanced", "activation", "rtl_mutation", "formal", "error_reset", "qos",
                "performance", "coherent_code_coverage", "metrics"}

(* The coherent rows are there as soon as the report of the GCC matrix is. *)
Quoted == CacheRow \cup (IF Exists("gcc") THEN CoherentRow ELSE {})
Quotable == (\A r \in Quoted : Exists(r)) /\ report["code_coverage"].full

(* The generated block is replaced as a whole.                             *)
update_readme_metrics ==
  /\ At("readme")
  /\ UNCHANGED <<files, report>>
  /\ IF Quotable
     THEN /\ readme' = [r \in Report |-> IF r \in Quoted THEN report[r] ELSE NoFile]
          /\ Judge("readme", {}, TRUE)
     ELSE Exit(FALSE) /\ UNCHANGED <<readme, swallowed>>

(* ---- check_docs ----                                                    *)
(* A row is compared by its text, "passed / total".                        *)
Text(content) == <<content.full, content.good>>
Compared == (CacheRow \cup CoherentRow)
              \ {"functional", "crosses", "formal", "coherent_code_coverage", "metrics"}
Opened == CacheRow \cup (CoherentRow \ {"metrics"}) \cup {"coherent_holes"}
GatingReport == {"formal", "coherent_code_coverage", "coherent_holes"}

doc_failures == {"row"} \X {r \in Compared : Text(readme[r]) # Text(report[r])}
                  \cup {"below"} \X {r \in GatingReport : ~report[r].good}

(* A document may also name a file that does not exist.                    *)
check_docs ==
  /\ At("docs")
  /\ UNCHANGED files
  /\ IF \A r \in Opened : Exists(r)
     THEN /\ UNCHANGED <<report, readme>>
          /\ \E link \in Observations({<<"document", "missing_link">>}) :
               Judge("docs", doc_failures \cup link, doc_failures \cup link = {})
     ELSE Abort
=============================================================================
