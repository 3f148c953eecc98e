------------------------------- MODULE Evidence -------------------------------
(***************************************************************************)
(* The files the flow scripts share, and what every script does with them: *)
(* the reports under reports/, the traces and coverage data under build/,  *)
(* and the make goal that is running.  A report keeps, of its rows, whether *)
(* the whole suite is there and whether every row passes, and from which   *)
(* artefacts it was derived: its own, produced "now", since the developer  *)
(* last changed the code, or "old" ones.  A directory holds files of       *)
(* either age, and "stale" ones: their case has been removed since, so no  *)
(* later run replaces them.                                                *)
(***************************************************************************)
EXTENDS Naturals, Sequences, FiniteSets

CacheReport ==
  {"regress", "functional_coverage", "cache_performance", "cache_cross", "stress_manifest",
   "stress", "model_trace", "bug_validation", "debug_waveform", "ras", "cache_edges",
   "code_coverage", "hole_review", "associativity_check", "associativity", "synthesis",
   "integration_synthesis", "coherence", "msi_random", "msi_mutation", "bist",
   "array_bist", "nonblocking"}
CoherentReport ==
  {"rv32_smoke", "gcc", "herd", "rtl_litmus", "model_litmus", "random", "directed",
   "error_reset", "qos", "closure", "advanced", "activation", "coverage_edges", "formal",
   "model_mutation", "rtl_mutation", "coherent_code_coverage", "coherent_holes",
   "model_performance", "performance", "functional", "crosses", "reference"}
OptionalReport == {"cache_formal", "small_formal", "uvm"}
Report == CacheReport \cup CoherentReport \cup OptionalReport \cup {"metrics"}

(* Under build/: traces, coverage data, and two programs that scripts share. *)
CacheTrace == {"traces", "performance_points", "stress_traces", "cross_trace"}
CoverageData == {"coverage", "coverage_edges", "coverage_direct_mapped", "coverage_secded"}
CoherentTrace == {"event_traces", "rtl_litmus_traces", "edge_traces", "coverage_edge_traces",
                  "closure_traces", "transport_traces"}
Directory == CacheTrace \cup CoverageData \cup CoherentTrace \cup {"binary", "msi_checker"}

Age == {"now", "old", "stale"}
Content == [from : SUBSET Age, full : BOOLEAN, good : BOOLEAN]
Rows(ages, f, g) == [from |-> ages, full |-> f, good |-> g]
NoFile == Rows({}, FALSE, FALSE)

VARIABLES
  calls,     \* how many goals have been started
  goal,      \* the make goal that runs, or ran last
  todo,      \* the recipe lines it has left
  result,    \* "running", "passed" or "failed"
  report,    \* what each report holds; NoFile: it does not exist
  files,     \* the ages of the files in each directory
  readme,    \* the row of each report in README's generated table
  swallowed  \* failures observed by a script that exited with 0 in this goal

vars == <<calls, goal, todo, result, report, files, readme, swallowed>>

At(line) == todo # <<>> /\ Head(todo) = line

(* make runs the next line of the recipe when a script exits with 0, and   *)
(* gives up otherwise.                                                     *)
Exit(zero) ==
  /\ todo' = IF zero THEN Tail(todo) ELSE <<>>
  /\ result' = IF ~zero THEN "failed" ELSE IF Tail(todo) = <<>> THEN "passed" ELSE "running"
  /\ UNCHANGED <<goal, calls>>

(* The script saw these failures, and exits with its verdict.              *)
Judge(line, failures, pass) ==
  /\ Exit(pass)
  /\ swallowed' = IF pass THEN swallowed \cup ({line} \X failures) ELSE swallowed

Exists(r) == report[r] # NoFile
Sources(rs) == UNION {report[r].from : r \in rs}
Ages(ds) == UNION {files[d] : d \in ds}

Write(r, content) == report' = [report EXCEPT ![r] = content]

(* Files are written over those of the same name.                          *)
Overwritten(d) == (files[d] \ {"old"}) \cup {"now"}
Refill(d) == files' = [files EXCEPT ![d] = Overwritten(d)]
Replace(d, ages) == files' = [files EXCEPT ![d] = ages]

(* A script ends with an exception, or gives up before it writes a report. *)
Abort == /\ Exit(FALSE) /\ UNCHANGED <<report, readme, swallowed>>

GivesUp == Abort /\ UNCHANGED files

(* One representative of the runs of a suite: it shows no failure, or one. *)
Observations(failures) == {{}} \cup {{f} : f \in failures}

Quiet == UNCHANGED readme
=============================================================================
