-------------------------- MODULE EvidenceFlowProofs --------------------------
(***************************************************************************)
(* What a release gate leaves behind, whichever goals ran before it and    *)
(* however many: the evidence is fresh, whole and quoted as it is, and no  *)
(* failure was dropped.  The inductive invariant is a table of what each   *)
(* finished line of the running gate has left: reports that are sound, and *)
(* directories that hold present files.  The scripts are taken one by one: *)
(* what a passing run leaves, from what it reads (the ...Effect lemmas);   *)
(* that every script keeps the types (...Kept); and that each one, at its  *)
(* line of a gate, finds what it reads and makes its entry of the table    *)
(* true without spoiling an earlier one (...Advances).                     *)
(***************************************************************************)
EXTENDS EvidenceFlow, TLAPS

Cache    == "release-check"
Coherent == "coherent-release-check"

(* The recipe lines.                                                       *)
CoherentLine == {
   "coherent_lint", "smoke", "gcc", "herd", "rtl_litmus", "model_litmus",
   "model_random", "directed", "error_reset", "qos", "closure_summary",
   "advanced_coverage", "assertion_activation", "coverage_edges", "formal",
   "model_mutations", "rtl_mutations", "code_coverage", "coverage_review",
   "model_performance", "rtl_performance", "coherent_coverage", "dashboard",
   "metrics", "readme", "docs"}
CacheLine == {
   "lint", "model_test", "regress", "replay_regress", "functional_coverage",
   "performance", "stress_manifest", "coherence", "msi_random", "msi_mutations",
   "bist", "array_bist", "metrics", "readme", "stress", "replay_stress",
   "cross_scenarios", "cross_coverage", "bug_validation", "debug_waveform", "ras",
   "regress_coverage", "merge_coverage", "review_holes", "edges", "associativity",
   "synthesis", "characterize", "integration_synthesis", "nonblocking",
   "replay_all", "docs"}
OtherLine == {"regress_smoke", "all", "cover", "uvm_environment", "uvm_runtime"}
Line == CoherentLine \cup CacheLine \cup OtherLine

(* c is s followed by t.                                                   *)
Joined(S, s, t, c) ==
  /\ c \in Seq(S) /\ Len(c) = Len(s) + Len(t)
  /\ \A i \in 1 .. Len(s) + Len(t) : c[i] = IF i <= Len(s) THEN s[i] ELSE t[i - Len(s)]

(* A concatenation is Joined.                                              *)
LEMMA Concat ==
  ASSUME NEW S, NEW s \in Seq(S), NEW t \in Seq(S)
  PROVE  Joined(S, s, t, s \o t)
BY DEF Joined

(* The closing lines of both gates, by their numbers.                      *)
LEMMA ClosingLines ==
  /\ Closing \in Seq(Line) /\ Len(Closing) = 3
  /\ Closing[1] = "metrics" /\ Closing[2] = "readme"
  /\ Closing[3] = "docs"
<1>1. Closing \in Seq(Line)
  BY DEF Closing, Line, CacheLine
<1> QED
  BY <1>1 DEF Closing

(* The lines of project-check that release-check repeats, by their         *)
(* numbers.                                                                *)
LEMMA ProjectChecksLines ==
  /\ ProjectChecks \in Seq(Line) /\ Len(ProjectChecks) = 12
  /\ ProjectChecks[1] = "lint" /\ ProjectChecks[2] = "model_test"
  /\ ProjectChecks[3] = "regress" /\ ProjectChecks[4] = "replay_regress"
  /\ ProjectChecks[5] = "functional_coverage" /\ ProjectChecks[6] = "performance"
  /\ ProjectChecks[7] = "stress_manifest" /\ ProjectChecks[8] = "coherence"
  /\ ProjectChecks[9] = "msi_random" /\ ProjectChecks[10] = "msi_mutations"
  /\ ProjectChecks[11] = "bist" /\ ProjectChecks[12] = "array_bist"
<1>1. ProjectChecks \in Seq(Line)
  BY DEF ProjectChecks, Line, CacheLine
<1> QED
  BY <1>1 DEF ProjectChecks

(* The lines that compare implementations, by their numbers.               *)
LEMMA ImplementationChecksLines ==
  /\ ImplementationChecks \in Seq(Line) /\ Len(ImplementationChecks) = 5
  /\ ImplementationChecks[1] = "associativity" /\ ImplementationChecks[2] = "synthesis"
  /\ ImplementationChecks[3] = "characterize"
  /\ ImplementationChecks[4] = "integration_synthesis"
  /\ ImplementationChecks[5] = "nonblocking"
<1>1. ImplementationChecks \in Seq(Line)
  BY DEF ImplementationChecks, Line, CacheLine
<1> QED
  BY <1>1 DEF ImplementationChecks

(* The closing lines of the coherent gate, by their numbers.               *)
LEMMA CoherentClosingLines ==
  /\ CoherentClosing \in Seq(Line) /\ Len(CoherentClosing) = 5
  /\ CoherentClosing[1] = "coherent_coverage" /\ CoherentClosing[2] = "dashboard"
  /\ CoherentClosing[3] = "metrics" /\ CoherentClosing[4] = "readme"
  /\ CoherentClosing[5] = "docs"
<1>1. PICK a, b : a = <<"coherent_coverage", "dashboard">> /\ b = Closing
  OBVIOUS
<1>2. <<"coherent_coverage", "dashboard">> \in Seq(Line)
  BY DEF Line, CoherentLine
<1>3. a \in Seq(Line) /\ Len(a) = 2 /\ a[1] = "coherent_coverage" /\ a[2] = "dashboard"
  BY <1>1, <1>2
<1>4. b \in Seq(Line) /\ Len(b) = 3 /\ b[1] = "metrics" /\ b[2] = "readme" /\ b[3] = "docs"
  BY <1>1, ClosingLines
<1>5. CoherentClosing = a \o b
  BY <1>1 DEF CoherentClosing
<1>6. /\ CoherentClosing \in Seq(Line) /\ Len(CoherentClosing) = 5
      /\ \A i \in 1 .. 5 : CoherentClosing[i] = IF i <= 2 THEN a[i] ELSE b[i - 2]
  <2>1. Joined(Line, a, b, CoherentClosing)
    BY <1>3, <1>4, <1>5, Concat
  <2> QED
    BY <2>1, <1>3, <1>4 DEF Joined
<1> QED
  BY <1>3, <1>4, <1>6

(* The recipe of coherent-release-check, by its line numbers.              *)
LEMMA CoherentReleaseLines ==
  /\ CoherentRelease \in Seq(Line) /\ Len(CoherentRelease) = 26
  /\ CoherentRelease[1] = "coherent_lint" /\ CoherentRelease[2] = "smoke"
  /\ CoherentRelease[3] = "gcc" /\ CoherentRelease[4] = "herd"
  /\ CoherentRelease[5] = "rtl_litmus" /\ CoherentRelease[6] = "model_litmus"
  /\ CoherentRelease[7] = "model_random" /\ CoherentRelease[8] = "directed"
  /\ CoherentRelease[9] = "error_reset" /\ CoherentRelease[10] = "qos"
  /\ CoherentRelease[11] = "closure_summary" /\ CoherentRelease[12] = "advanced_coverage"
  /\ CoherentRelease[13] = "assertion_activation"
  /\ CoherentRelease[14] = "coverage_edges" /\ CoherentRelease[15] = "formal"
  /\ CoherentRelease[16] = "model_mutations" /\ CoherentRelease[17] = "rtl_mutations"
  /\ CoherentRelease[18] = "code_coverage" /\ CoherentRelease[19] = "coverage_review"
  /\ CoherentRelease[20] = "model_performance" /\ CoherentRelease[21] = "rtl_performance"
  /\ CoherentRelease[22] = "coherent_coverage" /\ CoherentRelease[23] = "dashboard"
  /\ CoherentRelease[24] = "metrics" /\ CoherentRelease[25] = "readme"
  /\ CoherentRelease[26] = "docs"
<1>1. PICK a : a = <<
      "coherent_lint", "smoke", "gcc", "herd", "rtl_litmus", "model_litmus",
      "model_random", "directed", "error_reset", "qos", "closure_summary",
      "advanced_coverage", "assertion_activation", "coverage_edges", "formal",
      "model_mutations", "rtl_mutations", "code_coverage", "coverage_review",
      "model_performance", "rtl_performance" >>
  OBVIOUS
<1>2. /\ a \in Seq(Line) /\ Len(a) = 21
      /\ a[1] = "coherent_lint" /\ a[2] = "smoke"
      /\ a[3] = "gcc" /\ a[4] = "herd"
      /\ a[5] = "rtl_litmus" /\ a[6] = "model_litmus"
      /\ a[7] = "model_random" /\ a[8] = "directed"
      /\ a[9] = "error_reset" /\ a[10] = "qos"
      /\ a[11] = "closure_summary" /\ a[12] = "advanced_coverage"
      /\ a[13] = "assertion_activation" /\ a[14] = "coverage_edges"
      /\ a[15] = "formal" /\ a[16] = "model_mutations"
      /\ a[17] = "rtl_mutations" /\ a[18] = "code_coverage"
      /\ a[19] = "coverage_review" /\ a[20] = "model_performance"
      /\ a[21] = "rtl_performance"
  <2>1. <<
          "coherent_lint", "smoke", "gcc", "herd", "rtl_litmus", "model_litmus",
          "model_random", "directed", "error_reset", "qos", "closure_summary",
          "advanced_coverage", "assertion_activation", "coverage_edges", "formal",
          "model_mutations", "rtl_mutations", "code_coverage", "coverage_review",
          "model_performance", "rtl_performance" >> \in Seq(Line)
    BY DEF Line, CoherentLine
  <2> QED
    BY <2>1, <1>1
<1>3. PICK b : b = CoherentClosing
  OBVIOUS
<1>4. /\ b \in Seq(Line) /\ Len(b) = 5
      /\ b[1] = "coherent_coverage" /\ b[2] = "dashboard"
      /\ b[3] = "metrics" /\ b[4] = "readme"
      /\ b[5] = "docs"
  BY <1>3, CoherentClosingLines
<1>5. CoherentRelease = a \o b
  BY <1>1, <1>3 DEF CoherentRelease
<1>6. /\ CoherentRelease \in Seq(Line) /\ Len(CoherentRelease) = 26
      /\ \A i \in 1 .. 26 : CoherentRelease[i] = IF i <= 21 THEN a[i] ELSE b[i - 21]
  <2>1. Joined(Line, a, b, CoherentRelease)
    BY <1>5, <1>2, <1>4, Concat
  <2> QED
    BY <2>1, <1>2, <1>4 DEF Joined
<1> QED
  BY <1>6, <1>2, <1>4

(* The recipe of release-check, by its line numbers.                       *)
LEMMA ReleaseLines ==
  /\ Release \in Seq(Line) /\ Len(Release) = 36
  /\ Release[1] = "lint" /\ Release[2] = "model_test"
  /\ Release[3] = "regress" /\ Release[4] = "replay_regress"
  /\ Release[5] = "functional_coverage" /\ Release[6] = "performance"
  /\ Release[7] = "stress_manifest" /\ Release[8] = "coherence"
  /\ Release[9] = "msi_random" /\ Release[10] = "msi_mutations"
  /\ Release[11] = "bist" /\ Release[12] = "array_bist"
  /\ Release[13] = "metrics" /\ Release[14] = "readme"
  /\ Release[15] = "stress" /\ Release[16] = "replay_stress"
  /\ Release[17] = "cross_scenarios" /\ Release[18] = "cross_coverage"
  /\ Release[19] = "bug_validation" /\ Release[20] = "debug_waveform"
  /\ Release[21] = "ras" /\ Release[22] = "regress_coverage"
  /\ Release[23] = "merge_coverage" /\ Release[24] = "review_holes"
  /\ Release[25] = "edges" /\ Release[26] = "merge_coverage"
  /\ Release[27] = "review_holes" /\ Release[28] = "associativity"
  /\ Release[29] = "synthesis" /\ Release[30] = "characterize"
  /\ Release[31] = "integration_synthesis" /\ Release[32] = "nonblocking"
  /\ Release[33] = "replay_all" /\ Release[34] = "metrics"
  /\ Release[35] = "readme" /\ Release[36] = "docs"
<1>1. PICK a : a = ProjectChecks
  OBVIOUS
<1>2. /\ a \in Seq(Line) /\ Len(a) = 12
      /\ a[1] = "lint" /\ a[2] = "model_test"
      /\ a[3] = "regress" /\ a[4] = "replay_regress"
      /\ a[5] = "functional_coverage" /\ a[6] = "performance"
      /\ a[7] = "stress_manifest" /\ a[8] = "coherence"
      /\ a[9] = "msi_random" /\ a[10] = "msi_mutations"
      /\ a[11] = "bist" /\ a[12] = "array_bist"
  BY <1>1, ProjectChecksLines
<1>3. PICK b : b = <<
      "metrics", "readme", "stress", "replay_stress", "cross_scenarios",
      "cross_coverage", "bug_validation", "debug_waveform", "ras",
      "regress_coverage", "merge_coverage", "review_holes", "edges",
      "merge_coverage", "review_holes" >>
  OBVIOUS
<1>4. /\ b \in Seq(Line) /\ Len(b) = 15
      /\ b[1] = "metrics" /\ b[2] = "readme"
      /\ b[3] = "stress" /\ b[4] = "replay_stress"
      /\ b[5] = "cross_scenarios" /\ b[6] = "cross_coverage"
      /\ b[7] = "bug_validation" /\ b[8] = "debug_waveform"
      /\ b[9] = "ras" /\ b[10] = "regress_coverage"
      /\ b[11] = "merge_coverage" /\ b[12] = "review_holes"
      /\ b[13] = "edges" /\ b[14] = "merge_coverage"
      /\ b[15] = "review_holes"
  <2>1. <<
          "metrics", "readme", "stress", "replay_stress", "cross_scenarios",
          "cross_coverage", "bug_validation", "debug_waveform", "ras",
          "regress_coverage", "merge_coverage", "review_holes", "edges",
          "merge_coverage", "review_holes" >> \in Seq(Line)
    BY DEF Line, CacheLine
  <2> QED
    BY <2>1, <1>3
<1>5. PICK c : c = ImplementationChecks
  OBVIOUS
<1>6. /\ c \in Seq(Line) /\ Len(c) = 5
      /\ c[1] = "associativity" /\ c[2] = "synthesis"
      /\ c[3] = "characterize" /\ c[4] = "integration_synthesis"
      /\ c[5] = "nonblocking"
  BY <1>5, ImplementationChecksLines
<1>7. PICK d : d = <<
      "replay_all" >>
  OBVIOUS
<1>8. /\ d \in Seq(Line) /\ Len(d) = 1
      /\ d[1] = "replay_all"
  <2>1. <<
          "replay_all" >> \in Seq(Line)
    BY DEF Line, CacheLine
  <2> QED
    BY <2>1, <1>7
<1>9. PICK e : e = Closing
  OBVIOUS
<1>10. /\ e \in Seq(Line) /\ Len(e) = 3
       /\ e[1] = "metrics" /\ e[2] = "readme"
       /\ e[3] = "docs"
  BY <1>9, ClosingLines
<1>11. Release = a \o b \o c \o d \o e
  BY <1>1, <1>3, <1>5, <1>7, <1>9 DEF Release
<1>12. PICK p : p = a \o b
  OBVIOUS
<1>13. /\ p \in Seq(Line) /\ Len(p) = 27
       /\ \A i \in 1 .. 27 : p[i] = IF i <= 12 THEN a[i] ELSE b[i - 12]
  <2>1. Joined(Line, a, b, p)
    BY <1>12, <1>2, <1>4, Concat
  <2> QED
    BY <2>1, <1>2, <1>4 DEF Joined
<1>14. /\ p \in Seq(Line) /\ Len(p) = 27
       /\ p[1] = "lint" /\ p[2] = "model_test"
       /\ p[3] = "regress" /\ p[4] = "replay_regress"
       /\ p[5] = "functional_coverage" /\ p[6] = "performance"
       /\ p[7] = "stress_manifest" /\ p[8] = "coherence"
       /\ p[9] = "msi_random" /\ p[10] = "msi_mutations"
       /\ p[11] = "bist" /\ p[12] = "array_bist"
       /\ p[13] = "metrics" /\ p[14] = "readme"
       /\ p[15] = "stress" /\ p[16] = "replay_stress"
       /\ p[17] = "cross_scenarios" /\ p[18] = "cross_coverage"
       /\ p[19] = "bug_validation" /\ p[20] = "debug_waveform"
       /\ p[21] = "ras" /\ p[22] = "regress_coverage"
       /\ p[23] = "merge_coverage" /\ p[24] = "review_holes"
       /\ p[25] = "edges" /\ p[26] = "merge_coverage"
       /\ p[27] = "review_holes"
  BY <1>13, <1>2, <1>4
<1>15. Release = p \o c \o d \o e
  BY <1>12, <1>11
<1>16. PICK q : q = p \o c
  OBVIOUS
<1>17. /\ q \in Seq(Line) /\ Len(q) = 32
       /\ \A i \in 1 .. 32 : q[i] = IF i <= 27 THEN p[i] ELSE c[i - 27]
  <2>1. Joined(Line, p, c, q)
    BY <1>16, <1>14, <1>6, Concat
  <2> QED
    BY <2>1, <1>14, <1>6 DEF Joined
<1>18. /\ q \in Seq(Line) /\ Len(q) = 32
       /\ q[1] = "lint" /\ q[2] = "model_test"
       /\ q[3] = "regress" /\ q[4] = "replay_regress"
       /\ q[5] = "functional_coverage" /\ q[6] = "performance"
       /\ q[7] = "stress_manifest" /\ q[8] = "coherence"
       /\ q[9] = "msi_random" /\ q[10] = "msi_mutations"
       /\ q[11] = "bist" /\ q[12] = "array_bist"
       /\ q[13] = "metrics" /\ q[14] = "readme"
       /\ q[15] = "stress" /\ q[16] = "replay_stress"
       /\ q[17] = "cross_scenarios" /\ q[18] = "cross_coverage"
       /\ q[19] = "bug_validation" /\ q[20] = "debug_waveform"
       /\ q[21] = "ras" /\ q[22] = "regress_coverage"
       /\ q[23] = "merge_coverage" /\ q[24] = "review_holes"
       /\ q[25] = "edges" /\ q[26] = "merge_coverage"
       /\ q[27] = "review_holes" /\ q[28] = "associativity"
       /\ q[29] = "synthesis" /\ q[30] = "characterize"
       /\ q[31] = "integration_synthesis" /\ q[32] = "nonblocking"
  BY <1>17, <1>14, <1>6
<1>19. Release = q \o d \o e
  BY <1>16, <1>15
<1>20. PICK r : r = q \o d
  OBVIOUS
<1>21. /\ r \in Seq(Line) /\ Len(r) = 33
       /\ \A i \in 1 .. 33 : r[i] = IF i <= 32 THEN q[i] ELSE d[i - 32]
  <2>1. Joined(Line, q, d, r)
    BY <1>20, <1>18, <1>8, Concat
  <2> QED
    BY <2>1, <1>18, <1>8 DEF Joined
<1>22. /\ r \in Seq(Line) /\ Len(r) = 33
       /\ r[1] = "lint" /\ r[2] = "model_test"
       /\ r[3] = "regress" /\ r[4] = "replay_regress"
       /\ r[5] = "functional_coverage" /\ r[6] = "performance"
       /\ r[7] = "stress_manifest" /\ r[8] = "coherence"
       /\ r[9] = "msi_random" /\ r[10] = "msi_mutations"
       /\ r[11] = "bist" /\ r[12] = "array_bist"
       /\ r[13] = "metrics" /\ r[14] = "readme"
       /\ r[15] = "stress" /\ r[16] = "replay_stress"
       /\ r[17] = "cross_scenarios" /\ r[18] = "cross_coverage"
       /\ r[19] = "bug_validation" /\ r[20] = "debug_waveform"
       /\ r[21] = "ras" /\ r[22] = "regress_coverage"
       /\ r[23] = "merge_coverage" /\ r[24] = "review_holes"
       /\ r[25] = "edges" /\ r[26] = "merge_coverage"
       /\ r[27] = "review_holes" /\ r[28] = "associativity"
       /\ r[29] = "synthesis" /\ r[30] = "characterize"
       /\ r[31] = "integration_synthesis" /\ r[32] = "nonblocking"
       /\ r[33] = "replay_all"
  BY <1>21, <1>18, <1>8
<1>23. Release = r \o e
  BY <1>20, <1>19
<1>24. /\ Release \in Seq(Line) /\ Len(Release) = 36
       /\ \A i \in 1 .. 36 : Release[i] = IF i <= 33 THEN r[i] ELSE e[i - 33]
  <2>1. Joined(Line, r, e, Release)
    BY <1>23, <1>22, <1>10, Concat
  <2> QED
    BY <2>1, <1>22, <1>10 DEF Joined
<1> QED
  BY <1>24, <1>22, <1>10

-------------------------------------------------------------------------------
(* What a finished line of a release gate leaves behind.                   *)
Lines(g) == IF g = Cache THEN Release ELSE CoherentRelease
Last(g)  == IF g = Cache THEN 36 ELSE 26

Allowed(r)  == IF r \in Searching THEN {"now", "stale"} ELSE {"now"}
Complete(r) == r \notin {"synthesis", "integration_synthesis"} =>
                 report[r].full /\ (r # "hole_review" => report[r].good)
Sound(r)    == report[r].from \subseteq Allowed(r) /\ Complete(r)

(* Directories that are emptied before they are filled.                    *)
Replaced   == {"binary", "msi_checker", "closure_traces", "transport_traces"}
Current(d) == /\ files[d] # {}
              /\ files[d] \subseteq IF d \in Replaced THEN {"now"} ELSE {"now", "stale"}

(* The reports that are sound, and the directories that are current, when  *)
(* line k of a gate is done.                                               *)
CacheMade(k) ==
  CASE k = 3 -> {"regress"}               [] k = 33 -> {"model_trace"}
    [] k = 5 -> {"functional_coverage"}   [] k = 6 -> {"cache_performance"}
    [] k = 7 -> {"stress_manifest"}       [] k = 8 -> {"coherence"}
    [] k = 9 -> {"msi_random"}            [] k = 10 -> {"msi_mutation"}
    [] k = 11 -> {"bist"}                 [] k = 12 -> {"array_bist"}
    [] k = 15 -> {"stress"}               [] k = 18 -> {"cache_cross"}
    [] k = 19 -> {"bug_validation"}       [] k = 20 -> {"debug_waveform"}
    [] k = 21 -> {"ras"}                  [] k = 25 -> {"cache_edges"}
    [] k = 26 -> {"code_coverage"}        [] k = 27 -> {"hole_review"}
    [] k = 28 -> {"associativity_check"}  [] k = 29 -> {"synthesis"}
    [] k = 30 -> {"associativity"}        [] k = 31 -> {"integration_synthesis"}
    [] k = 32 -> {"nonblocking"}          [] OTHER -> {}
CacheLeft(k) ==
  CASE k = 3 -> {"binary", "traces"}      [] k = 6 -> {"performance_points"}
    [] k = 9 -> {"msi_checker"}           [] k = 15 -> {"stress_traces"}
    [] k = 17 -> {"cross_trace"}          [] k = 21 -> {"coverage_secded"}
    [] k = 22 -> {"coverage"}             [] k = 25 -> {"coverage_edges", "coverage_direct_mapped"}
    [] OTHER -> {}
CoherentMade(k) ==
  CASE k = 2 -> {"rv32_smoke"}            [] k = 3 -> {"gcc"}
    [] k = 4 -> {"herd"}                  [] k = 5 -> {"rtl_litmus"}
    [] k = 6 -> {"model_litmus"}          [] k = 7 -> {"random"}
    [] k = 8 -> {"directed"}              [] k = 9 -> {"error_reset"}
    [] k = 10 -> {"qos"}                  [] k = 11 -> {"closure"}
    [] k = 12 -> {"advanced"}             [] k = 13 -> {"activation"}
    [] k = 14 -> {"coverage_edges"}       [] k = 15 -> {"formal"}
    [] k = 16 -> {"model_mutation"}       [] k = 17 -> {"rtl_mutation"}
    [] k = 18 -> {"coherent_code_coverage"} [] k = 19 -> {"coherent_holes"}
    [] k = 20 -> {"model_performance"}    [] k = 21 -> {"performance"}
    [] k = 22 -> {"functional", "crosses"} [] k = 23 -> {"reference"}
    [] OTHER -> {}
CoherentLeft(k) ==
  CASE k = 2 -> {"event_traces"}          [] k = 5 -> {"rtl_litmus_traces"}
    [] k = 8 -> {"closure_traces"}        [] k = 9 -> {"edge_traces"}
    [] k = 10 -> {"transport_traces"}     [] k = 14 -> {"coverage_edge_traces"}
    [] OTHER -> {}
Made(g, k) == IF g = Cache THEN CacheMade(k) ELSE CoherentMade(k)
Left(g, k) == IF g = Cache THEN CacheLeft(k) ELSE CoherentLeft(k)

Excused == {<<"error_reset", "probe_failed">>}

(* The holes that the coverage review is going to judge.                   *)
Reviewable == report["coherent_holes"].from \subseteq {"now"} /\ report["coherent_holes"].full
Reviewed(g, k) == g = Coherent /\ k = 18 => Reviewable

(* Line k of gate g is next.  The last script but one writes the table,    *)
(* and the last one finds every report it quotes.                          *)
Table(g, k) ==
  /\ \A j \in 1 .. k - 1 : /\ \A r \in Made(g, j) : Sound(r)
                           /\ \A d \in Left(g, j) : Current(d)
  /\ swallowed \subseteq Excused
  /\ g = Coherent /\ k = 19 => Reviewable
  /\ k >= Last(g) => \A r \in Quoted : readme[r] = report[r]
  /\ k = Last(g) + 1 => Exists("gcc")

Position(g, k) ==
  /\ k \in 1 .. Last(g) + 1
  /\ Len(todo) = Last(g) + 1 - k
  /\ \A i \in 1 .. Len(todo) : todo[i] = Lines(g)[k + i - 1]

(* The values the proof needs to know.                                     *)
Typed ==
  /\ todo \in Seq(Line)
  /\ report = [r \in Report |-> report[r]]
  /\ files \in [Directory -> SUBSET Age]

(* A gate that has not failed stands at some line, and the table holds up  *)
(* to that line; after the last line, it has passed.                       *)
IInv ==
  /\ Typed
  /\ result = "running" <=> todo # <<>>
  /\ \A g \in Gate : goal = g /\ result # "failed" =>
       \E k \in 1 .. 37 : Position(g, k) /\ Table(g, k)

-------------------------------------------------------------------------------
(* A passing line that makes the reports rs sound and the directories ds   *)
(* current, and may write the reports us.                                  *)
Effect(rs, us, ds) ==
  /\ \A r \in Report \ (rs \cup us) : report'[r] = report[r]
  /\ \A r \in rs : Sound(r)'
  /\ \A d \in Directory \ ds : files'[d] = files[d]
  /\ \A d \in ds : Current(d)'
  /\ swallowed' \subseteq swallowed \cup Excused

(* The line brings the gate forward, and settles none of us before.        *)
Advances(g, k, rs, us, ds) ==
  /\ Made(g, k) \subseteq rs /\ Left(g, k) \subseteq ds
  /\ \A j \in 1 .. k : Made(g, j) \cap us = {}

(* The tables name reports and directories.                                *)
LEMMA MadeReports ==
  ASSUME NEW g \in Gate, NEW j \in Nat
  PROVE  Made(g, j) \subseteq Report /\ Left(g, j) \subseteq Directory
<1>1. /\ CacheMade(j) \subseteq Report /\ CacheLeft(j) \subseteq Directory
  BY DEF CacheMade, CacheLeft, Report, CacheReport, Directory, CacheTrace, CoverageData
<1>2. /\ CoherentMade(j) \subseteq Report /\ CoherentLeft(j) \subseteq Directory
  BY DEF CoherentMade, CoherentLeft, Report, CoherentReport, Directory, CoherentTrace
<1> QED
  BY <1>1, <1>2 DEF Made, Left

(* A line with the effect the table asks of it brings the table forward.   *)
LEMMA Advance ==
  ASSUME NEW g \in Gate, NEW k \in 1 .. 37, k < Last(g) - 1, Table(g, k),
         Reviewed(g, k)',
         NEW rs, NEW us, NEW ds, Effect(rs, us, ds), Advances(g, k, rs, us, ds)
  PROVE  Table(g, k + 1)'
<1>1. Last(g) \in {26, 36}
  BY DEF Last
<1>2. ASSUME NEW j \in 1 .. k, NEW r \in Made(g, j)
      PROVE  Sound(r)'
  <2>1. CASE r \in rs
    BY <2>1 DEF Effect
  <2>2. CASE r \notin rs
    <3>1. j \in 1 .. k - 1
      BY <2>2, <1>2 DEF Advances
    <3>2. r \notin us /\ r \in Report /\ Sound(r)
      BY <3>1, <1>2, MadeReports DEF Table, Advances
    <3>3. report'[r] = report[r]
      BY <2>2, <3>2 DEF Effect
    <3> QED
      BY <3>2, <3>3 DEF Sound, Complete
  <2> QED
    BY <2>1, <2>2
<1>3. ASSUME NEW j \in 1 .. k, NEW d \in Left(g, j)
      PROVE  Current(d)'
  <2>1. CASE d \in ds
    BY <2>1 DEF Effect
  <2>2. CASE d \notin ds
    <3>1. j \in 1 .. k - 1
      BY <2>2, <1>3 DEF Advances
    <3>2. d \in Directory /\ Current(d)
      BY <3>1, <1>3, MadeReports DEF Table
    <3>3. files'[d] = files[d]
      BY <2>2, <3>2 DEF Effect
    <3> QED
      BY <3>2, <3>3 DEF Current
  <2> QED
    BY <2>1, <2>2
<1>4. swallowed' \subseteq Excused
  BY DEF Table, Effect
<1> QED
  BY <1>1, <1>2, <1>3, <1>4 DEF Table, Reviewed

-------------------------------------------------------------------------------
(* The scripts: what a run that passes in a gate leaves, from what it      *)
(* reads.                                                                  *)
LEMMA NoneSwallowed ==
  ASSUME NEW line, NEW failures, NEW pass, Judge(line, failures, pass), result' # "failed",
         pass => failures = {}
  PROVE  pass /\ swallowed' \subseteq swallowed \cup Excused
<1>1. pass /\ swallowed' = swallowed \cup ({line} \X failures)
  BY DEF Judge, Exit
<1>2. {line} \X failures = {}
  BY <1>1
<1> QED
  BY <1>1, <1>2

(* A suite that passes.                                                    *)
AgesFit(ages, rs) == \A r \in rs : ages \subseteq Allowed(r)

(* A suite that passes makes its reports sound when what they are derived  *)
(* from is fresh enough, and its directories current.                      *)
LEMMA SuiteEffect ==
  ASSUME Typed, NEW line, NEW rs \in SUBSET Report, NEW ds \in SUBSET (Directory \ Replaced),
         NEW ages, NEW failures, Suite(line, rs, ds, ages, failures), result' # "failed",
         AgesFit(ages, rs)
  PROVE  Effect(rs, {}, ds)
<1>1. PICK seen \in Observations(failures) :
        /\ report' = [r \in Report |-> IF r \in rs THEN Rows(ages, TRUE, seen = {}) ELSE report[r]]
        /\ Filed(ds, seen = {}) /\ Quiet /\ Judge(line, seen, seen = {})
  BY DEF Suite
<1>2. seen = {} /\ swallowed' \subseteq swallowed \cup Excused
  BY <1>1, NoneSwallowed
<1>3. \A r \in rs : Sound(r)'
  BY <1>1, <1>2 DEF Sound, Complete, Rows, AgesFit
<1>4. \A d \in Directory : files[d] \subseteq {"now", "old", "stale"}
  BY DEF Typed, Age
<1>5. \A d \in Directory : files'[d] = IF d \in ds THEN Overwritten(d) ELSE files[d]
  BY <1>1, <1>2 DEF Filed
<1>6. \A d \in ds : Current(d)'
  BY <1>4, <1>5 DEF Current, Overwritten
<1>7. /\ \A r \in Report \ (rs \cup {}) : report'[r] = report[r]
      /\ \A d \in Directory \ ds : files'[d] = files[d]
  BY <1>1, <1>5
<1> QED
  BY <1>2, <1>3, <1>6, <1>7 DEF Effect

(* A line that changes no file.                                            *)
LEMMA ToolEffect ==
  ASSUME NEW line, Tool(line)
  PROVE  Effect({}, {}, {})
BY DEF Tool, Effect

(* A regression that passes rebuilds the simulator, and leaves its report  *)
(* and traces; with coverage, the data as well.                            *)
LEMMA RegressEffect ==
  ASSUME Typed, NEW mode \in {"regress", "regress_coverage"}, run_regression(mode), result' # "failed"
  PROVE  Effect({"regress"}, {}, {"binary", "traces"}
                                   \cup IF mode = "regress_coverage" THEN {"coverage"} ELSE {})
<1>1. ~GivesUp
  BY DEF GivesUp, Abort, Exit
<1>2. PICK ok \in BOOLEAN :
          /\ Write("regress", Rows({"now"}, mode # "regress_smoke", ok))
          /\ files' = [files EXCEPT
               !["binary"] = {"now"},
               !["traces"] = IF ok /\ mode # "regress_smoke" THEN Overwritten("traces") ELSE @ \cup {"now"},
               !["coverage"] = IF mode # "regress_coverage" THEN @
                               ELSE IF ok THEN Overwritten("coverage") ELSE @ \cup {"now"}]
          /\ Quiet /\ Judge(mode, IF ok THEN {} ELSE {"failed_test"}, ok)
  BY <1>1 DEF run_regression
<1>3. ok /\ swallowed' \subseteq swallowed \cup Excused
  BY <1>2, NoneSwallowed
<1>4. /\ report' = [report EXCEPT !["regress"] = Rows({"now"}, TRUE, TRUE)]
      /\ files' = [files EXCEPT
               !["binary"] = {"now"}, !["traces"] = Overwritten("traces"),
               !["coverage"] = IF mode # "regress_coverage" THEN @ ELSE Overwritten("coverage")]
  BY <1>2, <1>3 DEF Write
<1>5. Sound("regress")'
  BY <1>4 DEF Typed, Sound, Complete, Allowed, Searching, Rows, Report, CacheReport
<1>6. \A d \in {"binary", "traces"} : Current(d)'
  BY <1>4 DEF Typed, Current, Replaced, Directory, CacheTrace, CoverageData,
     Overwritten, Age
<1>7. mode = "regress_coverage" => Current("coverage")'
  BY <1>4 DEF Typed, Current, Replaced, Directory, CacheTrace, CoverageData,
     Overwritten, Age
<1>8. /\ \A r \in Report \ {"regress"} : report'[r] = report[r]
      /\ \A d \in Directory \ {"binary", "traces", "coverage"} : files'[d] = files[d]
      /\ mode # "regress_coverage" => files'["coverage"] = files["coverage"]
  BY <1>4 DEF Typed, Directory, CacheTrace, CoverageData
<1> QED
  BY <1>2, <1>3, <1>5, <1>6, <1>7, <1>8 DEF Effect

-------------------------------------------------------------------------------
(* The scripts of the coherent lane.  A directory is brought up to date.   *)
Fills(d) == /\ Current(d)'
            /\ \A e \in Directory \ {d} : files'[e] = files[e]

(* Files of every present case are written over those of the same name:    *)
(* none is old.                                                            *)
LEMMA Refilled ==
  ASSUME Typed, NEW d \in Directory \ Replaced, Refill(d)
  PROVE  Fills(d)
BY DEF Typed, Refill, Overwritten, Fills, Current, Age

(* A directory that is emptied first holds nothing but new files.          *)
LEMMA Renewed ==
  ASSUME Typed, NEW d \in Directory, Replace(d, {"now"})
  PROVE  Fills(d)
BY DEF Typed, Replace, Fills, Current

(* run_coherent_rv32 smoke: a passing run shows no failure, and leaves its *)
(* traces.                                                                 *)
LEMMA SmokeEffect ==
  ASSUME Typed, run_coherent_rv32("smoke", "rv32_smoke"), result' # "failed"
  PROVE  Effect({"rv32_smoke"}, {}, {"event_traces"})
<1>1. ~Abort
  BY DEF Abort, Exit
<1>2. PICK seen \in Observations(SimulationFailure \cup TraceFailure) :
        /\ Write("rv32_smoke", Rows({"now"}, TRUE, run_case(seen)))
        /\ Refill("event_traces") /\ Judge("smoke", seen, run_case(seen))
  BY <1>1 DEF run_coherent_rv32, RunAborts
<1>3. run_case(seen) => seen = {}
  BY DEF Observations, SimulationFailure, TraceFailure, run_case, check_trace
<1>4. run_case(seen) /\ swallowed' \subseteq swallowed \cup Excused
  BY <1>2, <1>3, NoneSwallowed
<1>5. report' = [report EXCEPT !["rv32_smoke"] = Rows({"now"}, TRUE, TRUE)]
  BY <1>2, <1>4 DEF Write
<1>6. /\ Sound("rv32_smoke")'
      /\ \A s \in Report \ {"rv32_smoke"} : report'[s] = report[s]
  BY <1>5 DEF Typed, Sound, Complete, Allowed, Searching, Rows, Report, CacheReport,
     CoherentReport
<1>7. Fills("event_traces")
  BY <1>2, Refilled DEF Replaced, Directory, CacheTrace, CoherentTrace
<1> QED
  BY <1>4, <1>6, <1>7 DEF Effect, Fills

(* run_coherent_rv32 gcc, likewise.                                        *)
LEMMA GccEffect ==
  ASSUME Typed, run_coherent_rv32("gcc", "gcc"), result' # "failed"
  PROVE  Effect({"gcc"}, {}, {"event_traces"})
<1>1. ~Abort
  BY DEF Abort, Exit
<1>2. PICK seen \in Observations(SimulationFailure \cup TraceFailure) :
        /\ Write("gcc", Rows({"now"}, TRUE, run_case(seen)))
        /\ Refill("event_traces") /\ Judge("gcc", seen, run_case(seen))
  BY <1>1 DEF run_coherent_rv32, RunAborts
<1>3. run_case(seen) => seen = {}
  BY DEF Observations, SimulationFailure, TraceFailure, run_case, check_trace
<1>4. run_case(seen) /\ swallowed' \subseteq swallowed \cup Excused
  BY <1>2, <1>3, NoneSwallowed
<1>5. report' = [report EXCEPT !["gcc"] = Rows({"now"}, TRUE, TRUE)]
  BY <1>2, <1>4 DEF Write
<1>6. /\ Sound("gcc")'
      /\ \A s \in Report \ {"gcc"} : report'[s] = report[s]
  BY <1>5 DEF Typed, Sound, Complete, Allowed, Searching, Rows, Report, CacheReport,
     CoherentReport
<1>7. Fills("event_traces")
  BY <1>2, Refilled DEF Replaced, Directory, CacheTrace, CoherentTrace
<1> QED
  BY <1>4, <1>6, <1>7 DEF Effect, Fills

(* run_coherent_herd.                                                      *)
LEMMA HerdEffect ==
  ASSUME Typed, run_coherent_herd, result' # "failed"
  PROVE  Effect({"herd"}, {}, {})
<1>1. ~Abort
  BY DEF Abort, Exit
<1>2. PICK seen \in Observations(HerdFailure) :
        /\ Write("herd", Rows({"now"}, TRUE, (seen = {})))
        /\ UNCHANGED files /\ Judge("herd", seen, (seen = {}))
  BY <1>1 DEF run_coherent_herd
<1>3. (seen = {}) => seen = {}
  BY DEF Observations
<1>4. (seen = {}) /\ swallowed' \subseteq swallowed \cup Excused
  BY <1>2, <1>3, NoneSwallowed
<1>5. report' = [report EXCEPT !["herd"] = Rows({"now"}, TRUE, TRUE)]
  BY <1>2, <1>4 DEF Write
<1>6. /\ Sound("herd")'
      /\ \A s \in Report \ {"herd"} : report'[s] = report[s]
  BY <1>5 DEF Typed, Sound, Complete, Allowed, Searching, Rows, Report, CacheReport,
     CoherentReport
<1> QED
  BY <1>2, <1>4, <1>6 DEF Effect

(* run_coherent_model: the litmus programs.                                *)
LEMMA ModelLitmusEffect ==
  ASSUME Typed, run_coherent_model("model_litmus", "model_litmus"), result' # "failed"
  PROVE  Effect({"model_litmus"}, {}, {})
<1>1. ~Abort
  BY DEF Abort, Exit
<1>2. PICK seen \in Observations({"model_verdict"}) :
        /\ Write("model_litmus", Rows({"now"}, TRUE, (seen = {})))
        /\ UNCHANGED files /\ Judge("model_litmus", seen, (seen = {}))
  BY <1>1 DEF run_coherent_model
<1>3. (seen = {}) => seen = {}
  BY DEF Observations
<1>4. (seen = {}) /\ swallowed' \subseteq swallowed \cup Excused
  BY <1>2, <1>3, NoneSwallowed
<1>5. report' = [report EXCEPT !["model_litmus"] = Rows({"now"}, TRUE, TRUE)]
  BY <1>2, <1>4 DEF Write
<1>6. /\ Sound("model_litmus")'
      /\ \A s \in Report \ {"model_litmus"} : report'[s] = report[s]
  BY <1>5 DEF Typed, Sound, Complete, Allowed, Searching, Rows, Report, CacheReport,
     CoherentReport
<1> QED
  BY <1>2, <1>4, <1>6 DEF Effect

(* run_coherent_model: the random programs.                                *)
LEMMA ModelRandomEffect ==
  ASSUME Typed, run_coherent_model("model_random", "random"), result' # "failed"
  PROVE  Effect({"random"}, {}, {})
<1>1. ~Abort
  BY DEF Abort, Exit
<1>2. PICK seen \in Observations({"model_verdict"}) :
        /\ Write("random", Rows({"now"}, TRUE, (seen = {})))
        /\ UNCHANGED files /\ Judge("model_random", seen, (seen = {}))
  BY <1>1 DEF run_coherent_model
<1>3. (seen = {}) => seen = {}
  BY DEF Observations
<1>4. (seen = {}) /\ swallowed' \subseteq swallowed \cup Excused
  BY <1>2, <1>3, NoneSwallowed
<1>5. report' = [report EXCEPT !["random"] = Rows({"now"}, TRUE, TRUE)]
  BY <1>2, <1>4 DEF Write
<1>6. /\ Sound("random")'
      /\ \A s \in Report \ {"random"} : report'[s] = report[s]
  BY <1>5 DEF Typed, Sound, Complete, Allowed, Searching, Rows, Report, CacheReport,
     CoherentReport
<1> QED
  BY <1>2, <1>4, <1>6 DEF Effect

(* run_coherent_model: the planted model defects.                          *)
LEMMA ModelMutationsEffect ==
  ASSUME Typed, run_coherent_model("model_mutations", "model_mutation"), result' # "failed"
  PROVE  Effect({"model_mutation"}, {}, {})
<1>1. ~Abort
  BY DEF Abort, Exit
<1>2. PICK seen \in Observations({"model_verdict"}) :
        /\ Write("model_mutation", Rows({"now"}, TRUE, (seen = {})))
        /\ UNCHANGED files /\ Judge("model_mutations", seen, (seen = {}))
  BY <1>1 DEF run_coherent_model
<1>3. (seen = {}) => seen = {}
  BY DEF Observations
<1>4. (seen = {}) /\ swallowed' \subseteq swallowed \cup Excused
  BY <1>2, <1>3, NoneSwallowed
<1>5. report' = [report EXCEPT !["model_mutation"] = Rows({"now"}, TRUE, TRUE)]
  BY <1>2, <1>4 DEF Write
<1>6. /\ Sound("model_mutation")'
      /\ \A s \in Report \ {"model_mutation"} : report'[s] = report[s]
  BY <1>5 DEF Typed, Sound, Complete, Allowed, Searching, Rows, Report, CacheReport,
     CoherentReport
<1> QED
  BY <1>2, <1>4, <1>6 DEF Effect

(* run_coherent_model: the performance of the model, which cannot fail.    *)
LEMMA ModelPerformanceEffect ==
  ASSUME Typed, run_coherent_model("model_performance", "model_performance"), result' # "failed"
  PROVE  Effect({"model_performance"}, {}, {})
<1>1. ~Abort
  BY DEF Abort, Exit
<1>2. PICK seen \in {{}} :
        /\ Write("model_performance", Rows({"now"}, TRUE, (seen = {})))
        /\ UNCHANGED files /\ Judge("model_performance", seen, (seen = {}))
  BY <1>1 DEF run_coherent_model
<1>3. (seen = {}) => seen = {}
  BY DEF Observations
<1>4. (seen = {}) /\ swallowed' \subseteq swallowed \cup Excused
  BY <1>2, <1>3, NoneSwallowed
<1>5. report' = [report EXCEPT !["model_performance"] = Rows({"now"}, TRUE, TRUE)]
  BY <1>2, <1>4 DEF Write
<1>6. /\ Sound("model_performance")'
      /\ \A s \in Report \ {"model_performance"} : report'[s] = report[s]
  BY <1>5 DEF Typed, Sound, Complete, Allowed, Searching, Rows, Report, CacheReport,
     CoherentReport
<1> QED
  BY <1>2, <1>4, <1>6 DEF Effect

(* run_coherent_closure: it empties its build directory first.             *)
LEMMA ClosureEffect ==
  ASSUME Typed, run_coherent_closure, result' # "failed"
  PROVE  Effect({"directed"}, {}, {"closure_traces"})
<1>1. ~Abort
  BY DEF Abort, Exit
<1>2. PICK seen \in Observations({"exit_code", "scoreboard", "event_replay"}) :
        /\ Write("directed", Rows({"now"}, TRUE, closure_row(seen)))
        /\ Replace("closure_traces", {"now"}) /\ Judge("directed", seen, closure_row(seen))
  BY <1>1 DEF run_coherent_closure
<1>3. closure_row(seen) => seen = {}
  BY DEF Observations, closure_row
<1>4. closure_row(seen) /\ swallowed' \subseteq swallowed \cup Excused
  BY <1>2, <1>3, NoneSwallowed
<1>5. report' = [report EXCEPT !["directed"] = Rows({"now"}, TRUE, TRUE)]
  BY <1>2, <1>4 DEF Write
<1>6. /\ Sound("directed")'
      /\ \A s \in Report \ {"directed"} : report'[s] = report[s]
  BY <1>5 DEF Typed, Sound, Complete, Allowed, Searching, Rows, Report, CacheReport,
     CoherentReport
<1>7. Fills("closure_traces")
  BY <1>2, Renewed DEF Replaced, Directory, CacheTrace, CoherentTrace
<1> QED
  BY <1>4, <1>6, <1>7 DEF Effect, Fills

(* run_coherent_transport_edges, likewise.                                 *)
LEMMA TransportEffect ==
  ASSUME Typed, run_coherent_transport_edges, result' # "failed"
  PROVE  Effect({"qos"}, {}, {"transport_traces"})
<1>1. ~Abort
  BY DEF Abort, Exit
<1>2. PICK seen \in Observations({"exit_code", "scoreboard"}) :
        /\ Write("qos", Rows({"now"}, TRUE, transport_row(seen)))
        /\ Replace("transport_traces", {"now"}) /\ Judge("qos", seen, transport_row(seen))
  BY <1>1 DEF run_coherent_transport_edges
<1>3. transport_row(seen) => seen = {}
  BY DEF Observations, transport_row
<1>4. transport_row(seen) /\ swallowed' \subseteq swallowed \cup Excused
  BY <1>2, <1>3, NoneSwallowed
<1>5. report' = [report EXCEPT !["qos"] = Rows({"now"}, TRUE, TRUE)]
  BY <1>2, <1>4 DEF Write
<1>6. /\ Sound("qos")'
      /\ \A s \in Report \ {"qos"} : report'[s] = report[s]
  BY <1>5 DEF Typed, Sound, Complete, Allowed, Searching, Rows, Report, CacheReport,
     CoherentReport
<1>7. Fills("transport_traces")
  BY <1>2, Renewed DEF Replaced, Directory, CacheTrace, CoherentTrace
<1> QED
  BY <1>4, <1>6, <1>7 DEF Effect, Fills

(* run_coherent_coverage_edges.                                            *)
LEMMA CoverageEdgesEffect ==
  ASSUME Typed, run_coherent_coverage_edges, result' # "failed"
  PROVE  Effect({"coverage_edges"}, {}, {"coverage_edge_traces"})
<1>1. ~Abort
  BY DEF Abort, Exit
<1>2. PICK seen \in Observations(SimulationFailure \cup {"required_event_missing"}) :
        /\ Write("coverage_edges", Rows({"now"}, TRUE, edge_row(seen)))
        /\ Refill("coverage_edge_traces") /\ Judge("coverage_edges", seen, edge_row(seen))
  BY <1>1 DEF run_coherent_coverage_edges, RunAborts
<1>3. edge_row(seen) => seen = {}
  BY DEF Observations, SimulationFailure, edge_row
<1>4. edge_row(seen) /\ swallowed' \subseteq swallowed \cup Excused
  BY <1>2, <1>3, NoneSwallowed
<1>5. report' = [report EXCEPT !["coverage_edges"] = Rows({"now"}, TRUE, TRUE)]
  BY <1>2, <1>4 DEF Write
<1>6. /\ Sound("coverage_edges")'
      /\ \A s \in Report \ {"coverage_edges"} : report'[s] = report[s]
  BY <1>5 DEF Typed, Sound, Complete, Allowed, Searching, Rows, Report, CacheReport,
     CoherentReport
<1>7. Fills("coverage_edge_traces")
  BY <1>2, Refilled DEF Replaced, Directory, CacheTrace, CoherentTrace
<1> QED
  BY <1>4, <1>6, <1>7 DEF Effect, Fills

(* run_coherent_performance_rtl.                                           *)
LEMMA PerformanceEffect ==
  ASSUME Typed, run_coherent_performance_rtl, result' # "failed"
  PROVE  Effect({"performance"}, {}, {})
<1>1. ~Abort
  BY DEF Abort, Exit
<1>2. PICK seen \in Observations(SimulationFailure) :
        /\ Write("performance", Rows({"now"}, TRUE, performance_row(seen)))
        /\ UNCHANGED files /\ Judge("rtl_performance", seen, performance_row(seen))
  BY <1>1 DEF run_coherent_performance_rtl
<1>3. performance_row(seen) => seen = {}
  BY DEF Observations, SimulationFailure, performance_row
<1>4. performance_row(seen) /\ swallowed' \subseteq swallowed \cup Excused
  BY <1>2, <1>3, NoneSwallowed
<1>5. report' = [report EXCEPT !["performance"] = Rows({"now"}, TRUE, TRUE)]
  BY <1>2, <1>4 DEF Write
<1>6. /\ Sound("performance")'
      /\ \A s \in Report \ {"performance"} : report'[s] = report[s]
  BY <1>5 DEF Typed, Sound, Complete, Allowed, Searching, Rows, Report, CacheReport,
     CoherentReport
<1> QED
  BY <1>2, <1>4, <1>6 DEF Effect

(* run_coherent_formal.                                                    *)
LEMMA CoherentFormalEffect ==
  ASSUME Typed, run_coherent_formal, result' # "failed"
  PROVE  Effect({"formal"}, {}, {})
<1>1. ~Abort
  BY DEF Abort, Exit
<1>2. PICK seen \in Observations({"prove", "cover"}) :
        /\ Write("formal", Rows({"now"}, TRUE, formal_row(seen)))
        /\ UNCHANGED files /\ Judge("formal", seen, formal_row(seen))
  BY <1>1 DEF run_coherent_formal
<1>3. formal_row(seen) => seen = {}
  BY DEF Observations, formal_row
<1>4. formal_row(seen) /\ swallowed' \subseteq swallowed \cup Excused
  BY <1>2, <1>3, NoneSwallowed
<1>5. report' = [report EXCEPT !["formal"] = Rows({"now"}, TRUE, TRUE)]
  BY <1>2, <1>4 DEF Write
<1>6. /\ Sound("formal")'
      /\ \A s \in Report \ {"formal"} : report'[s] = report[s]
  BY <1>5 DEF Typed, Sound, Complete, Allowed, Searching, Rows, Report, CacheReport,
     CoherentReport
<1> QED
  BY <1>2, <1>4, <1>6 DEF Effect

(* run_coherent_rtl_litmus: herd's report is written again with its own.   *)
LEMMA LitmusEffect ==
  ASSUME Typed, run_coherent_rtl_litmus, result' # "failed"
  PROVE  Effect({"herd", "rtl_litmus"}, {}, {"rtl_litmus_traces"})
<1>1. PICK seen \in Observations(LitmusFailure) :
        /\ report' = [report EXCEPT !["herd"] = Rows({"now"}, TRUE, TRUE),
                                    !["rtl_litmus"] = Rows({"now"}, TRUE, litmus_row(seen))]
        /\ Refill("rtl_litmus_traces") /\ Judge("rtl_litmus", seen, litmus_row(seen))
  BY DEF run_coherent_rtl_litmus, Exit
<1>2. litmus_row(seen) => seen = {}
  BY DEF Observations, SimulationFailure, LitmusFailure, litmus_row, permitted
<1>3. litmus_row(seen) /\ swallowed' \subseteq swallowed \cup Excused
  BY <1>1, <1>2, NoneSwallowed
<1>4. report' = [report EXCEPT !["herd"] = Rows({"now"}, TRUE, TRUE),
                               !["rtl_litmus"] = Rows({"now"}, TRUE, TRUE)]
  BY <1>1, <1>3
<1>5. /\ Sound("herd")' /\ Sound("rtl_litmus")'
      /\ \A s \in Report \ {"herd", "rtl_litmus"} : report'[s] = report[s]
  BY <1>4 DEF Typed, Sound, Complete, Allowed, Searching, Rows, Report, CacheReport,
     CoherentReport
<1>6. Fills("rtl_litmus_traces")
  BY <1>1, Refilled DEF Replaced, Directory, CacheTrace, CoherentTrace
<1> QED
  BY <1>3, <1>5, <1>6 DEF Effect, Fills

(* The probe runs are the only ones whose failures are dropped.            *)
LEMMA ErrorResetEffect ==
  ASSUME Typed, run_coherent_error_reset, result' # "failed"
  PROVE  Effect({"error_reset"}, {}, {"edge_traces"})
<1>1. ~Abort
  BY DEF Abort, Exit
<1>2. PICK seen \in Observations({"exit_code", "not_done", "event_replay", "wrong_result",
                                  "fault_pending", "wrong_epoch"}),
           probe \in Observations({"probe_failed"}) :
        /\ Write("error_reset", Rows({"now"}, TRUE, reset_row(seen)))
        /\ Refill("edge_traces") /\ Judge("error_reset", seen \cup probe, reset_row(seen))
  BY <1>1 DEF run_coherent_error_reset, RunAborts
<1>3. reset_row(seen)
  BY <1>2 DEF Judge, Exit
<1>4. seen = {} /\ probe \subseteq {"probe_failed"}
  BY <1>3 DEF Observations, reset_row, execute
<1>5. swallowed' = swallowed \cup ({"error_reset"} \X probe)
  BY <1>2, <1>3, <1>4 DEF Judge
<1>6. {"error_reset"} \X probe \subseteq Excused
  <2>1. {"error_reset"} \X probe \subseteq {"error_reset"} \X {"probe_failed"}
    BY <1>4
  <2>2. {"error_reset"} \X {"probe_failed"} = {<<"error_reset", "probe_failed">>}
    OBVIOUS
  <2> QED
    BY <2>1, <2>2 DEF Excused
<1>7. report' = [report EXCEPT !["error_reset"] = Rows({"now"}, TRUE, TRUE)]
  BY <1>2, <1>3 DEF Write
<1>8. /\ Sound("error_reset")'
      /\ \A s \in Report \ {"error_reset"} : report'[s] = report[s]
  BY <1>7 DEF Typed, Sound, Complete, Allowed, Searching, Rows, Report, CoherentReport
<1>9. Fills("edge_traces")
  BY <1>2, Refilled DEF Replaced, Directory, CacheTrace, CoherentTrace
<1>10. swallowed' \subseteq swallowed \cup Excused
  BY <1>5, <1>6
<1> QED
  BY <1>8, <1>9, <1>10 DEF Effect, Fills

(* gen_coherent_closure_summary: as fresh as the three reports it          *)
(* combines.                                                               *)
LEMMA ClosureSummaryEffect ==
  ASSUME Typed, Sound("directed"), Sound("error_reset"), Sound("qos"),
         gen_coherent_closure_summary, result' # "failed"
  PROVE  Effect({"closure"}, {}, {})
<1>1. ~Abort
  BY DEF Abort, Exit
<1>2. PICK core \in BOOLEAN :
        /\ report' = [r \in Report |-> IF r \in {"closure"}
             THEN Rows(Sources(ClosureInputs), TRUE, combined(core)) ELSE report[r]]
        /\ Judge("closure_summary", IF combined(core) THEN {} ELSE {"failed_row"}, combined(core))
  BY <1>1 DEF gen_coherent_closure_summary, Derives
<1>3. combined(core) /\ swallowed' \subseteq swallowed \cup Excused
  BY <1>2, NoneSwallowed
<1>4. Sources(ClosureInputs) \subseteq {"now"}
  BY DEF Sources, ClosureInputs, Sound, Allowed, Searching
<1>5. /\ Sound("closure")'
      /\ \A s \in Report \ {"closure"} : report'[s] = report[s]
  BY <1>2, <1>3, <1>4 DEF Sound, Complete, Allowed, Rows, Report, CoherentReport
<1> QED
  BY <1>3, <1>5 DEF Effect, gen_coherent_closure_summary

(* gen_coherent_advanced_coverage: it reads traces only by the names in    *)
(* the reports, so removed cases do not count.                             *)
LEMMA AdvancedEffect ==
  ASSUME Typed, Sound("directed"), Sound("error_reset"), Sound("qos"),
         Current("closure_traces"), Current("edge_traces"), Current("transport_traces"),
         gen_coherent_advanced_coverage, result' # "failed"
  PROVE  Effect({"advanced"}, {}, {})
<1>1. ~Abort
  BY DEF Abort, Exit
<1>2. PICK seen \in Observations({"bin_missing"}) :
        /\ report' = [r \in Report |-> IF r \in {"advanced"}
             THEN Rows(Sources(ClosureInputs) \cup NamedAges(ClosureTraces), TRUE, seen = {})
             ELSE report[r]]
        /\ Judge("advanced_coverage", seen, seen = {})
  <2>1. PICK seen \in Observations({"bin_missing"}) :
          Derives("advanced_coverage", ClosureInputs, ClosureTraces,
                  [advanced |-> Rows(Sources(ClosureInputs) \cup NamedAges(ClosureTraces), TRUE, seen = {})],
                  seen, seen = {})
    BY DEF gen_coherent_advanced_coverage
  <2> DEFINE ages == Sources(ClosureInputs) \cup NamedAges(ClosureTraces)
  <2> HIDE DEF ages
  <2>2. Derives("advanced_coverage", ClosureInputs, ClosureTraces,
              [advanced |-> Rows(ages, TRUE, seen = {})], seen, seen = {})
    BY <2>1 DEF ages
  <2>3. /\ report' = [r \in Report |-> IF r \in DOMAIN [advanced |-> Rows(ages, TRUE, seen = {})]
             THEN [advanced |-> Rows(ages, TRUE, seen = {})][r] ELSE report[r]]
        /\ Judge("advanced_coverage", seen, seen = {})
    BY <1>1, <2>2 DEF Derives
  <2>4. PICK one : one = [advanced |-> Rows(ages, TRUE, seen = {})]
    OBVIOUS
  <2>5. DOMAIN one = {"advanced"} /\ one["advanced"] = Rows(ages, TRUE, seen = {})
    BY <2>4
  <2>6. report' = [r \in Report |-> IF r \in {"advanced"} THEN one[r] ELSE report[r]]
    BY <2>3, <2>4, <2>5
  <2>7. report' = [r \in Report |-> IF r \in {"advanced"} THEN Rows(ages, TRUE, seen = {}) ELSE report[r]]
    BY <2>5, <2>6
  <2> QED
    BY <2>3, <2>7 DEF ages
<1>3. seen = {} /\ swallowed' \subseteq swallowed \cup Excused
  BY <1>2, NoneSwallowed
<1>4. Sources(ClosureInputs) \subseteq {"now"}
  BY DEF Sources, ClosureInputs, Sound, Allowed, Searching
<1>5. NamedAges(ClosureTraces) \subseteq {"now"}
  BY DEF NamedAges, ClosureTraces, Named, Current, Replaced
<1>6. /\ Sound("advanced")'
      /\ \A s \in Report \ {"advanced"} : report'[s] = report[s]
  BY <1>2, <1>3, <1>4, <1>5 DEF Sound, Complete, Allowed, Rows, Report, CoherentReport
<1> QED
  BY <1>3, <1>6 DEF Effect, gen_coherent_advanced_coverage

(* gen_coherent_assertion_activation, likewise; the closure traces, which  *)
(* it searches, were emptied first.                                        *)
LEMMA ActivationEffect ==
  ASSUME Typed, Sound("error_reset"), Sound("qos"),
         Current("closure_traces"), Current("edge_traces"), Current("transport_traces"),
         gen_coherent_assertion_activation, result' # "failed"
  PROVE  Effect({"activation"}, {}, {})
<1>1. ~Abort
  BY DEF Abort, Exit
<1>2. PICK seen \in Observations({"not_activated"}) :
        /\ report' = [r \in Report |-> IF r \in {"activation"}
             THEN Rows(Sources(ActivationInputs) \cup Ages({"closure_traces"})
                         \cup NamedAges({"edge_traces", "transport_traces"}), TRUE, seen = {})
             ELSE report[r]]
        /\ Judge("assertion_activation", seen, seen = {})
  <2>1. PICK seen \in Observations({"not_activated"}) :
          Derives("assertion_activation", ActivationInputs, {"edge_traces", "transport_traces"},
                  [activation |-> Rows(Sources(ActivationInputs) \cup Ages({"closure_traces"})
                                         \cup NamedAges({"edge_traces", "transport_traces"}), TRUE, seen = {})],
                  seen, seen = {})
    BY DEF gen_coherent_assertion_activation
  <2> DEFINE ages == Sources(ActivationInputs) \cup Ages({"closure_traces"})
                       \cup NamedAges({"edge_traces", "transport_traces"})
  <2> HIDE DEF ages
  <2>2. Derives("assertion_activation", ActivationInputs, {"edge_traces", "transport_traces"},
              [activation |-> Rows(ages, TRUE, seen = {})], seen, seen = {})
    BY <2>1 DEF ages
  <2>3. /\ report' = [r \in Report |-> IF r \in DOMAIN [activation |-> Rows(ages, TRUE, seen = {})]
             THEN [activation |-> Rows(ages, TRUE, seen = {})][r] ELSE report[r]]
        /\ Judge("assertion_activation", seen, seen = {})
    BY <1>1, <2>2 DEF Derives
  <2>4. PICK one : one = [activation |-> Rows(ages, TRUE, seen = {})]
    OBVIOUS
  <2>5. DOMAIN one = {"activation"} /\ one["activation"] = Rows(ages, TRUE, seen = {})
    BY <2>4
  <2>6. report' = [r \in Report |-> IF r \in {"activation"} THEN one[r] ELSE report[r]]
    BY <2>3, <2>4, <2>5
  <2>7. report' = [r \in Report |-> IF r \in {"activation"} THEN Rows(ages, TRUE, seen = {}) ELSE report[r]]
    BY <2>5, <2>6
  <2> QED
    BY <2>3, <2>7 DEF ages
<1>3. seen = {} /\ swallowed' \subseteq swallowed \cup Excused
  BY <1>2, NoneSwallowed
<1>4. Sources(ActivationInputs) \subseteq {"now"}
  BY DEF Sources, ActivationInputs, Sound, Allowed, Searching
<1>5. /\ Ages({"closure_traces"}) \subseteq {"now"}
      /\ NamedAges({"edge_traces", "transport_traces"}) \subseteq {"now"}
  BY DEF NamedAges, Ages, Named, Current, Replaced
<1>6. /\ Sound("activation")'
      /\ \A s \in Report \ {"activation"} : report'[s] = report[s]
  BY <1>2, <1>3, <1>4, <1>5 DEF Sound, Complete, Allowed, Rows, Report, CoherentReport
<1> QED
  BY <1>3, <1>6 DEF Effect, gen_coherent_assertion_activation

(* A planted defect is detected, or the script fails.                      *)
LEMMA RtlMutationsEffect ==
  ASSUME Typed, run_coherent_rtl_mutations, result' # "failed"
  PROVE  Effect({"rtl_mutation"}, {}, {})
<1>1. ~Abort
  BY DEF Abort, Exit
<1>2. PICK kind \in DOMAIN Symptom : \E seen \in Observations(Symptom[kind]) :
        /\ Write("rtl_mutation", Rows({"now"}, TRUE, detected(kind, seen)))
        /\ Judge("rtl_mutations", IF seen = {} THEN {"survived"} ELSE {}, detected(kind, seen))
  BY <1>1 DEF run_coherent_rtl_mutations
<1>3. PICK seen \in Observations(Symptom[kind]) :
        /\ Write("rtl_mutation", Rows({"now"}, TRUE, detected(kind, seen)))
        /\ Judge("rtl_mutations", IF seen = {} THEN {"survived"} ELSE {}, detected(kind, seen))
  BY <1>2
<1>4. detected(kind, seen) => (IF seen = {} THEN {"survived"} ELSE {}) = {}
  BY DEF detected
<1>5. detected(kind, seen) /\ swallowed' \subseteq swallowed \cup Excused
  BY <1>3, <1>4, NoneSwallowed
<1>6. report' = [report EXCEPT !["rtl_mutation"] = Rows({"now"}, TRUE, TRUE)]
  BY <1>3, <1>5 DEF Write
<1>7. /\ Sound("rtl_mutation")'
      /\ \A s \in Report \ {"rtl_mutation"} : report'[s] = report[s]
  BY <1>6 DEF Typed, Sound, Complete, Allowed, Searching, Rows, Report, CoherentReport
<1> QED
  BY <1>5, <1>7 DEF Effect, run_coherent_rtl_mutations

(* run_coherent_code_coverage: the holes are listed, and not yet judged.   *)
LEMMA CodeCoverageEffect ==
  ASSUME Typed, run_coherent_code_coverage, result' # "failed"
  PROVE  Effect({"coherent_code_coverage"}, {"coherent_holes"}, {}) /\ Reviewable'
<1>1. ~Abort
  BY DEF Abort, Exit
<1>2. PICK low \in Observations({"line", "branch", "expression"}), unreviewed \in BOOLEAN :
        /\ report' = [report EXCEPT
             !["coherent_code_coverage"] = Rows({"now"}, TRUE, low \cap {"line", "branch"} = {}),
             !["coherent_holes"] = Rows({"now"}, TRUE, ~unreviewed)]
        /\ Judge("code_coverage", low, status(low))
  BY <1>1 DEF run_coherent_code_coverage
<1>3. status(low) => low = {}
  BY DEF status, Observations
<1>4. low = {} /\ swallowed' \subseteq swallowed \cup Excused
  BY <1>2, <1>3, NoneSwallowed
<1>5. /\ Sound("coherent_code_coverage")' /\ Reviewable'
      /\ \A s \in Report \ {"coherent_code_coverage", "coherent_holes"} : report'[s] = report[s]
  BY <1>2, <1>4 DEF Typed, Sound, Complete, Allowed, Searching, Rows, Report,
     CoherentReport,
                    Reviewable
<1> QED
  BY <1>4, <1>5 DEF Effect, run_coherent_code_coverage

(* check_coherent_coverage_review: it passes when the listed holes are all *)
(* reviewed.                                                               *)
LEMMA CoverageReviewEffect ==
  ASSUME Typed, Reviewable, check_coherent_coverage_review, result' # "failed"
  PROVE  Effect({"coherent_holes"}, {}, {})
<1>1. ~Abort
  BY DEF Abort, Exit
<1>2. /\ UNCHANGED <<report, files>>
      /\ Judge("coverage_review", unresolved, unresolved = {})
  BY <1>1 DEF check_coherent_coverage_review
<1>3. unresolved = {} /\ swallowed' \subseteq swallowed \cup Excused
  BY <1>2, NoneSwallowed
<1>4. Sound("coherent_holes")'
  BY <1>2, <1>3 DEF Reviewable, unresolved, Sound, Complete, Allowed
<1> QED
  BY <1>2, <1>3, <1>4 DEF Effect

(* gen_coherent_coverage: it searches directories, so removed cases may    *)
(* count.                                                                  *)
LEMMA CoverageEffect ==
  ASSUME Typed, Sound("rtl_litmus"), Sound("error_reset"), Sound("performance"),
         Current("rtl_litmus_traces"), Current("event_traces"), Current("edge_traces"),
         Current("coverage_edge_traces"),
         gen_coherent_coverage, result' # "failed"
  PROVE  Effect({"functional", "crosses"}, {}, {})
<1>1. ~Abort
  BY DEF Abort, Exit
<1>2. PICK seen \in Observations({"point_missing", "cross_missing"}) :
        /\ report' = [r \in Report |-> IF r \in {"functional", "crosses"}
             THEN [functional |-> Rows(Sources(CoverageInputs) \cup event_index, TRUE, "point_missing" \notin seen),
                   crosses |-> Rows(Sources(CoverageInputs) \cup event_index, TRUE, "cross_missing" \notin seen)][r]
             ELSE report[r]]
        /\ Judge("coherent_coverage", seen, seen = {})
  BY <1>1 DEF gen_coherent_coverage, Derives
<1>3. seen = {} /\ swallowed' \subseteq swallowed \cup Excused
  BY <1>2, NoneSwallowed
<1>4. Sources(CoverageInputs) \subseteq {"now"}
  BY DEF Sources, CoverageInputs, Sound, Allowed, Searching
<1>5. event_index \subseteq {"now", "stale"}
  BY DEF event_index, Ages, Current, Replaced
<1>6. /\ Sound("functional")' /\ Sound("crosses")'
      /\ \A s \in Report \ {"functional", "crosses"} : report'[s] = report[s]
  BY <1>2, <1>3, <1>4, <1>5 DEF Sound, Complete, Allowed, Searching, Rows, Report,
     CoherentReport
<1> QED
  BY <1>3, <1>6 DEF Effect, gen_coherent_coverage

(* gen_coherent_dashboard exits with 0 whatever the rows say: in a gate    *)
(* the reports it reads have passed already.                               *)
LEMMA DashboardEffect ==
  ASSUME Typed, Sound("rtl_litmus"), Sound("directed"), Sound("model_litmus"), Sound("gcc"),
         Sound("random"), gen_coherent_dashboard, result' # "failed"
  PROVE  Effect({"reference"}, {}, {})
<1>1. ~Abort
  BY DEF Abort, Exit
<1>2. PICK good \in BOOLEAN :
        /\ good = (\A r \in refs : report[r].good)
        /\ Write("reference", Rows(Sources(refs), TRUE, good))
        /\ Judge("dashboard", IF good THEN {} ELSE {"failed_row"}, Exists("performance"))
  BY <1>1 DEF gen_coherent_dashboard
<1>3. good /\ Sources(refs) \subseteq {"now"}
  BY <1>2 DEF refs, RefInputs, Sources, Sound, Complete, Allowed, Searching
<1>4. swallowed' \subseteq swallowed \cup Excused
  <2>1. Judge("dashboard", {}, Exists("performance"))
    BY <1>2, <1>3
  <2> QED
    BY <2>1, NoneSwallowed
<1>5. report' = [report EXCEPT !["reference"] = Rows(Sources(refs), TRUE, TRUE)]
  BY <1>2, <1>3 DEF Write
<1>6. /\ Sound("reference")'
      /\ \A s \in Report \ {"reference"} : report'[s] = report[s]
  BY <1>3, <1>5 DEF Typed, Sound, Complete, Allowed, Rows, Report, CoherentReport
<1> QED
  BY <1>4, <1>6 DEF Effect, gen_coherent_dashboard

-------------------------------------------------------------------------------
(* The scripts of the cache lane.  A suite that derives its reports from   *)
(* present runs alone.                                                     *)
LEMMA FreshSuite ==
  ASSUME Typed, NEW line, NEW rs \in SUBSET Report, NEW ds \in SUBSET (Directory \ Replaced),
         NEW failures, Suite(line, rs, ds, {"now"}, failures), result' # "failed"
  PROVE  Effect(rs, {}, ds)
<1>1. PICK ages : ages = {"now"}
  OBVIOUS
<1>2. AgesFit(ages, rs)
  BY <1>1 DEF AgesFit, Allowed
<1>3. Suite(line, rs, ds, ages, failures)
  BY <1>1
<1> QED
  BY <1>2, <1>3, SuiteEffect

(* run_integration_features coherence.                                     *)
LEMMA CoherenceEffect ==
  ASSUME Typed, run_feature("coherence"), result' # "failed"
  PROVE  Effect({"coherence"}, {}, {})
<1>1. ~GivesUp
  BY DEF GivesUp, Abort, Exit
<1>2. PICK rs, ds, failures :
        rs = {"coherence"} /\ ds = {} /\ failures = {"exit_code", "check_missing",
          "check_failed"}
  OBVIOUS
<1>3. Suite("coherence", rs, ds, {"now"}, failures)
  BY <1>1, <1>2 DEF run_feature
<1>4. rs \in SUBSET Report /\ ds \in SUBSET (Directory \ Replaced)
  BY <1>2 DEF Report, CacheReport, Directory, CacheTrace, CoverageData, Replaced
<1> QED
  BY <1>2, <1>3, <1>4, FreshSuite

(* run_integration_features bist.                                          *)
LEMMA BistEffect ==
  ASSUME Typed, run_feature("bist"), result' # "failed"
  PROVE  Effect({"bist"}, {}, {})
<1>1. ~GivesUp
  BY DEF GivesUp, Abort, Exit
<1>2. PICK rs, ds, failures :
        rs = {"bist"} /\ ds = {} /\ failures = {"exit_code", "check_missing",
          "check_failed"}
  OBVIOUS
<1>3. Suite("bist", rs, ds, {"now"}, failures)
  BY <1>1, <1>2 DEF run_feature
<1>4. rs \in SUBSET Report /\ ds \in SUBSET (Directory \ Replaced)
  BY <1>2 DEF Report, CacheReport, Directory, CacheTrace, CoverageData, Replaced
<1> QED
  BY <1>2, <1>3, <1>4, FreshSuite

(* run_cache_array_bist.                                                   *)
LEMMA ArrayBistEffect ==
  ASSUME Typed, run_cache_array_bist, result' # "failed"
  PROVE  Effect({"array_bist"}, {}, {})
<1>1. ~GivesUp
  BY DEF GivesUp, Abort, Exit
<1>2. PICK rs, ds, failures :
        rs = {"array_bist"} /\ ds = {} /\ failures = {"compile", "exit_code",
          "not_covered"}
  OBVIOUS
<1>3. Suite("array_bist", rs, ds, {"now"}, failures)
  BY <1>1, <1>2 DEF run_cache_array_bist
<1>4. rs \in SUBSET Report /\ ds \in SUBSET (Directory \ Replaced)
  BY <1>2 DEF Report, CacheReport, Directory, CacheTrace, CoverageData, Replaced
<1> QED
  BY <1>2, <1>3, <1>4, FreshSuite

(* run_bug_validation.                                                     *)
LEMMA BugValidationEffect ==
  ASSUME Typed, run_bug_validation, result' # "failed"
  PROVE  Effect({"bug_validation"}, {}, {})
<1>1. ~GivesUp
  BY DEF GivesUp, Abort, Exit
<1>2. PICK rs, ds, failures : rs = {"bug_validation"} /\ ds = {} /\ failures = {"missed"}
  OBVIOUS
<1>3. Suite("bug_validation", rs, ds, {"now"}, failures)
  BY <1>1, <1>2 DEF run_bug_validation
<1>4. rs \in SUBSET Report /\ ds \in SUBSET (Directory \ Replaced)
  BY <1>2 DEF Report, CacheReport, Directory, CacheTrace, CoverageData, Replaced
<1> QED
  BY <1>2, <1>3, <1>4, FreshSuite

(* gen_debug_waveform.                                                     *)
LEMMA WaveformEffect ==
  ASSUME Typed, gen_debug_waveform, result' # "failed"
  PROVE  Effect({"debug_waveform"}, {}, {})
<1>1. ~GivesUp
  BY DEF GivesUp, Abort, Exit
<1>2. PICK rs, ds, failures : rs = {"debug_waveform"} /\ ds = {} /\ failures = {}
  OBVIOUS
<1>3. Suite("debug_waveform", rs, ds, {"now"}, failures)
  BY <1>1, <1>2 DEF gen_debug_waveform
<1>4. rs \in SUBSET Report /\ ds \in SUBSET (Directory \ Replaced)
  BY <1>2 DEF Report, CacheReport, Directory, CacheTrace, CoverageData, Replaced
<1> QED
  BY <1>2, <1>3, <1>4, FreshSuite

(* run_ras: it leaves coverage data.                                       *)
LEMMA RasEffect ==
  ASSUME Typed, run_ras, result' # "failed"
  PROVE  Effect({"ras"}, {}, {"coverage_secded"})
<1>1. ~GivesUp
  BY DEF GivesUp, Abort, Exit
<1>2. PICK rs, ds, failures :
        rs = {"ras"} /\ ds = {"coverage_secded"} /\ failures = {"exit_code",
          "no_result", "not_covered"}
  OBVIOUS
<1>3. Suite("ras", rs, ds, {"now"}, failures)
  BY <1>1, <1>2 DEF run_ras
<1>4. rs \in SUBSET Report /\ ds \in SUBSET (Directory \ Replaced)
  BY <1>2 DEF Report, CacheReport, Directory, CacheTrace, CoverageData, Replaced
<1> QED
  BY <1>2, <1>3, <1>4, FreshSuite

(* run_coverage_edges: it leaves coverage data of two geometries.          *)
LEMMA CacheEdgesEffect ==
  ASSUME Typed, run_coverage_edges, result' # "failed"
  PROVE  Effect({"cache_edges"}, {}, {"coverage_edges", "coverage_direct_mapped"})
<1>1. ~GivesUp
  BY DEF GivesUp, Abort, Exit
<1>2. PICK rs, ds, failures :
        rs = {"cache_edges"} /\ ds = {"coverage_edges", "coverage_direct_mapped"} /\
          failures = {"exit_code", "no_result"}
  OBVIOUS
<1>3. Suite("edges", rs, ds, {"now"}, failures)
  BY <1>1, <1>2 DEF run_coverage_edges
<1>4. rs \in SUBSET Report /\ ds \in SUBSET (Directory \ Replaced)
  BY <1>2 DEF Report, CacheReport, Directory, CacheTrace, CoverageData, Replaced
<1> QED
  BY <1>2, <1>3, <1>4, FreshSuite

(* run_associativity, the check.                                           *)
LEMMA VariantsEffect ==
  ASSUME Typed, check_variants, result' # "failed"
  PROVE  Effect({"associativity_check"}, {}, {})
<1>1. ~GivesUp
  BY DEF GivesUp, Abort, Exit
<1>2. PICK rs, ds, failures :
        rs = {"associativity_check"} /\ ds = {} /\ failures = {"exit_code", "model"}
  OBVIOUS
<1>3. Suite("associativity", rs, ds, {"now"}, failures)
  BY <1>1, <1>2 DEF check_variants
<1>4. rs \in SUBSET Report /\ ds \in SUBSET (Directory \ Replaced)
  BY <1>2 DEF Report, CacheReport, Directory, CacheTrace, CoverageData, Replaced
<1> QED
  BY <1>2, <1>3, <1>4, FreshSuite

(* run_nonblocking_cache.                                                  *)
LEMMA NonblockingEffect ==
  ASSUME Typed, run_nonblocking_cache, result' # "failed"
  PROVE  Effect({"nonblocking"}, {}, {})
<1>1. ~GivesUp
  BY DEF GivesUp, Abort, Exit
<1>2. PICK rs, ds, failures :
        rs = {"nonblocking"} /\ ds = {} /\ failures = {"exit_code", "no_result",
          "not_covered"}
  OBVIOUS
<1>3. Suite("nonblocking", rs, ds, {"now"}, failures)
  BY <1>1, <1>2 DEF run_nonblocking_cache
<1>4. rs \in SUBSET Report /\ ds \in SUBSET (Directory \ Replaced)
  BY <1>2 DEF Report, CacheReport, Directory, CacheTrace, CoverageData, Replaced
<1> QED
  BY <1>2, <1>3, <1>4, FreshSuite

(* run_stress: it needs the simulator and the manifest of this gate.       *)
LEMMA StressEffect ==
  ASSUME Typed, Current("binary"), Sound("stress_manifest"),
         run_stress, result' # "failed"
  PROVE  Effect({"stress"}, {}, {"stress_traces"})
<1>1. ~GivesUp
  BY DEF GivesUp, Abort, Exit
<1>2. PICK rs, ds, ages, failures :
        rs = {"stress"} /\ ds = {"stress_traces"} /\ failures = {"exit_code", "no_result"}
          /\ ages = files["binary"] \cup Sources({"stress_manifest"})
  OBVIOUS
<1>3. Suite("stress", rs, ds, ages, failures)
  BY <1>1, <1>2 DEF run_stress
<1>4. rs \in SUBSET Report /\ ds \in SUBSET (Directory \ Replaced)
  BY <1>2 DEF Report, CacheReport, Directory, CacheTrace, CoverageData, Replaced
<1>5. AgesFit(ages, rs)
  BY <1>2 DEF AgesFit, Current, Replaced, Sources, Sound, Allowed, Searching
<1> QED
  BY <1>2, <1>3, <1>4, <1>5, SuiteEffect

(* run_cross_scenarios: it leaves traces, and no report.                   *)
LEMMA CrossScenariosEffect ==
  ASSUME Typed,
         run_cross_scenarios, result' # "failed"
  PROVE  Effect({}, {}, {"cross_trace"})
<1>1. ~GivesUp
  BY DEF GivesUp, Abort, Exit
<1>2. PICK rs, ds, ages, failures :
        rs = {} /\ ds = {"cross_trace"} /\ failures = {"exit_code"}
          /\ ages = {}
  OBVIOUS
<1>3. Suite("cross_scenarios", rs, ds, ages, failures)
  BY <1>1, <1>2 DEF run_cross_scenarios
<1>4. rs \in SUBSET Report /\ ds \in SUBSET (Directory \ Replaced)
  BY <1>2 DEF Report, CacheReport, Directory, CacheTrace, CoverageData, Replaced
<1>5. AgesFit(ages, rs)
  BY <1>2 DEF AgesFit
<1> QED
  BY <1>2, <1>3, <1>4, <1>5, SuiteEffect

(* gen_cross_coverage: every trace of the lane counts.                     *)
LEMMA CrossCoverageEffect ==
  ASSUME Typed, Current("traces"), Current("performance_points"), Current("stress_traces"), Current("cross_trace"),
         gen_cross_coverage, result' # "failed"
  PROVE  Effect({"cache_cross"}, {}, {})
<1>1. ~GivesUp
  BY DEF GivesUp, Abort, Exit
<1>2. PICK rs, ds, ages, failures :
        rs = {"cache_cross"} /\ ds = {} /\ failures = {"bin_missing"}
          /\ ages = Ages(CacheTrace)
  OBVIOUS
<1>3. Suite("cross_coverage", rs, ds, ages, failures)
  BY <1>1, <1>2 DEF gen_cross_coverage
<1>4. rs \in SUBSET Report /\ ds \in SUBSET (Directory \ Replaced)
  BY <1>2 DEF Report, CacheReport, Directory, CacheTrace, CoverageData, Replaced
<1>5. AgesFit(ages, rs)
  BY <1>2 DEF AgesFit, Ages, CacheTrace, Current, Allowed, Searching
<1> QED
  BY <1>2, <1>3, <1>4, <1>5, SuiteEffect

(* run_associativity, the comparison: it quotes the synthesis report.      *)
LEMMA CharacterizeEffect ==
  ASSUME Typed, Sound("synthesis"),
         characterize, result' # "failed"
  PROVE  Effect({"associativity"}, {}, {})
<1>1. ~GivesUp
  BY DEF GivesUp, Abort, Exit
<1>2. PICK rs, ds, ages, failures :
        rs = {"associativity"} /\ ds = {} /\ failures = {"no_advantage"}
          /\ ages = {"now"} \cup Sources({"synthesis"})
  OBVIOUS
<1>3. Suite("characterize", rs, ds, ages, failures)
  BY <1>1, <1>2 DEF characterize
<1>4. rs \in SUBSET Report /\ ds \in SUBSET (Directory \ Replaced)
  BY <1>2 DEF Report, CacheReport, Directory, CacheTrace, CoverageData, Replaced
<1>5. AgesFit(ages, rs)
  BY <1>2 DEF AgesFit, Sources, Sound, Allowed, Searching
<1> QED
  BY <1>2, <1>3, <1>4, <1>5, SuiteEffect

(* gen_coverage_report: a point needs the row of its test.                 *)
LEMMA FunctionalEffect ==
  ASSUME Typed, Sound("regress"), gen_coverage_report, result' # "failed"
  PROVE  Effect({"functional_coverage"}, {}, {})
<1>1. ~Abort
  BY DEF Abort, Exit
<1>2. PICK seen \in Observations({"point_missing"}) :
        /\ Write("functional_coverage", Rows(Sources({"regress"}), TRUE, seen = {}))
        /\ Judge("functional_coverage", seen, seen = {})
  BY <1>1 DEF gen_coverage_report
<1>3. seen = {} /\ swallowed' \subseteq swallowed \cup Excused
  BY <1>2, NoneSwallowed
<1>4. Sources({"regress"}) \subseteq {"now"}
  BY DEF Sources, Sound, Allowed, Searching
<1>5. report' = [report EXCEPT !["functional_coverage"] = Rows(Sources({"regress"}), TRUE, TRUE)]
  BY <1>2, <1>3 DEF Write
<1>6. /\ Sound("functional_coverage")'
      /\ \A s \in Report \ {"functional_coverage"} : report'[s] = report[s]
  BY <1>4, <1>5 DEF Typed, Sound, Complete, Allowed, Searching, Rows, Report, CacheReport
<1> QED
  BY <1>3, <1>6 DEF Effect, gen_coverage_report

(* run_performance_sweep: it runs the simulator that is there.             *)
LEMMA CachePerformanceEffect ==
  ASSUME Typed, Current("binary"), run_performance_sweep, result' # "failed"
  PROVE  Effect({"cache_performance"}, {}, {"performance_points"})
<1>1. ~Abort
  BY DEF Abort, Exit
<1>2. /\ report' = [report EXCEPT !["cache_performance"] = Rows(files["binary"], TRUE, TRUE)]
      /\ Filed({"performance_points"}, TRUE) /\ Judge("performance", {}, TRUE)
  BY <1>1 DEF run_performance_sweep, Write
<1>3. swallowed' \subseteq swallowed \cup Excused
  BY <1>2 DEF Judge
<1>4. files["binary"] \subseteq {"now"}
  BY DEF Current, Replaced
<1>5. /\ Sound("cache_performance")'
      /\ \A s \in Report \ {"cache_performance"} : report'[s] = report[s]
  BY <1>2, <1>4 DEF Typed, Sound, Complete, Allowed, Searching, Rows, Report, CacheReport
<1>6. files' = [files EXCEPT !["performance_points"] = Overwritten("performance_points")]
  BY <1>2 DEF Filed, Typed
<1>7. Fills("performance_points")
  BY <1>6, Refilled DEF Refill, Replaced, Directory, CacheTrace
<1> QED
  BY <1>3, <1>5, <1>7 DEF Effect, Fills

(* gen_stress_manifest.                                                    *)
LEMMA ManifestEffect ==
  ASSUME Typed, gen_stress_manifest
  PROVE  Effect({"stress_manifest"}, {}, {})
<1>1. /\ report' = [report EXCEPT !["stress_manifest"] = Rows({"now"}, TRUE, TRUE)]
      /\ Judge("stress_manifest", {}, TRUE)
  BY DEF gen_stress_manifest, Write
<1>2. swallowed' \subseteq swallowed \cup Excused
  BY <1>1 DEF Judge
<1>3. /\ Sound("stress_manifest")'
      /\ \A s \in Report \ {"stress_manifest"} : report'[s] = report[s]
  BY <1>1 DEF Typed, Sound, Complete, Allowed, Searching, Rows, Report, CacheReport
<1> QED
  BY <1>2, <1>3 DEF Effect, gen_stress_manifest

(* run_msi_random: it builds the checker.                                  *)
LEMMA MsiRandomEffect ==
  ASSUME Typed, run_msi_random, result' # "failed"
  PROVE  Effect({"msi_random"}, {}, {"msi_checker"})
<1>1. ~Abort
  BY DEF Abort, Exit
<1>2. PICK seen \in Observations(MsiFailure) :
        /\ Write("msi_random", Rows({"now"}, TRUE, seen = {}))
        /\ Replace("msi_checker", {"now"}) /\ Judge("msi_random", seen, seen = {})
  BY <1>1 DEF run_msi_random
<1>3. seen = {} /\ swallowed' \subseteq swallowed \cup Excused
  BY <1>2, NoneSwallowed
<1>4. report' = [report EXCEPT !["msi_random"] = Rows({"now"}, TRUE, TRUE)]
  BY <1>2, <1>3 DEF Write
<1>5. /\ Sound("msi_random")'
      /\ \A s \in Report \ {"msi_random"} : report'[s] = report[s]
  BY <1>4 DEF Typed, Sound, Complete, Allowed, Searching, Rows, Report, CacheReport
<1>6. Fills("msi_checker")
  BY <1>2, Renewed DEF Directory
<1> QED
  BY <1>3, <1>5, <1>6 DEF Effect, Fills

(* The checker is there, so that the campaign of 25 seeds is not repeated  *)
(* with one.                                                               *)
LEMMA MsiMutationsEffect ==
  ASSUME Typed, Current("msi_checker"), run_msi_mutations, result' # "failed"
  PROVE  Effect({"msi_mutation"}, {}, {})
<1>1. ~WithoutChecker /\ files["msi_checker"] = {"now"}
  BY DEF Current, Replaced, WithoutChecker
<1>2. PICK seen \in Observations({"missed"}) :
        /\ report' = [report EXCEPT
             !["msi_random"] = @,
             !["msi_mutation"] = Rows({"now"} \cup files["msi_checker"], TRUE, seen = {})]
        /\ Replace("msi_checker", files["msi_checker"])
        /\ Judge("msi_mutations", seen, seen = {})
  BY <1>1 DEF run_msi_mutations
<1>3. seen = {} /\ swallowed' \subseteq swallowed \cup Excused
  BY <1>2, NoneSwallowed
<1>4. /\ Sound("msi_mutation")'
      /\ \A s \in Report \ {"msi_mutation"} : report'[s] = report[s]
  BY <1>1, <1>2, <1>3 DEF Typed, Sound, Complete, Allowed, Searching, Rows, Report,
     CacheReport
<1>5. \A d \in Directory : files'[d] = files[d]
  BY <1>2 DEF Typed, Replace
<1> QED
  BY <1>3, <1>4, <1>5 DEF Effect

(* A part of the traces is replayed; the report is settled later.          *)
LEMMA PartReplayEffect ==
  ASSUME Typed, NEW line, NEW ages, run_model_trace(line, ages), result' # "failed"
  PROVE  Effect({}, {"model_trace"}, {})
<1>1. ~Abort
  BY DEF Abort, Exit
<1>2. PICK seen \in Observations({"mismatch"}) :
        /\ Write("model_trace", Rows(ages, line = "replay_all", seen = {}))
        /\ Judge(line, seen, seen = {})
  BY <1>1 DEF run_model_trace
<1>3. seen = {} /\ swallowed' \subseteq swallowed \cup Excused
  BY <1>2, NoneSwallowed
<1>4. \A s \in Report \ {"model_trace"} : report'[s] = report[s]
  BY <1>2 DEF Write, Typed
<1> QED
  BY <1>3, <1>4 DEF Effect, run_model_trace

(* run_model_trace on every trace of the lane.                             *)
LEMMA ReplayEffect ==
  ASSUME Typed, Current("traces"), Current("performance_points"), Current("stress_traces"),
         Current("cross_trace"), run_model_trace("replay_all", Ages(CacheTrace)),
         result' # "failed"
  PROVE  Effect({"model_trace"}, {}, {})
<1>1. ~Abort
  BY DEF Abort, Exit
<1>2. PICK seen \in Observations({"mismatch"}) :
        /\ Write("model_trace", Rows(Ages(CacheTrace), TRUE, seen = {}))
        /\ Judge("replay_all", seen, seen = {})
  BY <1>1 DEF run_model_trace
<1>3. seen = {} /\ swallowed' \subseteq swallowed \cup Excused
  BY <1>2, NoneSwallowed
<1>4. Ages(CacheTrace) \subseteq {"now", "stale"}
  BY DEF Ages, CacheTrace, Current
<1>5. report' = [report EXCEPT !["model_trace"] = Rows(Ages(CacheTrace), TRUE, TRUE)]
  BY <1>2, <1>3 DEF Write
<1>6. /\ Sound("model_trace")'
      /\ \A s \in Report \ {"model_trace"} : report'[s] = report[s]
  BY <1>4, <1>5 DEF Typed, Sound, Complete, Allowed, Searching, Rows, Report, CacheReport
<1> QED
  BY <1>3, <1>6 DEF Effect, run_model_trace

(* Coverage is merged twice: what the first call counts is settled by the  *)
(* second.                                                                 *)
LEMMA FirstMergeEffect ==
  ASSUME Typed, gen_code_coverage, result' # "failed"
  PROVE  Effect({}, {"code_coverage"}, {})
<1>1. ~Abort
  BY DEF Abort, Exit
<1>2. /\ Write("code_coverage", Rows(Ages(CoverageData), summarized, TRUE))
      /\ Judge("merge_coverage", {}, TRUE)
  BY <1>1 DEF gen_code_coverage
<1>3. swallowed' \subseteq swallowed \cup Excused
  BY <1>2 DEF Judge
<1>4. \A s \in Report \ {"code_coverage"} : report'[s] = report[s]
  BY <1>2 DEF Write, Typed
<1> QED
  BY <1>3, <1>4 DEF Effect, gen_code_coverage

(* gen_code_coverage, when the data of all four campaigns are there.       *)
LEMMA MergeEffect ==
  ASSUME Typed, Current("coverage"), Current("coverage_edges"),
         Current("coverage_direct_mapped"), Current("coverage_secded"),
         gen_code_coverage, result' # "failed"
  PROVE  Effect({"code_coverage"}, {}, {})
<1>1. ~Abort
  BY DEF Abort, Exit
<1>2. summarized /\ Ages(CoverageData) \subseteq {"now", "stale"}
  BY DEF Ages, CoverageData, Current, summarized
<1>3. /\ report' = [report EXCEPT !["code_coverage"] = Rows(Ages(CoverageData), TRUE, TRUE)]
      /\ Judge("merge_coverage", {}, TRUE)
  BY <1>1, <1>2 DEF gen_code_coverage, Write
<1>4. swallowed' \subseteq swallowed \cup Excused
  BY <1>3 DEF Judge
<1>5. /\ Sound("code_coverage")'
      /\ \A s \in Report \ {"code_coverage"} : report'[s] = report[s]
  BY <1>2, <1>3 DEF Typed, Sound, Complete, Allowed, Searching, Rows, Report, CacheReport
<1> QED
  BY <1>4, <1>5 DEF Effect, gen_code_coverage

(* gen_coverage_hole_review, whatever it reads.                            *)
LEMMA FirstReviewEffect ==
  ASSUME Typed, gen_coverage_hole_review
  PROVE  Effect({}, {"hole_review"}, {})
<1>1. PICK content : Write("hole_review", content) /\ Judge("review_holes", {}, TRUE)
  BY DEF gen_coverage_hole_review
<1>2. swallowed' \subseteq swallowed \cup Excused
  BY <1>1 DEF Judge
<1>3. \A s \in Report \ {"hole_review"} : report'[s] = report[s]
  BY <1>1 DEF Write, Typed
<1> QED
  BY <1>2, <1>3 DEF Effect, gen_coverage_hole_review

(* gen_coverage_hole_review of a sound report.                             *)
LEMMA ReviewEffect ==
  ASSUME Typed, Sound("code_coverage"), gen_coverage_hole_review
  PROVE  Effect({"hole_review"}, {}, {})
<1>1. Exists("code_coverage")
  BY DEF Sound, Complete, Exists, NoFile, Rows
<1>2. PICK holes \in BOOLEAN :
        /\ Write("hole_review", Rows(Sources({"code_coverage"}), TRUE, ~holes))
        /\ Judge("review_holes", {}, TRUE)
  BY <1>1 DEF gen_coverage_hole_review
<1>3. swallowed' \subseteq swallowed \cup Excused
  BY <1>2 DEF Judge
<1>4. Sources({"code_coverage"}) \subseteq {"now", "stale"}
  BY DEF Sources, Sound, Allowed
<1>5. /\ Sound("hole_review")'
      /\ \A s \in Report \ {"hole_review"} : report'[s] = report[s]
  BY <1>2, <1>4 DEF Write, Typed, Sound, Complete, Allowed, Searching, Rows, Report,
     CacheReport
<1> QED
  BY <1>3, <1>5 DEF Effect, gen_coverage_hole_review

(* Without yosys there is no row that fails.                               *)
LEMMA SynthesisEffect ==
  ASSUME Typed, NEW line, NEW r \in {"synthesis", "integration_synthesis"},
         run_synthesis(line, r), result' # "failed"
  PROVE  Effect({r}, {}, {})
<1>1. PICK skip \in BOOLEAN, seen \in Observations({"synthesis"}) :
        /\ Write(r, Rows({"now"}, ~skip, skip \/ seen = {}))
        /\ Judge(line, IF skip THEN {} ELSE seen, skip \/ seen = {})
  BY DEF run_synthesis
<1>2. (skip \/ seen = {}) => (IF skip THEN {} ELSE seen) = {}
  OBVIOUS
<1>3. swallowed' \subseteq swallowed \cup Excused
  BY <1>1, <1>2, NoneSwallowed
<1>4. /\ Sound(r)'
      /\ \A s \in Report \ {r} : report'[s] = report[s]
  BY <1>1 DEF Write, Typed, Sound, Complete, Allowed, Searching, Rows, Report, CacheReport
<1> QED
  BY <1>3, <1>4 DEF Effect, run_synthesis

(* ---- The scripts that summarise. ----                                   *)
LEMMA MetricsEffect ==
  ASSUME Typed, gen_metrics, result' # "failed"
  PROVE  Effect({}, {"metrics"}, {})
<1>1. ~Abort
  BY DEF Abort, Exit
<1>2. PICK content : Write("metrics", content) /\ Judge("metrics", {}, TRUE)
  BY <1>1 DEF gen_metrics
<1>3. swallowed' \subseteq swallowed \cup Excused
  BY <1>2 DEF Judge
<1>4. \A s \in Report \ {"metrics"} : report'[s] = report[s]
  BY <1>2 DEF Write, Typed
<1> QED
  BY <1>3, <1>4 DEF Effect, gen_metrics

(* update_readme_metrics: the table quotes the reports as they are.        *)
LEMMA ReadmeEffect ==
  ASSUME Typed, update_readme_metrics, result' # "failed"
  PROVE  /\ UNCHANGED <<files, report, swallowed>>
         /\ \A r \in Quoted : readme'[r] = report[r]
<1>1. Quotable
  BY DEF update_readme_metrics, Exit
<1>2. /\ readme' = [r \in Report |-> IF r \in Quoted THEN report[r] ELSE NoFile]
      /\ Judge("readme", {}, TRUE) /\ UNCHANGED <<files, report>>
  BY <1>1 DEF update_readme_metrics
<1>3. swallowed' = swallowed
  BY <1>2 DEF Judge
<1>4. Quoted \subseteq Report
  BY DEF Quoted, CacheRow, CoherentRow, Report, CacheReport, CoherentReport
<1> QED
  BY <1>2, <1>3, <1>4

(* check_docs passes only with the report of the GCC matrix there: the     *)
(* table has its coherent rows.                                            *)
LEMMA DocsEffect ==
  ASSUME check_docs, result' # "failed"
  PROVE  UNCHANGED <<files, report, readme>> /\ Exists("gcc") /\ swallowed' = swallowed
<1>1. ~Abort
  BY DEF Abort, Exit
<1>2. /\ \A r \in Opened : Exists(r)
      /\ UNCHANGED <<files, report, readme>>
  BY <1>1 DEF check_docs
<1>3. PICK failures : Judge("docs", failures, failures = {})
  BY <1>1 DEF check_docs
<1>4. failures = {}
  BY <1>3 DEF Judge, Exit
<1>5. swallowed' = swallowed
  BY <1>3, <1>4 DEF Judge
<1>6. "gcc" \in Opened
  BY DEF Opened, CoherentRow
<1> QED
  BY <1>2, <1>5, <1>6

-------------------------------------------------------------------------------
(* Every script keeps the types, and makes the next line due or stops.     *)
Stepped ==
  /\ goal' = goal /\ todo' \in {Tail(todo), <<>>}
  /\ result' # "failed" => todo' = Tail(todo)
  /\ result' = "running" <=> todo' # <<>>

Kept == /\ todo # <<>> /\ Stepped
        /\ report' = [r \in Report |-> report'[r]]
        /\ files' \in [Directory -> SUBSET Age]

(* The types survive a script.                                             *)
LEMMA KeptTyped ==
  ASSUME Typed, Kept
  PROVE  Typed'
<1>1. todo' \in Seq(Line)
  <2>1. todo \in Seq(Line) /\ todo # <<>> /\ todo' \in {Tail(todo), <<>>}
    BY DEF Typed, Kept, Stepped
  <2>2. Tail(todo) \in Seq(Line) /\ <<>> \in Seq(Line)
    BY <2>1
  <2> QED
    BY <2>1, <2>2
<1> QED
  BY <1>1 DEF Typed, Kept

(* The scripts of the cache lane.                                          *)
LEMMA CacheKept ==
  ASSUME Typed, CacheScripts
  PROVE  Kept
<1>1. ASSUME NEW line, Tool(line)
      PROVE  Kept
  <2>1. todo # <<>> /\ Stepped
    BY <1>1 DEF Tool, At, Stepped, Abort, GivesUp, Judge, Exit
  <2>2. report' = [s \in Report |-> report'[s]]
    BY <1>1 DEF Tool, Typed, Write, Abort, GivesUp
  <2>3. files' \in [Directory -> SUBSET Age]
    BY <1>1 DEF Tool, Typed, Abort, GivesUp, Age, Overwritten, Refill, Replace, Filed
  <2> QED
    BY <2>1, <2>2, <2>3 DEF Kept
<1>2. ASSUME NEW mode, run_regression(mode)
      PROVE  Kept
  <2>1. todo # <<>> /\ Stepped
    BY <1>2 DEF run_regression, At, Stepped, Abort, GivesUp, Judge, Exit
  <2>2. report' = [s \in Report |-> report'[s]]
    BY <1>2 DEF run_regression, Typed, Write, Abort, GivesUp
  <2>3. files' \in [Directory -> SUBSET Age]
    <3>1. CASE UNCHANGED files
      BY <3>1 DEF Typed
    <3>2. CASE ~UNCHANGED files
      <4>1. PICK ok \in BOOLEAN : files' = [files EXCEPT
              !["binary"] = {"now"},
              !["traces"] = IF ok /\ mode # "regress_smoke" THEN Overwritten("traces") ELSE @ \cup {"now"},
              !["coverage"] = IF mode # "regress_coverage" THEN @
                              ELSE IF ok THEN Overwritten("coverage") ELSE @ \cup {"now"}]
        BY <1>2, <3>2 DEF run_regression, GivesUp
      <4>2. \A d \in {"traces", "coverage"} :
              {files[d], files[d] \cup {"now"}, Overwritten(d)} \subseteq SUBSET Age
        BY DEF Typed, Directory, CacheTrace, CoverageData, Overwritten, Age
      <4>3. {"now"} \in SUBSET Age
        BY DEF Age
      <4> QED
        BY <4>1, <4>2, <4>3 DEF Typed
    <3> QED
      BY <3>1, <3>2
  <2> QED
    BY <2>1, <2>2, <2>3 DEF Kept
<1>3. ASSUME NEW line, NEW ages, run_model_trace(line, ages)
      PROVE  Kept
  <2>1. todo # <<>> /\ Stepped
    BY <1>3 DEF run_model_trace, At, Stepped, Abort, GivesUp, Judge, Exit
  <2>2. report' = [s \in Report |-> report'[s]]
    BY <1>3 DEF run_model_trace, Typed, Write, Abort, GivesUp
  <2>3. files' \in [Directory -> SUBSET Age]
    BY <1>3 DEF run_model_trace, Typed, Abort, GivesUp, Age, Overwritten, Refill,
       Replace, Filed
  <2> QED
    BY <2>1, <2>2, <2>3 DEF Kept
<1>4. ASSUME gen_coverage_report
      PROVE  Kept
  <2>1. todo # <<>> /\ Stepped
    BY <1>4 DEF gen_coverage_report, At, Stepped, Abort, GivesUp, Judge, Exit
  <2>2. report' = [s \in Report |-> report'[s]]
    BY <1>4 DEF gen_coverage_report, Typed, Write, Abort, GivesUp
  <2>3. files' \in [Directory -> SUBSET Age]
    BY <1>4 DEF gen_coverage_report, Typed, Abort, GivesUp, Age, Overwritten, Refill,
       Replace, Filed
  <2> QED
    BY <2>1, <2>2, <2>3 DEF Kept
<1>5. ASSUME run_performance_sweep
      PROVE  Kept
  <2>1. todo # <<>> /\ Stepped
    BY <1>5 DEF run_performance_sweep, At, Stepped, Abort, GivesUp, Judge, Exit
  <2>2. report' = [s \in Report |-> report'[s]]
    BY <1>5 DEF run_performance_sweep, Typed, Write, Abort, GivesUp
  <2>3. files' \in [Directory -> SUBSET Age]
    <3>1. PICK ok \in BOOLEAN : Filed({"performance_points"}, ok)
      BY <1>5 DEF run_performance_sweep
    <3> QED
      BY <3>1 DEF Typed, Filed, Overwritten, Age
  <2> QED
    BY <2>1, <2>2, <2>3 DEF Kept
<1>6. ASSUME gen_stress_manifest
      PROVE  Kept
  <2>1. todo # <<>> /\ Stepped
    BY <1>6 DEF gen_stress_manifest, At, Stepped, Abort, GivesUp, Judge, Exit
  <2>2. report' = [s \in Report |-> report'[s]]
    BY <1>6 DEF gen_stress_manifest, Typed, Write, Abort, GivesUp
  <2>3. files' \in [Directory -> SUBSET Age]
    BY <1>6 DEF gen_stress_manifest, Typed, Abort, GivesUp, Age, Overwritten, Refill,
       Replace, Filed
  <2> QED
    BY <2>1, <2>2, <2>3 DEF Kept
<1>7. ASSUME run_msi_random
      PROVE  Kept
  <2>1. todo # <<>> /\ Stepped
    BY <1>7 DEF run_msi_random, At, Stepped, Abort, GivesUp, Judge, Exit
  <2>2. report' = [s \in Report |-> report'[s]]
    BY <1>7 DEF run_msi_random, Typed, Write, Abort, GivesUp
  <2>3. files' \in [Directory -> SUBSET Age]
    BY <1>7 DEF run_msi_random, Typed, Abort, GivesUp, Age, Overwritten, Refill,
       Replace, Filed
  <2> QED
    BY <2>1, <2>2, <2>3 DEF Kept
<1>8. ASSUME run_msi_mutations
      PROVE  Kept
  <2>1. todo # <<>> /\ Stepped
    BY <1>8 DEF run_msi_mutations, At, Stepped, Abort, GivesUp, Judge, Exit
  <2>2. report' = [s \in Report |-> report'[s]]
    BY <1>8 DEF run_msi_mutations, Typed, Write, Abort, GivesUp
  <2>3. files' \in [Directory -> SUBSET Age]
    BY <1>8 DEF run_msi_mutations, Typed, Abort, GivesUp, Age, Overwritten, Refill,
       Replace, Filed
  <2> QED
    BY <2>1, <2>2, <2>3 DEF Kept
<1>9. ASSUME gen_code_coverage
      PROVE  Kept
  <2>1. todo # <<>> /\ Stepped
    BY <1>9 DEF gen_code_coverage, At, Stepped, Abort, GivesUp, Judge, Exit
  <2>2. report' = [s \in Report |-> report'[s]]
    BY <1>9 DEF gen_code_coverage, Typed, Write, Abort, GivesUp
  <2>3. files' \in [Directory -> SUBSET Age]
    BY <1>9 DEF gen_code_coverage, Typed, Abort, GivesUp, Age, Overwritten, Refill,
       Replace, Filed
  <2> QED
    BY <2>1, <2>2, <2>3 DEF Kept
<1>10. ASSUME gen_coverage_hole_review
      PROVE  Kept
  <2>1. todo # <<>> /\ Stepped
    BY <1>10 DEF gen_coverage_hole_review, At, Stepped, Abort, GivesUp, Judge, Exit
  <2>2. report' = [s \in Report |-> report'[s]]
    BY <1>10 DEF gen_coverage_hole_review, Typed, Write, Abort, GivesUp
  <2>3. files' \in [Directory -> SUBSET Age]
    BY <1>10 DEF gen_coverage_hole_review, Typed, Abort, GivesUp, Age, Overwritten,
       Refill, Replace, Filed
  <2> QED
    BY <2>1, <2>2, <2>3 DEF Kept
<1>11. ASSUME NEW line, NEW r, run_synthesis(line, r)
      PROVE  Kept
  <2>1. todo # <<>> /\ Stepped
    BY <1>11 DEF run_synthesis, At, Stepped, Abort, GivesUp, Judge, Exit
  <2>2. report' = [s \in Report |-> report'[s]]
    BY <1>11 DEF run_synthesis, Typed, Write, Abort, GivesUp
  <2>3. files' \in [Directory -> SUBSET Age]
    BY <1>11 DEF run_synthesis, Typed, Abort, GivesUp, Age, Overwritten, Refill,
       Replace, Filed
  <2> QED
    BY <2>1, <2>2, <2>3 DEF Kept
<1>12. ASSUME NEW only, run_formal(only)
      PROVE  Kept
  <2>1. todo # <<>> /\ Stepped
    BY <1>12 DEF run_formal, At, Stepped, Abort, GivesUp, Judge, Exit
  <2>2. report' = [s \in Report |-> report'[s]]
    BY <1>12 DEF run_formal, Typed, Write, Abort, GivesUp
  <2>3. files' \in [Directory -> SUBSET Age]
    BY <1>12 DEF run_formal, Typed, Abort, GivesUp, Age, Overwritten, Refill, Replace,
       Filed
  <2> QED
    BY <2>1, <2>2, <2>3 DEF Kept
<1>13. ASSUME run_uvm
      PROVE  Kept
  <2>1. todo # <<>> /\ Stepped
    BY <1>13 DEF run_uvm, At, Stepped, Abort, GivesUp, Judge, Exit
  <2>2. report' = [s \in Report |-> report'[s]]
    BY <1>13 DEF run_uvm, Typed, Write, Abort, GivesUp
  <2>3. files' \in [Directory -> SUBSET Age]
    BY <1>13 DEF run_uvm, Typed, Abort, GivesUp, Age, Overwritten, Refill, Replace, Filed
  <2> QED
    BY <2>1, <2>2, <2>3 DEF Kept
<1>14. ASSUME todo # <<>>, NEW line, NEW rs, NEW ds, NEW ages, NEW failures,
             Suite(line, rs, ds, ages, failures)
      PROVE  Kept
  <2>1. todo # <<>> /\ Stepped
    BY <1>14 DEF Suite, At, Stepped, Abort, GivesUp, Judge, Exit
  <2>2. report' = [s \in Report |-> report'[s]]
    BY <1>14 DEF Suite, Typed, Write, Abort, GivesUp
  <2>3. files' \in [Directory -> SUBSET Age]
    BY <1>14 DEF Suite, Typed, Abort, GivesUp, Age, Overwritten, Refill, Replace, Filed
  <2> QED
    BY <2>1, <2>2, <2>3 DEF Kept
<1>15. ASSUME todo # <<>>, GivesUp
      PROVE  Kept
  BY <1>15 DEF Kept, Typed, Stepped, GivesUp, Abort, Exit
<1>16. ASSUME run_stress PROVE Kept
  BY <1>14, <1>15, <1>16 DEF run_stress, At
<1>17. ASSUME NEW name, run_feature(name) PROVE Kept
  BY <1>14, <1>15, <1>17 DEF run_feature, At
<1>18. ASSUME run_cache_array_bist PROVE Kept
  BY <1>14, <1>15, <1>18 DEF run_cache_array_bist, At
<1>19. ASSUME run_cross_scenarios PROVE Kept
  BY <1>14, <1>15, <1>19 DEF run_cross_scenarios, At
<1>20. ASSUME gen_cross_coverage PROVE Kept
  BY <1>14, <1>15, <1>20 DEF gen_cross_coverage, At
<1>21. ASSUME run_bug_validation PROVE Kept
  BY <1>14, <1>15, <1>21 DEF run_bug_validation, At
<1>22. ASSUME gen_debug_waveform PROVE Kept
  BY <1>14, <1>15, <1>22 DEF gen_debug_waveform, At
<1>23. ASSUME run_ras PROVE Kept
  BY <1>14, <1>15, <1>23 DEF run_ras, At
<1>24. ASSUME run_coverage_edges PROVE Kept
  BY <1>14, <1>15, <1>24 DEF run_coverage_edges, At
<1>25. ASSUME check_variants PROVE Kept
  BY <1>14, <1>15, <1>25 DEF check_variants, At
<1>26. ASSUME characterize PROVE Kept
  BY <1>14, <1>15, <1>26 DEF characterize, At
<1>27. ASSUME run_nonblocking_cache PROVE Kept
  BY <1>14, <1>15, <1>27 DEF run_nonblocking_cache, At
<1> QED
  BY <1>1, <1>2, <1>3, <1>4, <1>5, <1>6, <1>7, <1>8, <1>9, <1>10, <1>11, <1>12, <1>13,
     <1>16, <1>17, <1>18, <1>19, <1>20, <1>21, <1>22, <1>23, <1>24, <1>25, <1>26, <1>27
  DEF CacheScripts, check_uvm_env

(* The scripts of the coherent lane.                                       *)
LEMMA CoherentKept ==
  ASSUME Typed, CoherentScripts
  PROVE  Kept
<1>1. ASSUME NEW mode, NEW r, run_coherent_rv32(mode, r)
      PROVE  Kept
  <2>1. todo # <<>> /\ Stepped
    BY <1>1 DEF run_coherent_rv32, RunAborts, At, Stepped, Abort, GivesUp, Judge, Exit
  <2>2. report' = [s \in Report |-> report'[s]]
    BY <1>1 DEF run_coherent_rv32, RunAborts, Typed, Write, Abort, GivesUp
  <2>3. files' \in [Directory -> SUBSET Age]
    BY <1>1 DEF run_coherent_rv32, RunAborts, Typed, Abort, GivesUp, Age, Overwritten,
       Refill, Replace, Filed
  <2> QED
    BY <2>1, <2>2, <2>3 DEF Kept
<1>2. ASSUME run_coherent_herd
      PROVE  Kept
  <2>1. todo # <<>> /\ Stepped
    BY <1>2 DEF run_coherent_herd, At, Stepped, Abort, GivesUp, Judge, Exit
  <2>2. report' = [s \in Report |-> report'[s]]
    BY <1>2 DEF run_coherent_herd, Typed, Write, Abort, GivesUp
  <2>3. files' \in [Directory -> SUBSET Age]
    BY <1>2 DEF run_coherent_herd, Typed, Abort, GivesUp, Age, Overwritten, Refill,
       Replace, Filed
  <2> QED
    BY <2>1, <2>2, <2>3 DEF Kept
<1>3. ASSUME run_coherent_rtl_litmus
      PROVE  Kept
  <2>1. todo # <<>> /\ Stepped
    BY <1>3 DEF run_coherent_rtl_litmus, At, Stepped, Abort, GivesUp, Judge, Exit
  <2>2. report' = [s \in Report |-> report'[s]]
    BY <1>3 DEF run_coherent_rtl_litmus, Typed, Write, Abort, GivesUp
  <2>3. files' \in [Directory -> SUBSET Age]
    <3>1. CASE UNCHANGED files
      BY <3>1 DEF Typed
    <3>2. CASE files' = [files EXCEPT !["rtl_litmus_traces"] = @ \cup {"now"}]
      BY <3>2 DEF Typed, Age
    <3>3. CASE Refill("rtl_litmus_traces")
      BY <3>3 DEF Typed, Refill, Overwritten, Age
    <3> QED
      BY <1>3, <3>1, <3>2, <3>3 DEF run_coherent_rtl_litmus
  <2> QED
    BY <2>1, <2>2, <2>3 DEF Kept
<1>4. ASSUME NEW mode, NEW r, run_coherent_model(mode, r)
      PROVE  Kept
  <2>1. todo # <<>> /\ Stepped
    BY <1>4 DEF run_coherent_model, At, Stepped, Abort, GivesUp, Judge, Exit
  <2>2. report' = [s \in Report |-> report'[s]]
    BY <1>4 DEF run_coherent_model, Typed, Write, Abort, GivesUp
  <2>3. files' \in [Directory -> SUBSET Age]
    BY <1>4 DEF run_coherent_model, Typed, Abort, GivesUp, Age, Overwritten, Refill,
       Replace, Filed
  <2> QED
    BY <2>1, <2>2, <2>3 DEF Kept
<1>5. ASSUME run_coherent_closure
      PROVE  Kept
  <2>1. todo # <<>> /\ Stepped
    BY <1>5 DEF run_coherent_closure, At, Stepped, Abort, GivesUp, Judge, Exit
  <2>2. report' = [s \in Report |-> report'[s]]
    BY <1>5 DEF run_coherent_closure, Typed, Write, Abort, GivesUp
  <2>3. files' \in [Directory -> SUBSET Age]
    BY <1>5 DEF run_coherent_closure, Typed, Abort, GivesUp, Age, Overwritten, Refill,
       Replace, Filed
  <2> QED
    BY <2>1, <2>2, <2>3 DEF Kept
<1>6. ASSUME run_coherent_error_reset
      PROVE  Kept
  <2>1. todo # <<>> /\ Stepped
    BY <1>6 DEF run_coherent_error_reset, RunAborts, At, Stepped, Abort, GivesUp,
       Judge, Exit
  <2>2. report' = [s \in Report |-> report'[s]]
    BY <1>6 DEF run_coherent_error_reset, RunAborts, Typed, Write, Abort, GivesUp
  <2>3. files' \in [Directory -> SUBSET Age]
    BY <1>6 DEF run_coherent_error_reset, RunAborts, Typed, Abort, GivesUp, Age,
       Overwritten, Refill, Replace, Filed
  <2> QED
    BY <2>1, <2>2, <2>3 DEF Kept
<1>7. ASSUME run_coherent_transport_edges
      PROVE  Kept
  <2>1. todo # <<>> /\ Stepped
    BY <1>7 DEF run_coherent_transport_edges, At, Stepped, Abort, GivesUp, Judge, Exit
  <2>2. report' = [s \in Report |-> report'[s]]
    BY <1>7 DEF run_coherent_transport_edges, Typed, Write, Abort, GivesUp
  <2>3. files' \in [Directory -> SUBSET Age]
    BY <1>7 DEF run_coherent_transport_edges, Typed, Abort, GivesUp, Age, Overwritten,
       Refill, Replace, Filed
  <2> QED
    BY <2>1, <2>2, <2>3 DEF Kept
<1>8. ASSUME run_coherent_coverage_edges
      PROVE  Kept
  <2>1. todo # <<>> /\ Stepped
    BY <1>8 DEF run_coherent_coverage_edges, RunAborts, At, Stepped, Abort, GivesUp,
       Judge, Exit
  <2>2. report' = [s \in Report |-> report'[s]]
    BY <1>8 DEF run_coherent_coverage_edges, RunAborts, Typed, Write, Abort, GivesUp
  <2>3. files' \in [Directory -> SUBSET Age]
    BY <1>8 DEF run_coherent_coverage_edges, RunAborts, Typed, Abort, GivesUp, Age,
       Overwritten, Refill, Replace, Filed
  <2> QED
    BY <2>1, <2>2, <2>3 DEF Kept
<1>9. ASSUME run_coherent_performance_rtl
      PROVE  Kept
  <2>1. todo # <<>> /\ Stepped
    BY <1>9 DEF run_coherent_performance_rtl, At, Stepped, Abort, GivesUp, Judge, Exit
  <2>2. report' = [s \in Report |-> report'[s]]
    BY <1>9 DEF run_coherent_performance_rtl, Typed, Write, Abort, GivesUp
  <2>3. files' \in [Directory -> SUBSET Age]
    BY <1>9 DEF run_coherent_performance_rtl, Typed, Abort, GivesUp, Age, Overwritten,
       Refill, Replace, Filed
  <2> QED
    BY <2>1, <2>2, <2>3 DEF Kept
<1>10. ASSUME run_coherent_formal
      PROVE  Kept
  <2>1. todo # <<>> /\ Stepped
    BY <1>10 DEF run_coherent_formal, At, Stepped, Abort, GivesUp, Judge, Exit
  <2>2. report' = [s \in Report |-> report'[s]]
    BY <1>10 DEF run_coherent_formal, Typed, Write, Abort, GivesUp
  <2>3. files' \in [Directory -> SUBSET Age]
    BY <1>10 DEF run_coherent_formal, Typed, Abort, GivesUp, Age, Overwritten, Refill,
       Replace, Filed
  <2> QED
    BY <2>1, <2>2, <2>3 DEF Kept
<1>11. ASSUME run_coherent_rtl_mutations
      PROVE  Kept
  <2>1. todo # <<>> /\ Stepped
    BY <1>11 DEF run_coherent_rtl_mutations, At, Stepped, Abort, GivesUp, Judge, Exit
  <2>2. report' = [s \in Report |-> report'[s]]
    BY <1>11 DEF run_coherent_rtl_mutations, Typed, Write, Abort, GivesUp
  <2>3. files' \in [Directory -> SUBSET Age]
    BY <1>11 DEF run_coherent_rtl_mutations, Typed, Abort, GivesUp, Age, Overwritten,
       Refill, Replace, Filed
  <2> QED
    BY <2>1, <2>2, <2>3 DEF Kept
<1>12. ASSUME run_coherent_code_coverage
      PROVE  Kept
  <2>1. todo # <<>> /\ Stepped
    BY <1>12 DEF run_coherent_code_coverage, At, Stepped, Abort, GivesUp, Judge, Exit
  <2>2. report' = [s \in Report |-> report'[s]]
    BY <1>12 DEF run_coherent_code_coverage, Typed, Write, Abort, GivesUp
  <2>3. files' \in [Directory -> SUBSET Age]
    BY <1>12 DEF run_coherent_code_coverage, Typed, Abort, GivesUp, Age, Overwritten,
       Refill, Replace, Filed
  <2> QED
    BY <2>1, <2>2, <2>3 DEF Kept
<1>13. ASSUME check_coherent_coverage_review
      PROVE  Kept
  <2>1. todo # <<>> /\ Stepped
    BY <1>13 DEF check_coherent_coverage_review, At, Stepped, Abort, GivesUp, Judge, Exit
  <2>2. report' = [s \in Report |-> report'[s]]
    BY <1>13 DEF check_coherent_coverage_review, Typed, Write, Abort, GivesUp
  <2>3. files' \in [Directory -> SUBSET Age]
    BY <1>13 DEF check_coherent_coverage_review, Typed, Abort, GivesUp, Age,
       Overwritten, Refill, Replace, Filed
  <2> QED
    BY <2>1, <2>2, <2>3 DEF Kept
<1>14. ASSUME gen_coherent_closure_summary
      PROVE  Kept
  <2>1. todo # <<>> /\ Stepped
    BY <1>14 DEF gen_coherent_closure_summary, Derives, At, Stepped, Abort, GivesUp,
       Judge, Exit
  <2>2. report' = [s \in Report |-> report'[s]]
    BY <1>14 DEF gen_coherent_closure_summary, Derives, Typed, Write, Abort, GivesUp
  <2>3. files' \in [Directory -> SUBSET Age]
    BY <1>14 DEF gen_coherent_closure_summary, Derives, Typed, Abort, GivesUp, Age,
       Overwritten, Refill, Replace, Filed
  <2> QED
    BY <2>1, <2>2, <2>3 DEF Kept
<1>15. ASSUME gen_coherent_advanced_coverage
      PROVE  Kept
  <2>1. todo # <<>> /\ Stepped
    BY <1>15 DEF gen_coherent_advanced_coverage, Derives, At, Stepped, Abort, GivesUp,
       Judge, Exit
  <2>2. report' = [s \in Report |-> report'[s]]
    BY <1>15 DEF gen_coherent_advanced_coverage, Derives, Typed, Write, Abort, GivesUp
  <2>3. files' \in [Directory -> SUBSET Age]
    BY <1>15 DEF gen_coherent_advanced_coverage, Derives, Typed, Abort, GivesUp, Age,
       Overwritten, Refill, Replace, Filed
  <2> QED
    BY <2>1, <2>2, <2>3 DEF Kept
<1>16. ASSUME gen_coherent_assertion_activation
      PROVE  Kept
  <2>1. todo # <<>> /\ Stepped
    BY <1>16 DEF gen_coherent_assertion_activation, Derives, At, Stepped, Abort,
       GivesUp, Judge, Exit
  <2>2. report' = [s \in Report |-> report'[s]]
    BY <1>16 DEF gen_coherent_assertion_activation, Derives, Typed, Write, Abort, GivesUp
  <2>3. files' \in [Directory -> SUBSET Age]
    BY <1>16 DEF gen_coherent_assertion_activation, Derives, Typed, Abort, GivesUp,
       Age, Overwritten, Refill, Replace, Filed
  <2> QED
    BY <2>1, <2>2, <2>3 DEF Kept
<1>17. ASSUME gen_coherent_coverage
      PROVE  Kept
  <2>1. todo # <<>> /\ Stepped
    BY <1>17 DEF gen_coherent_coverage, Derives, At, Stepped, Abort, GivesUp, Judge, Exit
  <2>2. report' = [s \in Report |-> report'[s]]
    BY <1>17 DEF gen_coherent_coverage, Derives, Typed, Write, Abort, GivesUp
  <2>3. files' \in [Directory -> SUBSET Age]
    BY <1>17 DEF gen_coherent_coverage, Derives, Typed, Abort, GivesUp, Age,
       Overwritten, Refill, Replace, Filed
  <2> QED
    BY <2>1, <2>2, <2>3 DEF Kept
<1>18. ASSUME gen_coherent_dashboard
      PROVE  Kept
  <2>1. todo # <<>> /\ Stepped
    BY <1>18 DEF gen_coherent_dashboard, At, Stepped, Abort, GivesUp, Judge, Exit
  <2>2. report' = [s \in Report |-> report'[s]]
    BY <1>18 DEF gen_coherent_dashboard, Typed, Write, Abort, GivesUp
  <2>3. files' \in [Directory -> SUBSET Age]
    BY <1>18 DEF gen_coherent_dashboard, Typed, Abort, GivesUp, Age, Overwritten,
       Refill, Replace, Filed
  <2> QED
    BY <2>1, <2>2, <2>3 DEF Kept
<1> QED
  BY <1>1, <1>2, <1>3, <1>4, <1>5, <1>6, <1>7, <1>8, <1>9, <1>10, <1>11, <1>12, <1>13,
     <1>14, <1>15, <1>16, <1>17, <1>18
  DEF CoherentScripts

(* The closing scripts.                                                    *)
LEMMA ClosingKept ==
  ASSUME Typed, ClosingScripts
  PROVE  Kept
<1>1. ASSUME gen_metrics
      PROVE  Kept
  <2>1. todo # <<>> /\ Stepped
    BY <1>1 DEF gen_metrics, At, Stepped, Abort, GivesUp, Judge, Exit
  <2>2. report' = [s \in Report |-> report'[s]]
    BY <1>1 DEF gen_metrics, Typed, Write, Abort, GivesUp
  <2>3. files' \in [Directory -> SUBSET Age]
    BY <1>1 DEF gen_metrics, Typed, Abort, GivesUp, Age, Overwritten, Refill, Replace,
       Filed
  <2> QED
    BY <2>1, <2>2, <2>3 DEF Kept
<1>2. ASSUME update_readme_metrics
      PROVE  Kept
  <2>1. todo # <<>> /\ Stepped
    BY <1>2 DEF update_readme_metrics, At, Stepped, Abort, GivesUp, Judge, Exit
  <2>2. report' = [s \in Report |-> report'[s]]
    BY <1>2 DEF update_readme_metrics, Typed, Write, Abort, GivesUp
  <2>3. files' \in [Directory -> SUBSET Age]
    BY <1>2 DEF update_readme_metrics, Typed, Abort, GivesUp, Age, Overwritten,
       Refill, Replace, Filed
  <2> QED
    BY <2>1, <2>2, <2>3 DEF Kept
<1>3. ASSUME check_docs
      PROVE  Kept
  <2>1. todo # <<>> /\ Stepped
    BY <1>3 DEF check_docs, At, Stepped, Abort, GivesUp, Judge, Exit
  <2>2. report' = [s \in Report |-> report'[s]]
    BY <1>3 DEF check_docs, Typed, Write, Abort, GivesUp
  <2>3. files' \in [Directory -> SUBSET Age]
    BY <1>3 DEF check_docs, Typed, Abort, GivesUp, Age, Overwritten, Refill, Replace,
       Filed
  <2> QED
    BY <2>1, <2>2, <2>3 DEF Kept
<1> QED
  BY <1>1, <1>2, <1>3
  DEF ClosingScripts

-------------------------------------------------------------------------------
(* The lines of a recipe, in order.                                        *)
LEMMA Proceeds ==
  ASSUME NEW g \in Gate, NEW k \in 1 .. 37, todo \in Seq(Line), todo # <<>>, Position(g, k)
  PROVE  /\ k \in 1 .. Last(g) /\ Head(todo) = Lines(g)[k]
         /\ Stepped /\ result' # "failed" => Position(g, k + 1)'
<1>1. Last(g) \in {26, 36}
  BY DEF Last
<1>2. Len(todo) \in Nat /\ Len(todo) > 0
  OBVIOUS
<1>3. k \in 1 .. Last(g)
  BY <1>1, <1>2 DEF Position
<1>4. Head(todo) = Lines(g)[k]
  BY <1>2 DEF Position
<1>5. ASSUME Stepped, result' # "failed" PROVE Position(g, k + 1)'
  <2>1. todo' = Tail(todo)
    BY <1>5 DEF Stepped
  <2>2. Len(todo') = Len(todo) - 1 /\ \A i \in 1 .. Len(todo') : todo'[i] = todo[i + 1]
    BY <2>1, <1>2
  <2>3. Len(todo) = Last(g) + 1 - k /\ \A i \in 1 .. Len(todo) : todo[i] = Lines(g)[k + i - 1]
    BY DEF Position
  <2>4. \A i \in 1 .. Len(todo') : todo'[i] = Lines(g)[(k + 1) + i - 1]
    <3> TAKE i \in 1 .. Len(todo')
    <3>1. i + 1 \in 1 .. Len(todo) /\ k + (i + 1) - 1 = (k + 1) + i - 1
      BY <2>2, <1>1, <1>2
    <3> QED
      BY <2>2, <2>3, <3>1
  <2>5. k + 1 \in 1 .. Last(g) + 1 /\ Len(todo') = Last(g) + 1 - (k + 1)
    BY <1>1, <1>3, <2>2, <2>3
  <2> QED
    BY <2>4, <2>5 DEF Position
<1> QED
  BY <1>3, <1>4, <1>5

(* Where the lines of release-check stand.                                 *)
LEMMA CachePlaces ==
  ASSUME NEW k \in 1 .. 36
  PROVE  /\ Release[k] \in CacheLine
         /\ Release[k] = "lint" => k = 1
         /\ Release[k] = "model_test" => k = 2
         /\ Release[k] = "regress" => k = 3
         /\ Release[k] = "replay_regress" => k = 4
         /\ Release[k] = "functional_coverage" => k = 5
         /\ Release[k] = "performance" => k = 6
         /\ Release[k] = "stress_manifest" => k = 7
         /\ Release[k] = "coherence" => k = 8
         /\ Release[k] = "msi_random" => k = 9
         /\ Release[k] = "msi_mutations" => k = 10
         /\ Release[k] = "bist" => k = 11
         /\ Release[k] = "array_bist" => k = 12
         /\ Release[k] = "metrics" => k \in {13, 34}
         /\ Release[k] = "readme" => k \in {14, 35}
         /\ Release[k] = "stress" => k = 15
         /\ Release[k] = "replay_stress" => k = 16
         /\ Release[k] = "cross_scenarios" => k = 17
         /\ Release[k] = "cross_coverage" => k = 18
         /\ Release[k] = "bug_validation" => k = 19
         /\ Release[k] = "debug_waveform" => k = 20
         /\ Release[k] = "ras" => k = 21
         /\ Release[k] = "regress_coverage" => k = 22
         /\ Release[k] = "merge_coverage" => k \in {23, 26}
         /\ Release[k] = "review_holes" => k \in {24, 27}
         /\ Release[k] = "edges" => k = 25
         /\ Release[k] = "associativity" => k = 28
         /\ Release[k] = "synthesis" => k = 29
         /\ Release[k] = "characterize" => k = 30
         /\ Release[k] = "integration_synthesis" => k = 31
         /\ Release[k] = "nonblocking" => k = 32
         /\ Release[k] = "replay_all" => k = 33
         /\ Release[k] = "docs" => k = 36
<1>1. k \in {1, 2, 3, 4, 5, 6, 7, 8, 9, 10, 11, 12, 13, 14, 15, 16, 17, 18, 19, 20,
      21, 22, 23, 24, 25, 26, 27, 28, 29, 30, 31, 32, 33, 34, 35, 36}
  OBVIOUS
<1>2. PICK f : f = Release
  OBVIOUS
<1>3. /\ f[1] = "lint"
      /\ f[2] = "model_test"
      /\ f[3] = "regress"
      /\ f[4] = "replay_regress"
      /\ f[5] = "functional_coverage"
      /\ f[6] = "performance"
      /\ f[7] = "stress_manifest"
      /\ f[8] = "coherence"
      /\ f[9] = "msi_random"
      /\ f[10] = "msi_mutations"
      /\ f[11] = "bist"
      /\ f[12] = "array_bist"
      /\ f[13] = "metrics"
      /\ f[14] = "readme"
      /\ f[15] = "stress"
      /\ f[16] = "replay_stress"
      /\ f[17] = "cross_scenarios"
      /\ f[18] = "cross_coverage"
      /\ f[19] = "bug_validation"
      /\ f[20] = "debug_waveform"
      /\ f[21] = "ras"
      /\ f[22] = "regress_coverage"
      /\ f[23] = "merge_coverage"
      /\ f[24] = "review_holes"
      /\ f[25] = "edges"
      /\ f[26] = "merge_coverage"
      /\ f[27] = "review_holes"
      /\ f[28] = "associativity"
      /\ f[29] = "synthesis"
      /\ f[30] = "characterize"
      /\ f[31] = "integration_synthesis"
      /\ f[32] = "nonblocking"
      /\ f[33] = "replay_all"
      /\ f[34] = "metrics"
      /\ f[35] = "readme"
      /\ f[36] = "docs"
  BY <1>2, ReleaseLines
<1>4. Release[k] = f[k]
  BY <1>2
<1>5. Release[k] \in CacheLine
  BY <1>1, <1>3, <1>4 DEF CacheLine
<1>6. /\ Release[k] = "lint" => k = 1
      /\ Release[k] = "model_test" => k = 2
      /\ Release[k] = "regress" => k = 3
      /\ Release[k] = "replay_regress" => k = 4
      /\ Release[k] = "functional_coverage" => k = 5
      /\ Release[k] = "performance" => k = 6
  BY <1>1, <1>3, <1>4
<1>7. /\ Release[k] = "stress_manifest" => k = 7
      /\ Release[k] = "coherence" => k = 8
      /\ Release[k] = "msi_random" => k = 9
      /\ Release[k] = "msi_mutations" => k = 10
      /\ Release[k] = "bist" => k = 11
      /\ Release[k] = "array_bist" => k = 12
  BY <1>1, <1>3, <1>4
<1>8. /\ Release[k] = "metrics" => k \in {13, 34}
      /\ Release[k] = "readme" => k \in {14, 35}
      /\ Release[k] = "stress" => k = 15
      /\ Release[k] = "replay_stress" => k = 16
      /\ Release[k] = "cross_scenarios" => k = 17
      /\ Release[k] = "cross_coverage" => k = 18
  BY <1>1, <1>3, <1>4
<1>9. /\ Release[k] = "bug_validation" => k = 19
      /\ Release[k] = "debug_waveform" => k = 20
      /\ Release[k] = "ras" => k = 21
      /\ Release[k] = "regress_coverage" => k = 22
      /\ Release[k] = "merge_coverage" => k \in {23, 26}
      /\ Release[k] = "review_holes" => k \in {24, 27}
  BY <1>1, <1>3, <1>4
<1>10. /\ Release[k] = "edges" => k = 25
       /\ Release[k] = "associativity" => k = 28
       /\ Release[k] = "synthesis" => k = 29
       /\ Release[k] = "characterize" => k = 30
       /\ Release[k] = "integration_synthesis" => k = 31
       /\ Release[k] = "nonblocking" => k = 32
  BY <1>1, <1>3, <1>4
<1>11. /\ Release[k] = "replay_all" => k = 33
       /\ Release[k] = "docs" => k = 36
  BY <1>1, <1>3, <1>4
<1> QED
  BY <1>5, <1>6, <1>7, <1>8, <1>9, <1>10, <1>11

(* Where the lines of coherent-release-check stand.                        *)
LEMMA CoherentPlaces ==
  ASSUME NEW k \in 1 .. 26
  PROVE  /\ CoherentRelease[k] \in CoherentLine
         /\ CoherentRelease[k] = "coherent_lint" => k = 1
         /\ CoherentRelease[k] = "smoke" => k = 2
         /\ CoherentRelease[k] = "gcc" => k = 3
         /\ CoherentRelease[k] = "herd" => k = 4
         /\ CoherentRelease[k] = "rtl_litmus" => k = 5
         /\ CoherentRelease[k] = "model_litmus" => k = 6
         /\ CoherentRelease[k] = "model_random" => k = 7
         /\ CoherentRelease[k] = "directed" => k = 8
         /\ CoherentRelease[k] = "error_reset" => k = 9
         /\ CoherentRelease[k] = "qos" => k = 10
         /\ CoherentRelease[k] = "closure_summary" => k = 11
         /\ CoherentRelease[k] = "advanced_coverage" => k = 12
         /\ CoherentRelease[k] = "assertion_activation" => k = 13
         /\ CoherentRelease[k] = "coverage_edges" => k = 14
         /\ CoherentRelease[k] = "formal" => k = 15
         /\ CoherentRelease[k] = "model_mutations" => k = 16
         /\ CoherentRelease[k] = "rtl_mutations" => k = 17
         /\ CoherentRelease[k] = "code_coverage" => k = 18
         /\ CoherentRelease[k] = "coverage_review" => k = 19
         /\ CoherentRelease[k] = "model_performance" => k = 20
         /\ CoherentRelease[k] = "rtl_performance" => k = 21
         /\ CoherentRelease[k] = "coherent_coverage" => k = 22
         /\ CoherentRelease[k] = "dashboard" => k = 23
         /\ CoherentRelease[k] = "metrics" => k = 24
         /\ CoherentRelease[k] = "readme" => k = 25
         /\ CoherentRelease[k] = "docs" => k = 26
<1>1. k \in {1, 2, 3, 4, 5, 6, 7, 8, 9, 10, 11, 12, 13, 14, 15, 16, 17, 18, 19, 20,
      21, 22, 23, 24, 25, 26}
  OBVIOUS
<1>2. PICK f : f = CoherentRelease
  OBVIOUS
<1>3. /\ f[1] = "coherent_lint"
      /\ f[2] = "smoke"
      /\ f[3] = "gcc"
      /\ f[4] = "herd"
      /\ f[5] = "rtl_litmus"
      /\ f[6] = "model_litmus"
      /\ f[7] = "model_random"
      /\ f[8] = "directed"
      /\ f[9] = "error_reset"
      /\ f[10] = "qos"
      /\ f[11] = "closure_summary"
      /\ f[12] = "advanced_coverage"
      /\ f[13] = "assertion_activation"
      /\ f[14] = "coverage_edges"
      /\ f[15] = "formal"
      /\ f[16] = "model_mutations"
      /\ f[17] = "rtl_mutations"
      /\ f[18] = "code_coverage"
      /\ f[19] = "coverage_review"
      /\ f[20] = "model_performance"
      /\ f[21] = "rtl_performance"
      /\ f[22] = "coherent_coverage"
      /\ f[23] = "dashboard"
      /\ f[24] = "metrics"
      /\ f[25] = "readme"
      /\ f[26] = "docs"
  BY <1>2, CoherentReleaseLines
<1>4. CoherentRelease[k] = f[k]
  BY <1>2
<1>5. CoherentRelease[k] \in CoherentLine
  BY <1>1, <1>3, <1>4 DEF CoherentLine
<1>6. /\ CoherentRelease[k] = "coherent_lint" => k = 1
      /\ CoherentRelease[k] = "smoke" => k = 2
      /\ CoherentRelease[k] = "gcc" => k = 3
      /\ CoherentRelease[k] = "herd" => k = 4
      /\ CoherentRelease[k] = "rtl_litmus" => k = 5
      /\ CoherentRelease[k] = "model_litmus" => k = 6
  BY <1>1, <1>3, <1>4
<1>7. /\ CoherentRelease[k] = "model_random" => k = 7
      /\ CoherentRelease[k] = "directed" => k = 8
      /\ CoherentRelease[k] = "error_reset" => k = 9
      /\ CoherentRelease[k] = "qos" => k = 10
      /\ CoherentRelease[k] = "closure_summary" => k = 11
      /\ CoherentRelease[k] = "advanced_coverage" => k = 12
  BY <1>1, <1>3, <1>4
<1>8. /\ CoherentRelease[k] = "assertion_activation" => k = 13
      /\ CoherentRelease[k] = "coverage_edges" => k = 14
      /\ CoherentRelease[k] = "formal" => k = 15
      /\ CoherentRelease[k] = "model_mutations" => k = 16
      /\ CoherentRelease[k] = "rtl_mutations" => k = 17
      /\ CoherentRelease[k] = "code_coverage" => k = 18
  BY <1>1, <1>3, <1>4
<1>9. /\ CoherentRelease[k] = "coverage_review" => k = 19
      /\ CoherentRelease[k] = "model_performance" => k = 20
      /\ CoherentRelease[k] = "rtl_performance" => k = 21
      /\ CoherentRelease[k] = "coherent_coverage" => k = 22
      /\ CoherentRelease[k] = "dashboard" => k = 23
      /\ CoherentRelease[k] = "metrics" => k = 24
  BY <1>1, <1>3, <1>4
<1>10. /\ CoherentRelease[k] = "readme" => k = 25
       /\ CoherentRelease[k] = "docs" => k = 26
  BY <1>1, <1>3, <1>4
<1> QED
  BY <1>5, <1>6, <1>7, <1>8, <1>9, <1>10

-------------------------------------------------------------------------------
(* What a line finds of what the lines before it have left.                *)
LEMMA Found ==
  ASSUME NEW g, NEW k, Table(g, k), NEW j \in 1 .. k - 1
  PROVE  /\ \A r \in Made(g, j) : Sound(r)
         /\ \A d \in Left(g, j) : Current(d)
BY DEF Table

(* What the lines of release-check that read something find.               *)
LEMMA CacheFinds ==
  ASSUME NEW k \in 1 .. 37, Table(Cache, k)
  PROVE  /\ k > 3 => Sound("regress") /\ Current("binary") /\ Current("traces")
         /\ k > 6 => Current("performance_points")
         /\ k > 7 => Sound("stress_manifest")
         /\ k > 9 => Current("msi_checker")
         /\ k > 15 => Current("stress_traces")
         /\ k > 17 => Current("cross_trace")
         /\ k > 21 => Current("coverage_secded")
         /\ k > 22 => Current("coverage")
         /\ k > 25 => Current("coverage_edges") /\ Current("coverage_direct_mapped")
         /\ k > 26 => Sound("code_coverage")
         /\ k > 29 => Sound("synthesis")
<1>1. ASSUME k > 3 PROVE Sound("regress") /\ Current("binary") /\ Current("traces")
  <2>1. 3 \in 1 .. k - 1
    BY <1>1
  <2>2. "regress" \in Made(Cache, 3) /\ "binary" \in Left(Cache, 3) /\ "traces" \in Left(Cache, 3)
    BY DEF Made, CacheMade, Left, CacheLeft, Cache, Coherent
  <2> QED
    BY <2>1, <2>2, Found
<1>2. ASSUME k > 6 PROVE Current("performance_points")
  <2>1. 6 \in 1 .. k - 1
    BY <1>2
  <2>2. "performance_points" \in Left(Cache, 6)
    BY DEF Left, CacheLeft, Cache, Coherent
  <2> QED
    BY <2>1, <2>2, Found
<1>3. ASSUME k > 7 PROVE Sound("stress_manifest")
  <2>1. 7 \in 1 .. k - 1
    BY <1>3
  <2>2. "stress_manifest" \in Made(Cache, 7)
    BY DEF Made, CacheMade, Cache, Coherent
  <2> QED
    BY <2>1, <2>2, Found
<1>4. ASSUME k > 9 PROVE Current("msi_checker")
  <2>1. 9 \in 1 .. k - 1
    BY <1>4
  <2>2. "msi_checker" \in Left(Cache, 9)
    BY DEF Left, CacheLeft, Cache, Coherent
  <2> QED
    BY <2>1, <2>2, Found
<1>5. ASSUME k > 15 PROVE Current("stress_traces")
  <2>1. 15 \in 1 .. k - 1
    BY <1>5
  <2>2. "stress_traces" \in Left(Cache, 15)
    BY DEF Left, CacheLeft, Cache, Coherent
  <2> QED
    BY <2>1, <2>2, Found
<1>6. ASSUME k > 17 PROVE Current("cross_trace")
  <2>1. 17 \in 1 .. k - 1
    BY <1>6
  <2>2. "cross_trace" \in Left(Cache, 17)
    BY DEF Left, CacheLeft, Cache, Coherent
  <2> QED
    BY <2>1, <2>2, Found
<1>7. ASSUME k > 21 PROVE Current("coverage_secded")
  <2>1. 21 \in 1 .. k - 1
    BY <1>7
  <2>2. "coverage_secded" \in Left(Cache, 21)
    BY DEF Left, CacheLeft, Cache, Coherent
  <2> QED
    BY <2>1, <2>2, Found
<1>8. ASSUME k > 22 PROVE Current("coverage")
  <2>1. 22 \in 1 .. k - 1
    BY <1>8
  <2>2. "coverage" \in Left(Cache, 22)
    BY DEF Left, CacheLeft, Cache, Coherent
  <2> QED
    BY <2>1, <2>2, Found
<1>9. ASSUME k > 25 PROVE Current("coverage_edges") /\ Current("coverage_direct_mapped")
  <2>1. 25 \in 1 .. k - 1
    BY <1>9
  <2>2. "coverage_edges" \in Left(Cache, 25) /\ "coverage_direct_mapped" \in Left(Cache, 25)
    BY DEF Left, CacheLeft, Cache, Coherent
  <2> QED
    BY <2>1, <2>2, Found
<1>10. ASSUME k > 26 PROVE Sound("code_coverage")
  <2>1. 26 \in 1 .. k - 1
    BY <1>10
  <2>2. "code_coverage" \in Made(Cache, 26)
    BY DEF Made, CacheMade, Cache, Coherent
  <2> QED
    BY <2>1, <2>2, Found
<1>11. ASSUME k > 29 PROVE Sound("synthesis")
  <2>1. 29 \in 1 .. k - 1
    BY <1>11
  <2>2. "synthesis" \in Made(Cache, 29)
    BY DEF Made, CacheMade, Cache, Coherent
  <2> QED
    BY <2>1, <2>2, Found
<1> QED
  BY <1>1, <1>2, <1>3, <1>4, <1>5, <1>6, <1>7, <1>8, <1>9, <1>10, <1>11

(* What the lines of coherent-release-check that read something find.      *)
LEMMA CoherentFinds ==
  ASSUME NEW k \in 1 .. 37, Table(Coherent, k)
  PROVE  /\ k > 2 => Current("event_traces")
         /\ k > 3 => Sound("gcc")
         /\ k > 5 => Sound("rtl_litmus") /\ Current("rtl_litmus_traces")
         /\ k > 6 => Sound("model_litmus")
         /\ k > 7 => Sound("random")
         /\ k > 8 => Sound("directed") /\ Current("closure_traces")
         /\ k > 9 => Sound("error_reset") /\ Current("edge_traces")
         /\ k > 10 => Sound("qos") /\ Current("transport_traces")
         /\ k > 14 => Current("coverage_edge_traces")
         /\ k > 21 => Sound("performance")
<1>1. ASSUME k > 2 PROVE Current("event_traces")
  <2>1. 2 \in 1 .. k - 1
    BY <1>1
  <2>2. "event_traces" \in Left(Coherent, 2)
    BY DEF Left, CoherentLeft, Cache, Coherent
  <2> QED
    BY <2>1, <2>2, Found
<1>2. ASSUME k > 3 PROVE Sound("gcc")
  <2>1. 3 \in 1 .. k - 1
    BY <1>2
  <2>2. "gcc" \in Made(Coherent, 3)
    BY DEF Made, CoherentMade, Cache, Coherent
  <2> QED
    BY <2>1, <2>2, Found
<1>3. ASSUME k > 5 PROVE Sound("rtl_litmus") /\ Current("rtl_litmus_traces")
  <2>1. 5 \in 1 .. k - 1
    BY <1>3
  <2>2. "rtl_litmus" \in Made(Coherent, 5) /\ "rtl_litmus_traces" \in Left(Coherent, 5)
    BY DEF Made, CoherentMade, Left, CoherentLeft, Cache, Coherent
  <2> QED
    BY <2>1, <2>2, Found
<1>4. ASSUME k > 6 PROVE Sound("model_litmus")
  <2>1. 6 \in 1 .. k - 1
    BY <1>4
  <2>2. "model_litmus" \in Made(Coherent, 6)
    BY DEF Made, CoherentMade, Cache, Coherent
  <2> QED
    BY <2>1, <2>2, Found
<1>5. ASSUME k > 7 PROVE Sound("random")
  <2>1. 7 \in 1 .. k - 1
    BY <1>5
  <2>2. "random" \in Made(Coherent, 7)
    BY DEF Made, CoherentMade, Cache, Coherent
  <2> QED
    BY <2>1, <2>2, Found
<1>6. ASSUME k > 8 PROVE Sound("directed") /\ Current("closure_traces")
  <2>1. 8 \in 1 .. k - 1
    BY <1>6
  <2>2. "directed" \in Made(Coherent, 8) /\ "closure_traces" \in Left(Coherent, 8)
    BY DEF Made, CoherentMade, Left, CoherentLeft, Cache, Coherent
  <2> QED
    BY <2>1, <2>2, Found
<1>7. ASSUME k > 9 PROVE Sound("error_reset") /\ Current("edge_traces")
  <2>1. 9 \in 1 .. k - 1
    BY <1>7
  <2>2. "error_reset" \in Made(Coherent, 9) /\ "edge_traces" \in Left(Coherent, 9)
    BY DEF Made, CoherentMade, Left, CoherentLeft, Cache, Coherent
  <2> QED
    BY <2>1, <2>2, Found
<1>8. ASSUME k > 10 PROVE Sound("qos") /\ Current("transport_traces")
  <2>1. 10 \in 1 .. k - 1
    BY <1>8
  <2>2. "qos" \in Made(Coherent, 10) /\ "transport_traces" \in Left(Coherent, 10)
    BY DEF Made, CoherentMade, Left, CoherentLeft, Cache, Coherent
  <2> QED
    BY <2>1, <2>2, Found
<1>9. ASSUME k > 14 PROVE Current("coverage_edge_traces")
  <2>1. 14 \in 1 .. k - 1
    BY <1>9
  <2>2. "coverage_edge_traces" \in Left(Coherent, 14)
    BY DEF Left, CoherentLeft, Cache, Coherent
  <2> QED
    BY <2>1, <2>2, Found
<1>10. ASSUME k > 21 PROVE Sound("performance")
  <2>1. 21 \in 1 .. k - 1
    BY <1>10
  <2>2. "performance" \in Made(Coherent, 21)
    BY DEF Made, CoherentMade, Cache, Coherent
  <2> QED
    BY <2>1, <2>2, Found
<1> QED
  BY <1>1, <1>2, <1>3, <1>4, <1>5, <1>6, <1>7, <1>8, <1>9, <1>10

-------------------------------------------------------------------------------
(* Line k of a gate is due, and its script will not fail.                  *)
Due(g, k) ==
  /\ g \in Gate /\ k \in 1 .. Last(g) /\ Typed /\ Table(g, k)
  /\ Head(todo) = Lines(g)[k] /\ result' # "failed"

(* A line that is not of the coherent gate is due in release-check.        *)
LEMMA CacheDue ==
  ASSUME NEW g, NEW k, Due(g, k), NEW line, At(line), line \notin CoherentLine
  PROVE  g = Cache /\ k \in 1 .. 36 /\ Release[k] = line
<1>1. g \in {Cache, Coherent} /\ Cache # Coherent
  BY DEF Due, Gate, Cache, Coherent
<1>2. g # Coherent
  <2>1. SUFFICES ASSUME g = Coherent PROVE FALSE
    OBVIOUS
  <2>2. k \in 1 .. 26 /\ CoherentRelease[k] = line
    BY <1>1, <2>1 DEF Due, Last, Lines, At
  <2> QED
    BY <2>2, CoherentPlaces
<1> QED
  BY <1>1, <1>2 DEF Due, Last, Lines, At

(* A line that is not of release-check is due in the coherent gate.        *)
LEMMA CoherentDue ==
  ASSUME NEW g, NEW k, Due(g, k), NEW line, At(line), line \notin CacheLine
  PROVE  g = Coherent /\ k \in 1 .. 26 /\ CoherentRelease[k] = line
<1>1. g \in {Cache, Coherent} /\ Cache # Coherent
  BY DEF Due, Gate, Cache, Coherent
<1>2. g # Cache
  <2>1. SUFFICES ASSUME g = Cache PROVE FALSE
    OBVIOUS
  <2>2. k \in 1 .. 36 /\ Release[k] = line
    BY <1>1, <2>1 DEF Due, Last, Lines, At
  <2> QED
    BY <2>2, CachePlaces
<1> QED
  BY <1>1, <1>2 DEF Due, Last, Lines, At

(* Advance, for release-check.                                             *)
LEMMA CacheAdvance ==
  ASSUME NEW k, Due(Cache, k), k < 35, NEW rs, NEW us, NEW ds, Effect(rs, us, ds),
         Advances(Cache, k, rs, us, ds)
  PROVE  Table(Cache, k + 1)'
<1>1. Cache \in Gate /\ k \in 1 .. 37 /\ k < Last(Cache) - 1 /\ Table(Cache, k)
  BY DEF Due, Last, Gate, Cache
<1>2. Reviewed(Cache, k)'
  BY DEF Reviewed, Cache, Coherent
<1> QED
  BY <1>1, <1>2, Advance

(* Advance, for the coherent gate.                                         *)
LEMMA CoherentAdvance ==
  ASSUME NEW k, Due(Coherent, k), k < 25, k # 18, NEW rs, NEW us, NEW ds, Effect(rs, us, ds),
         Advances(Coherent, k, rs, us, ds)
  PROVE  Table(Coherent, k + 1)'
<1>1. Coherent \in Gate /\ k \in 1 .. 37 /\ k < Last(Coherent) - 1 /\ Table(Coherent, k)
  BY DEF Due, Last, Gate, Cache, Coherent
<1>2. Reviewed(Coherent, k)'
  BY DEF Reviewed
<1> QED
  BY <1>1, <1>2, Advance

(* Each script of the cache lane brings release-check forward, or is none  *)
(* of its lines.                                                           *)
LEMMA CacheAdvances ==
  ASSUME NEW g, NEW k, Due(g, k), CacheScripts, ~Tool("coherent_lint")
  PROVE  Table(g, k + 1)'
<1>1. ASSUME Tool("lint")
      PROVE  Table(g, k + 1)'
  <2>1. g = Cache /\ k = 1
    BY <1>1, CacheDue, CachePlaces DEF Tool, CoherentLine
  <2>2. Effect({}, {}, {})
    BY <1>1, ToolEffect DEF Due
  <2>3. Advances(Cache, 1, {}, {}, {})
    BY DEF Advances, Made, Left, CacheMade, CacheLeft, Cache, Coherent
  <2> QED
    BY <2>1, <2>2, <2>3, CacheAdvance
<1>2. ASSUME Tool("model_test")
      PROVE  Table(g, k + 1)'
  <2>1. g = Cache /\ k = 2
    BY <1>2, CacheDue, CachePlaces DEF Tool, CoherentLine
  <2>2. Effect({}, {}, {})
    BY <1>2, ToolEffect DEF Due
  <2>3. Advances(Cache, 2, {}, {}, {})
    BY DEF Advances, Made, Left, CacheMade, CacheLeft, Cache, Coherent
  <2> QED
    BY <2>1, <2>2, <2>3, CacheAdvance
<1>3. ASSUME run_regression("regress")
      PROVE  Table(g, k + 1)'
  <2>1. g = Cache /\ k = 3
    BY <1>3, CacheDue, CachePlaces DEF run_regression, CoherentLine
  <2>2. Effect({"regress"}, {}, {"binary", "traces"})
    BY <1>3, RegressEffect DEF Due
  <2>3. Advances(Cache, 3, {"regress"}, {}, {"binary", "traces"})
    BY DEF Advances, Made, Left, CacheMade, CacheLeft, Cache, Coherent
  <2> QED
    BY <2>1, <2>2, <2>3, CacheAdvance
<1>4. ASSUME run_regression("regress_smoke") PROVE FALSE
  BY <1>4, CacheDue, CachePlaces DEF run_regression, CoherentLine, CacheLine
<1>5. ASSUME run_regression("regress_coverage")
      PROVE  Table(g, k + 1)'
  <2>1. g = Cache /\ k = 22
    BY <1>5, CacheDue, CachePlaces DEF run_regression, CoherentLine
  <2>2. Effect({"regress"}, {}, {"binary", "traces"} \cup {"coverage"})
    BY <1>5, RegressEffect DEF Due
  <2>3. Advances(Cache, 22, {"regress"}, {}, {"binary", "traces"} \cup {"coverage"})
    BY DEF Advances, Made, Left, CacheMade, CacheLeft, Cache, Coherent
  <2> QED
    BY <2>1, <2>2, <2>3, CacheAdvance
<1>6. ASSUME NEW ages, run_model_trace("replay_regress", ages)
      PROVE  Table(g, k + 1)'
  <2>1. g = Cache /\ k = 4
    BY <1>6, CacheDue, CachePlaces DEF run_model_trace, CoherentLine
  <2>2. Effect({}, {"model_trace"}, {})
    BY <1>6, PartReplayEffect DEF Due
  <2>3. Advances(Cache, 4, {}, {"model_trace"}, {})
    BY DEF Advances, Made, Left, CacheMade, CacheLeft, Cache, Coherent
  <2> QED
    BY <2>1, <2>2, <2>3, CacheAdvance
<1>7. ASSUME NEW ages, run_model_trace("replay_stress", ages)
      PROVE  Table(g, k + 1)'
  <2>1. g = Cache /\ k = 16
    BY <1>7, CacheDue, CachePlaces DEF run_model_trace, CoherentLine
  <2>2. Effect({}, {"model_trace"}, {})
    BY <1>7, PartReplayEffect DEF Due
  <2>3. Advances(Cache, 16, {}, {"model_trace"}, {})
    BY DEF Advances, Made, Left, CacheMade, CacheLeft, Cache, Coherent
  <2> QED
    BY <2>1, <2>2, <2>3, CacheAdvance
<1>8. ASSUME run_model_trace("replay_all", Ages(CacheTrace))
      PROVE  Table(g, k + 1)'
  <2>1. g = Cache /\ k = 33
    BY <1>8, CacheDue, CachePlaces DEF run_model_trace, CoherentLine
  <2>2. Typed /\ Table(Cache, 33)
    BY <2>1 DEF Due
  <2>3. /\ Current("traces")
        /\ Current("performance_points")
        /\ Current("stress_traces")
        /\ Current("cross_trace")
    BY <2>2, CacheFinds
  <2>4. Effect({"model_trace"}, {}, {})
    BY <1>8, <2>2, <2>3, ReplayEffect DEF Due
  <2>5. Advances(Cache, 33, {"model_trace"}, {}, {})
    BY DEF Advances, Made, Left, CacheMade, CacheLeft, Cache, Coherent
  <2> QED
    BY <2>1, <2>4, <2>5, CacheAdvance
<1>9. ASSUME gen_coverage_report
      PROVE  Table(g, k + 1)'
  <2>1. g = Cache /\ k = 5
    BY <1>9, CacheDue, CachePlaces DEF gen_coverage_report, CoherentLine
  <2>2. Typed /\ Table(Cache, 5)
    BY <2>1 DEF Due
  <2>3. Sound("regress")
    BY <2>2, CacheFinds
  <2>4. Effect({"functional_coverage"}, {}, {})
    BY <1>9, <2>2, <2>3, FunctionalEffect DEF Due
  <2>5. Advances(Cache, 5, {"functional_coverage"}, {}, {})
    BY DEF Advances, Made, Left, CacheMade, CacheLeft, Cache, Coherent
  <2> QED
    BY <2>1, <2>4, <2>5, CacheAdvance
<1>10. ASSUME run_performance_sweep
      PROVE  Table(g, k + 1)'
  <2>1. g = Cache /\ k = 6
    BY <1>10, CacheDue, CachePlaces DEF run_performance_sweep, CoherentLine
  <2>2. Typed /\ Table(Cache, 6)
    BY <2>1 DEF Due
  <2>3. Current("binary")
    BY <2>2, CacheFinds
  <2>4. Effect({"cache_performance"}, {}, {"performance_points"})
    BY <1>10, <2>2, <2>3, CachePerformanceEffect DEF Due
  <2>5. Advances(Cache, 6, {"cache_performance"}, {}, {"performance_points"})
    BY DEF Advances, Made, Left, CacheMade, CacheLeft, Cache, Coherent
  <2> QED
    BY <2>1, <2>4, <2>5, CacheAdvance
<1>11. ASSUME gen_stress_manifest
      PROVE  Table(g, k + 1)'
  <2>1. g = Cache /\ k = 7
    BY <1>11, CacheDue, CachePlaces DEF gen_stress_manifest, CoherentLine
  <2>2. Effect({"stress_manifest"}, {}, {})
    BY <1>11, ManifestEffect DEF Due
  <2>3. Advances(Cache, 7, {"stress_manifest"}, {}, {})
    BY DEF Advances, Made, Left, CacheMade, CacheLeft, Cache, Coherent
  <2> QED
    BY <2>1, <2>2, <2>3, CacheAdvance
<1>12. ASSUME run_stress
      PROVE  Table(g, k + 1)'
  <2>1. g = Cache /\ k = 15
    BY <1>12, CacheDue, CachePlaces DEF run_stress, CoherentLine
  <2>2. Typed /\ Table(Cache, 15)
    BY <2>1 DEF Due
  <2>3. Current("binary") /\ Sound("stress_manifest")
    BY <2>2, CacheFinds
  <2>4. Effect({"stress"}, {}, {"stress_traces"})
    BY <1>12, <2>2, <2>3, StressEffect DEF Due
  <2>5. Advances(Cache, 15, {"stress"}, {}, {"stress_traces"})
    BY DEF Advances, Made, Left, CacheMade, CacheLeft, Cache, Coherent
  <2> QED
    BY <2>1, <2>4, <2>5, CacheAdvance
<1>13. ASSUME run_feature("coherence")
      PROVE  Table(g, k + 1)'
  <2>1. g = Cache /\ k = 8
    BY <1>13, CacheDue, CachePlaces DEF run_feature, CoherentLine
  <2>2. Effect({"coherence"}, {}, {})
    BY <1>13, CoherenceEffect DEF Due
  <2>3. Advances(Cache, 8, {"coherence"}, {}, {})
    BY DEF Advances, Made, Left, CacheMade, CacheLeft, Cache, Coherent
  <2> QED
    BY <2>1, <2>2, <2>3, CacheAdvance
<1>14. ASSUME run_feature("bist")
      PROVE  Table(g, k + 1)'
  <2>1. g = Cache /\ k = 11
    BY <1>14, CacheDue, CachePlaces DEF run_feature, CoherentLine
  <2>2. Effect({"bist"}, {}, {})
    BY <1>14, BistEffect DEF Due
  <2>3. Advances(Cache, 11, {"bist"}, {}, {})
    BY DEF Advances, Made, Left, CacheMade, CacheLeft, Cache, Coherent
  <2> QED
    BY <2>1, <2>2, <2>3, CacheAdvance
<1>15. ASSUME run_msi_random
      PROVE  Table(g, k + 1)'
  <2>1. g = Cache /\ k = 9
    BY <1>15, CacheDue, CachePlaces DEF run_msi_random, CoherentLine
  <2>2. Effect({"msi_random"}, {}, {"msi_checker"})
    BY <1>15, MsiRandomEffect DEF Due
  <2>3. Advances(Cache, 9, {"msi_random"}, {}, {"msi_checker"})
    BY DEF Advances, Made, Left, CacheMade, CacheLeft, Cache, Coherent
  <2> QED
    BY <2>1, <2>2, <2>3, CacheAdvance
<1>16. ASSUME run_msi_mutations
      PROVE  Table(g, k + 1)'
  <2>1. g = Cache /\ k = 10
    BY <1>16, CacheDue, CachePlaces DEF run_msi_mutations, CoherentLine
  <2>2. Typed /\ Table(Cache, 10)
    BY <2>1 DEF Due
  <2>3. Current("msi_checker")
    BY <2>2, CacheFinds
  <2>4. Effect({"msi_mutation"}, {}, {})
    BY <1>16, <2>2, <2>3, MsiMutationsEffect DEF Due
  <2>5. Advances(Cache, 10, {"msi_mutation"}, {}, {})
    BY DEF Advances, Made, Left, CacheMade, CacheLeft, Cache, Coherent
  <2> QED
    BY <2>1, <2>4, <2>5, CacheAdvance
<1>17. ASSUME run_cache_array_bist
      PROVE  Table(g, k + 1)'
  <2>1. g = Cache /\ k = 12
    BY <1>17, CacheDue, CachePlaces DEF run_cache_array_bist, CoherentLine
  <2>2. Effect({"array_bist"}, {}, {})
    BY <1>17, ArrayBistEffect DEF Due
  <2>3. Advances(Cache, 12, {"array_bist"}, {}, {})
    BY DEF Advances, Made, Left, CacheMade, CacheLeft, Cache, Coherent
  <2> QED
    BY <2>1, <2>2, <2>3, CacheAdvance
<1>18. ASSUME run_cross_scenarios
      PROVE  Table(g, k + 1)'
  <2>1. g = Cache /\ k = 17
    BY <1>18, CacheDue, CachePlaces DEF run_cross_scenarios, CoherentLine
  <2>2. Effect({}, {}, {"cross_trace"})
    BY <1>18, CrossScenariosEffect DEF Due
  <2>3. Advances(Cache, 17, {}, {}, {"cross_trace"})
    BY DEF Advances, Made, Left, CacheMade, CacheLeft, Cache, Coherent
  <2> QED
    BY <2>1, <2>2, <2>3, CacheAdvance
<1>19. ASSUME gen_cross_coverage
      PROVE  Table(g, k + 1)'
  <2>1. g = Cache /\ k = 18
    BY <1>19, CacheDue, CachePlaces DEF gen_cross_coverage, CoherentLine
  <2>2. Typed /\ Table(Cache, 18)
    BY <2>1 DEF Due
  <2>3. /\ Current("traces")
        /\ Current("performance_points")
        /\ Current("stress_traces")
        /\ Current("cross_trace")
    BY <2>2, CacheFinds
  <2>4. Effect({"cache_cross"}, {}, {})
    BY <1>19, <2>2, <2>3, CrossCoverageEffect DEF Due
  <2>5. Advances(Cache, 18, {"cache_cross"}, {}, {})
    BY DEF Advances, Made, Left, CacheMade, CacheLeft, Cache, Coherent
  <2> QED
    BY <2>1, <2>4, <2>5, CacheAdvance
<1>20. ASSUME run_bug_validation
      PROVE  Table(g, k + 1)'
  <2>1. g = Cache /\ k = 19
    BY <1>20, CacheDue, CachePlaces DEF run_bug_validation, CoherentLine
  <2>2. Effect({"bug_validation"}, {}, {})
    BY <1>20, BugValidationEffect DEF Due
  <2>3. Advances(Cache, 19, {"bug_validation"}, {}, {})
    BY DEF Advances, Made, Left, CacheMade, CacheLeft, Cache, Coherent
  <2> QED
    BY <2>1, <2>2, <2>3, CacheAdvance
<1>21. ASSUME gen_debug_waveform
      PROVE  Table(g, k + 1)'
  <2>1. g = Cache /\ k = 20
    BY <1>21, CacheDue, CachePlaces DEF gen_debug_waveform, CoherentLine
  <2>2. Effect({"debug_waveform"}, {}, {})
    BY <1>21, WaveformEffect DEF Due
  <2>3. Advances(Cache, 20, {"debug_waveform"}, {}, {})
    BY DEF Advances, Made, Left, CacheMade, CacheLeft, Cache, Coherent
  <2> QED
    BY <2>1, <2>2, <2>3, CacheAdvance
<1>22. ASSUME run_ras
      PROVE  Table(g, k + 1)'
  <2>1. g = Cache /\ k = 21
    BY <1>22, CacheDue, CachePlaces DEF run_ras, CoherentLine
  <2>2. Effect({"ras"}, {}, {"coverage_secded"})
    BY <1>22, RasEffect DEF Due
  <2>3. Advances(Cache, 21, {"ras"}, {}, {"coverage_secded"})
    BY DEF Advances, Made, Left, CacheMade, CacheLeft, Cache, Coherent
  <2> QED
    BY <2>1, <2>2, <2>3, CacheAdvance
<1>23. ASSUME run_coverage_edges
      PROVE  Table(g, k + 1)'
  <2>1. g = Cache /\ k = 25
    BY <1>23, CacheDue, CachePlaces DEF run_coverage_edges, CoherentLine
  <2>2. Effect({"cache_edges"}, {}, {"coverage_edges", "coverage_direct_mapped"})
    BY <1>23, CacheEdgesEffect DEF Due
  <2>3. Advances(Cache, 25, {"cache_edges"}, {}, {"coverage_edges", "coverage_direct_mapped"})
    BY DEF Advances, Made, Left, CacheMade, CacheLeft, Cache, Coherent
  <2> QED
    BY <2>1, <2>2, <2>3, CacheAdvance
<1>24. ASSUME gen_code_coverage
      PROVE  Table(g, k + 1)'
  <2>1. g = Cache /\ k \in {23, 26}
    BY <1>24, CacheDue, CachePlaces DEF gen_code_coverage, CoherentLine
  <2>2. CASE k = 23
    <3>1. Effect({}, {"code_coverage"}, {})
      BY <1>24, FirstMergeEffect DEF Due
    <3>2. Advances(Cache, 23, {}, {"code_coverage"}, {})
      BY DEF Advances, Made, Left, CacheMade, CacheLeft, Cache, Coherent
    <3> QED
      BY <2>1, <2>2, <3>1, <3>2, CacheAdvance
  <2>3. CASE k = 26
    <3>1. Typed /\ Table(Cache, 26)
      BY <2>1, <2>3 DEF Due
    <3>2. /\ Current("coverage")
          /\ Current("coverage_edges")
          /\ Current("coverage_direct_mapped")
          /\ Current("coverage_secded")
      BY <3>1, CacheFinds
    <3>3. Effect({"code_coverage"}, {}, {})
      BY <1>24, <3>1, <3>2, MergeEffect DEF Due
    <3>4. Advances(Cache, 26, {"code_coverage"}, {}, {})
      BY DEF Advances, Made, Left, CacheMade, CacheLeft, Cache, Coherent
    <3> QED
      BY <2>1, <2>3, <3>3, <3>4, CacheAdvance
  <2> QED
    BY <2>1, <2>2, <2>3
<1>25. ASSUME gen_coverage_hole_review
      PROVE  Table(g, k + 1)'
  <2>1. g = Cache /\ k \in {24, 27}
    BY <1>25, CacheDue, CachePlaces DEF gen_coverage_hole_review, CoherentLine
  <2>2. CASE k = 24
    <3>1. Effect({}, {"hole_review"}, {})
      BY <1>25, FirstReviewEffect DEF Due
    <3>2. Advances(Cache, 24, {}, {"hole_review"}, {})
      BY DEF Advances, Made, Left, CacheMade, CacheLeft, Cache, Coherent
    <3> QED
      BY <2>1, <2>2, <3>1, <3>2, CacheAdvance
  <2>3. CASE k = 27
    <3>1. Typed /\ Table(Cache, 27)
      BY <2>1, <2>3 DEF Due
    <3>2. Sound("code_coverage")
      BY <3>1, CacheFinds
    <3>3. Effect({"hole_review"}, {}, {})
      BY <1>25, <3>1, <3>2, ReviewEffect DEF Due
    <3>4. Advances(Cache, 27, {"hole_review"}, {}, {})
      BY DEF Advances, Made, Left, CacheMade, CacheLeft, Cache, Coherent
    <3> QED
      BY <2>1, <2>3, <3>3, <3>4, CacheAdvance
  <2> QED
    BY <2>1, <2>2, <2>3
<1>26. ASSUME check_variants
      PROVE  Table(g, k + 1)'
  <2>1. g = Cache /\ k = 28
    BY <1>26, CacheDue, CachePlaces DEF check_variants, CoherentLine
  <2>2. Effect({"associativity_check"}, {}, {})
    BY <1>26, VariantsEffect DEF Due
  <2>3. Advances(Cache, 28, {"associativity_check"}, {}, {})
    BY DEF Advances, Made, Left, CacheMade, CacheLeft, Cache, Coherent
  <2> QED
    BY <2>1, <2>2, <2>3, CacheAdvance
<1>27. ASSUME characterize
      PROVE  Table(g, k + 1)'
  <2>1. g = Cache /\ k = 30
    BY <1>27, CacheDue, CachePlaces DEF characterize, CoherentLine
  <2>2. Typed /\ Table(Cache, 30)
    BY <2>1 DEF Due
  <2>3. Sound("synthesis")
    BY <2>2, CacheFinds
  <2>4. Effect({"associativity"}, {}, {})
    BY <1>27, <2>2, <2>3, CharacterizeEffect DEF Due
  <2>5. Advances(Cache, 30, {"associativity"}, {}, {})
    BY DEF Advances, Made, Left, CacheMade, CacheLeft, Cache, Coherent
  <2> QED
    BY <2>1, <2>4, <2>5, CacheAdvance
<1>28. ASSUME run_nonblocking_cache
      PROVE  Table(g, k + 1)'
  <2>1. g = Cache /\ k = 32
    BY <1>28, CacheDue, CachePlaces DEF run_nonblocking_cache, CoherentLine
  <2>2. Effect({"nonblocking"}, {}, {})
    BY <1>28, NonblockingEffect DEF Due
  <2>3. Advances(Cache, 32, {"nonblocking"}, {}, {})
    BY DEF Advances, Made, Left, CacheMade, CacheLeft, Cache, Coherent
  <2> QED
    BY <2>1, <2>2, <2>3, CacheAdvance
<1>29. ASSUME run_synthesis("synthesis", "synthesis")
      PROVE  Table(g, k + 1)'
  <2>1. g = Cache /\ k = 29
    BY <1>29, CacheDue, CachePlaces DEF run_synthesis, CoherentLine
  <2>2. Effect({"synthesis"}, {}, {})
    BY <1>29, SynthesisEffect DEF Due
  <2>3. Advances(Cache, 29, {"synthesis"}, {}, {})
    BY DEF Advances, Made, Left, CacheMade, CacheLeft, Cache, Coherent
  <2> QED
    BY <2>1, <2>2, <2>3, CacheAdvance
<1>30. ASSUME run_synthesis("integration_synthesis", "integration_synthesis")
      PROVE  Table(g, k + 1)'
  <2>1. g = Cache /\ k = 31
    BY <1>30, CacheDue, CachePlaces DEF run_synthesis, CoherentLine
  <2>2. Effect({"integration_synthesis"}, {}, {})
    BY <1>30, SynthesisEffect DEF Due
  <2>3. Advances(Cache, 31, {"integration_synthesis"}, {}, {})
    BY DEF Advances, Made, Left, CacheMade, CacheLeft, Cache, Coherent
  <2> QED
    BY <2>1, <2>2, <2>3, CacheAdvance
<1>31. ASSUME run_formal("all") PROVE FALSE
  BY <1>31, CacheDue, CachePlaces DEF run_formal, CoherentLine, CacheLine
<1>32. ASSUME run_formal("cover") PROVE FALSE
  BY <1>32, CacheDue, CachePlaces DEF run_formal, CoherentLine, CacheLine
<1>33. ASSUME check_uvm_env PROVE FALSE
  BY <1>33, CacheDue, CachePlaces DEF check_uvm_env, Tool, CoherentLine, CacheLine
<1>34. ASSUME run_uvm PROVE FALSE
  BY <1>34, CacheDue, CachePlaces DEF run_uvm, CoherentLine, CacheLine
<1> QED
  BY <1>1, <1>2, <1>3, <1>4, <1>5, <1>6, <1>7, <1>8, <1>9, <1>10, <1>11, <1>12,
     <1>13, <1>14, <1>15, <1>16, <1>17, <1>18, <1>19, <1>20, <1>21, <1>22, <1>23,
     <1>24, <1>25, <1>26, <1>27, <1>28, <1>29, <1>30, <1>31, <1>32, <1>33, <1>34
  DEF CacheScripts

(* Each script of the coherent lane brings its gate forward.               *)
LEMMA CoherentAdvances ==
  ASSUME NEW g, NEW k, Due(g, k), CoherentScripts \/ Tool("coherent_lint")
  PROVE  Table(g, k + 1)'
<1>1. ASSUME Tool("coherent_lint")
      PROVE  Table(g, k + 1)'
  <2>1. g = Coherent /\ k = 1
    BY <1>1, CoherentDue, CoherentPlaces DEF Tool, CacheLine
  <2>2. Effect({}, {}, {})
    BY <1>1, ToolEffect DEF Due
  <2>3. Advances(Coherent, 1, {}, {}, {})
    BY DEF Advances, Made, Left, CoherentMade, CoherentLeft, Cache, Coherent
  <2> QED
    BY <2>1, <2>2, <2>3, CoherentAdvance
<1>2. ASSUME run_coherent_rv32("smoke", "rv32_smoke")
      PROVE  Table(g, k + 1)'
  <2>1. g = Coherent /\ k = 2
    BY <1>2, CoherentDue, CoherentPlaces DEF run_coherent_rv32, CacheLine
  <2>2. Effect({"rv32_smoke"}, {}, {"event_traces"})
    BY <1>2, SmokeEffect DEF Due
  <2>3. Advances(Coherent, 2, {"rv32_smoke"}, {}, {"event_traces"})
    BY DEF Advances, Made, Left, CoherentMade, CoherentLeft, Cache, Coherent
  <2> QED
    BY <2>1, <2>2, <2>3, CoherentAdvance
<1>3. ASSUME run_coherent_rv32("gcc", "gcc")
      PROVE  Table(g, k + 1)'
  <2>1. g = Coherent /\ k = 3
    BY <1>3, CoherentDue, CoherentPlaces DEF run_coherent_rv32, CacheLine
  <2>2. Effect({"gcc"}, {}, {"event_traces"})
    BY <1>3, GccEffect DEF Due
  <2>3. Advances(Coherent, 3, {"gcc"}, {}, {"event_traces"})
    BY DEF Advances, Made, Left, CoherentMade, CoherentLeft, Cache, Coherent
  <2> QED
    BY <2>1, <2>2, <2>3, CoherentAdvance
<1>4. ASSUME run_coherent_herd
      PROVE  Table(g, k + 1)'
  <2>1. g = Coherent /\ k = 4
    BY <1>4, CoherentDue, CoherentPlaces DEF run_coherent_herd, CacheLine
  <2>2. Effect({"herd"}, {}, {})
    BY <1>4, HerdEffect DEF Due
  <2>3. Advances(Coherent, 4, {"herd"}, {}, {})
    BY DEF Advances, Made, Left, CoherentMade, CoherentLeft, Cache, Coherent
  <2> QED
    BY <2>1, <2>2, <2>3, CoherentAdvance
<1>5. ASSUME run_coherent_rtl_litmus
      PROVE  Table(g, k + 1)'
  <2>1. g = Coherent /\ k = 5
    BY <1>5, CoherentDue, CoherentPlaces DEF run_coherent_rtl_litmus, CacheLine
  <2>2. Effect({"herd", "rtl_litmus"}, {}, {"rtl_litmus_traces"})
    BY <1>5, LitmusEffect DEF Due
  <2>3. Advances(Coherent, 5, {"herd", "rtl_litmus"}, {}, {"rtl_litmus_traces"})
    BY DEF Advances, Made, Left, CoherentMade, CoherentLeft, Cache, Coherent
  <2> QED
    BY <2>1, <2>2, <2>3, CoherentAdvance
<1>6. ASSUME run_coherent_model("model_litmus", "model_litmus")
      PROVE  Table(g, k + 1)'
  <2>1. g = Coherent /\ k = 6
    BY <1>6, CoherentDue, CoherentPlaces DEF run_coherent_model, CacheLine
  <2>2. Effect({"model_litmus"}, {}, {})
    BY <1>6, ModelLitmusEffect DEF Due
  <2>3. Advances(Coherent, 6, {"model_litmus"}, {}, {})
    BY DEF Advances, Made, Left, CoherentMade, CoherentLeft, Cache, Coherent
  <2> QED
    BY <2>1, <2>2, <2>3, CoherentAdvance
<1>7. ASSUME run_coherent_model("model_random", "random")
      PROVE  Table(g, k + 1)'
  <2>1. g = Coherent /\ k = 7
    BY <1>7, CoherentDue, CoherentPlaces DEF run_coherent_model, CacheLine
  <2>2. Effect({"random"}, {}, {})
    BY <1>7, ModelRandomEffect DEF Due
  <2>3. Advances(Coherent, 7, {"random"}, {}, {})
    BY DEF Advances, Made, Left, CoherentMade, CoherentLeft, Cache, Coherent
  <2> QED
    BY <2>1, <2>2, <2>3, CoherentAdvance
<1>8. ASSUME run_coherent_model("model_mutations", "model_mutation")
      PROVE  Table(g, k + 1)'
  <2>1. g = Coherent /\ k = 16
    BY <1>8, CoherentDue, CoherentPlaces DEF run_coherent_model, CacheLine
  <2>2. Effect({"model_mutation"}, {}, {})
    BY <1>8, ModelMutationsEffect DEF Due
  <2>3. Advances(Coherent, 16, {"model_mutation"}, {}, {})
    BY DEF Advances, Made, Left, CoherentMade, CoherentLeft, Cache, Coherent
  <2> QED
    BY <2>1, <2>2, <2>3, CoherentAdvance
<1>9. ASSUME run_coherent_model("model_performance", "model_performance")
      PROVE  Table(g, k + 1)'
  <2>1. g = Coherent /\ k = 20
    BY <1>9, CoherentDue, CoherentPlaces DEF run_coherent_model, CacheLine
  <2>2. Effect({"model_performance"}, {}, {})
    BY <1>9, ModelPerformanceEffect DEF Due
  <2>3. Advances(Coherent, 20, {"model_performance"}, {}, {})
    BY DEF Advances, Made, Left, CoherentMade, CoherentLeft, Cache, Coherent
  <2> QED
    BY <2>1, <2>2, <2>3, CoherentAdvance
<1>10. ASSUME run_coherent_closure
      PROVE  Table(g, k + 1)'
  <2>1. g = Coherent /\ k = 8
    BY <1>10, CoherentDue, CoherentPlaces DEF run_coherent_closure, CacheLine
  <2>2. Effect({"directed"}, {}, {"closure_traces"})
    BY <1>10, ClosureEffect DEF Due
  <2>3. Advances(Coherent, 8, {"directed"}, {}, {"closure_traces"})
    BY DEF Advances, Made, Left, CoherentMade, CoherentLeft, Cache, Coherent
  <2> QED
    BY <2>1, <2>2, <2>3, CoherentAdvance
<1>11. ASSUME run_coherent_error_reset
      PROVE  Table(g, k + 1)'
  <2>1. g = Coherent /\ k = 9
    BY <1>11, CoherentDue, CoherentPlaces DEF run_coherent_error_reset, CacheLine
  <2>2. Effect({"error_reset"}, {}, {"edge_traces"})
    BY <1>11, ErrorResetEffect DEF Due
  <2>3. Advances(Coherent, 9, {"error_reset"}, {}, {"edge_traces"})
    BY DEF Advances, Made, Left, CoherentMade, CoherentLeft, Cache, Coherent
  <2> QED
    BY <2>1, <2>2, <2>3, CoherentAdvance
<1>12. ASSUME run_coherent_transport_edges
      PROVE  Table(g, k + 1)'
  <2>1. g = Coherent /\ k = 10
    BY <1>12, CoherentDue, CoherentPlaces DEF run_coherent_transport_edges, CacheLine
  <2>2. Effect({"qos"}, {}, {"transport_traces"})
    BY <1>12, TransportEffect DEF Due
  <2>3. Advances(Coherent, 10, {"qos"}, {}, {"transport_traces"})
    BY DEF Advances, Made, Left, CoherentMade, CoherentLeft, Cache, Coherent
  <2> QED
    BY <2>1, <2>2, <2>3, CoherentAdvance
<1>13. ASSUME run_coherent_coverage_edges
      PROVE  Table(g, k + 1)'
  <2>1. g = Coherent /\ k = 14
    BY <1>13, CoherentDue, CoherentPlaces DEF run_coherent_coverage_edges, CacheLine
  <2>2. Effect({"coverage_edges"}, {}, {"coverage_edge_traces"})
    BY <1>13, CoverageEdgesEffect DEF Due
  <2>3. Advances(Coherent, 14, {"coverage_edges"}, {}, {"coverage_edge_traces"})
    BY DEF Advances, Made, Left, CoherentMade, CoherentLeft, Cache, Coherent
  <2> QED
    BY <2>1, <2>2, <2>3, CoherentAdvance
<1>14. ASSUME run_coherent_performance_rtl
      PROVE  Table(g, k + 1)'
  <2>1. g = Coherent /\ k = 21
    BY <1>14, CoherentDue, CoherentPlaces DEF run_coherent_performance_rtl, CacheLine
  <2>2. Effect({"performance"}, {}, {})
    BY <1>14, PerformanceEffect DEF Due
  <2>3. Advances(Coherent, 21, {"performance"}, {}, {})
    BY DEF Advances, Made, Left, CoherentMade, CoherentLeft, Cache, Coherent
  <2> QED
    BY <2>1, <2>2, <2>3, CoherentAdvance
<1>15. ASSUME run_coherent_formal
      PROVE  Table(g, k + 1)'
  <2>1. g = Coherent /\ k = 15
    BY <1>15, CoherentDue, CoherentPlaces DEF run_coherent_formal, CacheLine
  <2>2. Effect({"formal"}, {}, {})
    BY <1>15, CoherentFormalEffect DEF Due
  <2>3. Advances(Coherent, 15, {"formal"}, {}, {})
    BY DEF Advances, Made, Left, CoherentMade, CoherentLeft, Cache, Coherent
  <2> QED
    BY <2>1, <2>2, <2>3, CoherentAdvance
<1>16. ASSUME run_coherent_rtl_mutations
      PROVE  Table(g, k + 1)'
  <2>1. g = Coherent /\ k = 17
    BY <1>16, CoherentDue, CoherentPlaces DEF run_coherent_rtl_mutations, CacheLine
  <2>2. Effect({"rtl_mutation"}, {}, {})
    BY <1>16, RtlMutationsEffect DEF Due
  <2>3. Advances(Coherent, 17, {"rtl_mutation"}, {}, {})
    BY DEF Advances, Made, Left, CoherentMade, CoherentLeft, Cache, Coherent
  <2> QED
    BY <2>1, <2>2, <2>3, CoherentAdvance
<1>17. ASSUME run_coherent_code_coverage
      PROVE  Table(g, k + 1)'
  <2>1. g = Coherent /\ k = 18
    BY <1>17, CoherentDue, CoherentPlaces DEF run_coherent_code_coverage, CacheLine
  <2>2. Effect({"coherent_code_coverage"}, {"coherent_holes"}, {}) /\ Reviewable'
    BY <1>17, CodeCoverageEffect DEF Due
  <2>3. Advances(Coherent, 18, {"coherent_code_coverage"}, {"coherent_holes"}, {})
    BY DEF Advances, Made, Left, CoherentMade, CoherentLeft, Cache, Coherent
  <2>4. Reviewed(Coherent, 18)'
    BY <2>2 DEF Reviewed
  <2>5. Coherent \in Gate /\ 18 \in 1 .. 37 /\ 18 < Last(Coherent) - 1 /\ Table(Coherent, 18)
    BY <2>1 DEF Due, Last, Gate, Cache, Coherent
  <2>6. Table(Coherent, 18 + 1)'
    BY <2>2, <2>3, <2>4, <2>5, Advance
  <2> QED
    BY <2>1, <2>6
<1>18. ASSUME check_coherent_coverage_review
      PROVE  Table(g, k + 1)'
  <2>1. g = Coherent /\ k = 19
    BY <1>18, CoherentDue, CoherentPlaces DEF check_coherent_coverage_review, CacheLine
  <2>2. Typed /\ Table(Coherent, 19)
    BY <2>1 DEF Due
  <2>3. Reviewable
    BY <2>2 DEF Table
  <2>4. Effect({"coherent_holes"}, {}, {})
    BY <1>18, <2>2, <2>3, CoverageReviewEffect DEF Due
  <2>5. Advances(Coherent, 19, {"coherent_holes"}, {}, {})
    BY DEF Advances, Made, Left, CoherentMade, CoherentLeft, Cache, Coherent
  <2> QED
    BY <2>1, <2>4, <2>5, CoherentAdvance
<1>19. ASSUME gen_coherent_closure_summary
      PROVE  Table(g, k + 1)'
  <2>1. g = Coherent /\ k = 11
    BY <1>19, CoherentDue, CoherentPlaces DEF gen_coherent_closure_summary, CacheLine
  <2>2. Typed /\ Table(Coherent, 11)
    BY <2>1 DEF Due
  <2>3. Sound("directed") /\ Sound("error_reset") /\ Sound("qos")
    BY <2>2, CoherentFinds
  <2>4. Effect({"closure"}, {}, {})
    BY <1>19, <2>2, <2>3, ClosureSummaryEffect DEF Due
  <2>5. Advances(Coherent, 11, {"closure"}, {}, {})
    BY DEF Advances, Made, Left, CoherentMade, CoherentLeft, Cache, Coherent
  <2> QED
    BY <2>1, <2>4, <2>5, CoherentAdvance
<1>20. ASSUME gen_coherent_advanced_coverage
      PROVE  Table(g, k + 1)'
  <2>1. g = Coherent /\ k = 12
    BY <1>20, CoherentDue, CoherentPlaces DEF gen_coherent_advanced_coverage, CacheLine
  <2>2. Typed /\ Table(Coherent, 12)
    BY <2>1 DEF Due
  <2>3. /\ Sound("directed")
        /\ Sound("error_reset")
        /\ Sound("qos")
        /\ Current("closure_traces")
        /\ Current("edge_traces")
        /\ Current("transport_traces")
    BY <2>2, CoherentFinds
  <2>4. Effect({"advanced"}, {}, {})
    BY <1>20, <2>2, <2>3, AdvancedEffect DEF Due
  <2>5. Advances(Coherent, 12, {"advanced"}, {}, {})
    BY DEF Advances, Made, Left, CoherentMade, CoherentLeft, Cache, Coherent
  <2> QED
    BY <2>1, <2>4, <2>5, CoherentAdvance
<1>21. ASSUME gen_coherent_assertion_activation
      PROVE  Table(g, k + 1)'
  <2>1. g = Coherent /\ k = 13
    BY <1>21, CoherentDue, CoherentPlaces DEF gen_coherent_assertion_activation, CacheLine
  <2>2. Typed /\ Table(Coherent, 13)
    BY <2>1 DEF Due
  <2>3. /\ Sound("error_reset")
        /\ Sound("qos")
        /\ Current("closure_traces")
        /\ Current("edge_traces")
        /\ Current("transport_traces")
    BY <2>2, CoherentFinds
  <2>4. Effect({"activation"}, {}, {})
    BY <1>21, <2>2, <2>3, ActivationEffect DEF Due
  <2>5. Advances(Coherent, 13, {"activation"}, {}, {})
    BY DEF Advances, Made, Left, CoherentMade, CoherentLeft, Cache, Coherent
  <2> QED
    BY <2>1, <2>4, <2>5, CoherentAdvance
<1>22. ASSUME gen_coherent_coverage
      PROVE  Table(g, k + 1)'
  <2>1. g = Coherent /\ k = 22
    BY <1>22, CoherentDue, CoherentPlaces DEF gen_coherent_coverage, CacheLine
  <2>2. Typed /\ Table(Coherent, 22)
    BY <2>1 DEF Due
  <2>3. /\ Sound("rtl_litmus")
        /\ Sound("error_reset")
        /\ Sound("performance")
        /\ Current("rtl_litmus_traces")
        /\ Current("event_traces")
        /\ Current("edge_traces")
        /\ Current("coverage_edge_traces")
    BY <2>2, CoherentFinds
  <2>4. Effect({"functional", "crosses"}, {}, {})
    BY <1>22, <2>2, <2>3, CoverageEffect DEF Due
  <2>5. Advances(Coherent, 22, {"functional", "crosses"}, {}, {})
    BY DEF Advances, Made, Left, CoherentMade, CoherentLeft, Cache, Coherent
  <2> QED
    BY <2>1, <2>4, <2>5, CoherentAdvance
<1>23. ASSUME gen_coherent_dashboard
      PROVE  Table(g, k + 1)'
  <2>1. g = Coherent /\ k = 23
    BY <1>23, CoherentDue, CoherentPlaces DEF gen_coherent_dashboard, CacheLine
  <2>2. Typed /\ Table(Coherent, 23)
    BY <2>1 DEF Due
  <2>3. /\ Sound("rtl_litmus")
        /\ Sound("directed")
        /\ Sound("model_litmus")
        /\ Sound("gcc")
        /\ Sound("random")
    BY <2>2, CoherentFinds
  <2>4. Effect({"reference"}, {}, {})
    BY <1>23, <2>2, <2>3, DashboardEffect DEF Due
  <2>5. Advances(Coherent, 23, {"reference"}, {}, {})
    BY DEF Advances, Made, Left, CoherentMade, CoherentLeft, Cache, Coherent
  <2> QED
    BY <2>1, <2>4, <2>5, CoherentAdvance
<1> QED
  BY <1>1, <1>2, <1>3, <1>4, <1>5, <1>6, <1>7, <1>8, <1>9, <1>10, <1>11, <1>12,
     <1>13, <1>14, <1>15, <1>16, <1>17, <1>18, <1>19, <1>20, <1>21, <1>22, <1>23
  DEF CoherentScripts

-------------------------------------------------------------------------------
(* The last lines, which both gates share.                                 *)
LEMMA ClosingDue ==
  ASSUME NEW g, NEW k, Due(g, k), NEW line, At(line)
  PROVE  \/ g = Cache /\ k \in 1 .. 36 /\ Release[k] = line
         \/ g = Coherent /\ k \in 1 .. 26 /\ CoherentRelease[k] = line
<1>1. g \in {Cache, Coherent} /\ Cache # Coherent
  BY DEF Due, Gate, Cache, Coherent
<1> QED
  BY <1>1 DEF Due, Last, Lines, At

(* The last two lines disturb no report and no directory.                  *)
LEMMA Settled ==
  ASSUME NEW g \in Gate, NEW k \in {Last(g) - 1, Last(g)}, Table(g, k),
         UNCHANGED <<files, report, swallowed>>
  PROVE  /\ \A j \in 1 .. k : /\ \A r \in Made(g, j) : Sound(r)'
                            /\ \A d \in Left(g, j) : Current(d)'
         /\ swallowed' \subseteq Excused /\ k + 1 # 19
<1>1. Last(g) \in {26, 36} /\ k \in {25, 26, 35, 36}
  BY DEF Last
<1>2. Made(g, k) = {} /\ Left(g, k) = {}
  <2>1. CASE g = Cache
    BY <2>1, <1>1 DEF Last, Made, Left, CacheMade, CacheLeft, Cache
  <2>2. CASE g # Cache
    <3>1. k \in {25, 26}
      BY <2>2 DEF Last
    <3> QED
      BY <2>2, <3>1 DEF Made, Left, CoherentMade, CoherentLeft
  <2> QED
    BY <2>1, <2>2
<1>3. ASSUME NEW j \in 1 .. k
      PROVE  /\ \A r \in Made(g, j) : Sound(r)'
             /\ \A d \in Left(g, j) : Current(d)'
  <2>1. CASE j = k
    BY <2>1, <1>2
  <2>2. CASE j # k
    <3>1. j \in 1 .. k - 1
      BY <2>2, <1>1
    <3>2. /\ \A r \in Made(g, j) : Sound(r)
          /\ \A d \in Left(g, j) : Current(d)
      BY <3>1, Found
    <3> QED
      BY <3>2 DEF Sound, Complete, Current
  <2> QED
    BY <2>1, <2>2
<1>4. swallowed' \subseteq Excused
  BY DEF Table
<1> QED
  BY <1>1, <1>3, <1>4

(* The closing scripts bring either gate forward.                          *)
LEMMA ClosingAdvances ==
  ASSUME NEW g, NEW k, Due(g, k), ClosingScripts
  PROVE  Table(g, k + 1)'
<1>1. g \in Gate /\ Last(g) \in {26, 36} /\ k \in 1 .. 37 /\ Table(g, k) /\ Typed
  BY DEF Due, Last
<1>2. ASSUME gen_metrics
      PROVE  Table(g, k + 1)'
  <2>1. (g = Cache /\ k \in {13, 34}) \/ (g = Coherent /\ k = 24)
    BY <1>2, ClosingDue, CachePlaces, CoherentPlaces DEF gen_metrics
  <2>2. k < Last(g) - 1 /\ k # 18
    BY <2>1 DEF Last, Cache, Coherent
  <2>3. Effect({}, {"metrics"}, {})
    BY <1>2, MetricsEffect DEF Due
  <2>4. Advances(g, k, {}, {"metrics"}, {})
    <3>1. Made(g, k) = {} /\ Left(g, k) = {}
      BY <2>1 DEF Made, Left, CacheMade, CacheLeft, CoherentMade, CoherentLeft,
         Cache, Coherent
    <3>2. \A j : "metrics" \notin Made(g, j)
      BY DEF Made, CacheMade, CoherentMade
    <3> QED
      BY <3>1, <3>2 DEF Advances
  <2>5. Reviewed(g, k)'
    BY <2>2 DEF Reviewed
  <2> QED
    BY <1>1, <2>2, <2>3, <2>4, <2>5, Advance
<1>3. ASSUME update_readme_metrics
      PROVE  Table(g, k + 1)'
  <2>1. (g = Cache /\ k \in {14, 35}) \/ (g = Coherent /\ k = 25)
    BY <1>3, ClosingDue, CachePlaces, CoherentPlaces DEF update_readme_metrics
  <2>2. /\ UNCHANGED <<files, report, swallowed>>
        /\ \A r \in Quoted : readme'[r] = report[r]
    BY <1>3, ReadmeEffect DEF Due
  <2>3. CASE k = 14
    <3>1. g = Cache /\ k < 35
      BY <2>1, <2>3
    <3>2. Effect({}, {}, {})
      BY <2>2 DEF Effect
    <3>3. Advances(Cache, 14, {}, {}, {})
      BY DEF Advances, Made, Left, CacheMade, CacheLeft, Cache
    <3> QED
      BY <2>3, <3>1, <3>2, <3>3, CacheAdvance
  <2>4. CASE k # 14
    <3>1. k = Last(g) - 1
      BY <2>1, <2>4 DEF Last, Cache, Coherent
    <3>2. /\ \A j \in 1 .. k : /\ \A r \in Made(g, j) : Sound(r)'
                           /\ \A d \in Left(g, j) : Current(d)'
          /\ swallowed' \subseteq Excused /\ k + 1 # 19
      BY <1>1, <2>2, <3>1, Settled
    <3>3. \A r \in Quoted' : readme'[r] = report'[r]
      BY <2>2 DEF Quoted, Exists
    <3> QED
      BY <1>1, <3>1, <3>2, <3>3 DEF Table
  <2> QED
    BY <2>3, <2>4
<1>4. ASSUME check_docs
      PROVE  Table(g, k + 1)'
  <2>1. k = Last(g)
    <3>1. (g = Cache /\ k = 36) \/ (g = Coherent /\ k = 26)
      BY <1>4, ClosingDue, CachePlaces, CoherentPlaces DEF check_docs
    <3> QED
      BY <3>1 DEF Last, Cache, Coherent
  <2>2. UNCHANGED <<files, report, readme, swallowed>> /\ Exists("gcc")
    BY <1>4, DocsEffect DEF Due
  <2>3. /\ \A j \in 1 .. k : /\ \A r \in Made(g, j) : Sound(r)'
                         /\ \A d \in Left(g, j) : Current(d)'
        /\ swallowed' \subseteq Excused /\ k + 1 # 19
    BY <1>1, <2>1, <2>2, Settled
  <2>4. (\A r \in Quoted : readme[r] = report[r])' /\ Exists("gcc")'
    BY <1>1, <2>1, <2>2 DEF Table, Quoted, Exists
  <2> QED
    BY <1>1, <2>1, <2>3, <2>4 DEF Table
<1> QED
  BY <1>2, <1>3, <1>4 DEF ClosingScripts

(* Every script preserves the invariant.                                   *)
LEMMA ScriptKeeps ==
  ASSUME IInv, CacheScripts \/ CoherentScripts \/ ClosingScripts
  PROVE  IInv'
<1>1. Typed /\ Kept
  BY CacheKept, CoherentKept, ClosingKept DEF IInv
<1>2. Typed' /\ (result = "running" <=> todo # <<>>)'
  BY <1>1, KeptTyped DEF Kept, Stepped
<1>3. ASSUME NEW g \in Gate, goal' = g, result' # "failed"
      PROVE  \E k \in 1 .. 37 : Position(g, k)' /\ Table(g, k)'
  <2>1. goal = g /\ result # "failed" /\ todo # <<>> /\ Stepped
    BY <1>1, <1>3 DEF IInv, Kept, Stepped
  <2>2. PICK k \in 1 .. 37 : Position(g, k) /\ Table(g, k)
    BY <2>1 DEF IInv
  <2>3. todo \in Seq(Line)
    BY <1>1 DEF Typed
  <2>4. k \in 1 .. Last(g) /\ Head(todo) = Lines(g)[k] /\ Position(g, k + 1)'
    BY <1>3, <2>1, <2>2, <2>3, Proceeds
  <2>5. Due(g, k)
    BY <1>1, <1>3, <2>2, <2>4 DEF Due
  <2>6. Table(g, k + 1)'
    BY <2>5, CacheAdvances, CoherentAdvances, ClosingAdvances
  <2>7. k + 1 \in 1 .. 37
    BY <2>4 DEF Last
  <2> QED
    BY <2>4, <2>6, <2>7
<1> QED
  BY <1>2, <1>3 DEF IInv

-------------------------------------------------------------------------------
(* The developer.                                                          *)
LEMMA RecipeLines ==
  ASSUME NEW g \in Goal
  PROVE  /\ Recipe[g] \in Seq(Line) /\ Recipe[g] # <<>>
         /\ g \in Gate => Recipe[g] = Lines(g) /\ Len(Lines(g)) = Last(g)
<1>1. Release \in Seq(Line) /\ Release # <<>> /\ Len(Release) = 36
  <2>1. PICK s : s = Release
    OBVIOUS
  <2>2. s \in Seq(Line) /\ Len(s) = 36
    BY <2>1, ReleaseLines
  <2>3. s # <<>>
    BY <2>2
  <2> QED
    BY <2>1, <2>2, <2>3
<1>2. CoherentRelease \in Seq(Line) /\ CoherentRelease # <<>> /\ Len(CoherentRelease) = 26
  <2>1. PICK s : s = CoherentRelease
    OBVIOUS
  <2>2. s \in Seq(Line) /\ Len(s) = 26
    BY <2>1, CoherentReleaseLines
  <2>3. s # <<>>
    BY <2>2
  <2> QED
    BY <2>1, <2>2, <2>3
<1>3. /\ ProjectChecks \o <<"metrics", "readme">> \in Seq(Line)
      /\ ProjectChecks \o <<"metrics", "readme">> # <<>>
  <2>1. ProjectChecks \in Seq(Line) /\ Len(ProjectChecks) = 12
    BY ProjectChecksLines
  <2>2. <<"metrics", "readme">> \in Seq(Line)
    BY DEF Line, CacheLine
  <2>3. PICK s, t : s = ProjectChecks /\ t = <<"metrics", "readme">>
    OBVIOUS
  <2>4. Joined(Line, s, t, s \o t) /\ Len(s) = 12 /\ Len(t) = 2
    BY <2>1, <2>2, <2>3, Concat
  <2>5. s \o t \in Seq(Line) /\ Len(s \o t) = 14
    BY <2>4 DEF Joined
  <2> QED
    BY <2>3, <2>5
<1>4. <<"regress_smoke">> \in Seq(Line) /\ <<"regress_smoke">> # <<>>
  BY DEF Line, OtherLine
<1>5. /\ <<"edges", "merge_coverage", "review_holes">> \in Seq(Line)
      /\ <<"edges", "merge_coverage", "review_holes">> # <<>>
  BY DEF Line, CacheLine
<1>6. /\ <<"coherent_coverage", "dashboard">> \in Seq(Line)
      /\ <<"coherent_coverage", "dashboard">> # <<>>
  BY DEF Line, CoherentLine
<1>7. <<"metrics", "readme">> \in Seq(Line) /\ <<"metrics", "readme">> # <<>>
  BY DEF Line, CacheLine
<1>8. <<"all">> \in Seq(Line) /\ <<"all">> # <<>>
  BY DEF Line, OtherLine
<1>9. <<"cover">> \in Seq(Line) /\ <<"cover">> # <<>>
  BY DEF Line, OtherLine
<1>10. /\ <<"uvm_environment", "uvm_runtime">> \in Seq(Line)
       /\ <<"uvm_environment", "uvm_runtime">> # <<>>
  BY DEF Line, OtherLine
<1>11. <<"docs">> \in Seq(Line) /\ <<"docs">> # <<>>
  BY DEF Line, CacheLine
<1>12. Recipe[g] \in
         {Release, ProjectChecks \o <<"metrics", "readme">>, CoherentRelease, <<"regress_smoke">>,
          <<"edges", "merge_coverage", "review_holes">>, <<"coherent_coverage", "dashboard">>,
          <<"metrics", "readme">>, <<"all">>, <<"cover">>,
          <<"uvm_environment", "uvm_runtime">>, <<"docs">>}
  BY DEF Recipe
<1>13. g \in Gate => Recipe[g] = Lines(g) /\ Len(Lines(g)) = Last(g)
  BY <1>1, <1>2 DEF Recipe, Gate, Lines, Last, Cache
<1>14. Recipe[g] \in Seq(Line) /\ Recipe[g] # <<>>
  BY <1>1, <1>2, <1>3, <1>4, <1>5, <1>6, <1>7, <1>8, <1>9, <1>10, <1>11, <1>12, Zenon
<1> QED
  BY <1>13, <1>14

(* A goal starts: nothing is claimed yet of a gate, and nothing is known   *)
(* of what earlier goals left.                                             *)
LEMMA StartKeeps ==
  ASSUME IInv, NEW g \in Goal, Start(g)
  PROVE  IInv'
<1>1. todo' = Recipe[g] /\ result' = "running" /\ goal' = g /\ swallowed' = {}
      /\ UNCHANGED <<report, files, readme>>
  BY DEF Start
<1>2. Typed' /\ (result = "running" <=> todo # <<>>)'
  BY <1>1, RecipeLines DEF IInv, Typed
<1>3. ASSUME g \in Gate
      PROVE  Position(g, 1)' /\ Table(g, 1)'
  <2>1. todo' = Lines(g) /\ Len(todo') = Last(g) /\ Last(g) \in {26, 36}
    BY <1>1, <1>3, RecipeLines DEF Last
  <2>2. Position(g, 1)'
    BY <2>1 DEF Position
  <2>3. Table(g, 1)'
    BY <1>1, <2>1 DEF Table
  <2> QED
    BY <2>2, <2>3
<1> QED
  BY <1>1, <1>2, <1>3 DEF IInv

(* Nothing runs, and no gate has passed.                                   *)
LEMMA IdleInv ==
  ASSUME report = [r \in Report |-> report[r]], files \in [Directory -> SUBSET Age],
         goal = "none", todo = <<>>, result = "idle"
  PROVE  IInv
BY DEF IInv, Typed, Gate

(* The code changes.                                                       *)
LEMMA EditKeeps ==
  ASSUME IInv, NEW dropped, Edit(dropped)
  PROVE  IInv'
<1>1. goal' = "none" /\ todo' = <<>> /\ result' = "idle"
  BY DEF Edit
<1>2. report' = [r \in Report |-> report'[r]]
  BY DEF Edit
<1>3. files' \in [Directory -> SUBSET Age]
  BY DEF Edit, IInv, Typed, Aged, Age
<1> QED
  BY <1>1, <1>2, <1>3 DEF IInv, Typed, Gate

(* make clean.                                                             *)
LEMMA CleanKeeps ==
  ASSUME IInv, Clean
  PROVE  IInv'
<1>1. goal' = "none" /\ todo' = <<>> /\ result' = "idle"
  BY DEF Clean
<1>2. report' = [r \in Report |-> report'[r]] /\ files' \in [Directory -> SUBSET Age]
  BY DEF Clean, IInv, Typed
<1> QED
  BY <1>1, <1>2 DEF IInv, Typed, Gate

(* Nothing happens.                                                        *)
LEMMA StutterKeeps ==
  ASSUME IInv, UNCHANGED vars
  PROVE  IInv'
<1>1. UNCHANGED <<goal, todo, result, report, files, readme, swallowed>>
  BY DEF vars
<1>2. Typed' /\ (result = "running" <=> todo # <<>>)'
  BY <1>1 DEF IInv, Typed
<1>3. ASSUME NEW g \in Gate, NEW k, Position(g, k), Table(g, k)
      PROVE  Position(g, k)' /\ Table(g, k)'
  <2>1. Position(g, k)'
    BY <1>1, <1>3 DEF Position
  <2>2. \A r : (Sound(r) => Sound(r)') /\ (Current(r) => Current(r)')
    BY <1>1 DEF Sound, Complete, Current
  <2>3. (Reviewable => Reviewable') /\ Quoted' = Quoted /\ (Exists("gcc") => Exists("gcc")')
    BY <1>1 DEF Reviewable, Quoted, Exists
  <2>4. Table(g, k)'
    BY <1>1, <1>3, <2>2, <2>3 DEF Table
  <2> QED
    BY <2>1, <2>4
<1> QED
  BY <1>1, <1>2, <1>3 DEF IInv

(* The initial state.                                                      *)
LEMMA InitInv ==
  ASSUME Init
  PROVE  IInv
<1>1. goal = "none" /\ todo = <<>> /\ result = "idle"
  BY DEF Init
<1>2. report = [r \in Report |-> report[r]] /\ files \in [Directory -> SUBSET Age]
  BY DEF Init
<1> QED
  BY <1>1, <1>2, IdleInv

(* The table of what the finished lines have left is kept by every step,   *)
(* for any goals in any order and any number of them: whatever state the   *)
(* files are in when a gate starts, a line reads only what an earlier line *)
(* of the same gate has left, or what cannot be older than the code.       *)
THEOREM Inductive == Spec => []IInv
<1>1. Init => IInv
  BY InitInv
<1>2. IInv /\ [Next]_vars => IInv'
  BY ScriptKeeps, StartKeeps, EditKeeps, CleanKeeps, StutterKeeps DEF Next
<1> QED
  BY <1>1, <1>2, PTL DEF Spec

(* Some line of release-check makes each report it answers for.            *)
LEMMA CacheAnswers ==
  ASSUME NEW r \in CacheReport
  PROVE  \E j \in 1 .. 36 : r \in Made(Cache, j)
<1>1. /\ "regress" \in CacheMade(3)
      /\ "model_trace" \in CacheMade(33)
      /\ "functional_coverage" \in CacheMade(5)
      /\ "cache_performance" \in CacheMade(6)
      /\ "stress_manifest" \in CacheMade(7)
      /\ "coherence" \in CacheMade(8)
      /\ "msi_random" \in CacheMade(9)
      /\ "msi_mutation" \in CacheMade(10)
      /\ "bist" \in CacheMade(11)
      /\ "array_bist" \in CacheMade(12)
      /\ "stress" \in CacheMade(15)
      /\ "cache_cross" \in CacheMade(18)
      /\ "bug_validation" \in CacheMade(19)
      /\ "debug_waveform" \in CacheMade(20)
      /\ "ras" \in CacheMade(21)
      /\ "cache_edges" \in CacheMade(25)
      /\ "code_coverage" \in CacheMade(26)
      /\ "hole_review" \in CacheMade(27)
      /\ "associativity_check" \in CacheMade(28)
      /\ "synthesis" \in CacheMade(29)
      /\ "associativity" \in CacheMade(30)
      /\ "integration_synthesis" \in CacheMade(31)
      /\ "nonblocking" \in CacheMade(32)
  BY DEF CacheMade
<1>2. \E j \in 1 .. 36 : r \in CacheMade(j)
  BY <1>1 DEF CacheReport
<1> QED
  BY <1>2 DEF Made, Cache, Coherent

(* Some line of coherent-release-check makes each report it answers for.   *)
LEMMA CoherentAnswers ==
  ASSUME NEW r \in CoherentReport
  PROVE  \E j \in 1 .. 26 : r \in Made(Coherent, j)
<1>1. /\ "rv32_smoke" \in CoherentMade(2)
      /\ "gcc" \in CoherentMade(3)
      /\ "herd" \in CoherentMade(4)
      /\ "rtl_litmus" \in CoherentMade(5)
      /\ "model_litmus" \in CoherentMade(6)
      /\ "random" \in CoherentMade(7)
      /\ "directed" \in CoherentMade(8)
      /\ "error_reset" \in CoherentMade(9)
      /\ "qos" \in CoherentMade(10)
      /\ "closure" \in CoherentMade(11)
      /\ "advanced" \in CoherentMade(12)
      /\ "activation" \in CoherentMade(13)
      /\ "coverage_edges" \in CoherentMade(14)
      /\ "formal" \in CoherentMade(15)
      /\ "model_mutation" \in CoherentMade(16)
      /\ "rtl_mutation" \in CoherentMade(17)
      /\ "coherent_code_coverage" \in CoherentMade(18)
      /\ "coherent_holes" \in CoherentMade(19)
      /\ "model_performance" \in CoherentMade(20)
      /\ "performance" \in CoherentMade(21)
      /\ "functional" \in CoherentMade(22)
      /\ "crosses" \in CoherentMade(22)
      /\ "reference" \in CoherentMade(23)
  BY DEF CoherentMade
<1>2. \E j \in 1 .. 26 : r \in CoherentMade(j)
  BY <1>1 DEF CoherentReport
<1> QED
  BY <1>2 DEF Made, Cache, Coherent

(* Every report a gate that passes answers for is sound.                   *)
LEMMA PassedTable ==
  ASSUME IInv, Passed(Gate)
  PROVE  /\ \A r \in AnswersFor : Sound(r)
         /\ swallowed \subseteq Excused
         /\ Exists("gcc") /\ \A r \in Quoted : readme[r] = report[r]
<1>1. PICK g \in Gate : goal = g /\ result = "passed"
  BY DEF Passed
<1>2. todo = <<>> /\ Len(todo) = 0
  BY <1>1 DEF IInv
<1>3. PICK k \in 1 .. 37 : Position(g, k) /\ Table(g, k)
  BY <1>1 DEF IInv
<1>4. Last(g) \in {26, 36} /\ k = Last(g) + 1
  <2>1. Last(g) \in {26, 36}
    BY DEF Last
  <2> QED
    BY <2>1, <1>2, <1>3 DEF Position
<1>5. ASSUME NEW r \in AnswersFor
      PROVE  Sound(r)
  <2>1. PICK j \in 1 .. Last(g) : r \in Made(g, j)
    <3>1. CASE g = Cache
      BY <3>1, <1>1, <1>5, CacheAnswers DEF AnswersFor, Last, Cache
    <3>2. CASE g # Cache
      <4>1. g = Coherent
        BY <3>2, <1>1 DEF Gate, Cache, Coherent
      <4> QED
        BY <4>1, <1>1, <1>5, CoherentAnswers DEF AnswersFor, Last, Cache, Coherent
    <3> QED
      BY <3>1, <3>2
  <2>2. j \in 1 .. k - 1
    BY <1>4, <2>1
  <2> QED
    BY <1>3, <2>1, <2>2, Found
<1> QED
  BY <1>3, <1>4, <1>5 DEF Table

(* A release gate that passes has derived every report it answers for from *)
(* runs of the present code (the recipes of the Makefile); what a removed  *)
(* case left may count besides, in the reports that search a directory.    *)
THEOREM Fresh == Spec => []GateIsFresh
<1>1. IInv => GateIsFresh
  BY PassedTable DEF GateIsFresh, Sound, Allowed
<1> QED
  BY <1>1, Inductive, PTL

(* A release gate that passes leaves each of these reports whole and       *)
(* without a failing row: no later line replaces a report by a part of it. *)
THEOREM CompleteReports == Spec => []GateIsComplete
<1>1. IInv => GateIsComplete
  <2>1. SUFFICES ASSUME IInv, Passed(Gate),
                        NEW r \in AnswersFor \ {"synthesis", "integration_synthesis"}
                 PROVE  report[r].full /\ (r # "hole_review" => report[r].good)
    BY DEF GateIsComplete
  <2>2. Sound(r)
    BY <2>1, PassedTable
  <2> QED
    BY <2>1, <2>2 DEF Sound, Complete
<1> QED
  BY <1>1, Inductive, PTL

(* A release gate that passes has dropped no failure a script saw, but for *)
(* the verdicts of the probe runs of run_coherent_error_reset.             *)
THEOREM FailuresCount == Spec => []NoFailureSwallowed
<1>1. IInv => NoFailureSwallowed
  BY PassedTable DEF NoFailureSwallowed, Excused
<1> QED
  BY <1>1, Inductive, PTL

(* When a release gate passes, the generated table of README quotes the    *)
(* reports of both lanes as they are.                                      *)
THEOREM QuotesReports == Spec => []ReadmeQuotesReports
<1>1. IInv => ReadmeQuotesReports
  BY PassedTable DEF ReadmeQuotesReports, Quoted
<1> QED
  BY <1>1, Inductive, PTL
===============================================================================
