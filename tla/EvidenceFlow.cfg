SPECIFICATION Spec
CONSTANTS
  Goal = {"release-check", "coherent-release-check", "project-check", "smoke", "coverage-edges", "coherent-dashboard", "readme-metrics", "docs-check", "formal-prove", "formal-cover", "uvm-runtime-smoke"}
  MaxCalls = 2
CHECK_DEADLOCK FALSE
INVARIANTS
  GateIsFresh
  GateIsComplete
  NoFailureSwallowed
  ReadmeQuotesReports
