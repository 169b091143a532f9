--------------------------- MODULE MCWorkflowRuns ---------------------------
(* Definitions of workflows that TLC runs: together they have a step of each *)
(* kind, both branches of a condition, and calls of the same and of another  *)
(* kind that follow each other.                                              *)
EXTENDS WorkflowRuns

CONSTANT r1

At(kind, url, gates) == [kind |-> kind, url |-> url, gates |-> gates]
Step(kind) == At(kind, 0, {})

MCPlans == {
  <<At("http", 1, {}), At("http", 2, {})>>,
  <<Step("human"), Step("agent")>>,
  <<Step("condition"), At("timer", 0, {[step |-> 1, branch |-> "ifMet"]}),
    At("table", 0, {[step |-> 1, branch |-> "otherwise"]})>>,
  <<Step("code"), At("http", 1, {}), At("http", 1, {})>>}
=============================================================================
