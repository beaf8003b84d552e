------------------------------ MODULE MCWorkflowPlan ------------------------------
(* Definitions of four steps for model checking WorkflowPlan. *)
EXTENDS WorkflowPlan, TLC

CONSTANTS a, b, c, d

\* Every graph, and every graph with one flawed entry: a dependency on the step
\* itself or on an unknown one.
Graphs    == {g \in [Steps -> SUBSET Steps] : \A s \in Steps : s \notin g[s]}
WithFlaws == Graphs \cup {[g EXCEPT ![a] = @ \cup {flaw}] : g \in Graphs, flaw \in {a, Unknown}}

\* b, c and d are alike; a may have the flaw.
Alike == Permutations({b, c, d})
=============================================================================
