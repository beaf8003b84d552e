----------------------------- MODULE MCWorkflowRun -----------------------------
(* Workflow graphs for model checking WorkflowRun, over step ids a to f. *)
EXTENDS WorkflowRunInvariant

CONSTANTS a, b, c, d, e, f

\* a, then b, then c, then d; e is independent.
Chain == [s \in Steps |-> CASE s = b -> {a} [] s = c -> {b} [] s = d -> {c} [] OTHER -> {}]

\* a, then b and c, then d; e is independent.
Diamond == [s \in Steps |-> CASE s \in {b, c} -> {a} [] s = d -> {b, c} [] OTHER -> {}]

\* a, then b, c and d; f after b; e is independent.
Fork == [s \in Steps |-> CASE s \in {b, c, d} -> {a} [] s = f -> {b} [] OTHER -> {}]
=============================================================================
