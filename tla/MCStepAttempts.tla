----------------------------- MODULE MCStepAttempts -----------------------------
(* Batches for model checking StepAttempts: p is a coroutine, the others are not. *)
EXTENDS StepAttempts

CONSTANTS p, q, r

\* One retry for p and q, none for the others.
RetryPQ == [s \in Batch |-> IF s \in {p, q} THEN 1 ELSE 0]

On(direct, listener, workers) == [direct |-> direct, listener |-> listener, workers |-> workers]

\* Both kinds of wait_for, of pools (short of threads, and just large enough) and
\* the event handlers.
SomeHosts == {On(FALSE, "none", 1), On(TRUE, "none", 3), On(FALSE, "thread", 3),
              On(TRUE, "thread", 2), On(TRUE, "coroutine", 3)}
=============================================================================
