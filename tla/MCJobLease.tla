----------------------------- MODULE MCJobLease -----------------------------
(* Two executions that carry the same worker identity (a step the runtime ran  *)
(* twice) and a third of another workflow.                                     *)
EXTENDS JobLease, TLC

CONSTANTS e1, e2, e3, w1, w2

SharedWorker == (e1 :> w1) @@ (e2 :> w1) @@ (e3 :> w2)

=============================================================================
