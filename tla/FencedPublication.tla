------------------------- MODULE FencedPublication -------------------------
(* What a leased job promises to whoever reads the results it publishes:       *)
(* results come in epochs, an epoch is opened by its owner and publishes only  *)
(* while it is the newest and still open, and after a final result nothing     *)
(* moves.  JobLease implements it with lease generations.                      *)
EXTENDS Naturals

CONSTANT Job

VARIABLES
  epoch,       \* number of the newest epoch of each job
  open,        \* the newest epoch may still publish
  final,       \* the job has its final result
  published    \* epoch that published last, 0 if none

vars == <<epoch, open, final, published>>

Init ==
  /\ epoch = [j \in Job |-> 0]
  /\ open = [j \in Job |-> FALSE]
  /\ final = [j \in Job |-> FALSE]
  /\ published = [j \in Job |-> 0]

\* A new owner; an open epoch is closed by it.
Open(j) ==
  /\ ~final[j]
  /\ epoch' = [epoch EXCEPT ![j] = @ + 1]
  /\ open' = [open EXCEPT ![j] = TRUE]
  /\ UNCHANGED <<final, published>>

Publish(j) ==
  /\ open[j]
  /\ published' = [published EXCEPT ![j] = epoch[j]]
  /\ UNCHANGED <<epoch, open, final>>

\* The owner gives up, or pauses; it may publish as it does.
Close(j) ==
  /\ open[j]
  /\ open' = [open EXCEPT ![j] = FALSE]
  /\ UNCHANGED published \/ published' = [published EXCEPT ![j] = epoch[j]]
  /\ UNCHANGED <<epoch, final>>

Finish(j) ==
  /\ open[j]
  /\ open' = [open EXCEPT ![j] = FALSE]
  /\ final' = [final EXCEPT ![j] = TRUE]
  /\ published' = [published EXCEPT ![j] = epoch[j]]
  /\ UNCHANGED epoch

Next == \E j \in Job : Open(j) \/ Publish(j) \/ Close(j) \/ Finish(j)

Spec == Init /\ [][Next]_vars

=============================================================================
