------------------------------ MODULE MCReliance ------------------------------
(* Three stories on one small instance, kept apart by Focus: an empty system in *)
(* which validation runs overlap; a system with an approved agreement version   *)
(* in which snapshots are asked for; and the playbook of the matter.            *)
EXTENDS Reliance

CONSTANTS MaxChanges, e1, e2, c1, c2, p1, p2, o1, o2

MCPrompt == [e \in Engine |-> 1]
MCFrom == [o \in Option |-> 0]
MCUntil == [o \in Option |-> 2]

\* After a validation, a standard, an analysis, its graph, the attestations and
\* the approval, in this order.
Passed == [NewRun(e1) EXCEPT !.status = "PASSED", !.step = "ended",
             !.told = [c \in Case |-> "pass"], !.stored = [c \in Case |-> "pass"],
             !.manifest = [c \in Case |-> "pass"]]
Prepared ==
  /\ engine = e1 /\ validation = <<Passed>>
  /\ standard = [made |-> 1, active |-> 1]
  /\ analysis = [n |-> 1, status |-> "SUCCEEDED", engine |-> e1, standard |-> 1,
                 attested |-> TRUE]
  /\ graph = [r \in (1 .. MaxAnalyses) \X Engine |-> IF r = <<1, e1>> THEN "attested" ELSE "none"]
  /\ version = "APPROVED" /\ decision = "none" /\ authorised = TRUE
  /\ asking = None /\ jobs = <<>> /\ snapshots = <<>>
  /\ audit = [next |-> 1, top |-> 0, open |-> 0]

MCInit ==
  /\ \/ RelianceInit /\ engine = e1 /\ authorised
     \/ Prepared
  /\ PlaybookInit /\ level = [p \in Person |-> "COUNSEL"]

\* How many things differ from what was approved.
Changed(b) == IF b THEN 1 ELSE 0
Changes ==
  Changed(engine # e1) + Changed(Len(validation) > 1) + Changed(standard.active # 1)
    + Changed(standard.made # 1) + Changed(analysis.n # 1) + Changed(version # "APPROVED")
    + Changed(decision # "none") + Changed(~authorised) + Changed(graph[1, e2] # "none")

\* One story at a time, and a bounded number of changes about a snapshot.
PlaybookAtRest ==
  /\ ledger = <<>> /\ now = 0 /\ text = 1
  /\ \A p \in Person : call[p] = NoCall /\ level[p] = "COUNSEL"
SnapshotsAtRest ==
  /\ version = "DRAFT" /\ analysis = NoAnalysis /\ standard.made = 0 /\ decision = "none"
  /\ authorised
OneRunAfterTheOther ==
  Len(validation) < 2 \/ validation[1].step = "ended" \/ validation[2].told = Nowhere
Focus ==
  \/ SnapshotsAtRest /\ audit.next = 1 /\ PlaybookAtRest /\ OneRunAfterTheOther
  \/ /\ standard.made # 0 /\ Changes <= MaxChanges
     /\ validation \in {<<Passed>>} \cup {<<Passed, NewRun(e)>> : e \in Engine}
  \/ /\ ~PlaybookAtRest /\ text # 0 /\ {"COUNSEL"} \subseteq {level[p] : p \in Person}
     /\ \A p \in Person : level[p] \in {"APPROVE", "COUNSEL"}

\* The disjuncts of Next, each while the other stories rest.
MCNext ==
  \/ PlaybookAtRest /\ (ValidationStep \/ GateStep \/ MatterStep \/ SnapshotStep)
       /\ UNCHANGED playbookVars
  \/ SnapshotsAtRest /\ validation = <<>> /\ engine = e1 /\ PlaybookNext
       /\ UNCHANGED relianceVars
MCSpec == MCInit /\ [][MCNext]_vars

Symmetric == Permutations({p1, p2}) \cup Permutations({o1, o2}) \cup Permutations({c1, c2})
=============================================================================
