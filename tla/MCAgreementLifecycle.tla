------------------------ MODULE MCAgreementLifecycle ------------------------
(* Small instances of AgreementLifecycle: documents and people are model       *)
(* values; people of the same role are interchangeable, and so are documents.  *)
EXTENDS AgreementLifecycle, TLC

Alike == Permutations(Document) \cup Permutations(Admin) \cup Permutations(Approver \ Admin)

\* The bounds of the safety run.  Two questions, kept apart to keep it small: a
\* version and its successor, and evidence that moves under one version.
Opened(table) == Cardinality({i \in DOMAIN table : table[i].status # "ABSENT"})

Focus ==
  \/ /\ Opened(run) <= 1 /\ ready = Document
     /\ \A r \in Run : run[r].doc # {} => run[r].fresh
     /\ \A q \in Request : decision[q].condition # "none" => Opened(scenario) <= 1
  \/ /\ Opened(version) <= 1 /\ Opened(scenario) <= 1
     /\ \A e \in Scenario : scenario[e].status # "REJECTED"
     /\ \A q \in Request : decision[q].condition = "none"
     /\ ready = Document \/ \A r \in Run : run[r].doc # {} => run[r].fresh
=============================================================================
