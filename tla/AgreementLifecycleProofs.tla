----------------------- MODULE AgreementLifecycleProofs -----------------------
(* Proofs about the agreement versions of a matter, for any documents, people  *)
(* and bounds.                                                                 *)
(*                                                                             *)
(* The argument.  The type is inductive once every request and scenario is     *)
(* known to name a version (Typed).  That one version is locked and one is in  *)
(* force (Exclusive) follows from the guards of Lock and Execute alone and     *)
(* gives the refinement of AgreementRegister.  An approval agrees with the     *)
(* lock because the selection of a version and the disposition of a scenario   *)
(* are final (SelectionKept, DispositionKept).  What a version in force rests  *)
(* on is kept because each handler that writes it is guarded by the status of  *)
(* its version or by Frozen: a publication over a frozen document has found    *)
(* nothing, and as a run that is still open has no finding yet (RunsInOrder)   *)
(* it changes nothing a version in force was executed on.  The same facts show *)
(* that the versions see the runs as the pipeline writes them (RunRegister).   *)
EXTENDS AgreementLifecycle, TLAPS

-----------------------------------------------------------------------------
(* Type correctness.                                                           *)

\* A request or a scenario that is there belongs to a version.
Named ==
  /\ \A q \in Request : decision[q].status # "ABSENT" => decision[q].version \in Version
  /\ \A e \in Scenario : scenario[e].status # "ABSENT" => scenario[e].version \in Version

Typed == TypeOK /\ Named

\* The row a change of the status writes.
LEMMA ChangedRow ==
  ASSUME NEW v \in Version, version[v] \in VersionRow, NEW e \in 0 .. MaxScenarios,
         NEW status \in {"APPROVED", "EXECUTED", "SUPERSEDED"}
  PROVE  /\ Changed(v, status, e) \in VersionRow
         /\ Changed(v, status, e).status = status
         /\ Changed(v, status, e).docs = version[v].docs
         /\ Changed(v, status, e).economics =
              IF status = "APPROVED" THEN e ELSE version[v].economics
BY DEF Changed, VersionRow

\* The rows of the versions after an execution.
LEMMA ExecutedRows ==
  ASSUME TypeOK, NEW v \in Version, Execute(v)
  PROVE  /\ version' \in [Version -> VersionRow]
         /\ \A u \in Version :
              /\ version'[u].economics = version[u].economics
              /\ version'[u].docs = version[u].docs
              /\ version'[u].status = IF u = v THEN "EXECUTED"
                                      ELSE IF version[u].status = "EXECUTED" THEN "SUPERSEDED"
                                      ELSE version[u].status
<1>1. \A u \in Version : version[u] \in VersionRow
  BY DEF TypeOK
<1>2. 0 \in 0 .. MaxScenarios
  BY LimitAssumption
<1> DEFINE w == Changed(v, "EXECUTED", 0)
<1>3. /\ w \in VersionRow /\ w.status = "EXECUTED" /\ w.docs = version[v].docs
      /\ w.economics = version[v].economics
  BY <1>1, <1>2, ChangedRow
<1> HIDE DEF w
<1>4. \A u \in Version :
        /\ [version[u] EXCEPT !.status = "SUPERSEDED"] \in VersionRow
        /\ [version[u] EXCEPT !.status = "SUPERSEDED"].status = "SUPERSEDED"
        /\ [version[u] EXCEPT !.status = "SUPERSEDED"].docs = version[u].docs
        /\ [version[u] EXCEPT !.status = "SUPERSEDED"].economics = version[u].economics
  BY <1>1 DEF VersionRow
<1>5. version' = [u \in Version |->
        IF u = v THEN w
        ELSE IF u # v /\ version[u].status = "EXECUTED"
             THEN [version[u] EXCEPT !.status = "SUPERSEDED"] ELSE version[u]]
  BY DEF Execute, Replaced, w
<1> QED BY <1>1, <1>3, <1>4, <1>5

\* Initially every row is absent.
LEMMA TypeInit == Init => TypeOK
<1> SUFFICES ASSUME Init PROVE TypeOK
  OBVIOUS
<1>1. NoVersion \in VersionRow /\ NoVersion.economics = 0 /\ NoVersion.status = "ABSENT"
  BY LimitAssumption DEF NoVersion, VersionRow
<1>2. NoRun \in RunRow
  BY DEF NoRun, RunRow
<1>3. NoGraph \in GraphRow
  BY DEF NoGraph, GraphRow
<1>4. NoScenario \in ScenarioRow
  BY LimitAssumption DEF NoScenario, ScenarioRow
<1>5. NoDecision \in DecisionRow
  BY LimitAssumption DEF NoDecision, DecisionRow
<1> QED BY <1>1, <1>2, <1>3, <1>4, <1>5 DEF Init, TypeOK

\* A table some rows of which are written is a table.
LEMMA RunsType ==
  ASSUME TypeOK, [Next]_vars
  PROVE  run' \in [Run -> RunRow]
<1>1. run \in [Run -> RunRow] /\ \A r \in Run : run[r] \in RunRow
  BY DEF TypeOK
<1>2. ASSUME NEW d \in Document, ReplaceText(d) PROVE run' \in [Run -> RunRow]
  <2>1. \A r \in Run : [run[r] EXCEPT !.fresh = FALSE] \in RunRow
    BY <1>1 DEF RunRow
  <2> QED BY <1>1, <1>2, <2>1 DEF ReplaceText
<1>3. ASSUME NEW d \in Document, OpenRun(d) PROVE run' \in [Run -> RunRow]
  <2>1. [NoRun EXCEPT !.doc = {d}, !.status = "RUNNING", !.fresh = TRUE] \in RunRow
    BY DEF NoRun, RunRow
  <2> QED BY <1>1, <1>3, <2>1 DEF OpenRun, Free
<1>4. ASSUME NEW r \in Run, FailRun(r) PROVE run' \in [Run -> RunRow]
  <2>1. [run[r] EXCEPT !.status = "FAILED"] \in RunRow
    BY <1>1 DEF RunRow
  <2>2. run' = [run EXCEPT ![r] = [run[r] EXCEPT !.status = "FAILED"]]
    BY <1>4 DEF FailRun
  <2> QED BY <1>1, <2>1, <2>2
<1>5. ASSUME NEW r \in Run, PublishRun(r) PROVE run' \in [Run -> RunRow]
  <2>1. PICK found \in BOOLEAN, restricted \in BOOLEAN :
          LET old == {s \in Run : run[s].doc = run[r].doc /\ run[s].finding = "UNREVIEWED"}
          IN run' = [s \in Run |->
               IF s = r THEN [run[r] EXCEPT !.status = "SUCCEEDED", !.restricted = restricted,
                                            !.finding = IF found THEN "UNREVIEWED" ELSE "none"]
               ELSE IF s \in old THEN [run[s] EXCEPT !.finding = "SUPERSEDED"]
               ELSE run[s]]
    BY <1>5 DEF PublishRun
  <2>2. [run[r] EXCEPT !.status = "SUCCEEDED", !.restricted = restricted,
                       !.finding = IF found THEN "UNREVIEWED" ELSE "none"] \in RunRow
    BY <1>1 DEF RunRow
  <2>3. \A s \in Run : [run[s] EXCEPT !.finding = "SUPERSEDED"] \in RunRow
    BY <1>1 DEF RunRow
  <2> QED BY <1>1, <2>1, <2>2, <2>3
<1>6. ASSUME NEW r \in Run, ReviewFinding(r) PROVE run' \in [Run -> RunRow]
  <2>1. \A status \in {"VALIDATED", "REJECTED"} : [run[r] EXCEPT !.finding = status] \in RunRow
    BY <1>1 DEF RunRow
  <2>2. \E status \in {"VALIDATED", "REJECTED"} :
          run' = [run EXCEPT ![r] = [run[r] EXCEPT !.finding = status]]
    BY <1>6 DEF ReviewFinding
  <2> QED BY <1>1, <2>1, <2>2
<1>7. ASSUME NEW r \in Run, AttestRun(r) PROVE run' \in [Run -> RunRow]
  <2>1. [run[r] EXCEPT !.attested = TRUE] \in RunRow
    BY <1>1 DEF RunRow
  <2>2. run' = [run EXCEPT ![r] = [run[r] EXCEPT !.attested = TRUE]]
    BY <1>7 DEF AttestRun
  <2> QED BY <1>1, <2>1, <2>2
<1>8. \/ run' = run
      \/ \E d \in Document : ReplaceText(d) \/ OpenRun(d)
      \/ \E r \in Run : FailRun(r) \/ PublishRun(r) \/ ReviewFinding(r) \/ AttestRun(r)
  BY DEF Next, vars, WithdrawSource, SaveScenario, RunGraph, ReviewGraph, AttestGraph,
         Execute, Supersede, Lock, RequestDecision, ReviewScenario, Approve, Reject,
         ResolveCondition, CreateVersion
<1> QED BY <1>1, <1>2, <1>3, <1>4, <1>5, <1>6, <1>7, <1>8

LEMMA GraphsType ==
  ASSUME TypeOK, [Next]_vars
  PROVE  graph' \in [Version -> GraphRow]
<1>1. graph \in [Version -> GraphRow] /\ \A v \in Version : graph[v] \in GraphRow
  BY DEF TypeOK
<1>2. ASSUME NEW lost PROVE Overrun(lost) \in [Version -> GraphRow]
  <2>1. \A v \in Version : [graph[v] EXCEPT !.state = "lost"] \in GraphRow
    BY <1>1 DEF GraphRow
  <2> QED BY <1>1, <2>1 DEF Overrun
<1>3. ASSUME NEW r \in Run, PublishRun(r) PROVE graph' \in [Version -> GraphRow]
  BY <1>2, <1>3 DEF PublishRun
<1>4. ASSUME NEW v \in Version, RunGraph(v) PROVE graph' \in [Version -> GraphRow]
  <2>1. PICK touched \in SUBSET version[v].docs :
          graph' = [Overrun(Exposed(version[v].docs) \ {v}) EXCEPT
            ![v] = [runs |-> CurrentRuns(v), touches |-> touched,
                    state |-> IF touched = {} THEN "reviewed" ELSE "open"]]
    BY <1>4 DEF RunGraph
  <2>2. CurrentRuns(v) \subseteq Run
    BY DEF CurrentRuns, Latest, Last, RunsOf
  <2>3. touched \subseteq Document
    BY DEF TypeOK, VersionRow
  <2> QED BY <1>2, <2>1, <2>2, <2>3 DEF GraphRow
<1>5. ASSUME NEW v \in Version, ReviewGraph(v) \/ AttestGraph(v)
      PROVE  graph' \in [Version -> GraphRow]
  <2>1. \E state \in {"reviewed", "attested"} :
          graph' = [graph EXCEPT ![v] = [graph[v] EXCEPT !.state = state]]
    BY <1>5 DEF ReviewGraph, AttestGraph
  <2>2. \A state \in {"reviewed", "attested"} : [graph[v] EXCEPT !.state = state] \in GraphRow
    BY <1>1 DEF GraphRow
  <2> QED BY <1>1, <2>1, <2>2
<1>6. \/ graph' = graph
      \/ \E r \in Run : PublishRun(r)
      \/ \E v \in Version : RunGraph(v) \/ ReviewGraph(v) \/ AttestGraph(v)
  BY DEF Next, vars, ReplaceText, WithdrawSource, OpenRun, FailRun, ReviewFinding, AttestRun,
         SaveScenario, Execute, Supersede, Lock, RequestDecision, ReviewScenario, Approve,
         Reject, ResolveCondition, CreateVersion
<1> QED BY <1>1, <1>3, <1>4, <1>5, <1>6

\* The handlers that write scenarios.
LEMMA Saved ==
  ASSUME Typed, NEW v \in Version, SaveScenario(v)
  PROVE  \E e \in Scenario, new \in ScenarioRow :
           /\ scenario[e].status = "ABSENT" /\ scenario' = [scenario EXCEPT ![e] = new]
           /\ new.status = "UNREVIEWED" /\ new.version = v
<1>1. PICK e \in Free(scenario) : scenario' = [scenario EXCEPT ![e] =
        [status |-> "UNREVIEWED", version |-> v]]
  BY DEF SaveScenario
<1>2. v \in 0 .. MaxVersions
  BY LimitAssumption DEF Typed, TypeOK, Version
<1>3. [status |-> "UNREVIEWED", version |-> v] \in ScenarioRow
  BY <1>2 DEF ScenarioRow
<1>4. e \in Scenario /\ scenario[e].status = "ABSENT"
  BY DEF Free, Typed, TypeOK
<1> QED BY <1>1, <1>3, <1>4

LEMMA ScenarioReviewed ==
  ASSUME Typed, NEW e \in Scenario, ReviewScenario(e)
  PROVE  \E new \in ScenarioRow :
           /\ scenario' = [scenario EXCEPT ![e] = new]
           /\ new.version = scenario[e].version /\ new.status \in {"VALIDATED", "REJECTED"}
<1>1. PICK status \in {"VALIDATED", "REJECTED"} :
        scenario' = [scenario EXCEPT ![e] = [scenario[e] EXCEPT !.status = status]]
  BY DEF ReviewScenario
<1> DEFINE new == [scenario[e] EXCEPT !.status = status]
<1>2. new \in ScenarioRow /\ new.version = scenario[e].version /\ new.status = status
  BY DEF Typed, TypeOK, ScenarioRow
<1>3. scenario' = [scenario EXCEPT ![e] = new]
  BY <1>1
<1> HIDE DEF new
<1> QED BY <1>2, <1>3

LEMMA ScenarioSteps ==
  ASSUME [Next]_vars
  PROVE  \/ scenario' = scenario
         \/ \E v \in Version : SaveScenario(v)
         \/ \E e \in Scenario : ReviewScenario(e)
BY DEF Next, vars, ReplaceText, WithdrawSource, OpenRun, FailRun, PublishRun, ReviewFinding,
       AttestRun, RunGraph, ReviewGraph, AttestGraph, Execute, Supersede, Lock,
       RequestDecision, Approve, Reject, ResolveCondition, CreateVersion

LEMMA ScenariosType ==
  ASSUME Typed, [Next]_vars
  PROVE  /\ scenario' \in [Scenario -> ScenarioRow]
         /\ \A e \in Scenario : scenario'[e].status # "ABSENT" => scenario'[e].version \in Version
<1>1. /\ scenario \in [Scenario -> ScenarioRow]
      /\ \A e \in Scenario : scenario[e].status # "ABSENT" => scenario[e].version \in Version
  BY DEF Typed, TypeOK, Named
<1>2. ASSUME NEW e \in Scenario, NEW new \in ScenarioRow,
             scenario' = [scenario EXCEPT ![e] = new], new.version \in Version
      PROVE  /\ scenario' \in [Scenario -> ScenarioRow]
             /\ \A o \in Scenario :
                  scenario'[o].status # "ABSENT" => scenario'[o].version \in Version
  BY <1>1, <1>2
<1>3. CASE scenario' = scenario
  BY <1>1, <1>3
<1>4. ASSUME NEW v \in Version, SaveScenario(v)
      PROVE  \E e \in Scenario, new \in ScenarioRow :
               scenario' = [scenario EXCEPT ![e] = new] /\ new.version \in Version
  BY <1>4, Saved
<1>5. ASSUME NEW e \in Scenario, ReviewScenario(e)
      PROVE  \E new \in ScenarioRow :
               scenario' = [scenario EXCEPT ![e] = new] /\ new.version \in Version
  <2>1. scenario[e].version \in Version
    BY <1>1, <1>5 DEF ReviewScenario
  <2> QED BY <1>5, <2>1, ScenarioReviewed
<1> QED BY <1>2, <1>3, <1>4, <1>5, ScenarioSteps

\* What each handler of decisions leaves behind.
LEMMA Requested ==
  ASSUME Typed, NEW p \in Approver, NEW v \in Version, RequestDecision(p, v)
  PROVE  \E q \in Request, new \in DecisionRow :
           /\ decision[q].status = "ABSENT" /\ decision' = [decision EXCEPT ![q] = new]
           /\ new.status = "PENDING" /\ new.version = v
<1>1. PICK q \in Free(decision), kind \in {"affirm", "block"}, r \in Nameable(v) \cup {0},
           asked \in BOOLEAN, condition \in {"none", "PENDING"} :
        decision' = [decision EXCEPT ![q] = RequestRow(p, v, r, kind, asked, condition)]
  BY DEF RequestDecision
<1> DEFINE new == RequestRow(p, v, r, kind, asked, condition)
<1>2. r \in Run \cup {0}
  BY DEF Nameable, LatestSucceeded, Last, RunsOf
<1>3. v \in 0 .. MaxVersions /\ r \in 0 .. MaxRuns /\ 0 \in 0 .. MaxScenarios
  BY <1>2, LimitAssumption DEF Version, Run
<1>4. NeedsAdmin(r, kind, asked) \in BOOLEAN
  BY DEF NeedsAdmin
<1>5. new \in DecisionRow /\ new.status = "PENDING" /\ new.version = v
  BY <1>3, <1>4 DEF RequestRow, DecisionRow
<1>6. q \in Request /\ decision[q].status = "ABSENT"
  BY DEF Typed, TypeOK, Free
<1> HIDE DEF new
<1>7. decision' = [decision EXCEPT ![q] = new]
  BY <1>1 DEF new
<1> QED BY <1>5, <1>6, <1>7

LEMMA Approved ==
  ASSUME Typed, NEW p \in Approver, NEW q \in Request, Approve(p, q)
  PROVE  \E new \in DecisionRow, e \in Scenario :
           /\ decision' = [decision EXCEPT ![q] = new]
           /\ Bindable(e, decision[q].version) /\ new.economics = e
           /\ new.status = "APPROVED" /\ new.version = decision[q].version
           /\ new.finding = decision[q].finding
<1>1. PICK e \in Scenario, added \in BOOLEAN :
        /\ Bindable(e, decision[q].version)
        /\ decision' = [decision EXCEPT ![q] = [decision[q] EXCEPT !.status = "APPROVED",
             !.economics = e, !.condition = IF added THEN "PENDING" ELSE decision[q].condition]]
  BY DEF Approve
<1> DEFINE condition == IF added THEN "PENDING" ELSE decision[q].condition
           new == [decision[q] EXCEPT !.status = "APPROVED", !.economics = e,
                     !.condition = condition]
<1>2. decision[q] \in DecisionRow /\ e \in 0 .. MaxScenarios
  BY DEF Typed, TypeOK, Scenario
<1>3. condition \in {"none", "PENDING", "SATISFIED", "WAIVED"}
  BY <1>2 DEF DecisionRow
<1>4. decision' = [decision EXCEPT ![q] = new]
  BY <1>1
<1> HIDE DEF condition
<1>5. /\ new \in DecisionRow /\ new.status = "APPROVED" /\ new.economics = e
      /\ new.version = decision[q].version /\ new.finding = decision[q].finding
  BY <1>2, <1>3 DEF DecisionRow
<1> HIDE DEF new
<1> QED BY <1>1, <1>4, <1>5

LEMMA Rejected ==
  ASSUME Typed, NEW p \in Approver, NEW q \in Request, Reject(p, q)
  PROVE  \E new \in DecisionRow :
           /\ decision' = [decision EXCEPT ![q] = new]
           /\ new.status = "REJECTED" /\ new.version = decision[q].version
<1>1. PICK e \in {0, version[decision[q].version].economics} :
        decision' = [decision EXCEPT ![q] =
                      [decision[q] EXCEPT !.status = "REJECTED", !.economics = e]]
  BY DEF Reject
<1>2. decision[q] \in DecisionRow
  BY DEF Typed, TypeOK
<1>3. e \in 0 .. MaxScenarios
  <2>1. decision[q].version \in Version
    BY DEF Typed, Named, Reject
  <2>2. version[decision[q].version] \in VersionRow
    BY <2>1 DEF Typed, TypeOK
  <2> QED BY <2>2, LimitAssumption DEF VersionRow
<1> DEFINE new == [decision[q] EXCEPT !.status = "REJECTED", !.economics = e]
<1>4. new \in DecisionRow /\ new.status = "REJECTED" /\ new.version = decision[q].version
  BY <1>2, <1>3 DEF DecisionRow
<1>5. decision' = [decision EXCEPT ![q] = new]
  BY <1>1
<1> HIDE DEF new
<1> QED BY <1>4, <1>5

LEMMA Resolved ==
  ASSUME Typed, NEW p \in Approver, NEW q \in Request, ResolveCondition(p, q)
  PROVE  \E new \in DecisionRow :
           /\ decision' = [decision EXCEPT ![q] = new]
           /\ new.status = decision[q].status /\ new.version = decision[q].version
           /\ new.finding = decision[q].finding /\ new.economics = decision[q].economics
           /\ new.kind = decision[q].kind
<1>1. PICK status \in {"SATISFIED", "WAIVED"} :
        decision' = [decision EXCEPT ![q] = [decision[q] EXCEPT !.condition = status]]
  BY DEF ResolveCondition
<1>2. decision[q] \in DecisionRow
  BY DEF Typed, TypeOK
<1> DEFINE new == [decision[q] EXCEPT !.condition = status]
<1>3. /\ new \in DecisionRow /\ new.status = decision[q].status
      /\ new.version = decision[q].version /\ new.finding = decision[q].finding
      /\ new.economics = decision[q].economics /\ new.kind = decision[q].kind
  BY <1>2 DEF DecisionRow
<1>4. decision' = [decision EXCEPT ![q] = new]
  BY <1>1
<1> HIDE DEF new
<1> QED BY <1>3, <1>4

\* The handlers that write decisions.
LEMMA DecisionSteps ==
  ASSUME [Next]_vars
  PROVE  \/ decision' = decision
         \/ \E p \in Approver, v \in Version : RequestDecision(p, v)
         \/ \E p \in Approver, q \in Request :
              Approve(p, q) \/ Reject(p, q) \/ ResolveCondition(p, q)
BY DEF Next, vars, ReplaceText, WithdrawSource, OpenRun, FailRun, PublishRun, ReviewFinding,
       AttestRun, RunGraph, ReviewGraph, AttestGraph, SaveScenario, Execute, Supersede,
       Lock, ReviewScenario, CreateVersion

LEMMA DecisionsType ==
  ASSUME Typed, [Next]_vars
  PROVE  /\ decision' \in [Request -> DecisionRow]
         /\ \A q \in Request : decision'[q].status # "ABSENT" => decision'[q].version \in Version
<1>1. /\ decision \in [Request -> DecisionRow]
      /\ \A q \in Request : decision[q].status # "ABSENT" => decision[q].version \in Version
  BY DEF Typed, TypeOK, Named
<1>2. ASSUME NEW q \in Request, NEW new \in DecisionRow,
             decision' = [decision EXCEPT ![q] = new], new.version \in Version
      PROVE  /\ decision' \in [Request -> DecisionRow]
             /\ \A o \in Request : decision'[o].status # "ABSENT" => decision'[o].version \in Version
  BY <1>1, <1>2
<1>3. CASE decision' = decision
  BY <1>1, <1>3
<1>4. ASSUME NEW p \in Approver, NEW v \in Version, RequestDecision(p, v)
      PROVE  \E q \in Request, new \in DecisionRow :
               decision' = [decision EXCEPT ![q] = new] /\ new.version \in Version
  BY <1>4, Requested
<1>5. ASSUME NEW p \in Approver, NEW q \in Request,
             Approve(p, q) \/ Reject(p, q) \/ ResolveCondition(p, q)
      PROVE  \E new \in DecisionRow :
               decision' = [decision EXCEPT ![q] = new] /\ new.version \in Version
  <2>1. decision[q].version \in Version
    BY <1>1, <1>5 DEF Approve, Reject, ResolveCondition
  <2> QED BY <1>5, <2>1, Approved, Rejected, Resolved
<1> QED BY <1>2, <1>3, <1>4, <1>5, DecisionSteps

\* The handlers that write versions, and the row each leaves behind.
LEMMA Created ==
  ASSUME TypeOK, NEW docs \in SUBSET Document, CreateVersion(docs)
  PROVE  \E v \in Version, new \in VersionRow :
           /\ version[v].status = "ABSENT" /\ version' = [version EXCEPT ![v] = new]
           /\ new.status = "WORKING" /\ new.economics = 0
<1>1. PICK v \in Free(version) :
        version' = [version EXCEPT ![v] =
          [status |-> "WORKING", docs |-> docs, economics |-> 0]]
  BY DEF CreateVersion
<1> DEFINE new == [status |-> "WORKING", docs |-> docs, economics |-> 0]
<1>2. new \in VersionRow /\ new.status = "WORKING" /\ new.economics = 0
  BY LimitAssumption DEF VersionRow
<1>3. v \in Version /\ version[v].status = "ABSENT"
  BY DEF TypeOK, Free
<1>4. version' = [version EXCEPT ![v] = new]
  BY <1>1
<1> HIDE DEF new
<1> QED BY <1>2, <1>3, <1>4

LEMMA Locked ==
  ASSUME TypeOK, NEW v \in Version, NEW e \in Scenario, Lock(v, e)
  PROVE  \E new \in VersionRow :
           /\ version' = [version EXCEPT ![v] = new]
           /\ new.status = "APPROVED" /\ new.economics = e /\ new.docs = version[v].docs
<1> DEFINE new == Changed(v, "APPROVED", e)
<1>1. e \in 0 .. MaxScenarios /\ version[v] \in VersionRow
  BY DEF Scenario, TypeOK
<1>2. new \in VersionRow /\ new.status = "APPROVED" /\ new.economics = e /\ new.docs = version[v].docs
  BY <1>1, ChangedRow
<1>3. version' = [version EXCEPT ![v] = new]
  BY DEF Lock
<1> HIDE DEF new
<1> QED BY <1>2, <1>3

LEMMA Superseded ==
  ASSUME TypeOK, NEW v \in Version, Supersede(v)
  PROVE  \E new \in VersionRow :
           /\ version' = [version EXCEPT ![v] = new]
           /\ new.status = "SUPERSEDED" /\ new.economics = version[v].economics
           /\ new.docs = version[v].docs
<1> DEFINE new == Changed(v, "SUPERSEDED", 0)
<1>1. 0 \in 0 .. MaxScenarios /\ version[v] \in VersionRow
  BY LimitAssumption DEF TypeOK
<1>2. /\ new \in VersionRow /\ new.status = "SUPERSEDED" /\ new.economics = version[v].economics
      /\ new.docs = version[v].docs
  BY <1>1, ChangedRow
<1>3. version' = [version EXCEPT ![v] = new]
  BY DEF Supersede
<1> HIDE DEF new
<1> QED BY <1>2, <1>3

LEMMA VersionSteps ==
  ASSUME [Next]_vars
  PROVE  \/ version' = version
         \/ \E docs \in SUBSET Document : CreateVersion(docs)
         \/ \E v \in Version, e \in Scenario : Lock(v, e)
         \/ \E v \in Version : Supersede(v) \/ Execute(v)
BY DEF Next, vars, ReplaceText, WithdrawSource, OpenRun, FailRun, PublishRun, ReviewFinding,
       AttestRun, RunGraph, ReviewGraph, AttestGraph, SaveScenario, ReviewScenario,
       RequestDecision, Approve, Reject, ResolveCondition

LEMMA VersionsType ==
  ASSUME TypeOK, [Next]_vars
  PROVE  /\ version' \in [Version -> VersionRow]
         /\ \A v \in Version :
              (version'[v].economics = 0) <=> (version'[v].status \in {"ABSENT", "WORKING"})
<1>1. /\ version \in [Version -> VersionRow]
      /\ \A v \in Version :
           (version[v].economics = 0) <=> (version[v].status \in {"ABSENT", "WORKING"})
  BY DEF TypeOK
<1>2. ASSUME NEW v \in Version, NEW new \in VersionRow, version' = [version EXCEPT ![v] = new],
             (new.economics = 0) <=> (new.status \in {"ABSENT", "WORKING"})
      PROVE  /\ version' \in [Version -> VersionRow]
             /\ \A u \in Version :
                  (version'[u].economics = 0) <=> (version'[u].status \in {"ABSENT", "WORKING"})
  BY <1>1, <1>2
<1>3. ASSUME NEW docs \in SUBSET Document, CreateVersion(docs)
      PROVE  \E v \in Version, new \in VersionRow :
               /\ version' = [version EXCEPT ![v] = new]
               /\ (new.economics = 0) <=> (new.status \in {"ABSENT", "WORKING"})
  BY <1>3, Created
<1>4. ASSUME NEW v \in Version, NEW e \in Scenario, Lock(v, e)
      PROVE  \E new \in VersionRow :
               /\ version' = [version EXCEPT ![v] = new]
               /\ (new.economics = 0) <=> (new.status \in {"ABSENT", "WORKING"})
  <2>1. e # 0
    BY <1>4 DEF Lock, Authoritative
  <2> QED BY <1>4, <2>1, Locked
<1>5. ASSUME NEW v \in Version, Supersede(v)
      PROVE  \E new \in VersionRow :
               /\ version' = [version EXCEPT ![v] = new]
               /\ (new.economics = 0) <=> (new.status \in {"ABSENT", "WORKING"})
  <2>1. version[v].economics # 0
    BY <1>1, <1>5 DEF Supersede
  <2> QED BY <1>5, <2>1, Superseded
<1>6. ASSUME NEW v \in Version, Execute(v)
      PROVE  /\ version' \in [Version -> VersionRow]
             /\ \A u \in Version :
                  (version'[u].economics = 0) <=> (version'[u].status \in {"ABSENT", "WORKING"})
  <2>1. version[v].status = "APPROVED"
    BY <1>6 DEF Execute
  <2> QED BY <1>1, <1>6, <2>1, ExecutedRows
<1>7. CASE version' = version
  BY <1>1, <1>7
<1> QED BY <1>2, <1>3, <1>4, <1>5, <1>6, <1>7, VersionSteps

\* Every step keeps the type.
LEMMA TypedStep == Typed /\ [Next]_vars => Typed'
<1> SUFFICES ASSUME Typed, [Next]_vars PROVE Typed'
  OBVIOUS
<1>1. TypeOK
  BY DEF Typed
<1>2. ready' \in SUBSET Document
  <2>1. \/ ready' = ready
        \/ \E d \in Document : ready' = ready \ {d}
    BY DEF Next, vars, ReplaceText, WithdrawSource, OpenRun, FailRun, PublishRun, ReviewFinding,
           AttestRun, SaveScenario, RunGraph, ReviewGraph, AttestGraph, Execute, Supersede, Lock,
           RequestDecision, ReviewScenario, Approve, Reject, ResolveCondition, CreateVersion
  <2> QED BY <1>1, <2>1 DEF TypeOK
<1> QED BY <1>1, <1>2, VersionsType, RunsType, GraphsType, ScenariosType, DecisionsType
        DEF Typed, TypeOK, Named

LEMMA TypedHolds == Spec => []Typed
<1>1. Init => Typed
  BY TypeInit DEF Typed, Named, Init, NoDecision, NoScenario
<1> QED BY <1>1, TypedStep, PTL DEF Spec

\* Type correctness: in particular a version has its economics exactly when it was
\* locked once, whatever the handlers do in between.
THEOREM TypeCorrect == Spec => []TypeOK
<1>1. Typed => TypeOK
  BY DEF Typed
<1> QED BY <1>1, TypedHolds, PTL

-----------------------------------------------------------------------------
(* The versions act as a register.                                             *)

\* What the refinement rests on: at most one version is locked, one in force.
Exclusive ==
  \A u, v \in Version : \A status \in {"APPROVED", "EXECUTED"} :
    (version[u].status = status /\ version[v].status = status) => u = v

\* What a step does to the status of the versions.
StatusMoves(v, status) ==
  \A u \in Version : version'[u].status = IF u = v THEN status ELSE version[u].status

LEMMA StatusSteps ==
  ASSUME TypeOK, [Next]_vars
  PROVE  \/ \A v \in Version : version'[v].status = version[v].status
         \/ \E v \in Version :
              \/ version[v].status = "ABSENT" /\ StatusMoves(v, "WORKING")
              \/ version[v].status = "WORKING" /\ NoneLocked /\ StatusMoves(v, "APPROVED")
              \/ version[v].status \in {"APPROVED", "EXECUTED"} /\ StatusMoves(v, "SUPERSEDED")
              \/ /\ version[v].status = "APPROVED"
                 /\ \A u \in Version : version'[u].status =
                      IF u = v THEN "EXECUTED"
                      ELSE IF version[u].status = "EXECUTED" THEN "SUPERSEDED"
                      ELSE version[u].status
<1>1. version \in [Version -> VersionRow]
  BY DEF TypeOK
<1>2. ASSUME NEW v \in Version, NEW new \in VersionRow, version' = [version EXCEPT ![v] = new]
      PROVE  StatusMoves(v, new.status)
  BY <1>1, <1>2 DEF StatusMoves
<1>3. ASSUME NEW docs \in SUBSET Document, CreateVersion(docs)
      PROVE  \E v \in Version : version[v].status = "ABSENT" /\ StatusMoves(v, "WORKING")
  <2>1. PICK v \in Version, new \in VersionRow :
          /\ version[v].status = "ABSENT" /\ version' = [version EXCEPT ![v] = new]
          /\ new.status = "WORKING"
    BY <1>3, Created
  <2>2. StatusMoves(v, new.status)
    BY <1>2, <2>1
  <2> QED BY <2>1, <2>2
<1>4. ASSUME NEW v \in Version, NEW e \in Scenario, Lock(v, e)
      PROVE  version[v].status = "WORKING" /\ NoneLocked /\ StatusMoves(v, "APPROVED")
  <2>1. PICK new \in VersionRow :
          version' = [version EXCEPT ![v] = new] /\ new.status = "APPROVED"
    BY <1>4, Locked
  <2>2. StatusMoves(v, new.status)
    BY <1>2, <2>1
  <2> QED BY <1>4, <2>1, <2>2 DEF Lock
<1>5. ASSUME NEW v \in Version, Supersede(v)
      PROVE  version[v].status \in {"APPROVED", "EXECUTED"} /\ StatusMoves(v, "SUPERSEDED")
  <2>1. PICK new \in VersionRow :
          version' = [version EXCEPT ![v] = new] /\ new.status = "SUPERSEDED"
    BY <1>5, Superseded
  <2>2. StatusMoves(v, new.status)
    BY <1>2, <2>1
  <2> QED BY <1>5, <2>1, <2>2 DEF Supersede
<1>6. ASSUME NEW v \in Version, Execute(v)
      PROVE  /\ version[v].status = "APPROVED"
             /\ \A u \in Version : version'[u].status =
                  IF u = v THEN "EXECUTED"
                  ELSE IF version[u].status = "EXECUTED" THEN "SUPERSEDED"
                  ELSE version[u].status
  BY <1>6, ExecutedRows DEF Execute
<1> QED BY <1>3, <1>4, <1>5, <1>6, VersionSteps

LEMMA ExclusiveStep == Typed /\ Exclusive /\ [Next]_vars => Exclusive'
<1> SUFFICES ASSUME Typed, Exclusive, [Next]_vars PROVE Exclusive'
  OBVIOUS
<1>1. TypeOK
  BY DEF Typed
<1> QED BY <1>1, StatusSteps DEF Exclusive, StatusMoves, NoneLocked

LEMMA ExclusiveHolds == Spec => []Exclusive
<1>1. Init => Exclusive
  BY DEF Init, Exclusive, NoVersion
<1> QED BY <1>1, TypedHolds, ExclusiveStep, PTL DEF Spec

\* The agreement versions of a matter implement AgreementRegister: an execution
\* takes the only locked version and replaces the only one in force, and a version
\* that was superseded never comes back.
THEOREM Implements == Spec => ActsAsRegister
<1>1. Init => Register!Init
  BY DEF Init, NoVersion, Register!Init
<1>2. Typed /\ Exclusive /\ [Next]_vars => [Register!Next]_<<
        {v \in Version : version[v].status = "APPROVED"},
        {v \in Version : version[v].status = "EXECUTED"},
        {v \in Version : version[v].status = "SUPERSEDED"}>>
  <2> SUFFICES ASSUME Typed, Exclusive, [Next]_vars
               PROVE  Register!Next \/ UNCHANGED <<
                        {v \in Version : version[v].status = "APPROVED"},
                        {v \in Version : version[v].status = "EXECUTED"},
                        {v \in Version : version[v].status = "SUPERSEDED"}>>
    OBVIOUS
  <2>1. TypeOK
    BY DEF Typed
  <2>2. CASE \A v \in Version : version'[v].status = version[v].status
    BY <2>2
  <2>3. ASSUME NEW v \in Version, version[v].status = "ABSENT", StatusMoves(v, "WORKING")
        PROVE  UNCHANGED <<{u \in Version : version[u].status = "APPROVED"},
                           {u \in Version : version[u].status = "EXECUTED"},
                           {u \in Version : version[u].status = "SUPERSEDED"}>>
    BY <2>3 DEF StatusMoves
  <2>4. ASSUME NEW v \in Version, version[v].status = "WORKING", NoneLocked,
               StatusMoves(v, "APPROVED")
        PROVE  Register!Lock(v)
    BY <2>4 DEF StatusMoves, NoneLocked, Register!Lock
  <2>5. ASSUME NEW v \in Version, version[v].status \in {"APPROVED", "EXECUTED"},
               StatusMoves(v, "SUPERSEDED")
        PROVE  Register!Retire(v)
    BY <2>5 DEF StatusMoves, Register!Retire
  <2>6. ASSUME NEW v \in Version, version[v].status = "APPROVED",
               \A u \in Version : version'[u].status =
                 IF u = v THEN "EXECUTED"
                 ELSE IF version[u].status = "EXECUTED" THEN "SUPERSEDED"
                 ELSE version[u].status
        PROVE  Register!Execute(v)
    <3>1. {u \in Version : version[u].status = "APPROVED"} = {v}
      BY <2>6 DEF Exclusive
    <3> QED BY <2>6, <3>1 DEF Register!Execute
  <2> QED BY <2>1, <2>2, <2>3, <2>4, <2>5, <2>6, StatusSteps DEF Register!Next
<1> QED BY <1>1, <1>2, TypedHolds, ExclusiveHolds, PTL DEF Spec, ActsAsRegister, Register!Spec

-----------------------------------------------------------------------------
(* Approvals agree with the lock.                                              *)

\* Economics are selected once, and a disposition of a scenario is final.
LEMMA SelectionKept ==
  ASSUME TypeOK, [Next]_vars, NEW v \in Version, version[v].economics # 0
  PROVE  version'[v].economics = version[v].economics
<1>1. version \in [Version -> VersionRow] /\ version[v].status \notin {"ABSENT", "WORKING"}
  BY DEF TypeOK
<1>2. ASSUME NEW docs \in SUBSET Document, CreateVersion(docs)
      PROVE  version'[v].economics = version[v].economics
  <2>1. PICK u \in Version, new \in VersionRow :
          version[u].status = "ABSENT" /\ version' = [version EXCEPT ![u] = new]
    BY <1>2, Created
  <2> QED BY <1>1, <2>1
<1>3. ASSUME NEW u \in Version, NEW e \in Scenario, Lock(u, e)
      PROVE  version'[v].economics = version[v].economics
  <2>1. u # v
    BY <1>1, <1>3 DEF Lock
  <2> QED BY <1>1, <1>3, <2>1, Locked
<1>4. ASSUME NEW u \in Version, Supersede(u)
      PROVE  version'[v].economics = version[v].economics
  BY <1>1, <1>4, Superseded
<1>5. ASSUME NEW u \in Version, Execute(u)
      PROVE  version'[v].economics = version[v].economics
  BY <1>5, ExecutedRows
<1> QED BY <1>2, <1>3, <1>4, <1>5, VersionSteps

LEMMA DispositionKept ==
  ASSUME Typed, [Next]_vars, NEW e \in Scenario, scenario[e].status = "VALIDATED"
  PROVE  scenario'[e] = scenario[e]
<1>1. scenario \in [Scenario -> ScenarioRow]
  BY DEF Typed, TypeOK
<1>2. ASSUME NEW v \in Version, SaveScenario(v) PROVE scenario'[e] = scenario[e]
  <2>1. PICK o \in Scenario, new \in ScenarioRow :
          scenario[o].status = "ABSENT" /\ scenario' = [scenario EXCEPT ![o] = new]
    BY <1>2, Saved
  <2> QED BY <1>1, <2>1
<1>3. ASSUME NEW o \in Scenario, ReviewScenario(o) PROVE scenario'[e] = scenario[e]
  <2>1. o # e
    BY <1>3 DEF ReviewScenario
  <2>2. PICK new \in ScenarioRow : scenario' = [scenario EXCEPT ![o] = new]
    BY <1>3, ScenarioReviewed
  <2> QED BY <1>1, <2>1, <2>2
<1> QED BY <1>2, <1>3, ScenarioSteps

\* The two parts of the agreement.
Bound(q) ==
  LET e == decision[q].economics
  IN /\ e # 0 /\ e = version[decision[q].version].economics
     /\ scenario[e].status = "VALIDATED" /\ scenario[e].version = decision[q].version
Alone(p, q) ==
  (decision[p].version = decision[q].version /\ decision[p].finding = decision[q].finding)
    => p = q

LEMMA AgreementParts ==
  ApprovalsAgree <=>
    /\ \A q \in Request : decision[q].status = "APPROVED" => Bound(q)
    /\ \A p, q \in Request :
         (decision[p].status = "APPROVED" /\ decision[q].status = "APPROVED") => Alone(p, q)
BY DEF ApprovalsAgree, Bound, Alone

\* What an approval rests on is kept for as long as the approval is.
LEMMA BoundKept ==
  ASSUME Typed, [Next]_vars, NEW q \in Request, decision[q].status = "APPROVED", Bound(q),
         decision'[q].version = decision[q].version,
         decision'[q].economics = decision[q].economics
  PROVE  Bound(q)'
<1> DEFINE v == decision[q].version
           e == decision[q].economics
<1>1. v \in Version /\ e # 0 /\ e = version[v].economics
      /\ scenario[e].status = "VALIDATED" /\ scenario[e].version = v
  BY DEF Typed, Named, Bound
<1>2. version'[v].economics = e
  BY <1>1, SelectionKept DEF Typed
<1>3. e \in Scenario
  <2>1. version[v] \in VersionRow
    BY <1>1 DEF Typed, TypeOK
  <2> QED BY <1>1, <2>1, LimitAssumption DEF VersionRow, Scenario
<1>4. scenario'[e] = scenario[e]
  BY <1>1, <1>3, DispositionKept
<1> QED BY <1>1, <1>2, <1>4 DEF Bound

\* A step that approves nothing keeps the agreement.
LEMMA NoNewApproval ==
  ASSUME Typed, ApprovalsAgree, [Next]_vars,
         \A q \in Request : decision'[q].status = "APPROVED" =>
           /\ decision[q].status = "APPROVED" /\ decision'[q].version = decision[q].version
           /\ decision'[q].finding = decision[q].finding
           /\ decision'[q].economics = decision[q].economics
  PROVE  ApprovalsAgree'
<1>1. ASSUME NEW q \in Request, decision'[q].status = "APPROVED" PROVE Bound(q)'
  BY <1>1, AgreementParts, BoundKept
<1>2. ASSUME NEW p \in Request, NEW q \in Request,
             decision'[p].status = "APPROVED", decision'[q].status = "APPROVED"
      PROVE  Alone(p, q)'
  <2>1. Alone(p, q)
    BY <1>2, AgreementParts
  <2> QED BY <1>2, <2>1 DEF Alone
<1>3. ApprovalsAgree' <=>
        /\ \A q \in Request : decision'[q].status = "APPROVED" => Bound(q)'
        /\ \A p, q \in Request :
             (decision'[p].status = "APPROVED" /\ decision'[q].status = "APPROVED") => Alone(p, q)'
  BY DEF ApprovalsAgree, Bound, Alone
<1> QED BY <1>1, <1>2, <1>3

LEMMA ApprovalsStep == Typed /\ ApprovalsAgree /\ [Next]_vars => ApprovalsAgree'
<1> SUFFICES ASSUME Typed, ApprovalsAgree, [Next]_vars PROVE ApprovalsAgree'
  OBVIOUS
<1>1. decision \in [Request -> DecisionRow]
  BY DEF Typed, TypeOK
<1>2. CASE decision' = decision
  BY <1>2, NoNewApproval
<1>3. ASSUME NEW p \in Approver, NEW v \in Version, RequestDecision(p, v) PROVE ApprovalsAgree'
  <2>1. PICK q \in Request, new \in DecisionRow :
          decision' = [decision EXCEPT ![q] = new] /\ new.status = "PENDING"
    BY <1>3, Requested
  <2> QED BY <1>1, <2>1, NoNewApproval
<1>4. ASSUME NEW p \in Approver, NEW q \in Request, Reject(p, q) PROVE ApprovalsAgree'
  <2>1. PICK new \in DecisionRow :
          decision' = [decision EXCEPT ![q] = new] /\ new.status = "REJECTED"
    BY <1>4, Rejected
  <2> QED BY <1>1, <2>1, NoNewApproval
<1>5. ASSUME NEW p \in Approver, NEW q \in Request, ResolveCondition(p, q) PROVE ApprovalsAgree'
  <2>1. PICK new \in DecisionRow :
          /\ decision' = [decision EXCEPT ![q] = new]
          /\ new.status = decision[q].status /\ new.version = decision[q].version
          /\ new.finding = decision[q].finding /\ new.economics = decision[q].economics
    BY <1>5, Resolved
  <2> QED BY <1>1, <2>1, NoNewApproval
<1>6. ASSUME NEW p \in Approver, NEW q \in Request, Approve(p, q) PROVE ApprovalsAgree'
  <2> DEFINE v == decision[q].version
  <2>1. PICK new \in DecisionRow, e \in Scenario :
          /\ decision' = [decision EXCEPT ![q] = new]
          /\ Bindable(e, v) /\ new.economics = e
          /\ new.status = "APPROVED" /\ new.version = v /\ new.finding = decision[q].finding
    BY <1>6, Approved
  <2>2. version' = version /\ scenario' = scenario /\ Undecided(q)
    BY <1>6 DEF Approve
  <2>3. /\ decision'[q] = new
        /\ \A o \in Request \ {q} : decision'[o] = decision[o]
    BY <1>1, <2>1
  <2>4. Bound(q)'
    BY <2>1, <2>2, <2>3 DEF Bound, Bindable, Authoritative
  <2>5. ASSUME NEW o \in Request \ {q}, decision[o].status = "APPROVED"
        PROVE  Bound(o)' /\ Alone(o, q)' /\ Alone(q, o)'
    <3>1. Bound(o)'
      BY <2>2, <2>3, <2>5, AgreementParts DEF Bound
    <3>2. decision[o].version # v \/ decision[o].finding # decision[q].finding
      BY <2>2, <2>5 DEF Undecided
    <3> QED BY <2>1, <2>3, <3>1, <3>2 DEF Alone
  <2>6. ASSUME NEW o \in Request \ {q}, NEW x \in Request \ {q},
               decision[o].status = "APPROVED", decision[x].status = "APPROVED"
        PROVE  Alone(o, x)'
    <3>1. Alone(o, x)
      BY <2>6, AgreementParts
    <3> QED BY <2>3, <3>1 DEF Alone
  <2>7. Alone(q, q)'
    BY DEF Alone
  <2>8. /\ \A o \in Request : decision'[o].status = "APPROVED" => Bound(o)'
        /\ \A o, x \in Request :
             (decision'[o].status = "APPROVED" /\ decision'[x].status = "APPROVED") => Alone(o, x)'
    BY <2>3, <2>4, <2>5, <2>6, <2>7
  <2> QED BY <2>8 DEF ApprovalsAgree, Bound, Alone
<1> QED BY <1>2, <1>3, <1>4, <1>5, <1>6, DecisionSteps

\* An approved decision speaks about the scenario its version was locked with, and
\* it is the only one about its finding.
THEOREM ApprovalsHold == Spec => []ApprovalsAgree
<1>1. Init => ApprovalsAgree
  BY DEF Init, NoDecision, ApprovalsAgree
<1> QED BY <1>1, TypedHolds, ApprovalsStep, PTL DEF Spec

-----------------------------------------------------------------------------
(* What a version in force rests on is frozen.                                 *)

\* Runs are of one document and publish when they succeed.
RunsInOrder ==
  \A r \in Run : /\ run[r].status \in {"ABSENT", "RUNNING"} => run[r].finding = "none"
                 /\ \A d, e \in run[r].doc : d = e

\* What the handlers do to the runs.
LEMMA TextReplaced ==
  ASSUME TypeOK, NEW d \in Document, ReplaceText(d), NEW r \in Run
  PROVE  /\ d \notin run[r].doc => run'[r] = run[r]
         /\ run'[r].doc = run[r].doc /\ run'[r].status = run[r].status
         /\ run'[r].finding = run[r].finding /\ run'[r].restricted = run[r].restricted
         /\ run'[r].attested = run[r].attested
<1>1. run[r] \in RunRow
  BY DEF TypeOK
<1>2. run'[r] = IF d \in run[r].doc THEN [run[r] EXCEPT !.fresh = FALSE] ELSE run[r]
  BY DEF ReplaceText
<1> QED BY <1>1, <1>2 DEF RunRow

LEMMA RunOpened ==
  ASSUME TypeOK, NEW d \in Document, OpenRun(d)
  PROVE  \E r \in Run :
           /\ run[r].status = "ABSENT"
           /\ \A s \in Run \ {r} : run'[s] = run[s]
           /\ run'[r].status = "RUNNING" /\ run'[r].finding = "none" /\ run'[r].doc = {d}
<1>1. PICK r \in Free(run) : run' =
        [run EXCEPT ![r] = [NoRun EXCEPT !.doc = {d}, !.status = "RUNNING", !.fresh = TRUE]]
  BY DEF OpenRun
<1>2. r \in Run /\ run[r].status = "ABSENT"
  BY DEF Free, TypeOK
<1>3. run'[r] = [NoRun EXCEPT !.doc = {d}, !.status = "RUNNING", !.fresh = TRUE]
  BY <1>1, <1>2 DEF TypeOK
<1>4. run'[r].status = "RUNNING" /\ run'[r].finding = "none" /\ run'[r].doc = {d}
  BY <1>3 DEF NoRun
<1> QED BY <1>1, <1>2, <1>4 DEF TypeOK

LEMMA RunFailed ==
  ASSUME TypeOK, NEW r \in Run, FailRun(r)
  PROVE  /\ \A s \in Run \ {r} : run'[s] = run[s]
         /\ run[r].status = "RUNNING" /\ run'[r].status = "FAILED"
         /\ run'[r].doc = run[r].doc /\ run'[r].finding = run[r].finding
<1>1. run' = [run EXCEPT ![r] = [run[r] EXCEPT !.status = "FAILED"]]
  BY DEF FailRun
<1>2. run'[r] = [run[r] EXCEPT !.status = "FAILED"] /\ \A s \in Run \ {r} : run'[s] = run[s]
  BY <1>1 DEF TypeOK
<1> QED BY <1>2 DEF FailRun, TypeOK, RunRow

LEMMA FindingReviewed ==
  ASSUME TypeOK, NEW r \in Run, ReviewFinding(r)
  PROVE  /\ \A s \in Run \ {r} : run'[s] = run[s]
         /\ run'[r].finding \in {"VALIDATED", "REJECTED"}
         /\ run'[r].doc = run[r].doc /\ run'[r].status = run[r].status
         /\ run'[r].fresh = run[r].fresh /\ run'[r].attested = run[r].attested
<1>1. PICK status \in {"VALIDATED", "REJECTED"} :
        run' = [run EXCEPT ![r] = [run[r] EXCEPT !.finding = status]]
  BY DEF ReviewFinding
<1>2. run'[r] = [run[r] EXCEPT !.finding = status] /\ \A s \in Run \ {r} : run'[s] = run[s]
  BY <1>1 DEF TypeOK
<1> QED BY <1>2 DEF TypeOK, RunRow

LEMMA RunAttested ==
  ASSUME TypeOK, NEW r \in Run, AttestRun(r)
  PROVE  /\ \A s \in Run \ {r} : run'[s] = run[s]
         /\ run'[r].attested /\ run'[r].doc = run[r].doc /\ run'[r].status = run[r].status
         /\ run'[r].fresh = run[r].fresh /\ run'[r].finding = run[r].finding
         /\ run'[r].restricted = run[r].restricted
<1>1. run' = [run EXCEPT ![r] = [run[r] EXCEPT !.attested = TRUE]]
  BY DEF AttestRun
<1>2. run'[r] = [run[r] EXCEPT !.attested = TRUE] /\ \A s \in Run \ {r} : run'[s] = run[s]
  BY <1>1 DEF TypeOK
<1> QED BY <1>2 DEF TypeOK, RunRow

\* A publication keeps the findings of the documents that are frozen.
LEMMA RunPublished ==
  ASSUME TypeOK, NEW r \in Run, PublishRun(r)
  PROVE  /\ run[r].status = "RUNNING" /\ run'[r].status = "SUCCEEDED"
         /\ \A s \in Run :
              /\ run'[s].doc = run[s].doc /\ run'[s].fresh = run[s].fresh
              /\ run'[s].attested = run[s].attested
              /\ s # r => /\ run'[s].status = run[s].status
                          /\ run'[s].restricted = run[s].restricted
              /\ s # r => run'[s].finding =
                   IF run[s].doc = run[r].doc /\ run[s].finding = "UNREVIEWED"
                     THEN "SUPERSEDED" ELSE run[s].finding
         /\ run'[r].finding \in {"none", "UNREVIEWED"}
         /\ Frozen(run[r].doc) =>
              run'[r].finding = "none" /\ \A s \in Run \ {r} : run'[s].finding = run[s].finding
<1> DEFINE old == {s \in Run : run[s].doc = run[r].doc /\ run[s].finding = "UNREVIEWED"}
<1>1. PICK found \in BOOLEAN, restricted \in BOOLEAN :
        /\ Frozen(run[r].doc) => ~found /\ old = {}
        /\ run' = [s \in Run |->
             IF s = r THEN [run[r] EXCEPT !.status = "SUCCEEDED", !.restricted = restricted,
                                          !.finding = IF found THEN "UNREVIEWED" ELSE "none"]
             ELSE IF s \in old THEN [run[s] EXCEPT !.finding = "SUPERSEDED"]
             ELSE run[s]]
  BY DEF PublishRun
<1>2. \A s \in Run : run[s] \in RunRow
  BY DEF TypeOK
<1> DEFINE mine == [run[r] EXCEPT !.status = "SUCCEEDED", !.restricted = restricted,
                                  !.finding = IF found THEN "UNREVIEWED" ELSE "none"]
<1>3. /\ mine.status = "SUCCEEDED" /\ mine.doc = run[r].doc /\ mine.fresh = run[r].fresh
      /\ mine.attested = run[r].attested
      /\ mine.finding = IF found THEN "UNREVIEWED" ELSE "none"
  BY <1>2 DEF RunRow
<1>4. \A s \in Run :
        LET his == [run[s] EXCEPT !.finding = "SUPERSEDED"]
        IN /\ his.doc = run[s].doc /\ his.fresh = run[s].fresh /\ his.status = run[s].status
           /\ his.attested = run[s].attested /\ his.restricted = run[s].restricted
           /\ his.finding = "SUPERSEDED"
  BY <1>2 DEF RunRow
<1>5. run'[r] = mine
  BY <1>1
<1>6. \A s \in Run \ {r} :
        run'[s] = IF s \in old THEN [run[s] EXCEPT !.finding = "SUPERSEDED"] ELSE run[s]
  BY <1>1
<1>7. \A s \in Run \ {r} : s \notin old => run'[s] = run[s]
  BY <1>6
<1>8. \A s \in Run \ {r} : s \in old => run'[s] = [run[s] EXCEPT !.finding = "SUPERSEDED"]
  BY <1>6
<1> HIDE DEF mine
<1>9. ASSUME NEW s \in Run \ {r}
      PROVE  /\ run'[s].doc = run[s].doc /\ run'[s].fresh = run[s].fresh
             /\ run'[s].attested = run[s].attested /\ run'[s].status = run[s].status
             /\ run'[s].restricted = run[s].restricted
             /\ run'[s].finding = IF run[s].doc = run[r].doc /\ run[s].finding = "UNREVIEWED"
                                    THEN "SUPERSEDED" ELSE run[s].finding
  <2>1. CASE s \in old
    BY <1>4, <1>8, <2>1
  <2>2. CASE s \notin old
    BY <1>7, <2>2
  <2> QED BY <2>1, <2>2
<1>10. Frozen(run[r].doc) =>
         run'[r].finding = "none" /\ \A s \in Run \ {r} : run'[s].finding = run[s].finding
  BY <1>1, <1>3, <1>5, <1>7
<1>11. run[r].status = "RUNNING"
  BY DEF PublishRun
<1> QED BY <1>3, <1>5, <1>9, <1>10, <1>11

LEMMA RunSteps ==
  ASSUME [Next]_vars
  PROVE  \/ run' = run
         \/ \E d \in Document : ReplaceText(d) \/ OpenRun(d)
         \/ \E r \in Run : FailRun(r) \/ PublishRun(r) \/ ReviewFinding(r) \/ AttestRun(r)
BY DEF Next, vars, WithdrawSource, SaveScenario, RunGraph, ReviewGraph, AttestGraph,
       Execute, Supersede, Lock, RequestDecision, ReviewScenario, Approve, Reject,
       ResolveCondition, CreateVersion

LEMMA RunsInOrderStep == Typed /\ RunsInOrder /\ [Next]_vars => RunsInOrder'
<1> SUFFICES ASSUME Typed, RunsInOrder, [Next]_vars PROVE RunsInOrder'
  OBVIOUS
<1>1. TypeOK
  BY DEF Typed
<1>2. CASE run' = run
  BY <1>2 DEF RunsInOrder
<1>3. ASSUME NEW d \in Document, ReplaceText(d) PROVE RunsInOrder'
  BY <1>1, <1>3, TextReplaced DEF RunsInOrder
<1>4. ASSUME NEW d \in Document, OpenRun(d) PROVE RunsInOrder'
  <2>1. PICK r \in Run :
          /\ \A s \in Run \ {r} : run'[s] = run[s]
          /\ run'[r].finding = "none" /\ run'[r].doc = {d}
    BY <1>1, <1>4, RunOpened
  <2> QED BY <2>1 DEF RunsInOrder
<1>5. ASSUME NEW r \in Run, FailRun(r) PROVE RunsInOrder'
  BY <1>1, <1>5, RunFailed DEF RunsInOrder
<1>6. ASSUME NEW r \in Run, ReviewFinding(r) PROVE RunsInOrder'
  <2>1. run[r].status \notin {"ABSENT", "RUNNING"}
    BY <1>6 DEF ReviewFinding, RunsInOrder
  <2> QED BY <1>1, <1>6, <2>1, FindingReviewed DEF RunsInOrder
<1>7. ASSUME NEW r \in Run, AttestRun(r) PROVE RunsInOrder'
  BY <1>1, <1>7, RunAttested DEF RunsInOrder
<1>8. ASSUME NEW r \in Run, PublishRun(r) PROVE RunsInOrder'
  BY <1>1, <1>8, RunPublished DEF RunsInOrder
<1> QED BY <1>2, <1>3, <1>4, <1>5, <1>6, <1>7, <1>8, RunSteps

LEMMA RunsInOrderHolds == Spec => []RunsInOrder
<1>1. Init => RunsInOrder
  BY DEF Init, NoRun, RunsInOrder
<1> QED BY <1>1, TypedHolds, RunsInOrderStep, PTL DEF Spec

\* Decisions and scenarios of a version in force do not change.
LEMMA DecisionsFrozen ==
  ASSUME Typed, [Next]_vars, NEW v \in InForce, NEW q \in Request, decision'[q] # decision[q]
  PROVE  /\ v # decision'[q].version
         /\ decision[q].status # "ABSENT" => decision'[q].version = decision[q].version
<1>1. decision \in [Request -> DecisionRow] /\ ~Available(v)
  BY DEF Typed, TypeOK, InForce, Available
<1>2. ASSUME NEW p \in Approver, NEW u \in Version, RequestDecision(p, u)
      PROVE  /\ v # decision'[q].version
             /\ decision[q].status # "ABSENT" => decision'[q].version = decision[q].version
  <2>1. PICK o \in Request, new \in DecisionRow :
          /\ decision[o].status = "ABSENT" /\ decision' = [decision EXCEPT ![o] = new]
          /\ new.version = u
    BY <1>2, Requested
  <2>2. Available(u)
    BY <1>2 DEF RequestDecision
  <2> QED BY <1>1, <2>1, <2>2
<1>3. ASSUME NEW p \in Approver, NEW o \in Request,
             Approve(p, o) \/ Reject(p, o) \/ ResolveCondition(p, o)
      PROVE  /\ v # decision'[q].version
             /\ decision[q].status # "ABSENT" => decision'[q].version = decision[q].version
  <2>1. PICK new \in DecisionRow :
          decision' = [decision EXCEPT ![o] = new] /\ new.version = decision[o].version
    BY <1>3, Approved, Rejected, Resolved
  <2>2. Available(decision[o].version)
    BY <1>3 DEF Approve, Reject, ResolveCondition, Available
  <2> QED BY <1>1, <2>1, <2>2
<1> QED BY <1>2, <1>3, DecisionSteps

LEMMA ScenariosFrozen ==
  ASSUME Typed, [Next]_vars, NEW v \in InForce, NEW e \in Scenario, scenario'[e] # scenario[e]
  PROVE  v # scenario'[e].version
<1>1. scenario \in [Scenario -> ScenarioRow] /\ ~Available(v)
  BY DEF Typed, TypeOK, InForce, Available
<1>2. ASSUME NEW u \in Version, SaveScenario(u) PROVE v # scenario'[e].version
  <2>1. PICK o \in Scenario, new \in ScenarioRow :
          scenario' = [scenario EXCEPT ![o] = new] /\ new.version = u
    BY <1>2, Saved
  <2>2. Available(u)
    BY <1>2 DEF SaveScenario
  <2> QED BY <1>1, <2>1, <2>2
<1>3. ASSUME NEW o \in Scenario, ReviewScenario(o) PROVE v # scenario'[e].version
  <2>1. PICK new \in ScenarioRow :
          scenario' = [scenario EXCEPT ![o] = new] /\ new.version = scenario[o].version
    BY <1>3, ScenarioReviewed
  <2>2. Available(scenario[o].version)
    BY <1>3 DEF ReviewScenario, Reviewable
  <2> QED BY <1>1, <2>1, <2>2
<1> QED BY <1>2, <1>3, ScenarioSteps

\* Nor do the findings of its sources.
LEMMA FindingsFrozen ==
  ASSUME Typed, RunsInOrder, [Next]_vars, NEW r \in Run, run'[r].finding # run[r].finding
  PROVE  ~Frozen(run'[r].doc) /\ run'[r].doc = run[r].doc
<1>1. TypeOK
  BY DEF Typed
<1>2. ASSUME NEW d \in Document, OpenRun(d) PROVE run'[r].finding = run[r].finding
  <2>1. PICK s \in Run :
          /\ run[s].status = "ABSENT" /\ \A o \in Run \ {s} : run'[o] = run[o]
          /\ run'[s].finding = "none"
    BY <1>1, <1>2, RunOpened
  <2> QED BY <2>1 DEF RunsInOrder
<1>3. ASSUME NEW s \in Run, ReviewFinding(s)
      PROVE  ~Frozen(run'[r].doc) /\ run'[r].doc = run[r].doc
  <2>1. r = s
    BY <1>1, <1>3, FindingReviewed
  <2> QED BY <1>1, <1>3, <2>1, FindingReviewed DEF ReviewFinding
<1>4. ASSUME NEW s \in Run, PublishRun(s)
      PROVE  ~Frozen(run'[r].doc) /\ run'[r].doc = run[r].doc
  <2>1. run'[r].doc = run[r].doc /\ run[s].status = "RUNNING"
    BY <1>1, <1>4, RunPublished
  <2>2. run[r].doc = run[s].doc
    BY <1>1, <1>4, RunPublished
  <2>3. Frozen(run[s].doc) => run'[r].finding = run[r].finding
    BY <1>1, <1>4, <2>1, RunPublished DEF RunsInOrder
  <2> QED BY <2>1, <2>2, <2>3
<1>5. ASSUME NEW s \in Run, FailRun(s) \/ AttestRun(s) PROVE run'[r].finding = run[r].finding
  BY <1>1, <1>5, RunFailed, RunAttested
<1>6. ASSUME NEW d \in Document, ReplaceText(d) PROVE run'[r].finding = run[r].finding
  BY <1>1, <1>6, TextReplaced
<1> QED BY <1>2, <1>3, <1>4, <1>5, <1>6, RunSteps

\* What was decided, calculated and concluded about a version in force does not
\* change: the handlers' guards and the triggers of migrations 006 and 007 leave
\* no gap between them.
THEOREM FreezeHolds == Spec => FrozenInForce
<1>1. Typed /\ RunsInOrder /\ [Next]_vars =>
        [\A v \in InForce :
           /\ \A q \in Request : (decision'[q] # decision[q]) => v # decision'[q].version
           /\ \A e \in Scenario : (scenario'[e] # scenario[e]) => v # scenario'[e].version
           /\ \A r \in Run : (run'[r].finding # run[r].finding) =>
                run'[r].doc \cap version[v].docs = {}]_vars
  <2> SUFFICES ASSUME Typed, RunsInOrder, [Next]_vars, NEW v \in InForce
               PROVE  /\ \A q \in Request : (decision'[q] # decision[q]) => v # decision'[q].version
                      /\ \A e \in Scenario : (scenario'[e] # scenario[e]) => v # scenario'[e].version
                      /\ \A r \in Run : (run'[r].finding # run[r].finding) =>
                           run'[r].doc \cap version[v].docs = {}
    OBVIOUS
  <2>1. \A docs : ~Frozen(docs) => docs \cap version[v].docs = {}
    BY DEF Frozen, InForce
  <2> QED BY <2>1, DecisionsFrozen, ScenariosFrozen, FindingsFrozen
<1> QED BY <1>1, TypedHolds, RunsInOrderHolds, PTL DEF Spec, FrozenInForce

-----------------------------------------------------------------------------
(* The versions see the runs as the pipeline promises them (RunRegister).      *)

\* What the register of the runs shows of one.
EntryOf(x) ==
  [doc |-> x.doc, status |-> x.status,
   finding |-> IF x.finding \in {"VALIDATED", "REJECTED"} THEN "DISPOSED" ELSE x.finding]

Runs == INSTANCE RunRegister WITH
  record <- [r \in Run |-> EntryOf(run[r])], frozen <- {d \in Document : Frozen({d})}

LEMMA SameEntry ==
  ASSUME NEW x, NEW y, y.doc = x.doc, y.status = x.status, y.finding = x.finding
  PROVE  EntryOf(y) = EntryOf(x)
BY DEF EntryOf

\* Only one entry changes.
LEMMA OneEntry ==
  ASSUME NEW r \in Run, NEW e, EntryOf(run'[r]) = e,
         \A s \in Run \ {r} : run'[s] = run[s]
  PROVE  [s \in Run |-> EntryOf(run[s])]'
           = [[s \in Run |-> EntryOf(run[s])] EXCEPT ![r] = e]
OBVIOUS

\* A run whose document an executed version has is frozen in both views.
LEMMA FrozenAlike ==
  ASSUME TypeOK, NEW r \in Run
  PROVE  Runs!IsFrozen(r) <=> Frozen(run[r].doc)
<1>1. run[r].doc \subseteq Document
  BY DEF TypeOK, RunRow
<1> QED BY <1>1 DEF Runs!IsFrozen, EntryOf, Frozen

\* Every step that writes the runs is one of the register.
LEMMA RegisterStep ==
  ASSUME Typed, RunsInOrder, [Next]_vars
  PROVE  [Runs!Next]_<<[r \in Run |-> EntryOf(run[r])], {d \in Document : Frozen({d})}>>
<1>1. TypeOK /\ Run = Runs!Run
  BY DEF Typed, Run, Runs!Run
<1>2. CASE run' = run
  BY <1>2 DEF Runs!Next, Runs!Refreeze
<1>3. ASSUME NEW d \in Document, ReplaceText(d)
      PROVE  UNCHANGED <<[r \in Run |-> EntryOf(run[r])], {c \in Document : Frozen({c})}>>
  <2>1. version' = version
    BY <1>3 DEF ReplaceText
  <2>2. \A r \in Run : EntryOf(run'[r]) = EntryOf(run[r])
    BY <1>1, <1>3, TextReplaced, SameEntry
  <2> QED BY <2>1, <2>2 DEF Frozen
<1>4. ASSUME NEW d \in Document, OpenRun(d) PROVE Runs!Next
  <2>1. PICK r \in Free(run) : run' =
          [run EXCEPT ![r] = [NoRun EXCEPT !.doc = {d}, !.status = "RUNNING", !.fresh = TRUE]]
    BY <1>4 DEF OpenRun
  <2>2. /\ r \in Run /\ run[r].status = "ABSENT"
        /\ \A s \in 1 .. r - 1 : s \in Run /\ run[s].status # "ABSENT"
    BY <1>1, LimitAssumption DEF Free, TypeOK, Run
  <2>3. /\ EntryOf(run'[r]) = Runs!Seen({d}, "RUNNING", "none")
        /\ \A s \in Run \ {r} : run'[s] = run[s]
    BY <1>1, <2>1, <2>2 DEF TypeOK, NoRun, EntryOf, Runs!Seen
  <2>4. version' = version
    BY <1>4 DEF OpenRun
  <2>5. Runs!Open(r)
    BY <2>2, <2>3, <2>4, OneEntry DEF Runs!Open, EntryOf, Frozen
  <2> QED BY <1>1, <2>2, <2>5 DEF Runs!Next
<1>5. ASSUME NEW r \in Run, FailRun(r) PROVE Runs!Next
  <2>1. EntryOf(run'[r]) = Runs!Seen(run[r].doc, "FAILED", EntryOf(run[r]).finding)
    BY <1>1, <1>5, RunFailed DEF EntryOf, Runs!Seen
  <2>2. version' = version
    BY <1>5 DEF FailRun
  <2>3. Runs!Fail(r)
    BY <1>1, <1>5, <2>1, <2>2, RunFailed, OneEntry DEF Runs!Fail, EntryOf, Frozen
  <2> QED BY <1>1, <2>3 DEF Runs!Next
<1>6. ASSUME NEW r \in Run, ReviewFinding(r) PROVE Runs!Next
  <2>1. EntryOf(run'[r]) = Runs!Seen(run[r].doc, run[r].status, "DISPOSED")
    BY <1>1, <1>6, FindingReviewed DEF EntryOf, Runs!Seen
  <2>2. version' = version /\ run[r].finding = "UNREVIEWED" /\ ~Runs!IsFrozen(r)
    BY <1>1, <1>6, FrozenAlike DEF ReviewFinding
  <2>3. Runs!Dispose(r)
    BY <1>1, <1>6, <2>1, <2>2, FindingReviewed, OneEntry DEF Runs!Dispose, EntryOf, Frozen
  <2> QED BY <1>1, <2>3 DEF Runs!Next
<1>7. ASSUME NEW r \in Run, AttestRun(r)
      PROVE  UNCHANGED <<[s \in Run |-> EntryOf(run[s])], {d \in Document : Frozen({d})}>>
  <2>1. version' = version
    BY <1>7 DEF AttestRun
  <2>2. \A s \in Run : EntryOf(run'[s]) = EntryOf(run[s])
    BY <1>1, <1>7, RunAttested, SameEntry
  <2> QED BY <2>1, <2>2 DEF Frozen
<1>8. ASSUME NEW r \in Run, PublishRun(r) PROVE Runs!Next
  <2> DEFINE old == Runs!Overtaken(r)
             finding == run'[r].finding
  <2>1. version' = version
    BY <1>8 DEF PublishRun
  <2>2. \A s \in Run : s \in old <=>
          s # r /\ run[s].doc = run[r].doc /\ run[s].finding = "UNREVIEWED"
    BY <1>1 DEF Runs!Overtaken, EntryOf
  <2>3. EntryOf(run'[r]) = Runs!Seen(run[r].doc, "SUCCEEDED", finding)
    BY <1>1, <1>8, RunPublished DEF EntryOf, Runs!Seen
  <2>4. ASSUME NEW s \in Run \ {r}
        PROVE  EntryOf(run'[s]) = IF s \in old THEN Runs!Seen(run[s].doc, run[s].status, "SUPERSEDED")
                                  ELSE EntryOf(run[s])
    <3>1. /\ run'[s].doc = run[s].doc /\ run'[s].status = run[s].status
          /\ run'[s].finding = IF s \in old THEN "SUPERSEDED" ELSE run[s].finding
      BY <1>1, <1>8, <2>2, RunPublished
    <3> QED BY <3>1 DEF EntryOf, Runs!Seen
  <2>5. Runs!IsFrozen(r) => finding = "none" /\ old = {}
    <3>1. Runs!IsFrozen(r) => finding = "none" /\ \A s \in Run \ {r} : run'[s].finding = run[s].finding
      BY <1>1, <1>8, FrozenAlike, RunPublished
    <3>2. \A s \in old : s \in Run \ {r} /\ run'[s].finding # run[s].finding
      BY <1>1, <1>8, <2>2, RunPublished DEF Runs!Overtaken
    <3> QED BY <3>1, <3>2
  <2>6. run[r].status = "RUNNING" /\ finding \in {"none", "UNREVIEWED"}
    BY <1>1, <1>8, RunPublished
  <2> DEFINE now == [s \in Run |-> EntryOf(run[s])]
  <2>7. now' = [s \in Runs!Run |->
                  IF s = r THEN Runs!Seen(now[r].doc, "SUCCEEDED", finding)
                  ELSE IF s \in old THEN Runs!Seen(now[s].doc, now[s].status, "SUPERSEDED")
                  ELSE now[s]]
    <3>1. \A s \in Run : now[s].doc = run[s].doc /\ now[s].status = run[s].status
      BY DEF EntryOf
    <3> HIDE DEF old, finding
    <3> QED BY <1>1, <2>3, <2>4, <3>1
  <2>8. now[r].status = "RUNNING"
    BY <2>6 DEF EntryOf
  <2>9. UNCHANGED {d \in Document : Frozen({d})}
    BY <2>1 DEF Frozen
  <2>10. Runs!Publish(r)
    BY <2>5, <2>6, <2>7, <2>8, <2>9 DEF Runs!Publish
  <2> QED BY <1>1, <2>10 DEF Runs!Next
<1> QED BY <1>2, <1>3, <1>4, <1>5, <1>6, <1>7, <1>8, RunSteps

\* A run that opens, fails or is disposed of has no unreviewed finding then, and
\* one that publishes leaves no other of its document.
LEMMA OneCurrentStep ==
  ASSUME Runs!OneCurrent, Runs!Next
  PROVE  Runs!OneCurrent'
<1> DEFINE now == [r \in Run |-> EntryOf(run[r])]
<1>1. Run = Runs!Run
  BY DEF Run, Runs!Run
<1>2. \A r, s \in Run :
        now[r].finding = "UNREVIEWED" =>
          /\ now[r].status = "SUCCEEDED"
          /\ (now[s].finding = "UNREVIEWED" /\ now[s].doc = now[r].doc) => r = s
  BY <1>1 DEF Runs!OneCurrent
<1>3. SUFFICES \A r, s \in Run :
        now'[r].finding = "UNREVIEWED" =>
          /\ now'[r].status = "SUCCEEDED"
          /\ (now'[s].finding = "UNREVIEWED" /\ now'[s].doc = now'[r].doc) => r = s
  BY <1>1 DEF Runs!OneCurrent
<1>4. ASSUME NEW r \in Run, NEW e, now' = [now EXCEPT ![r] = e], e.finding # "UNREVIEWED"
      PROVE  \A s \in Run : now'[s].finding = "UNREVIEWED" => s # r /\ now'[s] = now[s]
  <2> HIDE DEF now
  <2>1. DOMAIN now = Run
    BY DEF now
  <2> QED BY <1>4, <2>1
<1>5. ASSUME NEW r \in Run, Runs!Open(r) \/ Runs!Fail(r) \/ Runs!Dispose(r)
      PROVE  \A s \in Run : now'[s].finding = "UNREVIEWED" => now'[s] = now[s]
  <2>1. now[r].status = "RUNNING" => now[r].finding # "UNREVIEWED"
    BY <1>2
  <2>2. \E e : now' = [now EXCEPT ![r] = e] /\ e.finding # "UNREVIEWED"
    <3>1. CASE Runs!Open(r)
      <4>1. PICK d \in Document : now' = [now EXCEPT ![r] = Runs!Seen({d}, "RUNNING", "none")]
        BY <3>1 DEF Runs!Open
      <4>2. Runs!Seen({d}, "RUNNING", "none").finding # "UNREVIEWED"
        BY DEF Runs!Seen
      <4> HIDE DEF now
      <4> QED BY <4>1, <4>2
    <3>2. CASE Runs!Fail(r)
      <4>1. /\ now[r].status = "RUNNING"
            /\ now' = [now EXCEPT ![r] = Runs!Seen(now[r].doc, "FAILED", now[r].finding)]
        BY <3>2 DEF Runs!Fail
      <4>2. Runs!Seen(now[r].doc, "FAILED", now[r].finding).finding # "UNREVIEWED"
        BY <2>1, <4>1 DEF Runs!Seen
      <4> HIDE DEF now
      <4> QED BY <4>1, <4>2
    <3>3. CASE Runs!Dispose(r)
      <4>1. now' = [now EXCEPT ![r] = Runs!Seen(now[r].doc, now[r].status, "DISPOSED")]
        BY <3>3 DEF Runs!Dispose
      <4>2. Runs!Seen(now[r].doc, now[r].status, "DISPOSED").finding # "UNREVIEWED"
        BY DEF Runs!Seen
      <4> HIDE DEF now
      <4> QED BY <4>1, <4>2
    <3> QED BY <1>5, <3>1, <3>2, <3>3
  <2> HIDE DEF now
  <2> QED BY <1>4, <2>2
<1>6. CASE \E r \in Run : Runs!Open(r) \/ Runs!Fail(r) \/ Runs!Dispose(r)
  BY <1>2, <1>5, <1>6
<1>7. ASSUME NEW r \in Run, Runs!Publish(r)
      PROVE  /\ now'[r].status = "SUCCEEDED"
             /\ \A s \in Run \ {r} : now'[s].finding = "UNREVIEWED" =>
                  now'[s] = now[s] /\ now'[s].doc # now'[r].doc
  <2> DEFINE old == {s \in Run \ {r} : now[s].doc = now[r].doc /\ now[s].finding = "UNREVIEWED"}
             lost(s) == Runs!Seen(now[s].doc, now[s].status, "SUPERSEDED")
  <2>1. PICK finding : now' = [s \in Run |->
          IF s = r THEN Runs!Seen(now[r].doc, "SUCCEEDED", finding)
          ELSE IF s \in old THEN lost(s) ELSE now[s]]
    BY <1>1, <1>7 DEF Runs!Publish, Runs!Overtaken
  <2>2. now'[r] = Runs!Seen(now[r].doc, "SUCCEEDED", finding)
    BY <2>1
  <2>3. \A s \in Run \ {r} : now'[s] = IF s \in old THEN lost(s) ELSE now[s]
    BY <2>1
  <2>4. now'[r].doc = now[r].doc /\ now'[r].status = "SUCCEEDED"
    BY <2>2 DEF Runs!Seen
  <2>5. \A s : lost(s).finding = "SUPERSEDED"
    BY DEF Runs!Seen
  <2> HIDE DEF now, lost
  <2> QED BY <2>3, <2>4, <2>5
<1>8. CASE \E r \in Run : Runs!Publish(r)
  <2> HIDE DEF now
  <2> QED BY <1>2, <1>7, <1>8
<1>9. CASE Runs!Refreeze
  BY <1>2, <1>9 DEF Runs!Refreeze
<1> QED BY <1>1, <1>6, <1>8, <1>9 DEF Runs!Next

\* The versions of a matter see its runs and findings in no state and take no step
\* that the register of the runs does not have: a run is opened after all others,
\* its findings overtake what is unreviewed of the same document, and a frozen
\* document keeps all of its findings (lib/jobProcessor.ts:278-290, migration
\* 006:433-461).  So no two runs of a document have unreviewed findings.
THEOREM KeepsRegister == Spec => Runs!Spec /\ []Runs!OneCurrent
<1>1. Init => Runs!Init
  BY DEF Init, NoRun, NoVersion, Frozen, EntryOf, Runs!Init, Runs!Seen, Run, Runs!Run
<1>2. Init => Runs!OneCurrent
  BY DEF Init, NoRun, EntryOf, Runs!OneCurrent, Run, Runs!Run
<1>3. ASSUME Runs!OneCurrent,
             UNCHANGED <<[r \in Run |-> EntryOf(run[r])], {d \in Document : Frozen({d})}>>
      PROVE  Runs!OneCurrent'
  BY <1>3 DEF Runs!OneCurrent
<1> QED
  BY <1>1, <1>2, <1>3, RegisterStep, OneCurrentStep, TypedHolds, RunsInOrderHolds, PTL
     DEF Spec, Runs!Spec

-----------------------------------------------------------------------------
(* A version in force rests on attested evidence and settled decisions.        *)

\* A version in force was so before with the same sources, or is executed now.
LEMMA InForceSteps ==
  ASSUME TypeOK, [Next]_vars, NEW v \in InForce'
  PROVE  Execute(v) \/ (v \in InForce /\ version'[v].docs = version[v].docs)
<1>1. v \in Version /\ version'[v].status = "EXECUTED" /\ version \in [Version -> VersionRow]
  BY DEF InForce, TypeOK
<1>2. ASSUME NEW docs \in SUBSET Document, CreateVersion(docs)
      PROVE  version'[v] = version[v]
  <2>1. PICK u \in Version, new \in VersionRow :
          version' = [version EXCEPT ![u] = new] /\ new.status = "WORKING"
    BY <1>2, Created DEF TypeOK
  <2> QED BY <1>1, <2>1
<1>3. ASSUME NEW u \in Version, NEW e \in Scenario, Lock(u, e) PROVE version'[v] = version[v]
  <2>1. PICK new \in VersionRow :
          version' = [version EXCEPT ![u] = new] /\ new.status = "APPROVED"
    BY <1>3, Locked
  <2> QED BY <1>1, <2>1
<1>4. ASSUME NEW u \in Version, Supersede(u) PROVE version'[v] = version[v]
  <2>1. PICK new \in VersionRow :
          version' = [version EXCEPT ![u] = new] /\ new.status = "SUPERSEDED"
    BY <1>4, Superseded
  <2> QED BY <1>1, <2>1
<1>5. ASSUME NEW u \in Version, Execute(u) PROVE u = v
  BY <1>1, <1>5, ExecutedRows
<1> QED BY <1>1, <1>2, <1>3, <1>4, <1>5, VersionSteps DEF InForce

\* An attested receipt of a version in force stays as it is.
LEMMA ReceiptKept ==
  ASSUME TypeOK, [Next]_vars, NEW v \in InForce, graph[v].state = "attested"
  PROVE  graph'[v] = graph[v]
<1>1. graph \in [Version -> GraphRow] /\ v \in Version /\ ~Available(v)
  BY DEF TypeOK, InForce, Available
<1>2. ASSUME NEW docs PROVE Overrun(Exposed(docs))[v] = graph[v]
                            /\ Overrun(Exposed(docs) \ {v})[v] = graph[v]
  BY <1>1 DEF Overrun, Exposed
<1>3. ASSUME NEW r \in Run, PublishRun(r) PROVE graph'[v] = graph[v]
  <2>1. PICK lost \in {{}, Exposed(Document)} : graph' = Overrun(lost)
    BY <1>3 DEF PublishRun
  <2>2. v \notin lost
    BY <2>1 DEF Exposed
  <2> QED BY <1>1, <2>1, <2>2 DEF Overrun
<1>4. ASSUME NEW u \in Version, RunGraph(u) PROVE graph'[v] = graph[v]
  <2>1. u # v
    BY <1>1, <1>4 DEF RunGraph
  <2>2. PICK touched, new :
          graph' = [Overrun(Exposed(version[u].docs) \ {u}) EXCEPT ![u] = new]
    BY <1>4 DEF RunGraph
  <2>3. v \notin Exposed(version[u].docs) \ {u}
    BY DEF Exposed
  <2>4. graph'[v] = Overrun(Exposed(version[u].docs) \ {u})[v]
    BY <1>1, <2>1, <2>2 DEF Overrun
  <2> QED BY <1>1, <2>3, <2>4 DEF Overrun
<1>5. ASSUME NEW u \in Version, ReviewGraph(u) \/ AttestGraph(u) PROVE graph'[v] = graph[v]
  BY <1>1, <1>5 DEF ReviewGraph, AttestGraph
<1>6. \/ graph' = graph
      \/ \E r \in Run : PublishRun(r)
      \/ \E u \in Version : RunGraph(u) \/ ReviewGraph(u) \/ AttestGraph(u)
  BY DEF Next, vars, ReplaceText, WithdrawSource, OpenRun, FailRun, ReviewFinding, AttestRun,
         SaveScenario, Execute, Supersede, Lock, RequestDecision, ReviewScenario, Approve,
         Reject, ResolveCondition, CreateVersion
<1> QED BY <1>3, <1>4, <1>5, <1>6

\* A run that a version in force rests on.
Supports(r, d) ==
  d \in run[r].doc /\ run[r].status = "SUCCEEDED" /\ run[r].fresh /\ run[r].attested

LEMMA RunKept ==
  ASSUME TypeOK, RunsInOrder, [Next]_vars, NEW v \in InForce, NEW d \in version[v].docs,
         NEW r \in Run, Supports(r, d)
  PROVE  Supports(r, d)'
<1>1. /\ d \in run[r].doc /\ run[r].status = "SUCCEEDED" /\ run[r].fresh /\ run[r].attested
      /\ \A e \in run[r].doc : e = d
  BY DEF Supports, RunsInOrder
<1>2. ASSUME NEW e \in Document, ReplaceText(e) PROVE Supports(r, d)'
  <2>1. ~Frozen({e})
    BY <1>2 DEF ReplaceText
  <2>2. e # d
    BY <2>1 DEF Frozen, InForce
  <2>3. run'[r] = run[r]
    BY <1>1, <1>2, <2>2, TextReplaced
  <2> QED BY <1>1, <2>3 DEF Supports
<1>3. ASSUME NEW e \in Document, OpenRun(e) PROVE Supports(r, d)'
  <2>1. run'[r] = run[r]
    BY <1>1, <1>3, RunOpened
  <2> QED BY <1>1, <2>1 DEF Supports
<1>4. ASSUME NEW s \in Run, FailRun(s) PROVE Supports(r, d)'
  BY <1>1, <1>4, RunFailed DEF Supports
<1>5. ASSUME NEW s \in Run, ReviewFinding(s) PROVE Supports(r, d)'
  BY <1>1, <1>5, FindingReviewed DEF Supports
<1>6. ASSUME NEW s \in Run, AttestRun(s) PROVE Supports(r, d)'
  BY <1>1, <1>6, RunAttested DEF Supports
<1>7. ASSUME NEW s \in Run, PublishRun(s) PROVE Supports(r, d)'
  BY <1>1, <1>7, RunPublished DEF Supports
<1>8. CASE run' = run
  BY <1>1, <1>8 DEF Supports
<1> QED BY <1>2, <1>3, <1>4, <1>5, <1>6, <1>7, <1>8, RunSteps

Rests(v) ==
  /\ graph[v].state = "attested"
  /\ \A d \in version[v].docs : \E r \in graph[v].runs : Supports(r, d)

LEMMA EvidenceStep ==
  Typed /\ RunsInOrder /\ RestsOnAttestedEvidence /\ [Next]_vars => RestsOnAttestedEvidence'
<1> SUFFICES ASSUME Typed, RunsInOrder, RestsOnAttestedEvidence, [Next]_vars, NEW v \in InForce'
             PROVE  Rests(v)'
  BY DEF RestsOnAttestedEvidence, Rests, Supports
<1>1. TypeOK /\ v \in Version
  BY DEF Typed, InForce
<1>2. CASE Execute(v)
  <2>1. /\ Attested(v) /\ run' = run /\ graph' = graph /\ version'[v].docs = version[v].docs
    BY <1>1, <1>2, ExecutedRows DEF Execute
  <2>2. ASSUME NEW d \in version[v].docs PROVE \E r \in graph[v].runs : Supports(r, d)
    <3>1. PICK r \in Latest(d) : run[r].status = "SUCCEEDED" /\ run[r].fresh
      BY <2>1 DEF Attested, Analysed
    <3>2. r \in CurrentRuns(v) /\ d \in run[r].doc
      BY <3>1 DEF CurrentRuns, Latest, Last, RunsOf
    <3> QED BY <2>1, <3>1, <3>2 DEF Attested, Supports
  <2> QED BY <2>1, <2>2 DEF Attested, Rests, Supports
<1>3. CASE v \in InForce /\ version'[v].docs = version[v].docs
  <2>1. Rests(v)
    BY <1>3 DEF RestsOnAttestedEvidence, Rests, Supports
  <2>2. graph'[v] = graph[v] /\ graph[v].runs \subseteq Run
    BY <1>1, <1>3, <2>1, ReceiptKept DEF Rests, TypeOK, GraphRow
  <2>3. \A d \in version[v].docs : \E r \in graph[v].runs : Supports(r, d)'
    BY <1>1, <1>3, <2>1, <2>2, RunKept DEF Rests
  <2> QED BY <1>3, <2>1, <2>2, <2>3 DEF Rests
<1> QED BY <1>1, <1>2, <1>3, InForceSteps

\* For as long as a version is in force, the runs and the receipt its execution
\* relied on are there, attested and bound to the stored text.
THEOREM EvidenceHolds == Spec => []RestsOnAttestedEvidence
<1>1. Init => RestsOnAttestedEvidence
  BY DEF Init, NoVersion, InForce, RestsOnAttestedEvidence
<1> QED BY <1>1, TypedHolds, RunsInOrderHolds, EvidenceStep, PTL DEF Spec

\* The latest successful run of a source of a version in force is the one it was,
\* or one that found nothing.
LEMMA LatestKept ==
  ASSUME TypeOK, RunsInOrder, [Next]_vars, NEW v \in InForce, NEW d \in version[v].docs,
         NEW r \in LatestSucceeded(d)'
  PROVE  \/ run'[r].finding = "none"
         \/ /\ r \in LatestSucceeded(d) /\ run'[r].finding = run[r].finding
            /\ run'[r].restricted = run[r].restricted
<1>1. /\ r \in Run /\ d \in run'[r].doc /\ run'[r].status = "SUCCEEDED"
      /\ \A s \in Run : (d \in run'[s].doc /\ run'[s].status = "SUCCEEDED") => s <= r
  BY DEF LatestSucceeded, Last, RunsOf
<1>2. ASSUME d \in run[r].doc, run[r].status = "SUCCEEDED",
             \A s \in Run : (d \in run[s].doc /\ run[s].status = "SUCCEEDED") =>
                              (d \in run'[s].doc /\ run'[s].status = "SUCCEEDED")
      PROVE  r \in LatestSucceeded(d)
  BY <1>1, <1>2 DEF LatestSucceeded, Last, RunsOf
<1> DEFINE Kept == /\ r \in LatestSucceeded(d) /\ run'[r].finding = run[r].finding
                   /\ run'[r].restricted = run[r].restricted
<1>3. CASE run' = run
  BY <1>1, <1>2, <1>3
<1>4. ASSUME NEW e \in Document, ReplaceText(e) PROVE Kept
  BY <1>1, <1>2, <1>4, TextReplaced
<1>5. ASSUME NEW e \in Document, OpenRun(e) PROVE Kept
  <2>1. PICK s \in Run :
          /\ run[s].status = "ABSENT" /\ \A o \in Run \ {s} : run'[o] = run[o]
          /\ run'[s].status = "RUNNING"
    BY <1>5, RunOpened
  <2>2. run'[r] = run[r]
    BY <1>1, <2>1
  <2> QED BY <1>1, <1>2, <2>1, <2>2
<1>6. ASSUME NEW s \in Run, FailRun(s) PROVE Kept
  <2>1. run'[r] = run[r]
    BY <1>1, <1>6, RunFailed
  <2> QED BY <1>1, <1>2, <1>6, <2>1, RunFailed
<1>7. ASSUME NEW s \in Run, ReviewFinding(s) PROVE Kept
  <2>1. ~Frozen(run[s].doc)
    BY <1>7 DEF ReviewFinding
  <2>2. d \notin run[s].doc
    BY <2>1 DEF Frozen, InForce
  <2>3. run'[r] = run[r]
    BY <1>1, <1>7, <2>2, FindingReviewed
  <2> QED BY <1>1, <1>2, <1>7, <2>3, FindingReviewed
<1>8. ASSUME NEW s \in Run, AttestRun(s) PROVE Kept
  <2>1. /\ run'[r].doc = run[r].doc /\ run'[r].status = run[r].status
        /\ run'[r].finding = run[r].finding /\ run'[r].restricted = run[r].restricted
    BY <1>1, <1>8, RunAttested
  <2> QED BY <1>1, <1>2, <1>8, <2>1, RunAttested
<1>9. ASSUME NEW s \in Run, PublishRun(s) PROVE run'[r].finding = "none" \/ Kept
  <2>1. run'[r].doc = run[r].doc /\ run[s].status = "RUNNING"
    BY <1>1, <1>9, RunPublished
  <2>2. d \in run[s].doc => Frozen(run[s].doc)
    BY DEF Frozen, InForce
  <2>3. CASE r = s
    BY <1>1, <1>9, <2>1, <2>2, <2>3, RunPublished
  <2>4. CASE r # s
    <3>1. run'[r].finding = run[r].finding
      BY <1>1, <1>9, <2>1, <2>2, <2>4, RunPublished
    <3>2. run'[r].status = run[r].status /\ run'[r].restricted = run[r].restricted
      BY <1>1, <1>9, <2>4, RunPublished
    <3> QED BY <1>1, <1>2, <1>9, <2>1, <3>1, <3>2, RunPublished
  <2> QED BY <2>3, <2>4
<1> QED BY <1>3, <1>4, <1>5, <1>6, <1>7, <1>8, <1>9, RunSteps

\* A request on a version in force is one that was there.
LEMMA RequestsKept ==
  ASSUME Typed, [Next]_vars, NEW v \in InForce, NEW q \in Request
  PROVE  /\ decision'[q].version = v => decision'[q] = decision[q]
         /\ (decision[q].status # "ABSENT" /\ decision[q].version = v) => decision'[q] = decision[q]
BY DecisionsFrozen

Open(q, v) == decision[q].version = v /\ decision[q].status = "PENDING"
Accepted(q, v) == decision[q].version = v /\ decision[q].status = "APPROVED"
Affirmed(q) == decision[q].kind = "affirm" /\ decision[q].condition # "PENDING"
Granted(r, v) ==
  /\ run[r].finding # "UNREVIEWED"
  /\ (run[r].finding = "VALIDATED" /\ run[r].restricted) =>
       \E q \in Request : Accepted(q, v) /\ decision[q].finding = r

SettledParts(v) ==
  /\ \A q \in Request : ~Open(q, v) /\ (Accepted(q, v) => Affirmed(q))
  /\ \A d \in version[v].docs : \A r \in LatestSucceeded(d) : Granted(r, v)

LEMMA SettledInParts == RestsOnSettledDecisions <=> \A v \in InForce : SettledParts(v)
BY DEF RestsOnSettledDecisions, SettledParts, Open, Accepted, Affirmed, Granted

LEMMA SettledInPartsNext == RestsOnSettledDecisions' <=> \A v \in InForce' : SettledParts(v)'
BY DEF RestsOnSettledDecisions, SettledParts, Open, Accepted, Affirmed, Granted

LEMMA SettledStep ==
  Typed /\ RunsInOrder /\ ApprovalsAgree /\ RestsOnSettledDecisions /\ [Next]_vars
    => RestsOnSettledDecisions'
<1> SUFFICES ASSUME Typed, RunsInOrder, ApprovalsAgree, RestsOnSettledDecisions, [Next]_vars,
                    NEW v \in InForce'
             PROVE  SettledParts(v)'
  BY SettledInPartsNext
<1>1. TypeOK /\ v \in Version
  BY DEF Typed, InForce
<1>2. CASE Execute(v)
  <2>1. /\ Settled(v) /\ Authorised(v) /\ run' = run /\ decision' = decision
        /\ version'[v].docs = version[v].docs
    BY <1>1, <1>2, ExecutedRows DEF Execute
  <2>2. ASSUME NEW q \in Request, Accepted(q, v) PROVE q \in Effective(v)
    BY <2>2 DEF Accepted, ApprovalsAgree, Effective, DecidedOn
  <2>3. \A q \in Request : ~Open(q, v) /\ (Accepted(q, v) => Affirmed(q))
    BY <2>1, <2>2 DEF Settled, DecidedOn, Open, Affirmed
  <2>4. \A d \in version[v].docs : \A r \in LatestSucceeded(d) : Granted(r, v)
    BY <2>1 DEF Authorised, Granted, Effective, DecidedOn, Accepted
  <2>5. SettledParts(v)
    BY <2>3, <2>4 DEF SettledParts
  <2> QED BY <2>1, <2>5 DEF SettledParts, Open, Accepted, Affirmed, Granted, LatestSucceeded,
                            Last, RunsOf
<1>3. CASE v \in InForce /\ version'[v].docs = version[v].docs
  <2>1. SettledParts(v)
    BY <1>3, SettledInParts
  <2>2. ASSUME NEW q \in Request
        PROVE  ~Open(q, v)' /\ (Accepted(q, v)' => Affirmed(q)')
    <3>1. decision'[q].version = v => decision'[q] = decision[q]
      BY <1>3, RequestsKept
    <3>2. ~Open(q, v) /\ (Accepted(q, v) => Affirmed(q))
      BY <2>1 DEF SettledParts
    <3> QED BY <3>1, <3>2 DEF Open, Accepted, Affirmed
  <2>3. ASSUME NEW q \in Request, Accepted(q, v) PROVE decision'[q] = decision[q]
    BY <1>3, <2>3, RequestsKept DEF Accepted
  <2>4. ASSUME NEW d \in version[v].docs, NEW r \in LatestSucceeded(d)' PROVE Granted(r, v)'
    <3>1. CASE run'[r].finding = "none"
      BY <3>1 DEF Granted
    <3>2. CASE /\ r \in LatestSucceeded(d) /\ run'[r].finding = run[r].finding
               /\ run'[r].restricted = run[r].restricted
      <4>1. Granted(r, v)
        BY <2>1, <3>2 DEF SettledParts
      <4>2. \A q \in Request : Accepted(q, v) =>
              Accepted(q, v)' /\ decision'[q].finding = decision[q].finding
        BY <2>3 DEF Accepted
      <4> QED BY <3>2, <4>1, <4>2 DEF Granted
    <3> QED BY <1>1, <1>3, <3>1, <3>2, LatestKept
  <2> QED BY <1>3, <2>2, <2>4 DEF SettledParts
<1> QED BY <1>1, <1>2, <1>3, InForceSteps

\* For as long as a version is in force, nothing on it is pending or speaks against
\* it, and every current finding that needs an approval has one on this version.
THEOREM SettledHolds == Spec => []RestsOnSettledDecisions
<1>1. Init => RestsOnSettledDecisions
  BY DEF Init, NoVersion, InForce, RestsOnSettledDecisions
<1> QED BY <1>1, TypedHolds, RunsInOrderHolds, ApprovalsHold, SettledStep, PTL DEF Spec
=============================================================================
