-------------------------- MODULE AgreementLifecycle --------------------------
(* The agreement versions of one matter, from the package that is put together *)
(* to the one that is executed and superseded, with everything an execution    *)
(* relies on: the analysis runs and findings of the source documents, the      *)
(* graph receipts, the economics scenarios and the decisions with their        *)
(* conditions (app/api/agreement-versions, decision-requests, decisions,       *)
(* decision-conditions, economics, analysis-attestations; migrations 006, 007, *)
(* 008 and 013).                                                               *)
(*                                                                             *)
(* Every handler is one transaction, and what it reads is covered by the lock  *)
(* of the matter row or of the version row, so it is one step.  A handler that *)
(* refuses changes nothing and is not a step.  Runs stand for the clause-risk  *)
(* and the term-extraction run of a document, receipts for the dependency and  *)
(* the precedence receipt of a version; both pairs are asked for together.     *)
(* A run publishes at most one finding and a graph at most one object; a       *)
(* decision has at most one condition.  Locking and execution also need        *)
(* assertLegalRelianceReady, taken as given here.                              *)
EXTENDS Integers, FiniteSets

CONSTANTS
  Document,       \* source documents of the matter
  Approver,       \* people who may request and dispose
  Admin,          \* those with the Admin role
  MaxVersions,    \* bound: agreement versions
  MaxRuns,        \* bound: analysis runs
  MaxScenarios,   \* bound: economics runs
  MaxRequests,    \* bound: decision requests
  MaxWithdrawn,   \* bound: sources that are purged
  MaxStale,       \* bound: runs that are stale when a text is replaced
  Nobody          \* no requester

ASSUME PeopleAssumption == Admin \subseteq Approver /\ Nobody \notin Approver
ASSUME LimitAssumption ==
  /\ {MaxVersions, MaxRuns, MaxScenarios, MaxRequests, MaxWithdrawn, MaxStale} \subseteq Nat

VARIABLES
  version,    \* agreement_versions
  ready,      \* documents that are clean, verified, extracted and active
  run,        \* analysis_runs with the finding each published, in order of start
  graph,      \* the receipt of the latest graph of each version
  scenario,   \* economics_runs
  decision    \* decisions with their condition

vars == <<version, ready, run, graph, scenario, decision>>

Version == 1 .. MaxVersions
Run == 1 .. MaxRuns
Scenario == 1 .. MaxScenarios
Request == 1 .. MaxRequests

\* The rows, as far as the handlers look at them.  A run is of one document.
VersionRow ==
  [status : {"ABSENT", "WORKING", "APPROVED", "EXECUTED", "SUPERSEDED"},
   docs : SUBSET Document, economics : 0 .. MaxScenarios]
RunRow ==
  [doc : SUBSET Document, status : {"ABSENT", "RUNNING", "SUCCEEDED", "FAILED"},
   fresh : BOOLEAN, attested : BOOLEAN, restricted : BOOLEAN,
   finding : {"none", "UNREVIEWED", "VALIDATED", "REJECTED", "SUPERSEDED"}]
GraphRow ==
  [runs : SUBSET Run, touches : SUBSET Document,
   state : {"none", "open", "reviewed", "attested", "lost"}]
ScenarioRow ==
  [status : {"ABSENT", "UNREVIEWED", "VALIDATED", "REJECTED"}, version : 0 .. MaxVersions]
DecisionRow ==
  [status : {"ABSENT", "PENDING", "APPROVED", "REJECTED"},
   version : 0 .. MaxVersions, finding : 0 .. MaxRuns, kind : {"none", "affirm", "block"},
   by : Approver \cup {Nobody}, admin : BOOLEAN, economics : 0 .. MaxScenarios,
   condition : {"none", "PENDING", "SATISFIED", "WAIVED"}]

NoVersion == [status |-> "ABSENT", docs |-> {}, economics |-> 0]
NoRun == [doc |-> {}, status |-> "ABSENT", fresh |-> FALSE, attested |-> FALSE,
          restricted |-> FALSE, finding |-> "none"]
NoGraph == [runs |-> {}, touches |-> {}, state |-> "none"]
NoScenario == [status |-> "ABSENT", version |-> 0]
NoDecision == [status |-> "ABSENT", version |-> 0, finding |-> 0, kind |-> "none",
               by |-> Nobody, admin |-> FALSE, economics |-> 0, condition |-> "none"]

\* A version has its economics exactly when it was locked once.
TypeOK ==
  /\ version \in [Version -> VersionRow]
  /\ ready \in SUBSET Document
  /\ run \in [Run -> RunRow]
  /\ graph \in [Version -> GraphRow]
  /\ scenario \in [Scenario -> ScenarioRow]
  /\ decision \in [Request -> DecisionRow]
  /\ \A v \in Version :
       (version[v].economics = 0) <=> (version[v].status \in {"ABSENT", "WORKING"})

\* The next free row of a table, if the bound leaves one.
Free(table) == {i \in DOMAIN table : /\ table[i].status = "ABSENT"
                                     /\ \A j \in 1 .. i - 1 : table[j].status # "ABSENT"}

\* The matter has only documents and people.
Init ==
  /\ version = [v \in Version |-> NoVersion]
  /\ ready = Document
  /\ run = [r \in Run |-> NoRun]
  /\ graph = [v \in Version |-> NoGraph]
  /\ scenario = [e \in Scenario |-> NoScenario]
  /\ decision = [q \in Request |-> NoDecision]

-----------------------------------------------------------------------------
(* Analysis runs and findings of the documents.                                *)

\* A bug: publications are frozen by a lock only, not by an execution.
Frozen_WhileLocked(docs) ==
  \E v \in Version : version[v].status = "APPROVED" /\ version[v].docs \cap docs # {}

\* lock_documents_for_legal_publication: what derives from a source of an
\* executed version cannot be written.
Frozen(docs) ==
  \E v \in Version : version[v].status = "EXECUTED" /\ version[v].docs \cap docs # {}

\* Runs of a document that have some status, and the last one to start.
RunsOf(d, statuses) == {r \in Run : d \in run[r].doc /\ run[r].status \in statuses}
Last(runs) == {r \in runs : \A s \in runs : s <= r}
Latest(d) == Last(RunsOf(d, {"RUNNING", "SUCCEEDED", "FAILED"}))
LatestSucceeded(d) == Last(RunsOf(d, {"SUCCEEDED"}))

\* The text of a document is replaced by another release of the pipeline; its
\* runs, done or not, are no longer bound to what is stored.  That a third
\* release brings back an earlier text, and binds its runs again, is left out.
ReplaceText(d) ==
  /\ d \in ready /\ ~Frozen({d})
  /\ Cardinality({r \in Run : run[r].doc # {} /\ ~run[r].fresh}) < MaxStale
  /\ \E r \in Run : d \in run[r].doc /\ run[r].fresh
  /\ run' = [r \in Run |-> IF d \in run[r].doc THEN [run[r] EXCEPT !.fresh = FALSE] ELSE run[r]]
  /\ UNCHANGED <<version, ready, graph, scenario, decision>>

\* The source is purged, executed version or not.
WithdrawSource(d) ==
  /\ d \in ready /\ Cardinality(Document \ ready) < MaxWithdrawn
  /\ ready' = ready \ {d}
  /\ UNCHANGED <<version, run, graph, scenario, decision>>

OpenRun(d) ==
  /\ d \in ready
  /\ \E r \in Free(run) :
       run' = [run EXCEPT ![r] = [NoRun EXCEPT !.doc = {d}, !.status = "RUNNING", !.fresh = TRUE]]
  /\ UNCHANGED <<version, ready, graph, scenario, decision>>

FailRun(r) ==
  /\ run[r].status = "RUNNING"
  /\ run' = [run EXCEPT ![r].status = "FAILED"]
  /\ UNCHANGED <<version, ready, graph, scenario, decision>>

\* The unreviewed object of a graph is superseded by any other graph over the
\* documents it touches; the receipt can then never be attested.
Exposed(docs) == {v \in Version : graph[v].state = "open" /\ graph[v].touches \subseteq docs}
Overrun(lost) ==
  [v \in Version |-> IF v \in lost THEN [graph[v] EXCEPT !.state = "lost"] ELSE graph[v]]

\* What a graph writes must not touch the sources of an executed version, or its
\* transaction fails.
Writable(touched, lost) == ~Frozen(touched \cup UNION {graph[v].touches : v \in lost})

\* Publication of the findings and terms: earlier unreviewed findings of the
\* document are superseded.  The graph over the whole matter that follows the
\* terms succeeds or fails.
PublishRun(r) ==
  /\ run[r].status = "RUNNING" /\ run[r].fresh /\ run[r].doc \subseteq ready
  /\ \E found, restricted \in BOOLEAN :
       LET old == {s \in Run : run[s].doc = run[r].doc /\ run[s].finding = "UNREVIEWED"}
       IN /\ restricted => found
          /\ Frozen(run[r].doc) => ~found /\ old = {}
          /\ run' = [s \in Run |->
               IF s = r THEN [run[r] EXCEPT !.status = "SUCCEEDED", !.restricted = restricted,
                                            !.finding = IF found THEN "UNREVIEWED" ELSE "none"]
               ELSE IF s \in old THEN [run[s] EXCEPT !.finding = "SUPERSEDED"]
               ELSE run[s]]
  /\ \E lost \in {{}, Exposed(Document)} : Writable({}, lost) /\ graph' = Overrun(lost)
  /\ UNCHANGED <<version, ready, scenario, decision>>

\* PATCH findings/[id]/review
ReviewFinding(r) ==
  /\ run[r].finding = "UNREVIEWED" /\ ~Frozen(run[r].doc)
  /\ \E status \in {"VALIDATED", "REJECTED"} : run' = [run EXCEPT ![r].finding = status]
  /\ UNCHANGED <<version, ready, graph, scenario, decision>>

\* POST analysis-attestations for a run: everything it published is disposed.
AttestRun(r) ==
  /\ run[r].status = "SUCCEEDED" /\ ~run[r].attested
  /\ run[r].finding \in {"none", "VALIDATED", "REJECTED"}
  /\ run' = [run EXCEPT ![r].attested = TRUE]
  /\ UNCHANGED <<version, ready, graph, scenario, decision>>

-----------------------------------------------------------------------------
(* Economics scenarios.                                                        *)

Available(v) == version[v].status \in {"WORKING", "APPROVED"}

\* POST economics with persist
SaveScenario(v) ==
  /\ Available(v)
  /\ \E e \in Free(scenario) : scenario' = [scenario EXCEPT ![e] =
       [status |-> "UNREVIEWED", version |-> v]]
  /\ UNCHANGED <<version, ready, run, graph, decision>>

\* A bug: only the route looks at the version, and it refuses SUPERSEDED alone.
Reviewable_RouteOnly(v) == version[v].status # "SUPERSEDED"

\* The route refuses SUPERSEDED, the trigger of migration 007 EXECUTED too.
Reviewable(v) == Available(v)

ReviewScenario(e) ==
  /\ scenario[e].status = "UNREVIEWED" /\ Reviewable(scenario[e].version)
  /\ \E status \in {"VALIDATED", "REJECTED"} : scenario' = [scenario EXCEPT ![e].status = status]
  /\ UNCHANGED <<version, ready, run, graph, decision>>

\* A validated scenario of this version.  Its formula is the one of the active
\* policies, which can be neither changed nor succeeded (trigger of 008).
Authoritative(e, v) ==
  e # 0 /\ scenario[e] = [status |-> "VALIDATED", version |-> v]

-----------------------------------------------------------------------------
(* Decisions.                                                                  *)

\* The findings a request may name: validated, and of the latest successful run
\* of a document in the version.
Nameable(v) ==
  {r \in UNION {LatestSucceeded(d) : d \in version[v].docs} : run[r].finding = "VALIDATED"}

\* Accepting a finding or one that requires approval takes an Admin
\* (lib/decisionPolicy.ts); the requester may ask for one.
NeedsAdmin(r, kind, asked) == asked \/ kind = "affirm" \/ (r # 0 /\ run[r].restricted)

RequestRow(p, v, r, kind, asked, condition) ==
  [status |-> "PENDING", version |-> v, finding |-> r, kind |-> kind, by |-> p,
   admin |-> NeedsAdmin(r, kind, asked), economics |-> 0, condition |-> condition]

\* POST decision-requests.  Accepting needs a finding.
RequestDecision(p, v) ==
  /\ Available(v)
  /\ \E q \in Free(decision), kind \in {"affirm", "block"}, r \in Nameable(v) \cup {0},
        asked \in BOOLEAN, condition \in {"none", "PENDING"} :
       /\ kind = "affirm" => r # 0
       /\ decision' = [decision EXCEPT ![q] = RequestRow(p, v, r, kind, asked, condition)]
  /\ UNCHANGED <<version, ready, run, graph, scenario>>

\* Who may dispose of a decision: not the requester, and an Admin if it says so.
Entitled(p, q) == p # decision[q].by /\ (decision[q].admin => p \in Admin)

\* enforce_decision_economics_binding: one effective approval per finding.
Undecided(q) ==
  ~ \E o \in Request \ {q} : /\ decision[o].status = "APPROVED"
                            /\ decision[o].version = decision[q].version
                            /\ decision[o].finding = decision[q].finding

\* A bug: any validated scenario of the version will do.
Bindable_AnyValidated(e, v) ==
  e # 0 /\ scenario[e].status = "VALIDATED" /\ scenario[e].version = v

\* The scenario an approval binds: the one that was selected with the lock.
Bindable(e, v) == e = version[v].economics /\ Authoritative(e, v)

\* PATCH decisions/[id]; the approver may add a condition.
Approve(p, q) ==
  LET v == decision[q].version
  IN /\ decision[q].status = "PENDING" /\ Entitled(p, q)
     /\ version[v].status = "APPROVED" /\ Undecided(q)
     /\ \E e \in Scenario, added \in BOOLEAN :
          /\ Bindable(e, v)
          /\ decision' = [decision EXCEPT ![q] = [@ EXCEPT !.status = "APPROVED", !.economics = e,
                            !.condition = IF added THEN "PENDING" ELSE decision[q].condition]]
     /\ UNCHANGED <<version, ready, run, graph, scenario>>

\* A rejection records the scenario too if there is one.
Reject(p, q) ==
  LET v == decision[q].version
      e == version[v].economics
  IN /\ decision[q].status = "PENDING" /\ Entitled(p, q) /\ Available(v)
     /\ decision' = [decision EXCEPT ![q] = [@ EXCEPT !.status = "REJECTED",
                       !.economics = IF Authoritative(e, v) THEN e ELSE 0]]
     /\ UNCHANGED <<version, ready, run, graph, scenario>>

\* PATCH decision-conditions/[id]
ResolveCondition(p, q) ==
  /\ decision[q].status = "APPROVED" /\ decision[q].condition = "PENDING"
  /\ Available(decision[q].version) /\ (decision[q].admin => p \in Admin)
  /\ \E status \in {"SATISFIED"} \cup (IF p \in Admin THEN {"WAIVED"} ELSE {}) :
       decision' = [decision EXCEPT ![q].condition = status]
  /\ UNCHANGED <<version, ready, run, graph, scenario>>

-----------------------------------------------------------------------------
(* Agreement versions and their graphs.                                        *)

\* POST matters/[id]/versions
CreateVersion(docs) ==
  /\ docs # {}
  /\ \E v \in Free(version) :
       version' = [version EXCEPT ![v] =
         [status |-> "WORKING", docs |-> docs, economics |-> 0]]
  /\ UNCHANGED <<ready, run, graph, scenario, decision>>

\* The latest runs of the sources of a version are done and bound to its text.
CurrentRuns(v) == UNION {Latest(d) : d \in version[v].docs}
Analysed(v) ==
  \A d \in version[v].docs : \E r \in Latest(d) : run[r].status = "SUCCEEDED" /\ run[r].fresh

\* POST agreement-versions/[id]/graph and its two jobs.  The jobs are named after
\* the runs, so that those of a receipt that is there are not run again.
RunGraph(v) ==
  /\ Available(v) /\ version[v].docs \subseteq ready
  /\ Analysed(v) /\ graph[v].runs # CurrentRuns(v)
  /\ LET lost == Exposed(version[v].docs) \ {v}
     IN \E touched \in SUBSET version[v].docs :
          /\ Writable(touched, lost)
          /\ graph' = [Overrun(lost) EXCEPT ![v] = [runs |-> CurrentRuns(v), touches |-> touched,
               state |-> IF touched = {} THEN "reviewed" ELSE "open"]]
  /\ UNCHANGED <<version, ready, run, scenario, decision>>

\* POST graph/review, validated or rejected.
ReviewGraph(v) ==
  /\ graph[v].state = "open" /\ Writable(graph[v].touches, {})
  /\ graph' = [graph EXCEPT ![v].state = "reviewed"]
  /\ UNCHANGED <<version, ready, run, scenario, decision>>

\* POST analysis-attestations for the jobs of a graph.
AttestGraph(v) ==
  /\ graph[v].state = "reviewed" /\ graph' = [graph EXCEPT ![v].state = "attested"]
  /\ UNCHANGED <<version, ready, run, scenario, decision>>

NoneLocked == \A v \in Version : version[v].status # "APPROVED"

\* A bug: every change of the status writes the selection of the request.
Changed_TakesSelection(v, status, e) ==
  [version[v] EXCEPT !.status = status, !.economics = e]

\* The row after the change; the scenario is only selected with the lock.
Changed(v, status, e) ==
  [version[v] EXCEPT !.status = status, !.economics = IF status = "APPROVED" THEN e ELSE @]

\* WORKING to APPROVED: the package is locked with its authoritative scenario.
Lock(v, e) ==
  /\ version[v].status = "WORKING" /\ version[v].docs \subseteq ready
  /\ NoneLocked /\ Authoritative(e, v)
  /\ version' = [version EXCEPT ![v] = Changed(v, "APPROVED", e)]
  /\ UNCHANGED <<ready, run, graph, scenario, decision>>

\* enforce_authoritative_economics_selection runs on every change of the status,
\* the retirement of the version included.
SelectionStands(v) == Authoritative(version[v].economics, v)

Supersede(v) ==
  /\ version[v].status \in {"APPROVED", "EXECUTED"} /\ SelectionStands(v)
  /\ version' = [version EXCEPT ![v] = Changed(v, "SUPERSEDED", 0)]
  /\ UNCHANGED <<ready, run, graph, scenario, decision>>

\* A bug: the receipt is not compared with the latest runs.
Attested_AnyGraph(v) ==
  /\ Analysed(v) /\ graph[v].state = "attested"
  /\ \A r \in CurrentRuns(v) : run[r].attested

\* The runs and the receipt the version rests on.
Attested(v) ==
  /\ Analysed(v) /\ graph[v].runs = CurrentRuns(v) /\ graph[v].state = "attested"
  /\ \A r \in CurrentRuns(v) : run[r].attested

DecidedOn(v) == {q \in Request : decision[q].version = v}
Effective(v) ==
  {q \in DecidedOn(v) : decision[q].status = "APPROVED" /\ decision[q].economics = version[v].economics}

\* A bug: conditions of approved decisions are left to be followed up.
Settled_ConditionsLater(v) ==
  /\ \A q \in DecidedOn(v) : decision[q].status # "PENDING"
  /\ \A q \in Effective(v) : decision[q].kind = "affirm"

\* Nothing is pending and nothing effective speaks against the version.
Settled(v) ==
  /\ \A q \in DecidedOn(v) : decision[q].status # "PENDING"
  /\ \A q \in Effective(v) : decision[q].kind = "affirm" /\ decision[q].condition # "PENDING"

\* A bug: an approval on any version of the matter authorises the finding.
Authorised_AnyVersion(v) ==
  \A d \in version[v].docs : \A r \in LatestSucceeded(d) :
    (run[r].finding = "VALIDATED" /\ run[r].restricted) =>
      \E q \in Request : /\ decision[q].finding = r /\ decision[q].kind = "affirm"
                        /\ decision[q].status = "APPROVED"

\* Every current finding is disposed; those that require approval have it.
Authorised(v) ==
  \A d \in version[v].docs : \A r \in LatestSucceeded(d) :
    /\ run[r].finding # "UNREVIEWED"
    /\ (run[r].finding = "VALIDATED" /\ run[r].restricted) =>
         \E q \in Effective(v) : decision[q].finding = r /\ decision[q].kind = "affirm"

\* A bug: the version in force stays in force beside its successor.
Replaced_Nothing(v) == {}

\* The versions an execution takes out of force.
Replaced(v) == {u \in Version \ {v} : version[u].status = "EXECUTED"}

\* APPROVED to EXECUTED.  Some source is itself marked executed (taken as given).
Execute(v) ==
  /\ version[v].status = "APPROVED" /\ version[v].docs \subseteq ready
  /\ SelectionStands(v) /\ Attested(v) /\ Settled(v) /\ Authorised(v)
  /\ \A u \in Replaced(v) : SelectionStands(u)
  /\ version' = [u \in Version |->
       IF u = v THEN Changed(v, "EXECUTED", 0)
       ELSE IF u \in Replaced(v) THEN [version[u] EXCEPT !.status = "SUPERSEDED"]
       ELSE version[u]]
  /\ UNCHANGED <<ready, run, graph, scenario, decision>>

Next ==
  \/ \E d \in Document : ReplaceText(d) \/ WithdrawSource(d) \/ OpenRun(d)
  \/ \E r \in Run : FailRun(r) \/ PublishRun(r) \/ ReviewFinding(r) \/ AttestRun(r)
  \/ \E v \in Version : \/ SaveScenario(v) \/ RunGraph(v) \/ ReviewGraph(v) \/ AttestGraph(v)
                       \/ Execute(v) \/ Supersede(v)
                       \/ \E e \in Scenario : Lock(v, e)
                       \/ \E p \in Approver : RequestDecision(p, v)
  \/ \E e \in Scenario : ReviewScenario(e)
  \/ \E p \in Approver, q \in Request : Approve(p, q) \/ Reject(p, q) \/ ResolveCondition(p, q)
  \/ \E docs \in SUBSET Document : CreateVersion(docs)

Spec == Init /\ [][Next]_vars

-----------------------------------------------------------------------------
(* Properties.                                                                 *)

\* The versions of a matter behave like one register: at most one package is
\* locked, at most one is in force, an execution replaces its predecessor in the
\* same step and nothing that was superseded comes back.
Register == INSTANCE AgreementRegister WITH
  locked <- {v \in Version : version[v].status = "APPROVED"},
  inForce <- {v \in Version : version[v].status = "EXECUTED"},
  retired <- {v \in Version : version[v].status = "SUPERSEDED"}
ActsAsRegister == Register!Spec

InForce == {v \in Version : version[v].status = "EXECUTED"}

\* For as long as a version is in force, the runs and the graph it was executed on
\* are there, attested and bound to the stored text: the freeze of migration 006
\* covers everything the execution gate of migration 008 looked at.
RestsOnAttestedEvidence ==
  \A v \in InForce :
    /\ graph[v].state = "attested"
    /\ \A d \in version[v].docs : \E r \in graph[v].runs :
         d \in run[r].doc /\ run[r].status = "SUCCEEDED" /\ run[r].fresh /\ run[r].attested

\* For as long as a version is in force, no request on it is pending, no approval
\* speaks against it or has an open condition, and every current finding is
\* disposed and, where it requires approval, accepted on this very version: the
\* freeze of migration 007 covers what the execution route looked at once.
RestsOnSettledDecisions ==
  \A v \in InForce :
    LET on == {q \in Request : decision[q].version = v}
        accepted == {q \in on : decision[q].status = "APPROVED"}
    IN /\ \A q \in on : decision[q].status # "PENDING"
       /\ \A q \in accepted : decision[q].kind = "affirm" /\ decision[q].condition # "PENDING"
       /\ \A d \in version[v].docs : \A r \in LatestSucceeded(d) :
            /\ run[r].finding # "UNREVIEWED"
            /\ (run[r].finding = "VALIDATED" /\ run[r].restricted) =>
                 r \in {decision[q].finding : q \in accepted}

\* Every approved decision was taken on the scenario its version was locked with,
\* that scenario is validated, and no two approvals speak about the same finding:
\* the memo a decision-maker signed cannot be moved to other numbers.
ApprovalsAgree ==
  LET accepted == {q \in Request : decision[q].status = "APPROVED"}
  IN /\ \A q \in accepted :
          LET e == decision[q].economics
          IN /\ e # 0 /\ e = version[decision[q].version].economics
             /\ scenario[e].status = "VALIDATED"
             /\ scenario[e].version = decision[q].version
     /\ \A p, q \in accepted :
          (decision[p].version = decision[q].version /\ decision[p].finding = decision[q].finding)
            => p = q

\* What was decided, calculated and concluded about a version in force does not
\* change any more (migrations 006 and 007).
FrozenInForce ==
  [][\A v \in InForce :
       /\ \A q \in Request : (decision'[q] # decision[q]) => v # decision'[q].version
       /\ \A e \in Scenario : (scenario'[e] # scenario[e]) => v # scenario'[e].version
       /\ \A r \in Run : (run'[r].finding # run[r].finding) => run'[r].doc \cap version[v].docs = {}]_vars

==============================================================================
