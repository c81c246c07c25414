------------------------------- MODULE Reliance -------------------------------
(* When the cockpit lets its results be relied upon: the validation of the     *)
(* engine against the frozen corpus (workflows/legal-validation.ts), the       *)
(* negotiation standards, the readiness gate (lib/readiness.ts), and the       *)
(* executive snapshots of one matter, which freeze what the gate let through   *)
(* (app/api/matters/[id]/snapshots, processSnapshot in lib/jobProcessor.ts).   *)
(*                                                                             *)
(* An engine stands for a deployed bundle: model, prompts, schemas, versions.  *)
(* One negotiation standard stands for the required families, one analysis for *)
(* the two runs of every source, one graph for dependencies and precedence.    *)
(* The readiness gate also asks for LEGAL_RELIANCE_ENABLED and a complete      *)
(* configuration, which do not change here.  The audit log of the matter is    *)
(* shared with its playbook.                                                   *)
EXTENDS Playbook

CONSTANTS
  Engine,          \* bundles that may be deployed
  Seeded,          \* the one migration 008 has made policies for
  Prompt,          \* model and clause prompt of an engine, all the gate looks up
  Case,            \* cases of the frozen corpus
  Blockers,        \* EVIDENCE_KERNEL_BLOCKERS
  MaxValidations,  \* bound: validation runs
  MaxStandards,    \* bound: versions of the standard
  MaxAnalyses,     \* bound: analyses of the sources
  MaxRequests,     \* bound: snapshot jobs
  None             \* nothing yet

ASSUME RelianceBounds ==
  /\ {MaxValidations, MaxStandards, MaxAnalyses, MaxRequests} \subseteq Nat
  /\ Seeded \in Engine /\ IsFiniteSet(Case) /\ Case # {} /\ None \notin Engine

VARIABLES
  engine,      \* the bundle that is deployed
  validation,  \* validation_runs in the order they started, each with its workflow
  standard,    \* versions of the standard, and the active one
  analysis,    \* the latest analysis of the sources of the agreement version
  graph,       \* the latest graph receipt of each analysis and engine
  version,     \* status of the agreement version
  decision,    \* decisions made about it
  authorised,  \* the requester may approve in this matter
  asking,      \* the readiness evidence a request has read
  jobs,        \* EXECUTIVE_SUMMARY jobs
  snapshots    \* executive_snapshots

relianceVars == <<engine, validation, standard, analysis, graph, version, decision,
                  authorised, asking, jobs, snapshots>>

Verdict == {"pass", "fail"}
Terminal == {"PASSED", "FAILED"}
InForce == {"APPROVED", "EXECUTED"}
Nowhere == [c \in Case |-> None]

\* What the workflow was told, what the rows say, what it read of the rows, and
\* the verdict of an attempt that was given up but still runs.
NewRun(e) == [prompt |-> Prompt[e], status |-> "RUNNING", step |-> "cases",
              told |-> Nowhere, stored |-> Nowhere, manifest |-> Nowhere, loose |-> <<>>]

NoAnalysis == [n |-> 0, status |-> "NONE", engine |-> None, standard |-> 0, attested |-> FALSE]

RelianceTypeOK ==
  /\ engine \in Engine
  /\ \A i \in DOMAIN validation :
       LET run == validation[i] IN
       /\ run.status \in Terminal \cup {"RUNNING"}
       /\ run.step \in {"cases", "finalize", "bind", "give up", "bind failure", "ended"}
       /\ {run.told, run.stored, run.manifest} \subseteq [Case -> Verdict \cup {None}]
       /\ run.status \in Terminal => run.step # "cases"
  /\ standard.active \in 0 .. standard.made /\ standard.made \in 0 .. MaxStandards
  /\ analysis.n \in 0 .. MaxAnalyses /\ analysis.standard \in 0 .. MaxStandards
  /\ analysis.attested => analysis.status = "SUCCEEDED"
  /\ graph \in [(1 .. MaxAnalyses) \X Engine -> {"none", "open", "attested"}]
  /\ version \in InForce \cup {"DRAFT", "SUPERSEDED"}
  /\ decision \in {"none", "held", "made"} /\ authorised \in BOOLEAN
  /\ (decision = "held") = (audit.open # 0)
  /\ \A j \in DOMAIN jobs : jobs[j].step \in {"queued", "checked", "succeeded", "failed"}
  /\ Len(snapshots) = Cardinality({j \in DOMAIN jobs : jobs[j].step = "succeeded"})

RelianceInit ==
  /\ engine \in Engine /\ validation = <<>>
  /\ standard = [made |-> 0, active |-> 0]
  /\ analysis = NoAnalysis
  /\ graph = [r \in (1 .. MaxAnalyses) \X Engine |-> "none"]
  /\ version = "DRAFT" /\ decision = "none" /\ authorised \in BOOLEAN
  /\ asking = None /\ jobs = <<>> /\ snapshots = <<>>
  /\ audit = [next |-> 1, top |-> 0, open |-> 0]

-----------------------------------------------------------------------------
(* Validation runs.                                                            *)

OnlyValidation ==
  UNCHANGED <<engine, standard, analysis, graph, version, decision, authorised, asking,
              jobs, snapshots, audit>>

\* initializeRun.  Two workflows may overlap; each stays on its bundle.
StartValidation ==
  /\ Len(validation) < MaxValidations
  /\ validation' = Append(validation, NewRun(engine))
  /\ OnlyValidation

\* A bug: the result of a terminal run can be replaced.
Writable_Always(run) == TRUE

\* The triggers: results and verdict of a terminal run do not change.
Writable(run) == run.status \notin Terminal

\* evaluateCaseStep: the model is asked, the row is written, the workflow told;
\* any of these may be the last thing an attempt does.
EvaluateCase(i, c, v) ==
  LET run == validation[i] IN
  /\ run.step = "cases" /\ run.told[c] = None
  /\ \/ Writable(run)
        /\ \E told \in {run.told, [run.told EXCEPT ![c] = v]} :
             validation' = [validation EXCEPT ![i].stored[c] = v, ![i].told = told]
     \/ run.loose = <<>> /\ validation' = [validation EXCEPT ![i].loose = <<c, v>>]
  /\ OnlyValidation

\* The attempt that was given up writes its row, or is refused.
LateWrite(i) ==
  LET run == validation[i] IN
  /\ run.loose # <<>>
  /\ validation' = [validation EXCEPT ![i].loose = <<>>,
       ![i].stored = IF Writable(run) THEN [@ EXCEPT ![run.loose[1]] = run.loose[2]] ELSE @]
  /\ OnlyValidation

\* The workflow has all results, or catches the failure of a step.
Leave(i) ==
  LET run == validation[i] IN
  /\ \/ /\ run.step = "cases" /\ None \notin {run.told[c] : c \in Case}
        /\ validation' = [validation EXCEPT ![i].step = "finalize"]
     \/ /\ run.step \in {"cases", "finalize", "bind"}
        /\ validation' = [validation EXCEPT ![i].step = "give up"]
  /\ OnlyValidation

\* resultManifest.
ReadManifest(i) ==
  LET run == validation[i] IN
  /\ run.step \in {"finalize", "give up"}
  /\ validation' = [validation EXCEPT ![i].manifest = run.stored,
       ![i].step = IF run.step = "finalize" THEN "bind" ELSE "bind failure"]
  /\ OnlyValidation

\* summarizeValidation: every case of the corpus has passed.
SummarizeValidation(run) ==
  IF run.step = "bind" /\ {run.told[c] : c \in Case} = {"pass"} THEN "PASSED" ELSE "FAILED"

\* finalizeRun and finalizeFailedRun: refused on a terminal run, and when the rows
\* changed since their manifest was read.  A step that was refused is run again,
\* and so is one that took effect but whose answer was lost.
Conclude(i) ==
  LET run == validation[i]
      again == IF run.step = "bind" THEN "finalize" ELSE "give up" IN
  /\ run.step \in {"bind", "bind failure"}
  /\ \/ /\ Writable(run) /\ run.manifest = run.stored
        /\ \E step \in {"ended", again} : validation' = [validation EXCEPT
             ![i].status = SummarizeValidation(run), ![i].step = step]
     \/ /\ ~(Writable(run) /\ run.manifest = run.stored)
        /\ validation' = [validation EXCEPT ![i].step = again]
  /\ OnlyValidation

-----------------------------------------------------------------------------
(* The readiness gate.                                                         *)

\* The run that started last among those of the model and prompt: running ones
\* and failed ones included.
LatestValidation(e) ==
  LET same == {i \in DOMAIN validation : validation[i].prompt = Prompt[e]}
  IN IF same = {} THEN 0 ELSE CHOOSE i \in same : \A k \in same : k <= i

\* validationEvidencePasses.
ValidationPasses(e) ==
  LET i == LatestValidation(e) IN
  /\ i # 0
  /\ validation[i].status = "PASSED"
  /\ validation[i].manifest = validation[i].stored
  /\ None \notin {validation[i].stored[c] : c \in Case}

\* A bug: policies are there, of whatever engine.
EnginePoliciesMatch_Any(e) == TRUE

\* An active policy can be neither changed nor succeeded (trigger of 008).
EnginePoliciesMatch(e) == e = Seeded

\* getSystemReadiness, assertLegalRelianceReady.
Ready(e) ==
  /\ ValidationPasses(e) /\ standard.active # 0 /\ EnginePoliciesMatch(e)
  /\ Blockers = {}

\* legalRelianceEvidence, compared by its canonical hash.
Evidence(e) == [engine |-> e, validation |-> LatestValidation(e), standard |-> standard.active]

-----------------------------------------------------------------------------
(* Deployments and standards; neither shows in the log of a matter.            *)

Deploy(e) ==
  /\ e # engine /\ engine' = e
  /\ UNCHANGED <<validation, standard, analysis, graph, version, decision, authorised,
                 asking, jobs, snapshots, audit>>

\* POST standards: a governed standard, not active yet.
CreateStandard ==
  /\ standard.made < MaxStandards
  /\ standard' = [standard EXCEPT !.made = @ + 1]
  /\ UNCHANGED <<engine, validation, analysis, graph, version, decision, authorised,
                 asking, jobs, snapshots, audit>>

\* PATCH standards/[id]/activate: any version, also an earlier one.
ActivateStandard(s) ==
  /\ s \in 1 .. standard.made /\ s # standard.active
  /\ standard' = [standard EXCEPT !.active = s]
  /\ UNCHANGED <<engine, validation, analysis, graph, version, decision, authorised,
                 asking, jobs, snapshots, audit>>

-----------------------------------------------------------------------------
(* What happens in the matter.                                                 *)

Elsewhere == UNCHANGED <<engine, validation, standard, asking, jobs, snapshots>>

\* A worker opens runs: no event, and nothing asks for the agreement version.
\* The pipeline was let in earlier, by readiness at that time.
StartAnalysis ==
  /\ analysis.n < MaxAnalyses /\ analysis.status # "RUNNING"
  /\ analysis' = [n |-> analysis.n + 1, status |-> "RUNNING", engine |-> engine,
                  standard |-> 0, attested |-> FALSE]
  /\ Elsewhere /\ UNCHANGED <<graph, version, decision, authorised, audit>>

\* The findings of a chunk take the position of the standard in force at the time
\* (loadNegotiationPositions); chunks before and after it may take another, and
\* analysis.standard is that of any one finding, 0 when it found none.
TakePositions ==
  /\ analysis.status = "RUNNING" /\ analysis.standard # standard.active
  /\ analysis' = [analysis EXCEPT !.standard = standard.active]
  /\ Elsewhere /\ UNCHANGED <<graph, version, decision, authorised, audit>>

\* The findings are published with the positions they took.
FinishAnalysis ==
  /\ analysis.status = "RUNNING" /\ version # "EXECUTED"
  /\ analysis' = [analysis EXCEPT !.status = "SUCCEEDED"]
  /\ Recorded
  /\ Elsewhere /\ UNCHANGED <<graph, version, decision, authorised>>

FailAnalysis ==
  /\ analysis.status = "RUNNING"
  /\ analysis' = [analysis EXCEPT !.status = "FAILED"]
  /\ Elsewhere /\ UNCHANGED <<graph, version, decision, authorised, audit>>

\* Counsel completes the review of the runs.
AttestAnalysis ==
  /\ analysis.status = "SUCCEEDED" /\ ~analysis.attested
  /\ analysis' = [analysis EXCEPT !.attested = TRUE]
  /\ Recorded
  /\ Elsewhere /\ UNCHANGED <<graph, version, decision, authorised>>

\* The dependency and precedence jobs publish what their engine found between
\* the terms of the analysis; the objects of an executed agreement are frozen.
BuildGraph ==
  /\ analysis.status = "SUCCEEDED" /\ version # "EXECUTED"
  /\ graph' = [graph EXCEPT ![<<analysis.n, engine>>] = "open"]
  /\ Recorded
  /\ Elsewhere /\ UNCHANGED <<analysis, version, decision, authorised>>

AttestGraph(n, e) ==
  /\ graph[<<n, e>>] = "open"
  /\ graph' = [graph EXCEPT ![<<n, e>>] = "attested"]
  /\ Recorded
  /\ Elsewhere /\ UNCHANGED <<analysis, version, decision, authorised>>

\* The evidence of an approval or an execution is complete.
Reviewed(e) ==
  /\ analysis.status = "SUCCEEDED" /\ analysis.attested /\ analysis.engine = e
  /\ graph[<<analysis.n, e>>] = "attested"

\* PATCH agreement-versions/[id]/status; a successor supersedes what it replaces.
Promote(status) ==
  /\ \/ status = "APPROVED" /\ version = "DRAFT"
     \/ status = "EXECUTED" /\ version = "APPROVED" /\ decision # "held"
  /\ Ready(engine) /\ Reviewed(Seeded)
  /\ version' = status
  /\ Recorded
  /\ Elsewhere /\ UNCHANGED <<analysis, graph, decision, authorised>>

Supersede ==
  /\ version \in InForce /\ decision # "held" /\ version' = "SUPERSEDED"
  /\ Recorded
  /\ Elsewhere /\ UNCHANGED <<analysis, graph, decision, authorised>>

\* PATCH decisions/[id]: the version is share locked and the event inserted;
\* others may commit before the decision shows.
Decide ==
  /\ decision = "none" /\ version = "APPROVED" /\ audit.next <= MaxAudit
  /\ decision' = "held" /\ audit' = [audit EXCEPT !.next = @ + 1, !.open = audit.next]
  /\ Elsewhere /\ UNCHANGED <<analysis, graph, version, authorised>>

CommitDecision ==
  /\ decision = "held" /\ decision' = "made"
  /\ audit' = [audit EXCEPT !.open = 0, !.top = IF audit.open > @ THEN audit.open ELSE @]
  /\ Elsewhere /\ UNCHANGED <<analysis, graph, version, authorised>>

AbortDecision ==
  /\ decision = "held" /\ decision' = "none" /\ audit' = [audit EXCEPT !.open = 0]
  /\ Elsewhere /\ UNCHANGED <<analysis, graph, version, authorised>>

\* Anything else that the matter records.
OtherEvent ==
  /\ Recorded
  /\ Elsewhere /\ UNCHANGED <<analysis, graph, version, decision, authorised>>

\* The role of the requester is a matter of no matter.
ChangeAuthority ==
  /\ authorised' = ~authorised
  /\ Elsewhere /\ UNCHANGED <<analysis, graph, version, decision, audit>>

-----------------------------------------------------------------------------
(* Executive snapshots.                                                        *)

OnlySnapshots ==
  UNCHANGED <<engine, validation, standard, analysis, graph, version, decision, authorised>>

\* POST snapshots: access and readiness first, ...
AskReadiness ==
  /\ asking = None /\ authorised /\ Ready(engine)
  /\ asking' = Evidence(engine)
  /\ OnlySnapshots /\ UNCHANGED <<jobs, snapshots, audit>>

\* ... then the version and the log.  The same request again finds its job, and
\* starts it again if it has failed (enqueueJob).
Asked(evidence) == {j \in DOMAIN jobs : jobs[j].audit = audit.top /\ jobs[j].evidence = evidence}

EnqueueSnapshot ==
  /\ asking # None /\ version \in InForce
  /\ IF Asked(asking) # {}
       THEN jobs' = [j \in DOMAIN jobs |->
              IF j \in Asked(asking) /\ jobs[j].step = "failed"
                THEN [jobs[j] EXCEPT !.step = "queued"] ELSE jobs[j]]
       ELSE /\ Len(jobs) < MaxRequests
            /\ jobs' = Append(jobs, [step |-> "queued", engine |-> None, audit |-> audit.top,
                 evidence |-> asking, analysis |-> analysis.n])
  /\ asking' = None
  /\ OnlySnapshots /\ UNCHANGED <<snapshots, audit>>

RefuseRequest ==
  /\ asking # None /\ asking' = None
  /\ OnlySnapshots /\ UNCHANGED <<jobs, snapshots, audit>>

\* processSnapshot, before its transaction: the worker's own bundle is ready and
\* has the evidence of the request.
CheckSnapshot(j) ==
  /\ jobs[j].step = "queued"
  /\ jobs' = [jobs EXCEPT ![j].step = IF Ready(engine) /\ Evidence(engine) = jobs[j].evidence
                                       THEN "checked" ELSE "failed",
                          ![j].engine = engine]
  /\ OnlySnapshots /\ UNCHANGED <<asking, snapshots, audit>>

\* A bug: the log is not compared.
Publishable_AnyLog(job) ==
  /\ authorised /\ version \in InForce
  /\ Reviewed(job.engine) /\ analysis.standard = standard.active

\* Inside it, serializable, so as of one moment: the requester, the log, the
\* version, the reviewed evidence of this engine, and the standards its findings
\* took their positions from.
Publishable(job) ==
  /\ authorised /\ audit.top = job.audit /\ version \in InForce
  /\ Reviewed(job.engine) /\ analysis.standard = standard.active

PublishSnapshot(j) ==
  /\ jobs[j].step = "checked" /\ Publishable(jobs[j])
  /\ jobs' = [jobs EXCEPT ![j].step = "succeeded"]
  /\ snapshots' = Append(snapshots, [job |-> j, engine |-> jobs[j].engine,
       analysis |-> analysis.n, standard |-> standard.active])
  /\ Recorded
  /\ OnlySnapshots /\ UNCHANGED asking

\* Refused for good, or the attempts are spent.
RefuseSnapshot(j) ==
  /\ jobs[j].step = "checked"
  /\ jobs' = [jobs EXCEPT ![j].step = "failed"]
  /\ OnlySnapshots /\ UNCHANGED <<asking, snapshots, audit>>

\* A bug: a job that has succeeded can be claimed again.
RetrySnapshot_Published(j) ==
  /\ jobs[j].step \in {"checked", "succeeded"}
  /\ jobs' = [jobs EXCEPT ![j].step = "queued"]
  /\ OnlySnapshots /\ UNCHANGED <<asking, snapshots, audit>>

\* The worker dies or fails; another one, of the bundle deployed by then, claims.
RetrySnapshot(j) ==
  /\ jobs[j].step = "checked"
  /\ jobs' = [jobs EXCEPT ![j].step = "queued"]
  /\ OnlySnapshots /\ UNCHANGED <<asking, snapshots, audit>>

-----------------------------------------------------------------------------
ValidationStep ==
  \/ StartValidation
  \/ \E i \in DOMAIN validation :
       \/ \E c \in Case, v \in Verdict : EvaluateCase(i, c, v)
       \/ LateWrite(i) \/ Leave(i) \/ ReadManifest(i) \/ Conclude(i)

GateStep ==
  \/ \E e \in Engine : Deploy(e)
  \/ CreateStandard \/ \E s \in 1 .. MaxStandards : ActivateStandard(s)

MatterStep ==
  \/ StartAnalysis \/ TakePositions \/ FinishAnalysis \/ FailAnalysis \/ AttestAnalysis
  \/ BuildGraph
  \/ \E n \in 1 .. MaxAnalyses, e \in Engine : AttestGraph(n, e)
  \/ \E s \in InForce : Promote(s)
  \/ Supersede \/ Decide \/ CommitDecision \/ AbortDecision
  \/ OtherEvent \/ ChangeAuthority

SnapshotStep ==
  \/ AskReadiness \/ EnqueueSnapshot \/ RefuseRequest
  \/ \E j \in DOMAIN jobs :
       CheckSnapshot(j) \/ PublishSnapshot(j) \/ RefuseSnapshot(j) \/ RetrySnapshot(j)

vars == <<relianceVars, playbookVars, audit>>

Next ==
  \/ (ValidationStep \/ GateStep \/ MatterStep \/ SnapshotStep) /\ UNCHANGED playbookVars
  \/ PlaybookNext /\ UNCHANGED relianceVars

Init == RelianceInit /\ PlaybookInit

Spec == Init /\ [][Next]_vars

-----------------------------------------------------------------------------
(* Properties.                                                                 *)

\* A terminal validation run is final, results, verdict and manifest, whatever
\* attempts of its steps are still under way (migration 008:466-539).
VerdictIsFinal ==
  [][\A i \in DOMAIN validation :
       validation[i].status \in Terminal =>
         /\ validation'[i].status = validation[i].status
         /\ validation'[i].stored = validation[i].stored
         /\ validation'[i].manifest = validation[i].stored]_validation

\* A snapshot freezes what may be relied upon when it commits: asked for by
\* somebody who still may, from reviewed evidence of one engine, the one the
\* policies name, whose prompt passed a complete validation at some time, in the
\* terms of the standard in force, and the analysis that was the latest when it
\* was asked for, although a new one leaves no trace in the audit log when it
\* starts (lib/jobProcessor.ts:427-552).
RelianceIsCurrent ==
  [][Len(snapshots') > Len(snapshots) =>
       LET new == snapshots'[Len(snapshots')] IN
       /\ authorised /\ version \in InForce
       /\ new.engine = Seeded /\ analysis.engine = Seeded /\ analysis.attested
       /\ analysis.standard = standard.active
       /\ new.analysis = jobs[new.job].analysis
       /\ \E i \in DOMAIN validation :
            /\ validation[i].prompt = Prompt[Seeded] /\ validation[i].status = "PASSED"
            /\ \A c \in Case : validation[i].told[c] = "pass"]_snapshots

=============================================================================
