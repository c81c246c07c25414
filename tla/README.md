# A TLA+ development of the commercial legal cockpit

This directory holds TLA+ specifications of the program in `src/`, the TLC
configurations that model-check them, and theorems about them with proofs TLAPS
checks. The program is a contract-review cockpit: lawyers upload contract
documents to a matter, a durable pipeline scans, extracts and analyses them, and
counsel dispose of what it finds until a version of the agreement can be
approved and executed. What it says must be evidence, so most of its code
guards against results that are stale, displaced or unauthorized.

Paths in this file are under `src/commercial-legal-cockpit/` unless they start
with `src/` or `contracttwin/` (the reading service in `src/contracttwin`; its modules are in
`src/contracttwin/src/contracttwin`).

## 1. Inventory

### How the parts meet

All state of the cockpit is in PostgreSQL; documents are private blobs in an
external store. Route handlers (`app/api`) are transactions at READ COMMITTED
that lock the rows they check. Long work is done by *jobs*: rows of
`processing_jobs` that workflow steps claim under a lease, process and finish.
Triggers in `db/migrations` guard the tables against writes the application
should not make. Components call each other only through rows: a route enqueues
a job, a job publishes findings, a route reads findings and settles them, an
executed version freezes what it rests on, a snapshot freezes what counsel
reviewed. Two things stand beside the cockpit: the reading service, a process
with a SQLite file of its own that the cockpit sends text to, and the release
scripts, which change the database while no one else may.

| Component | State it keeps | Operations | Correct when |
|---|---|---|---|
| Job queue and lease fence (`lib/jobs.ts`, `lib/jobRuntime.ts`, `lib/jobLease.ts`, `workflows/contract-processing.ts`, migration 012) | `processing_jobs` | enqueue, claim, take over, heartbeat, continue, wait, complete, fail | one execution passes the fence; a displaced one writes nothing; the retry budget is kept; every job ends |
| Source intake (`lib/jobProcessor.ts` scan, extract, OCR; `workflows/full-contract-pipeline.ts`; migrations 006, 008) | `documents`, `document_chunks`, stage jobs | scan, verdict, claim of a generation, parse, hand-off to OCR, poll, persist chunks, rerun | extracted text is clean, verified and of the named generation; executed text stays; nothing is derived during a purge; a rerun recovers |
| Derived evidence (`lib/jobProcessor.ts` analysis, terms; `findings` triggers; review route) | `analysis_runs`, `findings`, the job's buffered output | open a run, analyse chunk by chunk, publish, supersede, review | findings come from the current text; one current run; nothing found is lost under legal reliance |
| Records governance and purge (`app/api/purge-requests/[id]`, `documents/[id]/purge`, `matters/[id]/governance`, migrations 003, 006) | `purge_requests`, hold, retention, `deletion_status`, the blob | request, approve, reject, cancel, execute, hold, retention | destruction only when authorized at that moment; the record and the file agree over failures; what was begun is finished |
| Agreement lifecycle (`agreement-versions/[id]/status`, `matters/[id]/versions`, migration 007) | `agreement_versions` and their membership | create, approve, execute, supersede | an executed version rests on settled, current evidence; one approved, one executed version per matter |
| Decisions, conditions, economics (`decision-requests`, `decisions/[id]`, `decision-conditions/[id]`, `economics/*`, migration 013) | decisions, conditions, economics scenarios | request, approve, reject, satisfy, waive, save, review | an approval is bound to the numbers its version was locked with; a settled decision does not move |
| Attestations (`analysis-attestations`, migrations 008, 011) | `analysis_attestations` | attest | a signature is on a succeeded current run, by somebody who holds the capability |
| Roles, capabilities, membership (`app/api/admin/*`, `app/api/matters`, `lib/access.ts`) | `app_user_roles`, `app_user_capabilities`, `matter_members`, owner, restriction | bootstrap, change a role, grant, revoke, create a matter, change a member | authority is still held when it is used; an Admin remains; every request ends |
| Standards, validation, readiness, executive snapshots (`standards/*`, `workflows/legal-validation.ts`, `lib/readiness.ts`, `matters/[id]/snapshots`, migrations 008, 009) | standards, `validation_runs`, the deployed bundle, `executive_snapshots` | create, activate, validate, gate, request, check, publish | a verdict is final; a snapshot freezes current, reviewed evidence of one engine |
| Playbooks (`lib/playbooks`, `matters/[id]/playbooks`) | events in the matter's audit log | create, review, revoke, evaluate, export | the log is free of contradiction; an export stands on live reviews |
| Matter document reading (`matters/[id]/reading`, `lib/matterDocumentReading.mjs`, `contracttwin/api.py`, `repository.py`) | the readings and the audit log of the service | read, store, reuse, look at | the answer is of the sources as they are; versions and log agree |
| Reading algorithms (`contracttwin/precedence.py`, `pipeline.py` and others) | none | ledger of amendments; facts, terms, calendar | the later amendment is in force |
| Release gate (`scripts/production-*`, `release-target-binding.mjs`, `migrate.mjs`, `microsoft-account-*`, migrations 010, 014, 015; `lib/databaseControls.ts`, `runtimeDatabasePrincipal.ts`) | anchor, migration history, account keys, receipts | anchor, bind, migrate, move accounts, establish, read back, attest | only the proven database is written; a receipt means what it says; one account each |
| Dependency and precedence jobs (`lib/dependencyEngine.ts`, `lib/precedenceEngine.ts`, `lib/jobProcessor.ts`) | matter-level runs and results | enqueue, compute, publish | results cover every document of the version as it is |
| Rate limit, upload registration, DOCX reader, audit rows, safe errors, sign-in, user interface, the keyword analyzer in `src/*.py` | | | see section 6 |

### What is hard

Two executions of one step with the same worker identity; takeovers while the
displaced execution goes on; answers of commits that are lost; two releases
whose pipelines work on one document; re-extraction between two continuations of
an analysis; purges that destroy an external file between two transactions;
locks that go with a lost session; a rerun that meets the receipts of the run
before; a version that is executed while what it was checked against is being
replaced, or that stays in force long after the check; a signature under a role
that is being taken away; two role changes that lock each other's rows; a
validation step whose abandoned attempt still writes; a snapshot that is checked
by one bundle and published by another; connections of one credential that reach
two databases; an answer of the reading service about documents that changed
meanwhile. Each of these is a line in `hazards` of `PROJECT.json` with the
properties that watch it.

## 2. Plan

In order of importance. The first nine exist.

1. `JobLease` with the abstract `FencedPublication` and `JobContract`: everything
   else relies on the fence. Checked and proved.
2. `SourceIntake`: uses the promises of (1) to give each job one execution.
   Checked and proved.
3. `DerivedEvidence`: EXTENDS (2) and composes the analysis jobs with it.
   Checked and proved.
4. `SourcePurge` with the abstract `TwoPhasePurge`. Checked and proved.
5. `AgreementLifecycle` with the abstract `AgreementRegister` and `RunRegister`:
   versions, scenarios, decisions, conditions, and the runs and receipts they
   wait for.
   Checked and proved.
6. `Authority`: what signatures and dispositions of (5) rest on, lock by lock.
   Checked and proved.
7. `Playbook` and `Reliance`, which EXTENDS it, as both write the audit log of
   the matter: validation, readiness, standards, snapshots. Checked and proved.
8. `ReleaseGate`. Checked and proved.
9. `Amendments`, and `MatterReading`, which EXTENDS (4) and it: readings of a
   matter while its base document is purged. Checked and proved.
10. The dependency and precedence jobs in steps: a job that publishes for a
    version while its documents change, with the analysis run that an exhausted
    claim leaves RUNNING.
11. The rate limit, upload registration, and the rollout of fencing (old and new
    bundles side by side).
12. The other pure algorithms of `src/contracttwin` (terms, calendar, quote
    check, exposure) against reference definitions over bounded inputs.

Every safety property that a passing run checks is proved, and so is what parts
of the system take from each other: the jobs of the pipeline from the queue, the
purge of the intake from the handlers of the purge, the runs and findings of an
agreement from the analyses, each as one contract that both sides implement
(`JobContract`, `TwoPhasePurge`, `RunRegister`). Left is the binding of those runs
to the stored text, which `RunRegister` says nothing of.

## 3. The modules and the code

### JobLease

| Model | Code |
|---|---|
| `row` | a row of `processing_jobs` for each idempotency key |
| `pc`, `hold` | an execution of `processJobStep` and the copy of the row it claimed |
| `effect` | the lease generation whose domain writes were committed last |
| `refused` | history: a trigger raised on a write of the fencing-capable bundle |
| `Normalized`, `FenceAccepts`, `LeaseStateCheck`, `ReceiptUnchanged` | the triggers and the check of migrations 008 and 012; every write goes through them |
| `EnqueueJob` | `enqueueSql` |
| `ClaimDue`, `RecoverExpired`, `FailExhausted` | the branches of `claimJob` |
| `HeartbeatJob`, `LoseLease` | `heartbeatJob`, `JobLeaseLostError` |
| `PublishPartial`, `CompleteJob`, `ContinueJob`, `FailJob` | domain transactions and the transitions of `lib/jobs.ts` |
| `BecomeDue`, `Expire`, `Crash` | time and the death of a process |

Timestamps are only ever compared with `now()`, so a lease is live, expired or
null, and a row is due or not. `WorkerOf` may give two executions one worker
identity, as the runtime does when it runs a step twice. `LeaveOrMissAnswer`
lets a commit happen without its caller learning of it. A heartbeat after the
first is a stutter, because an expired lease is not extended.

`FencedPublication` says what readers of results get: epochs, of which only the
newest open one publishes, and none after a final result. `KeepsPromise` is the
refinement, with lease generations as epochs. `JobContract` says what those get
who wait for a job and see its status and attempts: every run is paid for within
the budget, a success is final, a failed job starts over with its whole budget.
`KeepsContract` is that refinement.

### SourceIntake

One document, its blob, its chunk set, and the stage jobs
`{SCAN, EXTRACT, OCR} x Version`. Versions are pipeline releases in flight at
the same time. Each job has one execution, the newest: `JobLease` shows that the
older ones commit nothing. `Displaced` replaces it. Steps between two awaits of
a processor are separate actions (`BeginScan`, `ScanBytes`, `ApplyVerdict`, ...);
a database transaction is one action. `Purge`, `Freeze` and `Alter` are what
others do to the document. A chunk set has an identity (`batch`) besides its
text, as every insertion makes new row ids.

### DerivedEvidence

EXTENDS `SourceIntake`. `task` is the analysis job of each version with its
buffered output, `work` its running continuation with the chunks it read, `run`
the `analysis_runs` rows, `findings` the review status of what each run
published. The document has one chunk and each run finds one thing or nothing.
`processTerms` follows the same protocol over terms and then enqueues the
dependency job; only the protocol is modelled, not that job. `VALIDATED` stands
for either human disposition. `RunRegister` is what the other components see of
it: runs that are opened in order, end once, and overtake the unreviewed findings
of their document, none of which moves while the document is frozen.

### SourcePurge

Requests, hold, retention, administrators, and EXECUTE calls. Every other handler
is one transaction that locks the matter row and so waits while `holder` is a
call. EXECUTE is `Prepare` (first transaction), `LockAndCheck`, `FindBlob`,
`DeleteBlob`, `RecordPurged` (second transaction around two calls to the blob
store). `FailCall` may keep the effect of a delete whose answer is lost.
`LoseSession` takes the locks from a call that goes on;
`AuthorizedDestruction` is only claimed before the first such loss, as a delete may
then pass a hold that was applied meanwhile. `TwoPhasePurge` is the
promise of `README.md:114`: marker, file, tombstone, no way back.

### AgreementLifecycle

| Model | Code |
|---|---|
| `version` | `agreement_versions` with their documents and selected scenario |
| `ready` | the sources that are clean, verified, extracted and active |
| `run` | the runs of a document with what each published, and its attestation |
| `graph` | the dependency and precedence receipts of a version |
| `scenario` | `economics_runs`, all of the active formula |
| `decision` | `decisions` and their condition |
| `CreateVersion`, `Lock`, `Execute`, `Supersede` | `matters/[id]/versions`, `agreement-versions/[id]/status` |
| `SaveScenario`, `ReviewScenario` | `economics`, `economics/[id]/review` |
| `RequestDecision`, `Approve`, `Reject`, `ResolveCondition` | `decision-requests`, `decisions/[id]`, `decision-conditions/[id]` |
| `RunGraph`, `ReviewGraph`, `AttestGraph` | `agreement-versions/[id]/graph` and its jobs, `graph/review`, `analysis-attestations` |
| `OpenRun`, `FailRun`, `PublishRun`, `ReviewFinding`, `AttestRun`, `ReplaceText`, `WithdrawSource` | what `DerivedEvidence`, `SourceIntake` and `SourcePurge` do to a document, seen from its version |

A handler is one step: it is one transaction, and what it reads is covered by the
lock of the matter or of the version row, which the triggers of migrations 006
and 007 take for every writer of derived evidence, decisions and scenarios. The
gates of the status route are repeated by triggers (migrations 008 and 013); the
model states each gate once, and `map` names the trigger where it is the stricter
of the two. Rows that are always asked for together (the two runs of a document, the two
receipts of a version) are one row in the model.

`AgreementRegister` is the promise: a set of locked versions and a set of those
in force, each with at most one element; an execution replaces its predecessor in
the same step; nothing that was retired comes back. `ActsAsRegister` is the
refinement. `RunRegister` is the other side: what the actions on `run` may assume
of the pipeline, and no more than `DerivedEvidence` does (section 5).
`ReplaceText` never brings back a text that was replaced; with a third release
that stores the first text again, the code would find the old runs bound once
more.

### Authority

| Model | Code |
|---|---|
| `role`, `counsel` | active rows of `app_user_roles` and `app_user_capabilities` |
| `owner`, `restricted`, `member` | one row of `matters` and its `matter_members` |
| `request` | the request a handler works on, and the stage its transaction waits at or has reached |
| `Admitted`, `MatterAccess`, `ResourceAccess` | `requireRole`, `requireMatterAccess`, `requireResourceMatterAccess` and the checks of the routes before their transaction |
| `Stages`, `Needs`, `Passes` | for each transaction the statements in their order, the locks each takes, and what is refused after it |
| `WaitsFor`, `Deadlocked`, `BreakDeadlock` | PostgreSQL's lock waits and its deadlock detection |
| `ChangeRole`, `ChangeCapability`, `Bootstrap`, `CreateMatter`, `ChangeMember`, `Sign` | the commits of `admin/*`, `matters`, `matters/[id]/members`, and of the routes that sign something |

A request is admitted by a check outside any transaction; what it was admitted
by may be gone when its transaction locks and reads. Here a handler is therefore
not one step: a transaction advances stage by stage, waits for locks another one
holds, reads committed rows after it has its own, and gives everything back when
it ends. What is signed is in `AgreementLifecycle`; here a signature is only the
authority it needs. `Needs` distinguishes exclusive from shared row locks and has
the table lock that serializes role changes.

### ReleaseGate

| Model | Code |
|---|---|
| `db` | a database instance: anchor, number of applied migrations, identity, receipts, account keys, drift of grants and controls, and its boot |
| `route` | the instance a new connection of each credential reaches |
| `gate` | `production-schema-gate.mjs`, or the bootstrap: its step in `Plan`, the instance it proved, whether it still holds the challenge, the child's open transaction, and the instance that passed its last assertion of the challenge |
| `Bind`, `Preflight`, `Open`, `AssertAgain`, `MigrateApp`, `MigrateAuth`, `VerifyTarget`, `Establish`, `ReadBack`, `VerifyPrincipal`, `AssertAnchor`, `PlaceAnchor`, `VerifyReaders` | the child scripts, in the order the parent starts them |
| `Inventory`, `Rewrite` | `microsoft-account-oid-cutover.mjs`, run by hand |
| `SignIn` | the account lookup and creation in `lib/auth.ts` |
| `AcceptCandidate`, `Attested` | `api/health/release` and `production-postdeploy-check.mjs` |
| `Reroute`, `Restart`, `LoseChallenge`, `Kill`, `Copy`, `Drift` | the environment |

Every child opens connections of its own, so it has to find out again that it
talks to the database its parent proved: the live fingerprint and two advisory
locks that are refused because the parent holds them (`Challenged`). Two
instances have the same catalog values, as a copy has.

A child does not commit under the challenge. It asserts it when its transaction
opens (`Open`) and for the last time some statements before the COMMIT
(`AssertAgain`; in the bootstrap `AssertAnchor`, the only one), and what follows
is a step of its own (`Commit`, `PlaceAnchor`): `migrate.mjs:47` to 54,
`auth-migrate.mjs:76` to 79, `release-target-binding.mjs:411` to 417,
`production-target-bootstrap.mjs:100` to 176. If the parent's sessions are lost in
between, the child still commits what it wrote, on the instance that passed the
assertion. A transaction has one connection and a restart of the instance ends
it, so it is the same instance in the same life of it; the next child that asserts
it fails. `AccountsFree` is the lock of the account table that the move holds over
this window. The reading of the ownership after the last assertion is one step
with the COMMIT, and no property rests on it. A migration run that finds
everything applied (`NothingToApply`) writes nothing and asserts once, when it
opens. `Open` is the first assertion and the migration lock in one; a challenge
that is lost while a child waits for the lock makes it fail at its next assertion,
in the model as in the code, unless there is nothing to apply.

`Destination` is the plan
of the account move for every combination of a stored token (absent, verified,
not verifiable) and a line of the directory export. The catalog queries of the
control and principal checks are predicates of `drift`; which database each looks
at, and when, is modelled. `Blockers` is `{}` in the run, although the release
that is checked in names blockers (`lib/evidence-kernel-blockers.json`) and so accepts no
candidate and is never ready: with them the last steps could not happen.

### Playbook and Reliance

`Playbook` is one book of options in a matter. Its state is not a table but what
the events in the audit log say (`ledger`, `Active`, `Revoked`, `ReadyOptions`).
A call is `Admit` (authority read and share locked), `Hold` (the advisory lock of
the matter, then the events), `Judge...` (at one reading of the clock) and
`Append1` (with the clock of the insert). `SetLevel`, `SetText` and `Tick` are
what others and time do meanwhile. `Acyclic` is the walk of `validatePlaybook`;
`NoCircle` is what it is for, stated without the walk.

`Reliance` EXTENDS it, and both draw ids from the same audit log (`audit`): an id
is drawn when the row is inserted and shows when its transaction commits, which
is what a snapshot request and its publication compare.

| Model | Code |
|---|---|
| `validation`, `StartValidation`, `EvaluateCase`, `LateWrite`, `ReadManifest`, `Conclude` | `workflows/legal-validation.ts`, with an attempt of a step that was given up and still runs, and the triggers of migration 008 |
| `engine`, `Deploy` | the deployed bundle: model, prompts and versions of `lib/engineManifest.ts` |
| `standard`, `CreateStandard`, `ActivateStandard` | `standards`, `standards/[id]/activate` |
| `Ready`, `Evidence` | `getSystemReadiness`, `legalRelianceEvidence` |
| `analysis`, `graph`, `version`, `decision`, `Promote`, ... | what a snapshot rests on, as far as its publication compares it |
| `AskReadiness`, `EnqueueSnapshot`, `CheckSnapshot`, `PublishSnapshot`, `RetrySnapshot` | `matters/[id]/snapshots` and `processSnapshot` |

A step of the validation workflow whose answer was lost is run again: `Conclude`
may give the verdict and still go back, and the trigger then refuses the repeat,
and after it the attempt to mark the run as failed. `TakePositions` is a chunk of
an analysis, and a standard may be activated between two chunks;
`analysis.standard` follows any one finding, which is what the comparison at
publication is about.

A validation workflow and a job process stay on the bundle they started with; a
job that is retried runs on the bundle that is deployed then. The worker checks
readiness before its serializable transaction: the transaction is one step, the
check is an earlier one. An active evidence policy can be neither changed nor
succeeded (a trigger of migration 008), so one engine has policies for good
(`Seeded`).

### Amendments and MatterReading

`Amendments` is `build_ledger` as pure operators over small records: `Order`,
`Apply`, `Replace`, `BuildLedger`; `Resolves` states what the ledger is for
without it: every text is kept once and the last text of a section, by the dates
its amendments mean, is the operative one. A date has a `day` and a `key`, the
place of its spelling among the strings, as the code sorts strings. `Order` gives
each place the amendment that has as many `Earlier` ones; `Apply` and `BuildLedger`
are recursive functions over the replacements and the amendments. `IsAgreement` is
what a request can hold; that the dates of one are typed alike (`WellDated`) is not
part of it, as the code does not see to it.

`MatterReading` EXTENDS `SourcePurge`, whose document is the base agreement of
the reading. The route is `LoadSources`, `ReadSource` for each file,
`CheckAccess`, `SendText`, and after the service answered `CheckAccess` and
`Answer`. The service is `ReadPrior`, `FindReading`, `NumberReading`,
`InsertReading`, `RecordReading`: its calls run in threads, and `sqlite3` opens a
transaction at an INSERT only, so each read is a step of its own. `LoseCall` ends
a call anywhere. `ChangeRow`, `AlterFile` and `ChangeAccess` disturb the
amendments and the user; the purge disturbs the base.

## 4. Runs

| Run | Asks | Bounds | States | Result |
|---|---|---|---|---|
| `lease` | type, `OneCurrentHolder`, `NeverRefused`, `RetryBudget`, `NoStaleEffect`, refinement, `EveryJobSettles` | 1 job, 3 executions (two with one identity), 2 attempts, 1 wait, 1 reactivation, 2 crashes | 206,163 | holds |
| `evidence_safety` | `ExtractedIsEvidence`, `NoTextAfterPurgeStarts`, `OneCurrentRun`, `RelianceLosesNothing`, `FindingsMatchSource`, `ExecutedEvidenceIsKept` | 2 versions, each run once, all sources and verdicts, 2 attempts, 2 texts, 4 chunk identities, 3 runs, 1 fault | 1,003,351 | holds |
| `derived_recovery` | `AnalysisRecovers` | 1 version, 2 attempts, 2 faults, 2 texts | 59,136 | holds |
| `intake_ocr_rerun` | `RerunRecovers` for image sources | 1 version, 2 attempts, 3 faults | | violated |
| `intake_quarantine` | `QuarantineIsTerminal` | 2 versions, both verdicts, 1 fault | | violated |
| `purge` | `DurableTrail`, `AuthorizedDestruction`, refinement, `BegunIsFinished`; `StoreIsSound`, `AnsweredAsRead`, `LaterAmendmentWins` | 2 people, 2 calls, 2 requests, 2 failures, 1 lost session, 2 role changes; 2 readings, 1 amendment; agreements of another client with up to 3 amendments | 702,650 | holds |
| `reading_dates` | `LaterAmendmentWins` | up to 2 amendments, dates also typed as `2025-9-1` | | violated |
| `agreement` | type, `RestsOnAttestedEvidence`, `RestsOnSettledDecisions`, `ApprovalsAgree`, refinement, `FrozenInForce` | 1 source, 2 versions, 2 runs, 2 scenarios, 1 request, 2 people, 1 purge, 1 other text | 1,518,697 | holds |
| `authority` | `CounselIsLegal`, `AnAdminRemains`, `AuthorityWhenUsed`, `RequestsEnd` | 2 people, 2 handlers, 2 requests | 414,766 | holds |
| `authority_membership` | `MembershipConstrains` | 2 people, 1 handler, 4 requests | | violated |
| `reliance` | type, `CatalogIsSound`, `VerdictIsFinal`, `RelianceIsCurrent`, `ExportStandsOnLiveReviews` | 2 engines, 2 cases, 2 validations, 2 standards, 2 analyses, 1 snapshot request, 2 changes; 2 people, 2 options, 4 events | 1,434,344 | holds |
| `release` | `ReleaseIsSound`, `OneAccountEach`, `OnlyProven`, `GatesEnd` | 2 releases with 1 and 2 migrations, a bootstrap, 2 instances, 2 people, 1 or 2 faults, or every token and export | 95,053 | holds |

A composite invariant carries the type invariant of its module, so that each run
asks few questions: `ReleaseIsSound` is `TypeOK`, `ReceiptsHold` and
`ServedIsReleased`; `CatalogIsSound` is `PlaybookTypeOK`, `OneLiveReview`,
`RevokedOnce` and `NoCircle`; `DurableTrail`, `CounselIsLegal`,
`ExtractedIsEvidence`, `OneCurrentRun` and `StoreIsSound` include theirs.

Why the bounds are enough. Jobs of the queue share no state, so one is as good
as many; three executions allow a displaced owner, its successor and a stranger.
Two attempts separate the first, the last and the exhausted one. Two pipeline
versions are what a rollout has in flight; two texts and four chunk identities
tell "same text, new rows" from "new text". Two EXECUTE calls and two requests
allow a retry beside a second call. Two agreement versions are a predecessor and
its successor; two runs of a document are the one that was executed on and a
later one; versions over several documents are left to the theorems, which hold
for any. Two handlers are enough for a race and for a circle of locks, and every
handler may be any of the eight operations. Two instances are the proven database
and another one; two releases race for one receipt. Two readings race for one
version number; three amendments are the fewest of which the middle one can be
in the wrong place.

Where the bounds are small a theorem covers the rest. With one decision
request in `agreement` no two approvals can meet on one finding, so that part of
`ApprovalsAgree` is covered by `ApprovalsHold` only. `reliance` changes at most
two things about a snapshot, which leaves longer series of changes to
`RelianceIsCurrentHolds`, and has one text of the source of a playbook, which may
be lost but not replaced by another; `ExportStandsOnLiveReviewsHolds` covers any
number of texts.

`OnlyProven` does not say that the challenge is held at the COMMIT, which is not
so. It says that every last assertion is passed while it is held, on the instance
the gate proved and in the same life of it, and that receipts, migrations, moved
accounts and the anchor are committed only there and only after it. In `release`
the window is reached: a challenge that is lost after the last assertion and
before the COMMIT.

Some runs hold several stories, which the state constraint `Focus` or the
next-state relation `MCNext` keeps apart, because no property relates them:

- `evidence_safety`: an intake with every file, verdict and fault before anything
  is derived, or two analyses of a text that is extracted twice, without faults.
  Faults of analyses are in `derived_recovery`.
- `agreement`: a version and its successor on settled evidence, or evidence that
  moves under one version.
- `reliance`: validation runs in an empty system, snapshots of an approved
  version, or the playbook. In the second at most `MaxChanges` things differ from
  what was approved.
- `purge`: the purge alone, readings of a matter whose base is purged, or another
  client of the service. In the second only one call purges, one thing at a time
  differs from what the requests found at first, and the second request starts
  once the first has read its files.
- `release`: two releases and a bootstrap among faults, or one release beside the
  script that is run by hand and sign-ins.

Symmetry is used only in `agreement` and `reliance`, which have no liveness
property. Deadlock is not checked: with every job terminal and every call done
the systems rest.

Fairness. `JobLease`: the workflow runtime retries steps until they end, so an
enabled claim is made and an execution gets on; time passes, but a lease is only
sure to expire when nobody renews it (`Orphaned`). `SourceIntake`: a failed run
is started again by its user, which is what `RerunRecovers` is about, and an OCR
provider that is polled for ever answers at some time (strong fairness of
`Answered`). `DerivedEvidence`: the same. `SourcePurge`: an administrator who
sees a pending purge executes it again, and a call gets on; nobody is assumed to
lift a hold. `Authority`: PostgreSQL goes on with every transaction that does not
wait, and ends a circle of waits at some time (`deadlock_timeout`); new requests
need not come. `ReleaseGate`: a gate is a running process that starts and goes
on with its children.

### What the runs found

- `intake_ocr_rerun`: a rerun finds the extraction of the same version
  SUCCEEDED with a FAILED OCR child in its receipt, and nothing wakes the child.
  `OPERATIONS_RUNBOOK.md:130` tells the operator to rerun.
- `intake_quarantine`: a scan that began before another one quarantined the
  source overwrites QUARANTINED with CLEAN (`lib/jobProcessor.ts:104`).
  `OPERATIONS_RUNBOOK.md:87` calls QUARANTINED terminal. It needs two pipeline
  versions in flight and a scanner that answers differently.
- `authority_membership`: the guard of a matter lets a membership that is there
  decide, the guard of its resources adds it to what every lawyer may do
  (`lib/access.ts:198`). A lawyer with a VIEW membership of an unrestricted matter
  edits its findings, but not the matter. `docs/playbook-integration.md:9` says
  that an explicit lower membership overrides, "consistent with access.ts".
- `reading_dates`: amendments are sorted by the string that was typed
  (`contracttwin/src/contracttwin/precedence.py:81`), and `2025-9-1` is accepted
  and sorts after `2025-10-01`. `contracttwin/README.md:103` says that amendments
  apply from the earliest date to the latest. With dates typed with their zeros
  the property holds (`purge`).

## 5. Proofs

Eight modules hold proofs, each of the specification of its component, for any
value of the constants that satisfies the named assumptions. The theorems start
from `Init` of the component. The runs that hold several stories start from
prepared states as well (`MCInit`); those of `purge` and `reliance` do.

`JobLeaseProofs`: any sets of jobs, executions and workers and any bounds, under
`WorkerAssumption`, `BudgetAssumption`, `BoundAssumption` and
`RecoveryAssumption` of `JobLease`.

| Theorem | States |
|---|---|
| `InvHolds` | the inductive invariant `Inv` |
| `TypeCorrect` | `Spec => []TypeOK` |
| `FenceIsExclusive` | `Spec => []OneCurrentHolder` |
| `TriggersAccept` | `Spec => []NeverRefused` |
| `AttemptsBounded` | `Spec => []RetryBudget` |
| `OnlyNewestPublishes` | `Spec => NoStaleEffect` |
| `Implements` | `Spec => KeepsPromise` |
| `ImplementsContract` | `Spec => KeepsContract` |

The properties are not inductive alone. `OneCurrentHolder` says nothing of an
execution whose generation is still to come, so `Inv` adds that no execution
holds a generation newer than its row's, that two executions never hold the same
generation of a job, and that the holder of the current generation read the attempts the row has.
`NeverRefused` needs every row to satisfy the lease-state check already, and
`NoStaleEffect` that `effect` is never newer than the row's generation. The
step proof has one lemma per kind of write (what the triggers make of the row an
action hands them) and one step per action; the temporal theorems follow by PTL.

`AgreementLifecycleProofs`: any documents and people and any bounds, under
`PeopleAssumption` and `LimitAssumption` of `AgreementLifecycle`.

| Theorem | States |
|---|---|
| `TypeCorrect` | `Spec => []TypeOK` |
| `Implements` | `Spec => ActsAsRegister` |
| `ApprovalsHold` | `Spec => []ApprovalsAgree` |
| `FreezeHolds` | `Spec => FrozenInForce` |
| `KeepsRegister` | the runs of `Spec` implement `RunRegister`, and no two runs of a document have unreviewed findings |
| `EvidenceHolds` | `Spec => []RestsOnAttestedEvidence` |
| `SettledHolds` | `Spec => []RestsOnSettledDecisions` |

`TypeOK` becomes inductive with `Named` (a request or scenario that is there
belongs to a version). `Exclusive` (one locked, one in force) is inductive by the
guards of `Lock` and `Execute` and carries the refinement. `ApprovalsAgree` needs
that the selection of a version is final once it is made and that a validated
scenario stays validated. The two properties of a version in force are proved in
two halves: what `Execute` checked is what they say, and every handler that could
change it afterwards is stopped by the status of its version or by `Frozen`. The
one that is not stopped, a publication that found nothing, is harmless only
because a run that is still open has published nothing yet (`RunsInOrder`).

`SourcePurgeProofs`: any people, calls and bounds, under `NobodyAssumption` and
`BoundAssumption` of `SourcePurge`.

| Theorem | States |
|---|---|
| `InvHolds` | the inductive invariant `Inv` |
| `TrailHolds` | `Spec => []DurableTrail` |
| `DestructionIsAuthorized` | `Spec => AuthorizedDestruction` |
| `Implements` | `Spec => KeepsPhases` |

`Inv` adds to `DurableTrail` that the marker is there before a call gets on
(`CallsAreMarked`), that a call that has deleted left no file (`DeletedIsGone`),
that the hold, the retention and the request stay as the call with the locks
checked them (`HolderChecked`: every handler that changes them waits), and that
as long as no session was lost, the call that is past its check is the one with
the locks (`LocksKept`). The last one makes `AuthorizedDestruction` true, and the
record and the refinement do not need it: a call without its locks can delete the
file, which the marker allows for, but cannot write the record.

`AuthorityProofs`: any people, any number of handlers and requests, under
`PersonAssumption` and `RequestAssumption` of `Authority`.

| Theorem | States |
|---|---|
| `InvHolds` | the inductive invariant `Inv` |
| `CounselHolds` | `Spec => []CounselIsLegal` |
| `AdminRemains` | `Spec => AnAdminRemains` |
| `AuthorityHolds` | `Spec => AuthorityWhenUsed` |

`Inv` adds that no two transactions hold locks that conflict (`LocksApart`) and
that what the passed stages of a transaction have found is still true
(`Checked`). Only `Advance` takes locks, and it waits; a commit changes a row
whose exclusive lock it holds, so no other transaction has checked it. A commit
may therefore rely on every check of its transaction. The argument is two-phase
locking, and the places where it needs the code are the lock modes in `Needs`: a
role change locks the table of roles and so never runs beside another one, and
the grant of a capability and a role change lock the same role row, one shared,
one exclusive.

`EvidenceProofs`: the intake (`Spec`) and the intake with its analyses
(`DerivedSpec`), for any releases, pipeline runs, texts and analysis runs, under
the assumptions of `SourceIntake` and `DerivedEvidence`.

| Theorem | States |
|---|---|
| `ExtractedIsEvidenceHolds` | `Spec => []ExtractedIsEvidence` |
| `NoTextAfterPurgeStartsHolds` | `Spec => NoTextAfterPurgeStarts` |
| `EvidenceUnderAnalysis` | `DerivedSpec => []ExtractedIsEvidence` |
| `OneCurrentRunHolds` | `DerivedSpec => []OneCurrentRun` |
| `RelianceLosesNothingHolds` | `DerivedSpec => []RelianceLosesNothing` |
| `FindingsMatchSourceHolds` | `DerivedSpec => FindingsMatchSource` |
| `ExecutedEvidenceIsKeptHolds` | `DerivedSpec => ExecutedEvidenceIsKept` |
| `NothingDerivedAfterPurgeStarts` | in `DerivedSpec`, neither text nor a finding appears once the purge has started |
| `IntakeKeepsPhases` | `Spec` implements `TwoPhasePurge` |
| `IntakeKeepsContract` | the stage jobs of `Spec` implement `JobContract` |
| `AnalysesKeepContract` | in `DerivedSpec` the purge, the stage jobs and the analysis jobs implement these |
| `AnalysesKeepRegister` | the runs and findings of `DerivedSpec` implement `RunRegister` |

`IntakeInv` ties the document row to its chunks and each running job to an
execution. It is inductive although an execution goes on with what it read long
ago, because every write looks at the row again; nothing has to be said of what
the executions remember. `DerivedInv` has to say one thing of an execution: one
that is about to publish has a run, and under legal reliance its finding cites
the chunk row that was read last (`Publishable`). Without it
`RelianceLosesNothing` is not inductive. The frozen document and the started
purge need no invariant of their own: every writer checks, or its trigger does.

The three before the last say that the intake leaves out nothing that the queue or
the purge would show it. It gives each job one execution and the purge one action, while
`JobLease` has displaced executions and `SourcePurge` calls and locks; both sides
implement one abstract module, under `state <- doc.deletion`,
`stored <- blob # "gone"` and the status and attempts of each job. A step may move
two jobs, as the end of an extraction that hands over to OCR does, so a step of
`JobContract` moves any number of them.

`AnalysesKeepRegister` and `KeepsRegister` do the same for the runs. In
`DerivedEvidence` a run is opened, fed and published by continuations that may be
displaced between any two reads; in `AgreementLifecycle` its publication is one
step over several documents and versions. Both implement `RunRegister`, the first
for one document and its `frozen` flag, the second with the documents of the
versions in force as `frozen`. The first needs one more invariant, that only a run
that ended well has findings (`PublishedRuns`): it makes the run that publishes
differ from those it overtakes. The second needs `RunsInOrder` for the same reason.

`ReleaseGateProofs`: any releases, instances and people, and any world the
assumptions allow, under `GateAssumption`, `NameAssumption` and `WorldAssumption`
(no database has a receipt at first, and accounts that were moved before have one
key each).

| Theorem | States |
|---|---|
| `ReleaseIsSoundHolds` | `Spec => []ReleaseIsSound` |
| `OneAccountEachHolds` | `Spec => []OneAccountEach` |
| `OnlyProvenHolds` | `Spec => OnlyProven` |

`OnlyProvenHolds` covers the window between the last assertion and the COMMIT:
what is committed has passed the last assertion of its transaction on the proved
instance and in the same life of it, whether or not the challenge is held by then.

`Inv` has four parts that need each other. `GatesInOrder`: a running gate stands
on one instance, has its open transaction there, shares it with no other gate,
and past a step of its plan that step is recorded; an instance that passed the
last assertion is the proved one and was not restarted since (`BootStays`), which
is what carries `OnlyProven` over the window. `DatabasesInOrder`: a receipt
tells the truth and moved accounts have one key each, record by record, so that a
copy is as good as its original. `ScriptInOrder`: what the manual script read
before the move of the gate either is untouched by it or makes the script refuse.
`ServedInOrder`: traffic goes to accepted releases. The steps rest on `Grows`: a
database somebody stands on is not replaced by a copy and loses no anchor, move,
receipt or key.

`RelianceProofs`: any people, options, engines, cases and bounds, under
`PlaybookAssumption` (the options of a book are finitely many, and its source has
a text) and `RelianceBounds`.

| Theorem | States |
|---|---|
| `RelianceTypeOKHolds` | `Spec => []RelianceTypeOK` |
| `CatalogIsSoundHolds` | `Spec => []CatalogIsSound` |
| `ExportStandsOnLiveReviewsHolds` | `Spec => ExportStandsOnLiveReviews` |
| `VerdictIsFinalHolds` | `Spec => VerdictIsFinal` |
| `RelianceIsCurrentHolds` | `Spec => RelianceIsCurrent` |

`PlaybookInv`: whoever has the lock of the matter has seen the whole log
(`CallsInOrder`), and what it judged stays true until it appends
(`JudgedInOrder`), as nobody else appends, time only ends reviews, and the source
and the roles it relies on are share locked. `RelianceInv`: a passed run passed
every case (`RunInOrder`), and for a job that was checked the audit log tells
whether its analysis still is the latest that ended well (`JobInOrder`): a new one
leaves no trace when it starts and one when it ends. That no book has a circle is
about what two recursive functions compute, `ReadyOptions` and the walk in
`Acyclic`. A recursive function is the one that satisfies its equation, if there is
one; `ReadyMeans` and `AcyclicMeans` show that there is by giving its value in
closed form, over walks along the dependencies.

`MatterReadingProofs`: any number of requests, documents, selections and clients
of the service, and any number of amendments and replacements, under
`ReadingAssumption`, `AgreementAssumption`, `DatesAssumption` and the assumptions
of `SourcePurge`.

| Theorem | States |
|---|---|
| `InvHolds` | the inductive invariant `Inv` |
| `StoreIsSoundHolds` | `MatterSpec => []StoreIsSound` |
| `AnsweredAsReadHolds` | `MatterSpec => AnsweredAsRead` |
| `ResolvesWhereDatedHolds` | every stored reading whose agreement is `WellDated` resolves |
| `LaterAmendmentWinsHolds` | `MatterSpec => []LaterAmendmentWins`, if all that other clients send is `WellDated` |
| `MatterResolvesHolds` | the readings of the matter itself resolve, whatever other clients send |
| `PurgeUnderReadings` | `MatterSpec => Spec`: what `SourcePurgeProofs` proves holds here too |

`Inv` says what its step entitles a request to (`ReaderInOrder`). A request that
numbers or inserts knew of no such reading when it started; its number is at most
one too high, and the key of the table refuses one that is taken, so numbers have
no gaps. A request that is to record is the witness for the event that is missing.
Numbers are bounded by counting readings against the requests through the store
(`Past`). The answer is of sources as they were read because the rows that were
found readable are the rows that are compared at the end.

`LaterAmendmentWins` is about what two recursive functions compute after a sort.
Its invariant is `Keeps`, over the set of texts that were applied so far: the
ledger has each of them once, one is in force if it has no later rival among them,
and one that is not names the document of a later rival. Adding one replacement
that is later than all before keeps it (`ReplaceKeeps`). It is carried through
`Apply` and `BuildLedger` by induction over the set of numbers up to which it holds
(`UpTo`, from the well-foundedness of the naturals): an induction over a set, which
needs no theorem with an operator as its parameter. That the amendments come in
their order is that `Order` is a permutation that sorts (`OrderSorts`, by counting
the earlier ones). The hypothesis `WellDated` is what the sort of strings needs and
nobody checks: it holds of what `purge` sends (`MCDirect`), and `reading_dates`
shows the ledger go wrong without it. `ResolvesWhereDatedHolds` has it for one
reading at a time; the matter itself types no dates, so `MatterResolvesHolds` does
without it.

Only model-checked, as liveness under fairness is out of the prover's reach:
`EveryJobSettles`, `AnalysisRecovers`, `BegunIsFinished`, `RequestsEnd` and
`GatesEnd`. The four properties that the code violates are shown violated by their
runs.

## 6. Not modelled

Of components that are modelled:

- the queue: `claimNextJob` (nothing calls it); the claims of a bundle from before
  fencing; the 5000-cycle limit of the workflow loop;
- intake and analysis: what the scanner, parser, OCR provider and language model
  compute (a choice); more than one chunk or finding for a run;
- the purge: `documents.legal_hold` (no code writes it);
- the lifecycle: versions and decisions of evidence protocol 0; decisions
  WITHDRAWN (no code writes it); more than one condition for a decision;
  `assertLegalRelianceReady`, given there and modelled in `Reliance`;
- dependency and precedence jobs: their steps between reading and publishing,
  relations that are entered by hand, and the job over a whole matter. Their
  effect on the receipt of a version is one step;
- standards: what makes one complete; more than one clause family;
- playbooks: the import of provider drafts, the context of an evaluation, free
  text; more than one book with one source;
- the reading service: facts, calendar, exposure, quote check, survival and the
  merge of a model's answer, which are pure functions of text; the projection of
  citations;
- the release gate: the catalog queries themselves.

Whole components:

- the rate limit: a count under an advisory lock in one transaction, called by
  routes that are modelled without it;
- upload registration: one insert whose repetition changes nothing;
  `SourceIntake` starts from its result;
- the DOCX reader: a parser of OOXML whose outcome, eligible or not, is a choice;
- audit rows, safe errors, sign-in: appended in the transactions modelled,
  formatting, and a library;
- the integration checks and acceptance scripts (`scripts/*-check.mjs`): tests of
  the code above that need a database;
- the user interface, and the keyword analyzer in `src/*.py`, a stateless function
  behind a form of its own.
