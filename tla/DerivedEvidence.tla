--------------------------- MODULE DerivedEvidence ---------------------------
(* What the cockpit derives from the text of a document: the continuations of  *)
(* a clause-risk or term-extraction job (processAnalysis and processTerms in   *)
(* lib/jobProcessor.ts, which share one protocol), composed with the intake of *)
(* the same document.                                                          *)
(*                                                                             *)
(* A job reads the chunks, opens an analysis run bound to their hash, reads    *)
(* them again in every continuation, and publishes once under the lock of the  *)
(* document row.  Between those steps another release may extract the document *)
(* again, a purge may start or the agreement may be executed.  The document    *)
(* has one chunk; its hash covers the text and not the identity of the row.    *)
(* The dependency job that processTerms enqueues at its end is left out.       *)
EXTENDS SourceIntake

CONSTANTS
  MaxRuns,         \* bound: analysis runs that can be opened
  LegalReliance    \* LEGAL_RELIANCE_ENABLED = "true"

ASSUME RunAssumption == MaxRuns \in Nat
ASSUME RelianceAssumption == LegalReliance \in BOOLEAN

VARIABLES
  task,      \* the analysis job of each version
  work,      \* how far its execution got, and the chunks it read
  run,       \* analysis_runs
  findings,  \* the review status of the findings each run published
  stage      \* the analysis stage of each run of the pipeline

Run == 1 .. MaxRuns      \* in the order they were opened

dvars == <<vars, task, work, run, findings, stage>>

NoTask == [status |-> "ABSENT", attempts |-> 0, run |-> 0, done |-> FALSE,
           found |-> FALSE, cites |-> None, rejected |-> FALSE]

Off == [step |-> "idle", batch |-> None, text |-> None]

DerivedTypeOK ==
  /\ task \in [Version -> [status : {"ABSENT", "QUEUED", "RUNNING", "WAITING_EXTERNAL",
                                     "SUCCEEDED", "FAILED"},
                           attempts : 0 .. MaxAttempts, run : 0 .. MaxRuns,
                           done : BOOLEAN, found : BOOLEAN,
                           cites : Batch \cup {None}, rejected : BOOLEAN]]
  /\ work \in [Version -> [step : {"idle", "start", "read", "open", "analyze", "publish",
                                   "retry", "giveUp"},
                           batch : Batch \cup {None}, text : Text \cup {None}]]
  /\ \A v \in Version : task[v].status = "RUNNING" <=> work[v].step # "idle"
  /\ run \in [Run -> [status : {"ABSENT", "RUNNING", "SUCCEEDED", "FAILED"},
                      text : Text \cup {None}]]
  /\ findings \in [Run -> {"none", "UNREVIEWED", "SUPERSEDED", "VALIDATED"}]
  /\ stage \in [Flow -> {"off", "running", "done"}]

\* Row identities that somebody still remembers are not given to new rows.
Remembered ==
  {chunks.batch} \cup {task[v].cites : v \in Version} \cup {work[v].batch : v \in Version}

-----------------------------------------------------------------------------
(* The stage of the pipeline, and the claims of its job.                       *)

\* A bug: the output of the failed job, and with it its run, is kept.
EnqueuedTask_KeepsRun(t) ==
  IF t.status \in {"ABSENT", "FAILED"}
    THEN [t EXCEPT !.status = "QUEUED", !.attempts = 0] ELSE t

\* enqueueJob, as in the intake; the output with the buffer is reset too.
EnqueuedTask(t) ==
  IF t.status \in {"ABSENT", "FAILED"} THEN [NoTask EXCEPT !.status = "QUEUED"] ELSE t

BeginStage(f) ==
  /\ flow[f] = "extracted" /\ stage[f] = "off"
  /\ task' = [task EXCEPT ![VersionOf[f]] = EnqueuedTask(@)]
  /\ stage' = [stage EXCEPT ![f] = "running"]
  /\ UNCHANGED <<vars, work, run, findings>>

\* The stage ends with its job; a failed one ends the run of the pipeline.
EndStage(f) ==
  /\ stage[f] = "running" /\ task[VersionOf[f]].status \in {"SUCCEEDED", "FAILED"}
  /\ LET succeeded == task[VersionOf[f]].status = "SUCCEEDED"
     IN /\ stage' = [stage EXCEPT ![f] = IF succeeded THEN "done" ELSE "off"]
        /\ flow' = [flow EXCEPT ![f] = IF succeeded THEN @ ELSE "failed"]
  /\ UNCHANGED <<doc, blob, chunks, job, at, faults, task, work, run, findings>>

Claimed(v) == \E f \in Flow : stage[f] = "running" /\ VersionOf[f] = v

Walk(v, step) == work' = [work EXCEPT ![v].step = step]

\* A bug: an execution that handed its job on reads the next chunk all the same.
Rest_GoesOn(v) == Walk(v, "read")
Rest(v) == work' = [work EXCEPT ![v] = Off]

ClaimTask(v) ==
  /\ Claimed(v) /\ task[v].status \in {"QUEUED", "WAITING_EXTERNAL"}
  /\ task' = [task EXCEPT ![v].status = "RUNNING",
                ![v].attempts = IF task[v].status = "QUEUED" THEN @ + 1 ELSE @]
  /\ Walk(v, "start")
  /\ UNCHANGED <<vars, run, findings, stage>>

\* As Displaced: the exhausted claim fails the job and knows nothing of its run.
DisplaceTask(v) ==
  /\ Claimed(v) /\ task[v].status = "RUNNING" /\ faults < MaxFaults
  /\ IF task[v].attempts < MaxAttempts
       THEN /\ task' = [task EXCEPT ![v].attempts = @ + 1]
            /\ work' = [work EXCEPT ![v] = [Off EXCEPT !.step = "start"]]
       ELSE task' = [task EXCEPT ![v].status = "FAILED"] /\ Rest(v)
  /\ faults' = faults + 1
  /\ UNCHANGED <<doc, blob, chunks, job, at, flow, run, findings, stage>>

-----------------------------------------------------------------------------
(* One continuation.                                                           *)

Processable ==
  Usable /\ doc.verified = "SERVER_VERIFIED" /\ doc.extraction = "EXTRACTED"

\* loadDocument and assertProcessableSource, outside any transaction.
CheckSource(v) ==
  /\ work[v].step = "start"
  /\ Walk(v, IF Processable THEN "read" ELSE "giveUp")
  /\ UNCHANGED <<vars, task, run, findings, stage>>

\* The run is still open and its hash is the hash of these chunks.
Bound(r, text) == run[r].status = "RUNNING" /\ run[r].text = text

\* A bug: findings that lost their chunk are dropped, reliance or not.
Acceptable_DropsLost(rejected) == TRUE

\* Output that lost its grounding is not published under legal reliance.
Acceptable(rejected) == ~(LegalReliance /\ rejected)

\* The chunks as they are now decide what this continuation does.  A buffered
\* finding counts as grounded only in the very chunk row it cites.
ReadChunks(v) ==
  /\ work[v].step = "read"
  /\ LET t == task[v]
         lost == t.found /\ t.cites # chunks.batch
         next == IF chunks.batch = None THEN "retry"
                 ELSE IF t.run = 0 THEN "open"
                 ELSE IF ~Bound(t.run, chunks.text) THEN "giveUp"
                 ELSE IF ~t.done THEN "analyze"
                 ELSE IF ~Acceptable(t.rejected \/ lost) THEN "giveUp" ELSE "publish"
     IN work' = [work EXCEPT ![v] = [step |-> next, batch |-> chunks.batch,
                                     text |-> chunks.text]]
  /\ UNCHANGED <<vars, task, run, findings, stage>>

\* The first continuation binds a new run to the chunks it read, not to those
\* the document has by now.
OpenRun(v) ==
  /\ work[v].step = "open"
  /\ \E r \in Run :
       /\ run[r].status = "ABSENT" /\ \A s \in 1 .. r - 1 : run[s].status # "ABSENT"
       /\ run' = [run EXCEPT ![r] = [status |-> "RUNNING", text |-> work[v].text]]
       /\ task' = [task EXCEPT ![v].status = "WAITING_EXTERNAL", ![v].run = r]
  /\ Rest(v)
  /\ UNCHANGED <<vars, findings, stage>>

\* The model reads the chunk: a grounded finding, or none, or an ungrounded one.
Analyze(v) ==
  /\ work[v].step = "analyze"
  /\ \E found, rejected \in BOOLEAN :
       /\ rejected => faults < MaxFaults
       /\ faults' = IF rejected THEN faults + 1 ELSE faults
       /\ task' = [task EXCEPT ![v] = [@ EXCEPT
            !.status = "WAITING_EXTERNAL", !.done = TRUE, !.found = found,
            !.cites = IF found THEN work[v].batch ELSE None, !.rejected = rejected]]
  /\ Rest(v)
  /\ UNCHANGED <<doc, blob, chunks, job, at, flow, run, findings, stage>>

\* The model, or a read from the database, fails.
AnalysisCallFails(v) ==
  /\ work[v].step \in {"start", "read", "analyze"} /\ faults < MaxFaults
  /\ Walk(v, "retry") /\ faults' = faults + 1
  /\ UNCHANGED <<doc, blob, chunks, job, at, flow, task, run, findings, stage>>

\* A bug: the publication trusts what the continuation read.
StillBound_AsRead(v) == Processable

\* A bug: the document is not looked at again, only its chunks.
StillBound_ChunksOnly(v) == Bound(task[v].run, chunks.text)

\* What is checked again while the document row is locked.
StillBound(v) ==
  /\ Processable
  /\ Bound(task[v].run, chunks.text)
  /\ (task[v].found /\ task[v].cites = work[v].batch) => work[v].batch = chunks.batch

\* A bug: the findings of another release are left standing.
Superseded_NotOfOthers(r) == findings[r]

\* Unreviewed findings of earlier runs of the document.
Superseded(r) == IF findings[r] = "UNREVIEWED" THEN "SUPERSEDED" ELSE findings[r]

\* A bug: the freeze does not cover findings.
FindingsWritable_Always(new) == TRUE

\* The findings trigger refuses any change under an executed agreement; a
\* publication that neither supersedes nor inserts is not a change.
FindingsWritable(new) == doc.frozen => new = findings

PublishFindings(v) ==
  /\ work[v].step = "publish"
  /\ LET grounded == task[v].found /\ task[v].cites = work[v].batch
         new == [r \in Run |-> IF r = task[v].run /\ grounded THEN "UNREVIEWED"
                               ELSE Superseded(r)]
     IN IF ~StillBound(v)
          THEN Walk(v, "giveUp") /\ UNCHANGED <<task, run, findings>>
        ELSE IF ~FindingsWritable(new)
          THEN Walk(v, "retry") /\ UNCHANGED <<task, run, findings>>
        ELSE /\ findings' = new
             /\ run' = [run EXCEPT ![task[v].run].status = "SUCCEEDED"]
             /\ task' = [task EXCEPT ![v].status = "SUCCEEDED"]
             /\ Rest(v)
  /\ UNCHANGED <<vars, stage>>

\* processJob's catch block: a retry keeps the buffer, the last failure closes
\* the run in the same transaction.
FailTask(v) ==
  /\ work[v].step \in {"retry", "giveUp"}
  /\ LET again == work[v].step = "retry" /\ task[v].attempts < MaxAttempts
     IN /\ task' = [task EXCEPT ![v].status = IF again THEN "QUEUED" ELSE "FAILED"]
        /\ run' = [r \in Run |->
             IF ~again /\ r = task[v].run /\ run[r].status = "RUNNING"
               THEN [run[r] EXCEPT !.status = "FAILED"] ELSE run[r]]
  /\ Rest(v)
  /\ UNCHANGED <<vars, findings, stage>>

\* Counsel disposes of a finding (PATCH findings/[id]/review); VALIDATED stands
\* for either disposition.
Review(r) ==
  /\ findings[r] = "UNREVIEWED" /\ ~doc.frozen
  /\ findings' = [findings EXCEPT ![r] = "VALIDATED"]
  /\ UNCHANGED <<vars, task, work, run, stage>>

-----------------------------------------------------------------------------
DerivedInit ==
  /\ Init
  /\ task = [v \in Version |-> NoTask]
  /\ work = [v \in Version |-> Off]
  /\ run = [r \in Run |-> [status |-> "ABSENT", text |-> None]]
  /\ findings = [r \in Run |-> "none"]
  /\ stage = [f \in Flow |-> "off"]

\* Any identity nobody remembers is as good as any other.
PublishFresh(k) ==
  /\ Batch \ Remembered # {}
  /\ PersistChunks(k, CHOOSE b \in Batch : b \notin Remembered)

IntakeStep ==
  \/ \E f \in Flow : Drive(f)
  \/ \E k \in Job : Claim(k) \/ Displaced(k) \/ CallFails(k) \/ Process(k) \/ PublishFresh(k)
  \/ Purge \/ Freeze \/ Alter

Continue(v) ==
  \/ CheckSource(v) \/ ReadChunks(v) \/ OpenRun(v) \/ Analyze(v)
  \/ PublishFindings(v) \/ FailTask(v)

DerivedNext ==
  \/ IntakeStep /\ UNCHANGED <<task, work, run, findings, stage>>
  \/ \E f \in Flow : BeginStage(f) \/ EndStage(f)
  \/ \E v \in Version :
       ClaimTask(v) \/ DisplaceTask(v) \/ AnalysisCallFails(v) \/ Continue(v)
  \/ \E r \in Run : Review(r)

DerivedSpec == DerivedInit /\ [][DerivedNext]_dvars

\* As in the intake: the runtime drives every stage, a failed run is started
\* again, and an execution gets on.
DerivedFairness ==
  /\ \A f \in Flow : WF_dvars(Drive(f) /\ UNCHANGED <<task, work, run, findings, stage>>)
                    /\ WF_dvars(BeginStage(f)) /\ WF_dvars(EndStage(f))
  /\ \A k \in Job :
       /\ WF_dvars(Claim(k) /\ UNCHANGED <<task, work, run, findings, stage>>)
       /\ WF_dvars(Process(k) /\ UNCHANGED <<task, work, run, findings, stage>>)
       /\ WF_dvars(PublishFresh(k) /\ UNCHANGED <<task, work, run, findings, stage>>)
  /\ \A v \in Version : WF_dvars(ClaimTask(v)) /\ WF_dvars(Continue(v))

DerivedFairSpec == DerivedSpec /\ DerivedFairness

-----------------------------------------------------------------------------
(* Properties.                                                                 *)

\* Findings appear only while the document is active, clean, verified and
\* extracted, and only from a run over the very text it has at that moment,
\* whatever happened between the reads of the continuations
\* (lib/jobProcessor.ts:272-287, 321-333).
FindingsMatchSource ==
  [][\A r \in Run : (findings[r] = "none" /\ findings'[r] # "none") =>
       Processable /\ run[r].text = chunks.text]_dvars

\* The unreviewed findings of a document are those of one run, also when two
\* releases analyse it at the same time (lib/jobProcessor.ts:281).
OneCurrentRun ==
  /\ DerivedTypeOK
  /\ \A r, s \in Run : (findings[r] = "UNREVIEWED" /\ findings[s] = "UNREVIEWED") => r = s

\* Under legal reliance a successful job has published what it found: a finding
\* whose chunk row was replaced under it fails the job
\* (lib/jobProcessor.ts:268-270, 280).
RelianceLosesNothing ==
  \A v \in Version :
    (LegalReliance /\ task[v].status = "SUCCEEDED" /\ task[v].found)
      => findings[task[v].run] # "none"

\* A failed run of the pipeline, started again, ends with its analysis done once
\* the services answer: a retry keeps its run and its buffer, a fresh start gets
\* a new run (lib/jobs.ts:40-57, lib/jobProcessor.ts:571-591).
AnalysisRecovers ==
  \A f \in Flow : flow[f] = "failed" ~> (Excused \/ stage[f] = "done")

\* Under an executed agreement no finding appears, changes or is superseded
\* (migration 006:433-461), and the text it was drawn from stays.
ExecutedEvidenceIsKept ==
  [][doc.frozen => findings' = findings /\ chunks' = chunks]_dvars

=============================================================================
