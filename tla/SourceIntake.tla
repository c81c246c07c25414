---------------------------- MODULE SourceIntake ----------------------------
(* How an uploaded source becomes text the rest of the cockpit may rely on:    *)
(* the malware scan, the extraction and the OCR of one document, run by the    *)
(* stages of fullContractPipeline (workflows/full-contract-pipeline.ts) and    *)
(* written by lib/jobProcessor.ts under the triggers of migrations 006 and     *)
(* 008.                                                                        *)
(*                                                                             *)
(* Stage jobs are keyed by the pipeline version, so two releases that are in   *)
(* flight at the same time work on one document with different jobs, while     *)
(* every run of one version shares its jobs.                                   *)
(*                                                                             *)
(* JobLease shows that of all the executions of a job only the newest can      *)
(* commit (OneCurrentHolder, NoStaleEffect).  Here a job therefore has one     *)
(* execution, the newest: `at' is how far it got, and Displaced replaces it.   *)
EXTENDS Naturals

CONSTANTS
  Version,        \* pipeline versions whose jobs are in flight
  Flow,           \* runs of fullContractPipeline
  VersionOf,      \* the version each run was started by
  Source,         \* what the uploaded file may be: "text", "image", "unsupported"
  Text,           \* texts an extraction may produce
  Batch,          \* identities of a set of chunk rows; every insertion is new
  OcrConfigured,  \* whether the OCR provider is configured
  Verdict,        \* answers the scanner may give: "clean", "threat"
  MayAlter,       \* whether the stored file may stop matching its hash
  MayPurge,       \* whether records management may purge the source
  MayFreeze,      \* whether an agreement with this source may be executed
  MaxAttempts,    \* max_attempts of every stage job
  MaxFaults,      \* bound: failed calls, crashes and displaced executions
  None            \* no chunks, no generation, no text

ASSUME FlowAssumption == VersionOf \in [Flow -> Version]
ASSUME BatchAssumption == \E a, b \in Batch : a # b
ASSUME NoneAssumption == None \notin Text \cup Batch \cup Version
ASSUME BudgetAssumption == MaxAttempts \in Nat \ {0} /\ MaxFaults \in Nat
ASSUME SwitchAssumption ==
  /\ {OcrConfigured, MayAlter, MayPurge, MayFreeze} \subseteq BOOLEAN
  /\ Source \subseteq {"text", "image", "unsupported"}
  /\ Verdict \subseteq {"clean", "threat"}

VARIABLES
  doc,      \* the documents row
  blob,     \* the stored file: "registered", "altered" or "gone"
  chunks,   \* document_chunks of the document
  job,      \* the stage jobs
  at,       \* how far the execution of each job got
  flow,     \* the stage each run of the pipeline is in
  faults    \* what MaxFaults counts

vars == <<doc, blob, chunks, job, at, flow, faults>>

Job == {"SCAN", "EXTRACT", "OCR"} \X Version
Kind(k) == k[1]
Generation(k) == k[2]     \* an OCR job belongs to the extraction of its version

Step == {"idle", "start",
         "scanning", "clean", "threat", "scanFailed", "scanRefused",
         "load", "unsupported", "handoff",
         "submit", "poll",
         "altered", "publish", "complete",
         "retry", "rejected", "giveUp"}

TypeOK ==
  /\ doc \in [source : Source, security : {"PENDING", "CLEAN", "QUARANTINED", "FAILED"},
              verified : {"CLIENT_HASHED", "SERVER_VERIFIED", "FAILED"},
              extraction : {"PENDING", "OCR_REQUIRED", "EXTRACTED", "FAILED"},
              generation : Version \cup {None},
              deletion : {"ACTIVE", "PENDING_PURGE", "PURGED"}, frozen : BOOLEAN]
  /\ blob \in {"registered", "altered", "gone"}
  /\ chunks \in [batch : Batch \cup {None}, generation : Version \cup {None},
                 text : Text \cup {None}]
  /\ job \in [Job -> [status : {"ABSENT", "QUEUED", "RUNNING", "WAITING_EXTERNAL",
                                "SUCCEEDED", "FAILED"},
                      attempts : 0 .. MaxAttempts, operation : BOOLEAN,
                      delegated : BOOLEAN]]
  /\ at \in [Job -> [step : Step, text : Text \cup {None}]]
  /\ \A k \in Job : job[k].status = "RUNNING" <=> at[k].step # "idle"
  /\ flow \in [Flow -> {"off", "SCAN", "EXTRACT", "inspect", "OCR", "afterOcr",
                        "extracted", "failed"}]
  /\ faults \in 0 .. MaxFaults

-----------------------------------------------------------------------------
(* The pieces the handlers are made of.                                        *)

NoJob == [status |-> "ABSENT", attempts |-> 0, operation |-> FALSE,
          delegated |-> FALSE]

\* A bug: the budget of the failed job is not given back.
Enqueued_KeepsAttempts(j) ==
  IF j.status \in {"ABSENT", "FAILED"} THEN [j EXCEPT !.status = "QUEUED"] ELSE j

\* enqueueJob: insert, wake a failed job, or leave it alone.
Enqueued(j) ==
  IF j.status \in {"ABSENT", "FAILED"} THEN [NoJob EXCEPT !.status = "QUEUED"] ELSE j

\* The execution of k goes on, or is over.
Go(k, step) == at' = [at EXCEPT ![k] = [step |-> step, text |-> None]]
Carry(k, step, text) == at' = [at EXCEPT ![k] = [step |-> step, text |-> text]]
Idle == [step |-> "idle", text |-> None]
Leave(k) == at' = [at EXCEPT ![k] = Idle]

At(k, step) == at[k].step = step

Settle(k, status) == job' = [job EXCEPT ![k].status = status, ![k].operation = FALSE]

Active == doc.deletion = "ACTIVE"
Usable == Active /\ doc.security = "CLEAN"

\* A bug: any extraction may publish for the document.
OwnsGeneration_AnyOwner(k) == Usable

\* A bug: the state of the document was checked when the extraction began.
OwnsGeneration_OnceUsable(k) == doc.generation = Generation(k)

\* What every write that publishes for an extraction generation checks while it
\* holds the document row.
OwnsGeneration(k) == Usable /\ doc.generation = Generation(k)

-----------------------------------------------------------------------------
(* The pipeline: one stage at a time, each driven until its job is terminal.   *)

StageJob(f) == <<flow[f], VersionOf[f]>>
Driven(k) == \E f \in Flow : flow[f] \in {"SCAN", "EXTRACT", "OCR"} /\ StageJob(f) = k

\* POST documents/[id]/pipeline, and the first stage.
Start(f) ==
  /\ flow[f] \in {"off", "failed"}
  /\ Active /\ doc.security # "QUARANTINED"
  /\ flow' = [flow EXCEPT ![f] = "SCAN"]
  /\ job' = [job EXCEPT ![<<"SCAN", VersionOf[f]>>] = Enqueued(@)]
  /\ UNCHANGED <<doc, blob, chunks, at, faults>>

StageSucceeds(f) ==
  /\ flow[f] \in {"SCAN", "EXTRACT", "OCR"} /\ job[StageJob(f)].status = "SUCCEEDED"
  /\ \/ /\ flow[f] = "SCAN"
        /\ flow' = [flow EXCEPT ![f] = "EXTRACT"]
        /\ job' = [job EXCEPT ![<<"EXTRACT", VersionOf[f]>>] = Enqueued(@)]
     \/ /\ flow[f] = "EXTRACT"
        /\ flow' = [flow EXCEPT ![f] = "inspect"] /\ UNCHANGED job
     \/ /\ flow[f] = "OCR"
        /\ flow' = [flow EXCEPT ![f] = "afterOcr"] /\ UNCHANGED job
  /\ UNCHANGED <<doc, blob, chunks, at, faults>>

\* runStage throws, and with it the run.
StageFails(f) ==
  /\ flow[f] \in {"SCAN", "EXTRACT", "OCR"} /\ job[StageJob(f)].status = "FAILED"
  /\ flow' = [flow EXCEPT ![f] = "failed"]
  /\ UNCHANGED <<doc, blob, chunks, job, at, faults>>

\* documentExtractionState, read after the stage's job was seen to succeed.
Inspect(f) ==
  /\ flow[f] \in {"inspect", "afterOcr"}
  /\ flow' = [flow EXCEPT ![f] =
       IF doc.extraction = "EXTRACTED" THEN "extracted"
       ELSE IF /\ @ = "inspect" /\ doc.extraction = "OCR_REQUIRED"
               /\ job[<<"EXTRACT", VersionOf[f]>>].delegated THEN "OCR"
       ELSE "failed"]
  /\ UNCHANGED <<doc, blob, chunks, job, at, faults>>

-----------------------------------------------------------------------------
(* The life of an execution, whatever its job.                                 *)

\* claimJob; only a queued job pays with an attempt.
Claim(k) ==
  /\ Driven(k) /\ job[k].status \in {"QUEUED", "WAITING_EXTERNAL"}
  /\ job' = [job EXCEPT ![k].status = "RUNNING",
               ![k].attempts = IF job[k].status = "QUEUED" THEN @ + 1 ELSE @]
  /\ Go(k, "start")
  /\ UNCHANGED <<doc, blob, chunks, flow, faults>>

\* The execution dies or its lease runs out, and the job is claimed again, or
\* failed when no attempt is left.
Displaced(k) ==
  /\ Driven(k) /\ job[k].status = "RUNNING" /\ faults < MaxFaults
  /\ IF job[k].attempts < MaxAttempts
       THEN job' = [job EXCEPT ![k].attempts = @ + 1] /\ Go(k, "start")
       ELSE Settle(k, "FAILED") /\ Leave(k)
  /\ faults' = faults + 1
  /\ UNCHANGED <<doc, blob, chunks, flow>>

\* A call to the blob store, the scanner, the parser or the OCR provider fails.
CallFails(k) ==
  /\ at[k].step \in {"scanning", "load", "submit", "poll"} /\ faults < MaxFaults
  /\ IF At(k, "poll") THEN Go(k, "retry") \/ Go(k, "rejected")
     ELSE Go(k, IF At(k, "scanning") THEN "scanFailed" ELSE "retry")
  /\ faults' = faults + 1
  /\ UNCHANGED <<doc, blob, chunks, job, flow>>

\* failJob.  The external operation survives a retry unless it was rejected.
FailJob(k) ==
  /\ at[k].step \in {"retry", "rejected", "giveUp"}
  /\ LET again == ~At(k, "giveUp") /\ job[k].attempts < MaxAttempts
     IN job' = [job EXCEPT ![k].status = IF again THEN "QUEUED" ELSE "FAILED",
                           ![k].operation = @ /\ again /\ At(k, "retry")]
  /\ Leave(k)
  /\ UNCHANGED <<doc, blob, chunks, flow, faults>>

\* completeJob after the chunks were committed, in a transaction of its own.
Complete(k) ==
  /\ At(k, "complete") /\ Settle(k, "SUCCEEDED") /\ Leave(k)
  /\ UNCHANGED <<doc, blob, chunks, flow, faults>>

-----------------------------------------------------------------------------
(* processMalwareScan                                                          *)

BeginScan(k) ==
  /\ Kind(k) = "SCAN" /\ At(k, "start")
  /\ Go(k, IF ~Active \/ doc.security = "QUARANTINED" THEN "giveUp"
           ELSE IF doc.security = "CLEAN" THEN "complete" ELSE "scanning")
  /\ UNCHANGED <<doc, blob, chunks, job, flow, faults>>

ScanBytes(k) ==
  /\ At(k, "scanning")
  /\ \/ blob = "gone" /\ Go(k, "scanFailed")
     \/ blob = "altered" /\ Go(k, "scanRefused")
     \/ blob = "registered" /\ \E v \in Verdict : Go(k, v)
  /\ UNCHANGED <<doc, blob, chunks, job, flow, faults>>

\* The verdict is written whatever another scan has written since BeginScan.
ApplyVerdict(k) ==
  /\ at[k].step \in {"clean", "threat"}
  /\ IF Active
       THEN /\ doc' = [doc EXCEPT
                 !.security = IF At(k, "clean") THEN "CLEAN" ELSE "QUARANTINED",
                 !.verified = "SERVER_VERIFIED",
                 !.extraction = IF At(k, "threat") THEN "FAILED" ELSE @]
            /\ Settle(k, IF At(k, "clean") THEN "SUCCEEDED" ELSE "FAILED")
            /\ Leave(k)
       ELSE Go(k, "scanRefused") /\ UNCHANGED <<doc, job>>
  /\ UNCHANGED <<blob, chunks, flow, faults>>

\* A bug: a scan that failed leaves the extraction of an earlier scan in place.
ScanFailed_KeepsExtraction(d) == [d EXCEPT !.security = "FAILED"]

ScanFailed(d) == [d EXCEPT !.security = "FAILED", !.extraction = "FAILED"]

\* The catch block records the failure before the job is retried or failed.
RecordScanFailure(k) ==
  /\ at[k].step \in {"scanFailed", "scanRefused"}
  /\ doc' = IF Active /\ doc.security # "QUARANTINED" THEN ScanFailed(doc) ELSE doc
  /\ Go(k, IF At(k, "scanFailed") THEN "retry" ELSE "giveUp")
  /\ UNCHANGED <<blob, chunks, job, flow, faults>>

-----------------------------------------------------------------------------
(* processExtract                                                              *)

\* The claim of a new generation.  A frozen document refuses another owner, and
\* an execution of the job that already owns it passes.
BeginExtract(k) ==
  /\ Kind(k) = "EXTRACT" /\ At(k, "start")
  /\ IF ~Usable THEN Go(k, "giveUp") /\ UNCHANGED doc
     ELSE IF doc.frozen /\ doc.generation # Generation(k)
       THEN Go(k, "retry") /\ UNCHANGED doc
     ELSE /\ doc' = [doc EXCEPT !.generation = Generation(k), !.extraction = "PENDING"]
          /\ Go(k, "load")
  /\ UNCHANGED <<blob, chunks, job, flow, faults>>

\* The bytes are read once: what is hashed is what is parsed.
LoadAndParse(k) ==
  /\ At(k, "load")
  /\ \/ blob = "gone" /\ Go(k, "retry")
     \/ blob = "altered" /\ Go(k, "altered")
     \/ /\ blob = "registered"
        /\ CASE doc.source = "text" -> \E t \in Text : Carry(k, "publish", t)
             [] doc.source = "image" -> Go(k, "handoff")
             [] doc.source = "unsupported" -> Go(k, "unsupported")
  /\ UNCHANGED <<doc, blob, chunks, job, flow, faults>>

\* A DOCX the reader cannot account for is blocked, with its receipt.
BlockUnsupported(k) ==
  /\ At(k, "unsupported")
  /\ IF OwnsGeneration(k)
       THEN /\ doc' = [doc EXCEPT !.extraction = "FAILED", !.verified = "SERVER_VERIFIED"]
            /\ Settle(k, "FAILED") /\ Leave(k)
       ELSE Go(k, "giveUp") /\ UNCHANGED <<doc, job>>
  /\ UNCHANGED <<blob, chunks, flow, faults>>

\* No text layer: the OCR child is enqueued and the extraction ends in one
\* transaction.  Without a provider only the document changes, and then throws.
HandOffToOcr(k) ==
  /\ At(k, "handoff")
  /\ IF OwnsGeneration(k)
       THEN /\ doc' = [doc EXCEPT !.extraction = "OCR_REQUIRED",
                                  !.verified = "SERVER_VERIFIED"]
            /\ IF OcrConfigured
                 THEN /\ job' = [job EXCEPT
                           ![k] = [@ EXCEPT !.status = "SUCCEEDED", !.delegated = TRUE],
                           ![<<"OCR", Generation(k)>>] = Enqueued(@)]
                      /\ Leave(k)
                 ELSE Go(k, "retry") /\ UNCHANGED job
       ELSE Go(k, "giveUp") /\ UNCHANGED <<doc, job>>
  /\ UNCHANGED <<blob, chunks, flow, faults>>

\* recordIntegrityFailure: the bytes do not match the registered hash.
RecordIntegrityFailure(k) ==
  /\ At(k, "altered")
  /\ doc' = IF doc.generation = Generation(k)
              THEN [doc EXCEPT !.verified = "FAILED", !.extraction = "FAILED"] ELSE doc
  /\ Go(k, "giveUp")
  /\ UNCHANGED <<blob, chunks, job, flow, faults>>

\* A bug: the freeze of an executed agreement does not cover chunk rows.
ChunksWritable_Always == TRUE

\* The chunk trigger refuses a change under an executed agreement.
ChunksWritable == ~doc.frozen

\* persistChunks: all chunk rows are replaced by new ones.
PersistChunks(k, b) ==
  /\ At(k, "publish")
  /\ IF ~OwnsGeneration(k) THEN Go(k, "giveUp") /\ UNCHANGED <<doc, chunks>>
     ELSE IF ~ChunksWritable THEN Go(k, "retry") /\ UNCHANGED <<doc, chunks>>
     ELSE /\ chunks' = [batch |-> b, generation |-> Generation(k), text |-> at[k].text]
          /\ doc' = [doc EXCEPT !.extraction = "EXTRACTED", !.verified = "SERVER_VERIFIED"]
          /\ Go(k, "complete")
  /\ UNCHANGED <<blob, job, flow, faults>>

-----------------------------------------------------------------------------
(* processOcr                                                                  *)

BeginOcr(k) ==
  /\ Kind(k) = "OCR" /\ At(k, "start")
  /\ Go(k, IF ~Usable THEN "retry"
           ELSE IF doc.generation # Generation(k) THEN "giveUp"
           ELSE IF job[k].operation THEN "poll" ELSE "submit")
  /\ UNCHANGED <<doc, blob, chunks, job, flow, faults>>

WaitExternal(k) ==
  /\ job' = [job EXCEPT ![k].status = "WAITING_EXTERNAL", ![k].operation = TRUE]
  /\ Leave(k)

SubmitOcr(k) ==
  /\ At(k, "submit")
  /\ \/ blob = "gone" /\ Go(k, "retry") /\ UNCHANGED job
     \/ blob = "altered" /\ Go(k, "altered") /\ UNCHANGED job
     \/ blob = "registered" /\ WaitExternal(k)
  /\ UNCHANGED <<doc, blob, chunks, flow, faults>>

\* The provider is still busy, or answers and the stored bytes are hashed again.
PollOcr(k) ==
  /\ At(k, "poll")
  /\ \/ WaitExternal(k)
     \/ blob = "gone" /\ Go(k, "retry") /\ UNCHANGED job
     \/ blob = "altered" /\ Go(k, "altered") /\ UNCHANGED job
     \/ blob = "registered" /\ UNCHANGED job /\ \E t \in Text : Carry(k, "publish", t)
  /\ UNCHANGED <<doc, blob, chunks, flow, faults>>

-----------------------------------------------------------------------------
(* What other parts of the system do to the document.                          *)

\* EXECUTE on a purge request: the pending marker, the file, the tombstone.
Purge ==
  /\ MayPurge
  /\ \/ Active /\ doc' = [doc EXCEPT !.deletion = "PENDING_PURGE"] /\ UNCHANGED blob
     \/ doc.deletion = "PENDING_PURGE" /\ blob' = "gone" /\ UNCHANGED doc
     \/ /\ doc.deletion = "PENDING_PURGE" /\ blob = "gone"
        /\ doc' = [doc EXCEPT !.deletion = "PURGED"] /\ UNCHANGED blob
  /\ UNCHANGED <<chunks, job, at, flow, faults>>

\* An agreement version that contains the document is executed.
Freeze ==
  /\ MayFreeze /\ ~doc.frozen /\ Usable
  /\ doc.extraction = "EXTRACTED" /\ doc.verified = "SERVER_VERIFIED"
  /\ doc' = [doc EXCEPT !.frozen = TRUE]
  /\ UNCHANGED <<blob, chunks, job, at, flow, faults>>

\* The stored file no longer matches what was registered.
Alter ==
  /\ MayAlter /\ blob = "registered" /\ blob' = "altered"
  /\ UNCHANGED <<doc, chunks, job, at, flow, faults>>

Init ==
  /\ doc \in [source : Source, security : {"PENDING"}, verified : {"CLIENT_HASHED"},
              extraction : {"PENDING"}, generation : {None}, deletion : {"ACTIVE"},
              frozen : {FALSE}]
  /\ blob = "registered"
  /\ chunks = [batch |-> None, generation |-> None, text |-> None]
  /\ job = [k \in Job |-> NoJob]
  /\ at = [k \in Job |-> Idle]
  /\ flow = [f \in Flow |-> "off"]
  /\ faults = 0

\* Everything but the insertion of chunk rows.
Process(k) ==
  \/ FailJob(k) \/ Complete(k)
  \/ BeginScan(k) \/ ScanBytes(k) \/ ApplyVerdict(k) \/ RecordScanFailure(k)
  \/ BeginExtract(k) \/ LoadAndParse(k) \/ BlockUnsupported(k) \/ HandOffToOcr(k)
  \/ RecordIntegrityFailure(k)
  \/ BeginOcr(k) \/ SubmitOcr(k) \/ PollOcr(k)

Drive(f) == Start(f) \/ StageSucceeds(f) \/ StageFails(f) \/ Inspect(f)

Publish(k) == \E b \in Batch \ {chunks.batch} : PersistChunks(k, b)

Next ==
  \/ \E f \in Flow : Drive(f)
  \/ \E k \in Job : Claim(k) \/ Displaced(k) \/ CallFails(k) \/ Process(k) \/ Publish(k)
  \/ Purge \/ Freeze \/ Alter

Spec == Init /\ [][Next]_vars

\* A failed run is started again by its user, the runtime drives every run, and
\* the OCR provider does not stay busy for ever.
Answered(k) == PollOcr(k) /\ job'[k].status # "WAITING_EXTERNAL"

Fairness ==
  /\ \A f \in Flow : WF_vars(Drive(f))
  /\ \A k \in Job : /\ WF_vars(Claim(k)) /\ WF_vars(Process(k)) /\ WF_vars(Publish(k))
                    /\ SF_vars(Answered(k))

FairSpec == Spec /\ Fairness

-----------------------------------------------------------------------------
(* Properties.                                                                 *)

\* A document that says EXTRACTED is clean and verified, and its chunks are those
\* of the generation it names, whatever scans, extractions and OCR children of
\* other versions were in flight (lib/jobProcessor.ts:103-120, 140-150, 164-235).
ExtractedIsEvidence ==
  /\ TypeOK
  /\ doc.extraction = "EXTRACTED" =>
       /\ doc.security = "CLEAN" /\ doc.verified = "SERVER_VERIFIED"
       /\ chunks.generation = doc.generation

\* Once a purge has started no new text is derived from the source, although
\* the extraction had passed its checks before (lib/jobProcessor.ts:144, 172, 198).
NoTextAfterPurgeStarts == [][~Active => chunks' = chunks]_vars

\* The stored file can no longer give this text, or nobody may ask for it.
Excused ==
  \/ blob # "registered" \/ ~Active \/ doc.frozen
  \/ doc.security = "QUARANTINED" \/ doc.source = "unsupported"

\* OPERATIONS_RUNBOOK.md:130: "If the external service fails, inspect the
\* processing job and rerun only after the root cause is addressed".  Once the
\* services answer again, running the pipeline again ends with extracted text.
RerunRecovers ==
  (\E f \in Flow : flow[f] = "failed")
    ~> (Excused \/ \E f \in Flow : flow[f] = "extracted")

\* OPERATIONS_RUNBOOK.md:87: "`QUARANTINED` is a terminal content block".
QuarantineIsTerminal ==
  [][doc.security = "QUARANTINED" => doc'.security = "QUARANTINED"]_vars

=============================================================================
