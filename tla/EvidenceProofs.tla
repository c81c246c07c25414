--------------------------- MODULE EvidenceProofs ---------------------------
(* Proofs about the intake of a source and about what is derived from its      *)
(* text, for any number of releases, runs of the pipeline and analysis runs.   *)
(*                                                                             *)
(* The argument.  IntakeInv says that the document row never claims more than  *)
(* its chunks carry, and that a queued stage job has an attempt left; no step  *)
(* of the intake needs more.  The analyses add what an execution knows when it *)
(* is about to publish: its job has a run, and under legal reliance a finding  *)
(* cites the chunk row that was read last (Publishable).  A step of the intake *)
(* changes neither the jobs of the analyses nor their findings, so the two     *)
(* invariants are kept apart.                                                  *)
(*                                                                             *)
(* With that, both keep what they share with other parts: the purge keeps the  *)
(* phases of TwoPhasePurge, and the jobs of the stages and of the analyses     *)
(* keep the contract of the queue (JobContract).  What the analyses make of    *)
(* their runs and findings is what the versions of an agreement take from them *)
(* (RunRegister); all it adds to the invariant is that only a run that ended   *)
(* well has findings (PublishedRuns).                                          *)
EXTENDS DerivedEvidence, TLAPS

JobRow == [status : {"ABSENT", "QUEUED", "RUNNING", "WAITING_EXTERNAL",
                     "SUCCEEDED", "FAILED"},
           attempts : 0 .. MaxAttempts, operation : BOOLEAN, delegated : BOOLEAN]
AtRow == [step : Step, text : Text \cup {None}]
DocRow == [source : Source, security : {"PENDING", "CLEAN", "QUARANTINED", "FAILED"},
           verified : {"CLIENT_HASHED", "SERVER_VERIFIED", "FAILED"},
           extraction : {"PENDING", "OCR_REQUIRED", "EXTRACTED", "FAILED"},
           generation : Version \cup {None},
           deletion : {"ACTIVE", "PENDING_PURGE", "PURGED"}, frozen : BOOLEAN]
ChunkRow == [batch : Batch \cup {None}, generation : Version \cup {None},
             text : Text \cup {None}]
FlowStages == {"off", "SCAN", "EXTRACT", "inspect", "OCR", "afterOcr", "extracted",
               "failed"}

\* A running job has an execution, a queued one has an attempt left, and only an
\* extraction reaches the hand-over, which writes two jobs at once.
JobsInOrder ==
  /\ job \in [Job -> JobRow] /\ at \in [Job -> AtRow]
  /\ \A k \in Job : job[k].status = "RUNNING" <=> at[k].step # "idle"
  /\ \A k \in Job : job[k].status = "QUEUED" => job[k].attempts < MaxAttempts
  /\ \A k \in Job : at[k].step \in {"load", "handoff"} => Kind(k) = "EXTRACT"

\* The row of the document claims no more than its chunks carry.
EvidenceInOrder ==
  /\ doc \in DocRow /\ chunks \in ChunkRow
  /\ doc.extraction = "EXTRACTED" =>
       /\ doc.security = "CLEAN" /\ doc.verified = "SERVER_VERIFIED"
       /\ chunks.generation = doc.generation

FlowsInOrder == flow \in [Flow -> FlowStages]

IntakeInv ==
  /\ JobsInOrder /\ EvidenceInOrder /\ FlowsInOrder
  /\ blob \in {"registered", "altered", "gone"} /\ faults \in 0 .. MaxFaults

-----------------------------------------------------------------------------
\* The inductive invariant contains the invariant the runs check.
LEMMA IntakeInvImplies == IntakeInv => ExtractedIsEvidence
BY DEF IntakeInv, JobsInOrder, EvidenceInOrder, FlowsInOrder, ExtractedIsEvidence,
       TypeOK, JobRow, AtRow, DocRow, ChunkRow, FlowStages

\* A document that was just uploaded claims nothing.
LEMMA InitIntake == Init => IntakeInv
<1> SUFFICES ASSUME Init PROVE IntakeInv
  OBVIOUS
<1>1. JobsInOrder
  BY BudgetAssumption DEF Init, JobsInOrder, NoJob, Idle, JobRow, AtRow, Step
<1>2. EvidenceInOrder
  BY DEF Init, EvidenceInOrder, DocRow, ChunkRow
<1>3. FlowsInOrder
  BY DEF Init, FlowsInOrder, FlowStages
<1> QED
  BY <1>1, <1>2, <1>3, BudgetAssumption DEF Init, IntakeInv

\* The jobs stay in order when one job and its execution are replaced by a pair
\* that is in order.
LEMMA OneJobMoves ==
  ASSUME JobsInOrder, NEW k \in Job, NEW j \in JobRow, NEW a \in AtRow,
         j.status = "RUNNING" <=> a.step # "idle",
         j.status = "QUEUED" => j.attempts < MaxAttempts,
         a.step \notin {"load", "handoff"},
         job' = [job EXCEPT ![k] = j], at' = [at EXCEPT ![k] = a]
  PROVE  JobsInOrder'
BY DEF JobsInOrder

\* enqueueJob leaves an execution alone and gives a new one its whole budget.
LEMMA EnqueuedInOrder ==
  ASSUME NEW j \in JobRow, j.status = "QUEUED" => j.attempts < MaxAttempts
  PROVE  /\ Enqueued(j) \in JobRow
         /\ (Enqueued(j).status = "RUNNING") <=> (j.status = "RUNNING")
         /\ Enqueued(j).status = "QUEUED" => Enqueued(j).attempts < MaxAttempts
<1> DEFINE new == [NoJob EXCEPT !.status = "QUEUED"]
<1>1. NoJob \in JobRow /\ NoJob.attempts = 0
  BY BudgetAssumption DEF NoJob, JobRow
<1>2. new \in JobRow /\ new.status = "QUEUED" /\ new.attempts < MaxAttempts
  BY <1>1, BudgetAssumption DEF JobRow
<1>3. CASE j.status \in {"ABSENT", "FAILED"}
  <2>1. Enqueued(j) = new
    BY <1>3 DEF Enqueued
  <2> HIDE DEF new
  <2> QED
    BY <2>1, <1>2, <1>3
<1>4. CASE j.status \notin {"ABSENT", "FAILED"}
  BY <1>4 DEF Enqueued
<1> QED
  BY <1>3, <1>4

\* A job that is enqueued keeps the jobs in order.
LEMMA EnqueueStep ==
  ASSUME JobsInOrder, NEW k \in Job, job' = [job EXCEPT ![k] = Enqueued(@)], at' = at
  PROVE  JobsInOrder'
<1>1. job[k] \in JobRow /\ (job[k].status = "QUEUED" => job[k].attempts < MaxAttempts)
  BY DEF JobsInOrder
<1> QED
  BY <1>1, EnqueuedInOrder DEF JobsInOrder

\* An execution that goes on, or is carried on with a text, keeps its job.
LEMMA ExecutionGoesOn ==
  ASSUME JobsInOrder, NEW k \in Job, at[k].step # "idle",
         NEW step \in Step \ {"idle"}, NEW text \in Text \cup {None},
         step \in {"load", "handoff"} => Kind(k) = "EXTRACT",
         at' = [at EXCEPT ![k] = [step |-> step, text |-> text]], job' = job
  PROVE  JobsInOrder'
BY DEF JobsInOrder, AtRow

\* An execution ends with its job settled in a state that is not a running one.
LEMMA ExecutionEnds ==
  ASSUME JobsInOrder, NEW k \in Job,
         NEW status \in {"WAITING_EXTERNAL", "SUCCEEDED", "FAILED"},
         NEW operation \in BOOLEAN,
         job' = [job EXCEPT ![k].status = status, ![k].operation = operation],
         Leave(k)
  PROVE  JobsInOrder'
<1> DEFINE j == [job[k] EXCEPT !.status = status, !.operation = operation]
<1>1. job[k] \in JobRow
  BY DEF JobsInOrder
<1>2. j \in JobRow /\ j.status \notin {"RUNNING", "QUEUED"}
  BY <1>1 DEF JobRow
<1>3. Idle \in AtRow /\ Idle.step = "idle"
  BY DEF Idle, AtRow, Step
<1>4. job' = [job EXCEPT ![k] = j]
  BY <1>1 DEF JobsInOrder
<1> HIDE DEF j
<1> QED
  BY <1>2, <1>3, <1>4, OneJobMoves DEF Leave

-----------------------------------------------------------------------------
(* The steps of the intake.                                                    *)

\* The pipeline moves its stage and enqueues the job of the next one.
LEMMA DriveKeeps ==
  ASSUME IntakeInv, NEW f \in Flow, Drive(f)
  PROVE  IntakeInv'
<1>1. \A kind \in {"SCAN", "EXTRACT", "OCR"} : <<kind, VersionOf[f]>> \in Job
  BY FlowAssumption DEF Job
<1>2. FlowsInOrder'
  BY DEF IntakeInv, FlowsInOrder, FlowStages, Drive, Start, StageSucceeds, StageFails,
         Inspect
<1>3. JobsInOrder'
  <2>1. \/ job' = job
        \/ \E k \in Job : job' = [job EXCEPT ![k] = Enqueued(@)]
    BY <1>1 DEF Drive, Start, StageSucceeds, StageFails, Inspect
  <2>2. at' = at
    BY DEF Drive, Start, StageSucceeds, StageFails, Inspect
  <2> QED
    BY <2>1, <2>2, EnqueueStep DEF IntakeInv, JobsInOrder
<1>4. doc' = doc /\ chunks' = chunks /\ blob' = blob /\ faults' = faults
  BY DEF Drive, Start, StageSucceeds, StageFails, Inspect
<1> QED
  BY <1>2, <1>3, <1>4 DEF IntakeInv, EvidenceInOrder

\* A claim begins an execution; only a queued job pays with an attempt.
LEMMA ClaimKeeps ==
  ASSUME IntakeInv, NEW k \in Job, Claim(k)
  PROVE  IntakeInv'
<1> DEFINE paid == IF job[k].status = "QUEUED" THEN job[k].attempts + 1
                   ELSE job[k].attempts
           j == [job[k] EXCEPT !.status = "RUNNING", !.attempts = paid]
           a == [step |-> "start", text |-> None]
<1>1. job[k] \in JobRow /\ (job[k].status = "QUEUED" => job[k].attempts < MaxAttempts)
  BY DEF IntakeInv, JobsInOrder
<1>2. paid \in 0 .. MaxAttempts
  BY <1>1, BudgetAssumption DEF JobRow
<1>3. job' = [job EXCEPT ![k] = j] /\ at' = [at EXCEPT ![k] = a]
  BY <1>1 DEF Claim, Go, IntakeInv, JobsInOrder
<1> HIDE DEF paid
<1>4. j \in JobRow /\ j.status = "RUNNING" /\ a \in AtRow /\ a.step = "start"
  BY <1>1, <1>2 DEF JobRow, AtRow, Step
<1> HIDE DEF j, a
<1>5. JobsInOrder'
  BY <1>3, <1>4, OneJobMoves DEF IntakeInv
<1> QED
  BY <1>5 DEF Claim, IntakeInv, EvidenceInOrder, FlowsInOrder

\* A displaced execution starts again with another attempt, or its job fails.
LEMMA DisplacedKeeps ==
  ASSUME IntakeInv, NEW k \in Job, Displaced(k)
  PROVE  IntakeInv'
<1>1. job[k] \in JobRow
  BY DEF IntakeInv, JobsInOrder
<1>2. JobsInOrder'
  <2>1. CASE job[k].attempts < MaxAttempts
    <3> DEFINE j == [job[k] EXCEPT !.attempts = @ + 1]
               a == [step |-> "start", text |-> None]
    <3>1. job' = [job EXCEPT ![k] = j] /\ at' = [at EXCEPT ![k] = a]
      BY <1>1, <2>1 DEF Displaced, Go, IntakeInv, JobsInOrder
    <3>2. job[k].attempts + 1 \in 0 .. MaxAttempts
      BY <1>1, <2>1, BudgetAssumption DEF JobRow
    <3>3. j \in JobRow /\ j.status = "RUNNING" /\ a \in AtRow /\ a.step = "start"
      BY <1>1, <3>2 DEF Displaced, JobRow, AtRow, Step
    <3> HIDE DEF j, a
    <3> QED
      BY <3>1, <3>3, OneJobMoves DEF IntakeInv
  <2>2. CASE ~(job[k].attempts < MaxAttempts)
    BY <2>2, ExecutionEnds DEF Displaced, Settle, IntakeInv
  <2> QED
    BY <2>1, <2>2
<1>3. faults' \in 0 .. MaxFaults
  BY BudgetAssumption DEF Displaced, IntakeInv
<1> QED
  BY <1>2, <1>3 DEF Displaced, IntakeInv, EvidenceInOrder, FlowsInOrder

\* A call that fails sends its execution to its failure path.
LEMMA CallFailsKeeps ==
  ASSUME IntakeInv, NEW k \in Job, CallFails(k)
  PROVE  IntakeInv'
<1>1. PICK step \in {"retry", "rejected", "scanFailed"} :
        at' = [at EXCEPT ![k] = [step |-> step, text |-> None]]
  BY DEF CallFails, Go
<1>2. at[k].step # "idle" /\ step \in Step \ {"idle"} /\ job' = job
  BY DEF CallFails, Step
<1>3. JobsInOrder'
  BY <1>1, <1>2, ExecutionGoesOn DEF IntakeInv
<1>4. faults' \in 0 .. MaxFaults
  BY BudgetAssumption DEF CallFails, IntakeInv
<1> QED
  BY <1>3, <1>4 DEF CallFails, IntakeInv, EvidenceInOrder, FlowsInOrder

\* failJob queues the job again while it has an attempt left.
LEMMA FailJobKeeps ==
  ASSUME IntakeInv, NEW k \in Job, FailJob(k)
  PROVE  IntakeInv'
<1> DEFINE again == ~At(k, "giveUp") /\ job[k].attempts < MaxAttempts
           j == [job[k] EXCEPT !.status = IF again THEN "QUEUED" ELSE "FAILED",
                               !.operation = @ /\ again /\ At(k, "retry")]
<1>1. job[k] \in JobRow
  BY DEF IntakeInv, JobsInOrder
<1>2. job' = [job EXCEPT ![k] = j] /\ at' = [at EXCEPT ![k] = Idle]
  BY <1>1 DEF FailJob, Leave, IntakeInv, JobsInOrder
<1>3. Idle \in AtRow /\ Idle.step = "idle"
  BY DEF Idle, AtRow, Step
<1>4. j \in JobRow /\ j.status # "RUNNING"
  BY <1>1 DEF JobRow, At
<1>5. j.status = "QUEUED" => j.attempts < MaxAttempts
  BY <1>1 DEF JobRow
<1> HIDE DEF j, again
<1>6. JobsInOrder'
  BY <1>2, <1>3, <1>4, <1>5, OneJobMoves DEF IntakeInv
<1> QED
  BY <1>6 DEF FailJob, IntakeInv, EvidenceInOrder, FlowsInOrder

\* completeJob ends the execution and nothing else.
LEMMA CompleteKeeps ==
  ASSUME IntakeInv, NEW k \in Job, Complete(k)
  PROVE  IntakeInv'
<1>1. JobsInOrder'
  BY ExecutionEnds DEF Complete, Settle, IntakeInv
<1> QED
  BY <1>1 DEF Complete, IntakeInv, EvidenceInOrder, FlowsInOrder

\* A step that leaves the jobs to their places and the document to itself.
LEMMA OnlyTheExecution ==
  ASSUME IntakeInv, NEW k \in Job, at[k].step # "idle",
         NEW step \in Step \ {"idle"}, NEW text \in Text \cup {None},
         step \in {"load", "handoff"} => Kind(k) = "EXTRACT",
         at' = [at EXCEPT ![k] = [step |-> step, text |-> text]],
         UNCHANGED <<doc, blob, chunks, job, flow, faults>>
  PROVE  IntakeInv'
<1>1. JobsInOrder'
  BY ExecutionGoesOn DEF IntakeInv
<1> QED
  BY <1>1 DEF IntakeInv, EvidenceInOrder, FlowsInOrder

\* A scan reads the row, then the bytes, and writes nothing.
LEMMA ScanReads ==
  ASSUME IntakeInv, NEW k \in Job, BeginScan(k) \/ ScanBytes(k)
  PROVE  IntakeInv'
<1>1. PICK step \in {"giveUp", "complete", "scanning", "scanFailed", "scanRefused",
                      "clean", "threat"} :
        at' = [at EXCEPT ![k] = [step |-> step, text |-> None]]
  BY SwitchAssumption DEF BeginScan, ScanBytes, Go
<1>2. step \in Step \ {"idle"} /\ at[k].step # "idle"
  BY DEF BeginScan, ScanBytes, At, Step
<1>3. UNCHANGED <<doc, blob, chunks, job, flow, faults>>
  BY DEF BeginScan, ScanBytes
<1> QED
  BY <1>1, <1>2, <1>3, OnlyTheExecution

\* The verdict makes the document clean, or blocks its extraction.
LEMMA ApplyVerdictKeeps ==
  ASSUME IntakeInv, NEW k \in Job, ApplyVerdict(k)
  PROVE  IntakeInv'
<1>1. UNCHANGED <<blob, chunks, flow, faults>> /\ at[k].step # "idle"
  BY DEF ApplyVerdict
<1>2. EvidenceInOrder'
  BY DEF ApplyVerdict, At, IntakeInv, EvidenceInOrder, DocRow
<1>3. JobsInOrder'
  <2>1. CASE Active
    <3>1. PICK status \in {"SUCCEEDED", "FAILED"} :
            job' = [job EXCEPT ![k].status = status, ![k].operation = FALSE]
      BY <2>1 DEF ApplyVerdict, Settle
    <3>2. Leave(k)
      BY <2>1 DEF ApplyVerdict
    <3> QED
      BY <3>1, <3>2, ExecutionEnds DEF IntakeInv
  <2>2. CASE ~Active
    BY <2>2, <1>1, ExecutionGoesOn DEF ApplyVerdict, Go, IntakeInv, Step
  <2> QED
    BY <2>1, <2>2
<1> QED
  BY <1>1, <1>2, <1>3 DEF IntakeInv, FlowsInOrder

\* A scan that failed takes the extraction of an earlier scan with it.
LEMMA RecordScanFailureKeeps ==
  ASSUME IntakeInv, NEW k \in Job, RecordScanFailure(k)
  PROVE  IntakeInv'
<1>1. EvidenceInOrder'
  BY DEF RecordScanFailure, ScanFailed, IntakeInv, EvidenceInOrder, DocRow
<1>2. PICK step \in {"retry", "giveUp"} :
        at' = [at EXCEPT ![k] = [step |-> step, text |-> None]]
  BY DEF RecordScanFailure, Go
<1>3. step \in Step \ {"idle"} /\ at[k].step # "idle" /\ job' = job
  BY DEF RecordScanFailure, Step
<1>4. JobsInOrder'
  BY <1>2, <1>3, ExecutionGoesOn DEF IntakeInv
<1> QED
  BY <1>1, <1>4 DEF RecordScanFailure, IntakeInv, FlowsInOrder

\* The claim of a generation withdraws the text of the generation before it.
LEMMA BeginExtractKeeps ==
  ASSUME IntakeInv, NEW k \in Job, BeginExtract(k)
  PROVE  IntakeInv'
<1>1. Generation(k) \in Version
  BY DEF Job, Generation
<1>2. EvidenceInOrder'
  BY <1>1 DEF BeginExtract, IntakeInv, EvidenceInOrder, DocRow
<1>3. PICK step \in {"retry", "giveUp", "load"} :
        at' = [at EXCEPT ![k] = [step |-> step, text |-> None]]
  BY DEF BeginExtract, Go
<1>4. /\ step \in Step \ {"idle"} /\ at[k].step # "idle" /\ job' = job
      /\ Kind(k) = "EXTRACT"
  BY DEF BeginExtract, At, Step
<1>5. JobsInOrder'
  BY <1>3, <1>4, ExecutionGoesOn DEF IntakeInv
<1> QED
  BY <1>2, <1>5 DEF BeginExtract, IntakeInv, FlowsInOrder

\* Loading and parsing only moves the execution.
LEMMA LoadAndParseKeeps ==
  ASSUME IntakeInv, NEW k \in Job, LoadAndParse(k)
  PROVE  IntakeInv'
<1>1. doc.source \in {"text", "image", "unsupported"}
  BY SwitchAssumption DEF IntakeInv, EvidenceInOrder, DocRow
<1>2. PICK step \in {"retry", "altered", "handoff", "unsupported", "publish"},
           text \in Text \cup {None} :
        at' = [at EXCEPT ![k] = [step |-> step, text |-> text]]
  BY <1>1 DEF LoadAndParse, Go, Carry
<1>3. step \in Step \ {"idle"} /\ at[k].step # "idle" /\ Kind(k) = "EXTRACT"
  BY DEF LoadAndParse, At, Step, IntakeInv, JobsInOrder
<1>4. UNCHANGED <<doc, blob, chunks, job, flow, faults>>
  BY DEF LoadAndParse
<1> QED
  BY <1>2, <1>3, <1>4, OnlyTheExecution

\* An unsupported file is blocked together with its job.
LEMMA BlockUnsupportedKeeps ==
  ASSUME IntakeInv, NEW k \in Job, BlockUnsupported(k)
  PROVE  IntakeInv'
<1>1. EvidenceInOrder'
  BY DEF BlockUnsupported, IntakeInv, EvidenceInOrder, DocRow
<1>2. JobsInOrder'
  <2>1. CASE OwnsGeneration(k)
    BY <2>1, ExecutionEnds DEF BlockUnsupported, Settle, IntakeInv
  <2>2. CASE ~OwnsGeneration(k)
    BY <2>2, ExecutionGoesOn DEF BlockUnsupported, Go, IntakeInv, At, Step
  <2> QED
    BY <2>1, <2>2
<1> QED
  BY <1>1, <1>2 DEF BlockUnsupported, IntakeInv, FlowsInOrder

\* The handover ends the extraction and enqueues the OCR of its generation.
LEMMA HandOffKeeps ==
  ASSUME IntakeInv, NEW k \in Job, HandOffToOcr(k)
  PROVE  IntakeInv'
<1>1. EvidenceInOrder'
  BY DEF HandOffToOcr, IntakeInv, EvidenceInOrder, DocRow
<1>2. JobsInOrder'
  <2>1. CASE OwnsGeneration(k) /\ OcrConfigured
    <3> DEFINE child == <<"OCR", Generation(k)>>
               handed == [job[k] EXCEPT !.status = "SUCCEEDED", !.delegated = TRUE]
               between == [job EXCEPT ![k] = handed]
    <3>1. child \in Job /\ job[k] \in JobRow /\ child # k
      BY DEF Job, Generation, Kind, HandOffToOcr, At, IntakeInv, JobsInOrder
    <3>2. handed \in JobRow /\ handed.status = "SUCCEEDED"
      BY <3>1 DEF JobRow
    <3>3. job' = [between EXCEPT ![child] = Enqueued(between[child])]
      BY <2>1, <3>1 DEF HandOffToOcr, IntakeInv, JobsInOrder
    <3>4. at' = [at EXCEPT ![k] = Idle] /\ Idle \in AtRow /\ Idle.step = "idle"
      BY <2>1 DEF HandOffToOcr, Leave, Idle, AtRow, Step
    <3> HIDE DEF handed, child
    <3>5. /\ between \in [Job -> JobRow]
          /\ \A o \in Job : between[o].status = "RUNNING" <=> at'[o].step # "idle"
          /\ \A o \in Job : between[o].status = "QUEUED"
                              => between[o].attempts < MaxAttempts
      BY <3>2, <3>4 DEF IntakeInv, JobsInOrder
    <3> HIDE DEF between
    <3>6. /\ Enqueued(between[child]) \in JobRow
          /\ (Enqueued(between[child]).status = "RUNNING")
               <=> (between[child].status = "RUNNING")
          /\ Enqueued(between[child]).status = "QUEUED"
               => Enqueued(between[child]).attempts < MaxAttempts
      BY <3>1, <3>5, EnqueuedInOrder
    <3> QED
      BY <3>1, <3>3, <3>4, <3>5, <3>6 DEF IntakeInv, JobsInOrder
  <2>2. CASE ~(OwnsGeneration(k) /\ OcrConfigured)
    <3>1. PICK step \in {"retry", "giveUp"} :
            at' = [at EXCEPT ![k] = [step |-> step, text |-> None]]
      BY <2>2 DEF HandOffToOcr, Go
    <3>2. step \in Step \ {"idle"} /\ at[k].step # "idle" /\ job' = job
      BY <2>2 DEF HandOffToOcr, At, Step
    <3> QED
      BY <3>1, <3>2, ExecutionGoesOn DEF IntakeInv
  <2> QED
    BY <2>1, <2>2
<1> QED
  BY <1>1, <1>2 DEF HandOffToOcr, IntakeInv, FlowsInOrder

\* A failed integrity check withdraws the text of the generation it is for.
LEMMA IntegrityFailureKeeps ==
  ASSUME IntakeInv, NEW k \in Job, RecordIntegrityFailure(k)
  PROVE  IntakeInv'
<1>1. EvidenceInOrder'
  BY DEF RecordIntegrityFailure, IntakeInv, EvidenceInOrder, DocRow
<1>2. JobsInOrder'
  BY ExecutionGoesOn DEF RecordIntegrityFailure, Go, IntakeInv, At, Step
<1> QED
  BY <1>1, <1>2 DEF RecordIntegrityFailure, IntakeInv, FlowsInOrder

\* The OCR of a document waits for its provider, or moves on.
LEMMA OcrKeeps ==
  ASSUME IntakeInv, NEW k \in Job, BeginOcr(k) \/ SubmitOcr(k) \/ PollOcr(k)
  PROVE  IntakeInv'
<1>1. UNCHANGED <<doc, blob, chunks, flow, faults>> /\ at[k].step # "idle"
  BY DEF BeginOcr, SubmitOcr, PollOcr, At
<1>2. CASE WaitExternal(k)
  <2>1. JobsInOrder'
    BY <1>2, ExecutionEnds DEF WaitExternal, IntakeInv
  <2> QED
    BY <1>1, <2>1 DEF IntakeInv, EvidenceInOrder, FlowsInOrder
<1>3. CASE ~WaitExternal(k)
  <2>1. PICK step \in {"retry", "giveUp", "poll", "submit", "altered", "publish"},
             text \in Text \cup {None} :
          at' = [at EXCEPT ![k] = [step |-> step, text |-> text]]
    BY <1>3 DEF BeginOcr, SubmitOcr, PollOcr, Go, Carry
  <2>2. step \in Step \ {"idle"} /\ job' = job
    BY <1>3 DEF BeginOcr, SubmitOcr, PollOcr, Step
  <2> QED
    BY <1>1, <2>1, <2>2, OnlyTheExecution
<1> QED
  BY <1>2, <1>3

\* persistChunks makes the document say EXTRACTED only of the generation whose
\* text it writes, and only while the document is clean.
LEMMA PersistChunksKeeps ==
  ASSUME IntakeInv, NEW k \in Job, NEW b \in Batch, PersistChunks(k, b)
  PROVE  IntakeInv'
<1>1. at[k].text \in Text \cup {None} /\ Generation(k) \in Version
  BY DEF IntakeInv, JobsInOrder, AtRow, Job, Generation
<1>2. EvidenceInOrder'
  <2>1. CASE UNCHANGED <<doc, chunks>>
    BY <2>1 DEF IntakeInv, EvidenceInOrder
  <2>2. CASE ~UNCHANGED <<doc, chunks>>
    <3>1. /\ OwnsGeneration(k)
          /\ chunks' = [batch |-> b, generation |-> Generation(k), text |-> at[k].text]
          /\ doc' = [doc EXCEPT !.extraction = "EXTRACTED",
                                !.verified = "SERVER_VERIFIED"]
      BY <2>2 DEF PersistChunks
    <3>2. doc \in DocRow /\ chunks' \in ChunkRow /\ chunks'.generation = Generation(k)
      BY <1>1, <3>1 DEF IntakeInv, EvidenceInOrder, ChunkRow
    <3>3. /\ doc' \in DocRow /\ doc'.security = doc.security
          /\ doc'.generation = doc.generation /\ doc'.verified = "SERVER_VERIFIED"
      BY <3>1, <3>2 DEF DocRow
    <3> QED
      BY <3>1, <3>2, <3>3 DEF OwnsGeneration, Usable, EvidenceInOrder
  <2> QED
    BY <2>1, <2>2
<1>3. PICK step \in {"retry", "giveUp", "complete"} :
        at' = [at EXCEPT ![k] = [step |-> step, text |-> None]]
  BY DEF PersistChunks, Go
<1>4. step \in Step \ {"idle"} /\ at[k].step # "idle" /\ job' = job
  BY DEF PersistChunks, At, Step
<1>5. JobsInOrder'
  BY <1>3, <1>4, ExecutionGoesOn DEF IntakeInv
<1> QED
  BY <1>2, <1>5 DEF PersistChunks, IntakeInv, FlowsInOrder

\* Purge, freeze and alteration leave the claims of the row alone.
LEMMA OthersKeep ==
  ASSUME IntakeInv, Purge \/ Freeze \/ Alter
  PROVE  IntakeInv'
<1>1. EvidenceInOrder'
  BY DEF Purge, Freeze, Alter, IntakeInv, EvidenceInOrder, DocRow
<1>2. blob' \in {"registered", "altered", "gone"}
  BY DEF Purge, Freeze, Alter, IntakeInv
<1>3. UNCHANGED <<job, at, flow, faults>>
  BY DEF Purge, Freeze, Alter
<1> QED
  BY <1>1, <1>2, <1>3 DEF IntakeInv, JobsInOrder, FlowsInOrder

\* What every execution does on its own.
LEMMA ProcessKeeps ==
  ASSUME IntakeInv, NEW k \in Job, Process(k)
  PROVE  IntakeInv'
BY FailJobKeeps, CompleteKeeps, ScanReads, ApplyVerdictKeeps, RecordScanFailureKeeps,
   BeginExtractKeeps, LoadAndParseKeeps, BlockUnsupportedKeeps, HandOffKeeps,
   IntegrityFailureKeeps, OcrKeeps DEF Process

\* A step that changes no variable of the intake keeps its invariant.
LEMMA IntakeStutters ==
  ASSUME IntakeInv, UNCHANGED vars
  PROVE  IntakeInv'
BY DEF IntakeInv, JobsInOrder, EvidenceInOrder, FlowsInOrder, vars

\* Every step of the intake keeps the inductive invariant.
LEMMA IntakeInvStep == IntakeInv /\ [Next]_vars => IntakeInv'
<1> SUFFICES ASSUME IntakeInv, [Next]_vars PROVE IntakeInv'
  OBVIOUS
<1>1. CASE \E f \in Flow : Drive(f)
  BY <1>1, DriveKeeps
<1>2. ASSUME NEW k \in Job,
             Claim(k) \/ Displaced(k) \/ CallFails(k) \/ Process(k) \/ Publish(k)
      PROVE  IntakeInv'
  BY <1>2, ClaimKeeps, DisplacedKeeps, CallFailsKeeps, ProcessKeeps, PersistChunksKeeps
     DEF Publish
<1>3. CASE Purge \/ Freeze \/ Alter
  BY <1>3, OthersKeep
<1>4. CASE UNCHANGED vars
  BY <1>4, IntakeStutters
<1> QED
  BY <1>1, <1>2, <1>3, <1>4 DEF Next

-----------------------------------------------------------------------------
(* Theorems about the intake.                                                  *)

\* A document that says EXTRACTED is clean and verified, and its chunks are of
\* the generation it names, whatever other scans, extractions and OCR children
\* were in flight (lib/jobProcessor.ts:103-120, 140-150, 164-235).
THEOREM ExtractedIsEvidenceHolds == Spec => []ExtractedIsEvidence
BY InitIntake, IntakeInvStep, IntakeInvImplies, PTL DEF Spec

\* No step of the intake derives text from a source whose purge has started
\* (lib/jobProcessor.ts:144, 172, 198).
LEMMA NoTextAfterPurgeStep == [Next]_vars => [~Active => chunks' = chunks]_vars
<1> SUFFICES ASSUME Next, ~Active PROVE chunks' = chunks
  OBVIOUS
<1>1. ASSUME NEW f \in Flow, Drive(f) PROVE chunks' = chunks
  BY <1>1 DEF Drive, Start, StageSucceeds, StageFails, Inspect
<1>2. ASSUME NEW k \in Job, Claim(k) \/ Displaced(k) \/ CallFails(k)
      PROVE  chunks' = chunks
  BY <1>2 DEF Claim, Displaced, CallFails
<1>3. ASSUME NEW k \in Job, Process(k) PROVE chunks' = chunks
  BY <1>3 DEF Process, FailJob, Complete, BeginScan, ScanBytes, ApplyVerdict,
     RecordScanFailure, BeginExtract, LoadAndParse, BlockUnsupported, HandOffToOcr,
     RecordIntegrityFailure, BeginOcr, SubmitOcr, PollOcr
<1>4. ASSUME NEW k \in Job, Publish(k) PROVE chunks' = chunks
  BY <1>4 DEF Publish, PersistChunks, OwnsGeneration, Usable
<1>5. ASSUME Purge \/ Freeze \/ Alter PROVE chunks' = chunks
  BY <1>5 DEF Purge, Freeze, Alter
<1> QED
  BY <1>1, <1>2, <1>3, <1>4, <1>5 DEF Next

\* Once a purge has started no new text is derived from the source, although
\* the extraction had passed its checks before (lib/jobProcessor.ts:144, 172, 198).
THEOREM NoTextAfterPurgeStartsHolds == Spec => NoTextAfterPurgeStarts
BY NoTextAfterPurgeStep, PTL DEF Spec, NoTextAfterPurgeStarts

-----------------------------------------------------------------------------
(* What the intake keeps of the purge, and counts on of the queue.             *)

Phases == INSTANCE TwoPhasePurge WITH
  state <- doc.deletion, stored <- blob # "gone"

\* No handler of the pipeline touches the marker or the stored file.
LEMMA PipelineLeavesPurge ==
  ASSUME IntakeInv,
         \/ \E f \in Flow : Drive(f)
         \/ \E k \in Job :
              Claim(k) \/ Displaced(k) \/ CallFails(k) \/ Process(k) \/ Publish(k)
  PROVE  doc'.deletion = doc.deletion /\ blob' = blob
<1>1. doc \in DocRow
  BY DEF IntakeInv, EvidenceInOrder
<1>2. ASSUME NEW f \in Flow, Drive(f) PROVE doc' = doc /\ blob' = blob
  BY <1>2 DEF Drive, Start, StageSucceeds, StageFails, Inspect
<1>3. ASSUME NEW k \in Job, Claim(k) \/ Displaced(k) \/ CallFails(k)
      PROVE  doc' = doc /\ blob' = blob
  BY <1>3 DEF Claim, Displaced, CallFails
<1>4. ASSUME NEW k \in Job, Process(k)
      PROVE  doc'.deletion = doc.deletion /\ blob' = blob
  <2>1. CASE ApplyVerdict(k) \/ RecordScanFailure(k)
    BY <1>1, <2>1 DEF ApplyVerdict, RecordScanFailure, ScanFailed, DocRow
  <2>2. CASE BeginExtract(k) \/ BlockUnsupported(k) \/ HandOffToOcr(k)
    BY <1>1, <2>2 DEF BeginExtract, BlockUnsupported, HandOffToOcr, DocRow
  <2>3. CASE RecordIntegrityFailure(k)
    BY <1>1, <2>3 DEF RecordIntegrityFailure, DocRow
  <2>4. CASE FailJob(k) \/ Complete(k) \/ BeginScan(k) \/ ScanBytes(k)
               \/ LoadAndParse(k) \/ BeginOcr(k) \/ SubmitOcr(k) \/ PollOcr(k)
    BY <2>4 DEF FailJob, Complete, BeginScan, ScanBytes, LoadAndParse, BeginOcr,
       SubmitOcr, PollOcr
  <2> QED
    BY <1>4, <2>1, <2>2, <2>3, <2>4 DEF Process
<1>5. ASSUME NEW k \in Job, Publish(k)
      PROVE  doc'.deletion = doc.deletion /\ blob' = blob
  BY <1>1, <1>5 DEF Publish, PersistChunks, DocRow
<1> QED
  BY <1>2, <1>3, <1>4, <1>5

LEMMA PhaseStep ==
  ASSUME IntakeInv, [Next]_vars
  PROVE  [Phases!Next]_<<doc.deletion, blob # "gone">>
<1>1. doc \in DocRow /\ blob \in {"registered", "altered", "gone"}
  BY DEF IntakeInv, EvidenceInOrder
<1>2. CASE doc'.deletion = doc.deletion /\ blob' = blob
  BY <1>2
<1>3. CASE Purge
  <2>1. CASE Active /\ doc' = [doc EXCEPT !.deletion = "PENDING_PURGE"] /\ blob' = blob
    BY <1>1, <2>1 DEF Active, Phases!Next, Phases!Mark, DocRow
  <2>2. CASE doc.deletion = "PENDING_PURGE" /\ blob' = "gone" /\ doc' = doc
    BY <1>1, <2>2 DEF Phases!Next, Phases!Destroy
  <2>3. CASE /\ doc.deletion = "PENDING_PURGE" /\ blob = "gone"
             /\ doc' = [doc EXCEPT !.deletion = "PURGED"] /\ blob' = blob
    BY <1>1, <2>3 DEF Phases!Next, Phases!Record, DocRow
  <2> QED
    BY <1>3, <2>1, <2>2, <2>3 DEF Purge
<1>4. CASE Freeze \/ Alter
  <2>1. doc'.deletion = doc.deletion
    BY <1>1, <1>4 DEF Freeze, Alter, DocRow
  <2>2. (blob' # "gone") = (blob # "gone")
    BY <1>1, <1>4 DEF Freeze, Alter
  <2> QED
    BY <2>1, <2>2
<1>5. CASE UNCHANGED vars
  BY <1>5, <1>2 DEF vars
<1> QED
  BY <1>2, <1>3, <1>4, <1>5, PipelineLeavesPurge DEF Next

LEMMA PhaseInit == Init => Phases!Init
BY DEF Init, Phases!Init

\* The purge the intake assumes keeps the two phases that the handlers of the
\* purge keep (SourcePurge), whatever the pipeline does meanwhile (README.md:114).
THEOREM IntakeKeepsPhases == Spec => Phases!Spec
<1>1. Spec => []IntakeInv
  BY InitIntake, IntakeInvStep, PTL DEF Spec
<1> QED
  BY <1>1, PhaseInit, PhaseStep, PTL DEF Spec, Phases!Spec

\* What a waiting stage sees of a row.
SeenOf(j) == [status |-> j.status, attempts |-> j.attempts]

StageJobs == INSTANCE JobContract WITH state <- [k \in Job |-> SeenOf(job[k])]

\* A row stays as it is seen, or moves as the contract allows.
Kept(old, new) ==
  SeenOf(new) = SeenOf(old) \/ StageJobs!Moves(SeenOf(old), SeenOf(new))

\* Rows that are kept make a step of the contract.
LEMMA RowsKept ==
  ASSUME JobsInOrder, JobsInOrder', \A k \in Job : Kept(job[k], job'[k])
  PROVE  StageJobs!Next
<1>1. [k \in Job |-> SeenOf(job'[k])] \in [Job -> StageJobs!Life]
  BY BudgetAssumption DEF JobsInOrder, JobRow, SeenOf, StageJobs!Life
<1> QED
  BY <1>1 DEF StageJobs!Next, Kept

LEMMA OneRowKept ==
  ASSUME JobsInOrder, NEW k \in Job, NEW j, Kept(job[k], j), job' = [job EXCEPT ![k] = j]
  PROVE  \A o \in Job : Kept(job[o], job'[o])
BY DEF JobsInOrder, Kept

\* enqueueJob starts a failed job over and leaves any other alone.
LEMMA EnqueuedKept ==
  ASSUME NEW j \in JobRow
  PROVE  Kept(j, Enqueued(j))
<1>1. CASE j.status \in {"ABSENT", "FAILED"}
  <2>1. SeenOf(Enqueued(j)) = [status |-> "QUEUED", attempts |-> 0]
    BY <1>1 DEF Enqueued, NoJob, SeenOf
  <2> QED
    BY <1>1, <2>1 DEF Kept, StageJobs!Moves, StageJobs!Enqueue, StageJobs!Seen, SeenOf
<1>2. CASE j.status \notin {"ABSENT", "FAILED"}
  BY <1>2 DEF Enqueued, Kept
<1> QED
  BY <1>1, <1>2

\* An execution ends its job, or leaves it waiting.
LEMMA SettledKept ==
  ASSUME JobsInOrder, NEW k \in Job, at[k].step # "idle",
         NEW status \in {"WAITING_EXTERNAL", "SUCCEEDED", "FAILED"},
         NEW operation \in BOOLEAN,
         job' = [job EXCEPT ![k].status = status, ![k].operation = operation]
  PROVE  \A o \in Job : Kept(job[o], job'[o])
<1> DEFINE j == [job[k] EXCEPT !.status = status, !.operation = operation]
<1>1. job[k] \in JobRow /\ job[k].status = "RUNNING"
  BY DEF JobsInOrder
<1>2. SeenOf(j) = [status |-> status, attempts |-> job[k].attempts]
  BY <1>1 DEF SeenOf, JobRow
<1>3. job' = [job EXCEPT ![k] = j]
  BY <1>1 DEF JobsInOrder
<1> HIDE DEF j
<1>4. Kept(job[k], j)
  BY <1>1, <1>2 DEF Kept, SeenOf, StageJobs!Moves, StageJobs!EndOrWait, StageJobs!Seen
<1> QED
  BY <1>3, <1>4, OneRowKept

LEMMA ClaimedKept ==
  ASSUME IntakeInv, NEW k \in Job, Claim(k)
  PROVE  \A o \in Job : Kept(job[o], job'[o])
<1> DEFINE paid == IF job[k].status = "QUEUED" THEN job[k].attempts + 1
                   ELSE job[k].attempts
           j == [job[k] EXCEPT !.status = "RUNNING", !.attempts = paid]
<1>1. job[k] \in JobRow /\ (job[k].status = "QUEUED" => job[k].attempts < MaxAttempts)
  BY DEF IntakeInv, JobsInOrder
<1>2. job' = [job EXCEPT ![k] = j]
  BY <1>1 DEF Claim, IntakeInv, JobsInOrder
<1>3. SeenOf(j) = [status |-> "RUNNING", attempts |-> paid]
  BY <1>1 DEF SeenOf, JobRow
<1>4. job[k].status \in {"QUEUED", "WAITING_EXTERNAL"}
  BY DEF Claim
<1> HIDE DEF j
<1>5. Kept(job[k], j)
  BY <1>1, <1>3, <1>4 DEF Kept, SeenOf, StageJobs!Moves, StageJobs!Run, StageJobs!Seen
<1> QED
  BY <1>2, <1>5, OneRowKept DEF IntakeInv

LEMMA DisplacedKept ==
  ASSUME IntakeInv, NEW k \in Job, Displaced(k)
  PROVE  \A o \in Job : Kept(job[o], job'[o])
<1>1. job[k] \in JobRow /\ job[k].status = "RUNNING" /\ at[k].step # "idle"
  BY DEF Displaced, IntakeInv, JobsInOrder
<1>2. CASE job[k].attempts < MaxAttempts
  <2> DEFINE j == [job[k] EXCEPT !.attempts = @ + 1]
  <2>1. job' = [job EXCEPT ![k] = j]
    BY <1>1, <1>2 DEF Displaced, IntakeInv, JobsInOrder
  <2>2. SeenOf(j) = [status |-> "RUNNING", attempts |-> job[k].attempts + 1]
    BY <1>1 DEF SeenOf, JobRow
  <2> HIDE DEF j
  <2>3. Kept(job[k], j)
    BY <1>1, <1>2, <2>2 DEF Kept, SeenOf, StageJobs!Moves, StageJobs!Run, StageJobs!Seen
  <2> QED
    BY <2>1, <2>3, OneRowKept DEF IntakeInv
<1>3. CASE ~(job[k].attempts < MaxAttempts)
  BY <1>1, <1>3, SettledKept DEF Displaced, Settle, IntakeInv
<1> QED
  BY <1>2, <1>3

LEMMA FailedKept ==
  ASSUME IntakeInv, NEW k \in Job, FailJob(k)
  PROVE  \A o \in Job : Kept(job[o], job'[o])
<1> DEFINE again == ~At(k, "giveUp") /\ job[k].attempts < MaxAttempts
           status == IF again THEN "QUEUED" ELSE "FAILED"
           j == [job[k] EXCEPT !.status = status, !.operation = @ /\ again /\ At(k, "retry")]
<1>1. job[k] \in JobRow /\ job[k].status = "RUNNING"
  BY DEF FailJob, IntakeInv, JobsInOrder
<1>2. job' = [job EXCEPT ![k] = j]
  BY <1>1 DEF FailJob, IntakeInv, JobsInOrder
<1>3. SeenOf(j) = [status |-> status, attempts |-> job[k].attempts]
  BY <1>1 DEF SeenOf, JobRow
<1>4. (status = "QUEUED" /\ job[k].attempts < MaxAttempts) \/ status = "FAILED"
  OBVIOUS
<1> HIDE DEF j, status
<1>5. Kept(job[k], j)
  BY <1>1, <1>3, <1>4 DEF Kept, SeenOf, StageJobs!Moves, StageJobs!Retry,
     StageJobs!EndOrWait, StageJobs!Seen
<1> QED
  BY <1>2, <1>5, OneRowKept DEF IntakeInv

\* The extraction ends and its OCR is enqueued: two jobs move in one step.
LEMMA HandOffKept ==
  ASSUME IntakeInv, NEW k \in Job, HandOffToOcr(k), OwnsGeneration(k), OcrConfigured
  PROVE  \A o \in Job : Kept(job[o], job'[o])
<1> DEFINE child == <<"OCR", Generation(k)>>
           handed == [job[k] EXCEPT !.status = "SUCCEEDED", !.delegated = TRUE]
<1>1. child \in Job /\ child # k /\ job[k] \in JobRow /\ job[child] \in JobRow
  BY DEF Job, Generation, Kind, HandOffToOcr, At, IntakeInv, JobsInOrder
<1>2. job[k].status = "RUNNING"
  BY DEF HandOffToOcr, At, IntakeInv, JobsInOrder
<1>3. /\ job'[k] = handed /\ job'[child] = Enqueued(job[child])
      /\ \A o \in Job \ {k, child} : job'[o] = job[o]
  BY <1>1 DEF HandOffToOcr, IntakeInv, JobsInOrder
<1>4. SeenOf(handed) = [status |-> "SUCCEEDED", attempts |-> job[k].attempts]
  BY <1>1 DEF SeenOf, JobRow
<1> HIDE DEF handed, child
<1>5. Kept(job[k], handed)
  BY <1>2, <1>4 DEF Kept, SeenOf, StageJobs!Moves, StageJobs!EndOrWait, StageJobs!Seen
<1>6. Kept(job[child], job'[child])
  BY <1>1, <1>3, EnqueuedKept
<1>7. \A o \in Job \ {k, child} : Kept(job[o], job'[o])
  BY <1>3 DEF Kept
<1> QED
  BY <1>3, <1>5, <1>6, <1>7

\* Every step of the intake is a step of the contract of its jobs, or leaves them.
LEMMA ContractStep ==
  ASSUME IntakeInv, [Next]_vars
  PROVE  [StageJobs!Next]_([k \in Job |-> SeenOf(job[k])])
<1>1. JobsInOrder /\ JobsInOrder'
  BY IntakeInvStep DEF IntakeInv
<1>2. CASE job' = job
  BY <1>2
<1>3. ASSUME NEW f \in Flow, Drive(f) PROVE \A o \in Job : Kept(job[o], job'[o])
  <2>1. \A kind \in {"SCAN", "EXTRACT", "OCR"} : <<kind, VersionOf[f]>> \in Job
    BY FlowAssumption DEF Job
  <2>2. CASE job' = job
    BY <2>2 DEF Kept
  <2>3. CASE \E k \in Job : job' = [job EXCEPT ![k] = Enqueued(@)]
    <3>1. PICK k \in Job : job' = [job EXCEPT ![k] = Enqueued(job[k])]
      BY <2>3
    <3>2. Kept(job[k], Enqueued(job[k]))
      BY <1>1, EnqueuedKept DEF JobsInOrder
    <3> QED
      BY <1>1, <3>1, <3>2, OneRowKept
  <2> QED
    BY <1>3, <2>1, <2>2, <2>3 DEF Drive, Start, StageSucceeds, StageFails, Inspect
<1>4. ASSUME NEW k \in Job, Process(k), job' # job
      PROVE  \A o \in Job : Kept(job[o], job'[o])
  <2>1. CASE Complete(k) \/ ApplyVerdict(k) \/ BlockUnsupported(k)
    <3>1. at[k].step # "idle"
      BY <2>1 DEF Complete, ApplyVerdict, BlockUnsupported, At
    <3>2. PICK status \in {"SUCCEEDED", "FAILED"} :
            job' = [job EXCEPT ![k].status = status, ![k].operation = FALSE]
      BY <1>4, <2>1 DEF Complete, ApplyVerdict, BlockUnsupported, Settle
    <3> QED
      BY <1>1, <3>1, <3>2, SettledKept
  <2>2. CASE SubmitOcr(k) \/ PollOcr(k)
    <3>1. at[k].step # "idle"
      BY <2>2 DEF SubmitOcr, PollOcr, At
    <3>2. job' = [job EXCEPT ![k].status = "WAITING_EXTERNAL", ![k].operation = TRUE]
      BY <1>4, <2>2 DEF SubmitOcr, PollOcr, WaitExternal
    <3> QED
      BY <1>1, <3>1, <3>2, SettledKept
  <2>3. CASE HandOffToOcr(k)
    BY <1>4, <2>3, HandOffKept DEF HandOffToOcr
  <2>4. CASE BeginScan(k) \/ ScanBytes(k) \/ RecordScanFailure(k) \/ BeginExtract(k)
               \/ LoadAndParse(k) \/ RecordIntegrityFailure(k) \/ BeginOcr(k)
    BY <1>4, <2>4 DEF BeginScan, ScanBytes, RecordScanFailure, BeginExtract,
       LoadAndParse, RecordIntegrityFailure, BeginOcr
  <2> QED
    BY <1>4, <2>1, <2>2, <2>3, <2>4, FailedKept DEF Process
<1>5. ASSUME NEW k \in Job, CallFails(k) \/ Publish(k) PROVE job' = job
  BY <1>5 DEF CallFails, Publish, PersistChunks
<1>6. ASSUME Purge \/ Freeze \/ Alter PROVE job' = job
  BY <1>6 DEF Purge, Freeze, Alter
<1>7. CASE UNCHANGED vars
  BY <1>2, <1>7 DEF vars
<1> QED
  BY <1>1, <1>2, <1>3, <1>4, <1>5, <1>6, <1>7, ClaimedKept, DisplacedKept, RowsKept
     DEF Next

LEMMA ContractInit == Init => StageJobs!Init
BY DEF Init, NoJob, SeenOf, StageJobs!Init, StageJobs!Seen

\* The stages keep the contract of a job that the queue keeps (JobLeaseProofs,
\* ImplementsContract): one execution for each job stands for all those of the queue
\* (lib/jobs.ts:40-66, 119-147, lib/jobRuntime.ts:19-107).
THEOREM IntakeKeepsContract == Spec => StageJobs!Spec
<1>1. Spec => []IntakeInv
  BY InitIntake, IntakeInvStep, PTL DEF Spec
<1> QED
  BY <1>1, ContractInit, ContractStep, PTL DEF Spec, StageJobs!Spec

-----------------------------------------------------------------------------
(* What is derived from the text.                                              *)

TaskRow == [status : {"ABSENT", "QUEUED", "RUNNING", "WAITING_EXTERNAL",
                      "SUCCEEDED", "FAILED"},
            attempts : 0 .. MaxAttempts, run : 0 .. MaxRuns, done : BOOLEAN,
            found : BOOLEAN, cites : Batch \cup {None}, rejected : BOOLEAN]
WorkRow == [step : {"idle", "start", "read", "open", "analyze", "publish", "retry",
                    "giveUp"},
            batch : Batch \cup {None}, text : Text \cup {None}]
RunRow == [status : {"ABSENT", "RUNNING", "SUCCEEDED", "FAILED"},
           text : Text \cup {None}]
FindingStates == {"none", "UNREVIEWED", "SUPERSEDED", "VALIDATED"}

\* A running job has an execution, a queued one an attempt left, and a successful
\* one the run it published.
TaskInOrder(t, w) ==
  /\ (t.status = "RUNNING") <=> (w.step # "idle")
  /\ t.status = "QUEUED" => t.attempts < MaxAttempts
  /\ t.status = "SUCCEEDED" => t.run \in Run

\* What an execution knows when it is about to publish: it has a run, and under
\* legal reliance its finding cites the chunk row it read last.
Publishable(t, w) ==
  w.step = "publish" =>
    /\ t.run \in Run
    /\ (LegalReliance /\ t.found) => t.cites = w.batch

TasksInOrder ==
  /\ task \in [Version -> TaskRow] /\ work \in [Version -> WorkRow]
  /\ \A v \in Version : TaskInOrder(task[v], work[v]) /\ Publishable(task[v], work[v])

\* Counsel reviews the findings of at most one run.
FindingsInOrder ==
  /\ findings \in [Run -> FindingStates]
  /\ \A r, s \in Run : (findings[r] = "UNREVIEWED" /\ findings[s] = "UNREVIEWED") => r = s

RunsInOrder == run \in [Run -> RunRow]
StagesInOrder == stage \in [Flow -> {"off", "running", "done"}]

DerivedInv ==
  /\ IntakeInv
  /\ TasksInOrder /\ FindingsInOrder /\ RunsInOrder /\ StagesInOrder
  /\ RelianceLosesNothing

\* The inductive invariant contains the invariants the runs check.
LEMMA DerivedInvImplies == DerivedInv => OneCurrentRun /\ RelianceLosesNothing
BY DEF DerivedInv, TasksInOrder, FindingsInOrder, RunsInOrder, StagesInOrder,
       TaskInOrder, OneCurrentRun, DerivedTypeOK, TaskRow, WorkRow, RunRow, FindingStates

\* A document that was just uploaded has no analysis.
LEMMA InitDerived == DerivedInit => DerivedInv
<1> SUFFICES ASSUME DerivedInit PROVE DerivedInv
  OBVIOUS
<1>1. NoTask \in TaskRow /\ NoTask.status = "ABSENT"
  BY BudgetAssumption, RunAssumption DEF NoTask, TaskRow
<1>2. Off \in WorkRow /\ Off.step = "idle"
  BY DEF Off, WorkRow
<1>3. TasksInOrder /\ RelianceLosesNothing
  BY <1>1, <1>2 DEF DerivedInit, TasksInOrder, TaskInOrder, Publishable,
                    RelianceLosesNothing
<1>4. FindingsInOrder /\ RunsInOrder /\ StagesInOrder
  BY DEF DerivedInit, FindingsInOrder, FindingStates, RunsInOrder, RunRow, StagesInOrder
<1> QED
  BY <1>3, <1>4, InitIntake DEF DerivedInit, DerivedInv

\* One job of the analyses and its execution are replaced by a pair in order,
\* while no run loses the findings it published.
LEMMA OneTaskMoves ==
  ASSUME TasksInOrder, RelianceLosesNothing, NEW v \in Version,
         NEW t \in TaskRow, NEW w \in WorkRow,
         task' = [task EXCEPT ![v] = t], work' = [work EXCEPT ![v] = w],
         TaskInOrder(t, w), Publishable(t, w),
         (LegalReliance /\ t.status = "SUCCEEDED" /\ t.found)
            => findings'[t.run] # "none",
         \A r \in Run : findings[r] # "none" => findings'[r] # "none"
  PROVE  TasksInOrder' /\ RelianceLosesNothing'
<1>1. task' \in [Version -> TaskRow] /\ work' \in [Version -> WorkRow]
  BY DEF TasksInOrder
<1>2. \A u \in Version :
        /\ task'[u] = (IF u = v THEN t ELSE task[u])
        /\ work'[u] = (IF u = v THEN w ELSE work[u])
  BY DEF TasksInOrder
<1>3. ASSUME NEW u \in Version
      PROVE  TaskInOrder(task'[u], work'[u]) /\ Publishable(task'[u], work'[u])
  <2>1. CASE u = v
    <3>1. task'[u] = t /\ work'[u] = w
      BY <2>1, <1>2
    <3> QED
      BY <3>1
  <2>2. CASE u # v
    <3>1. task'[u] = task[u] /\ work'[u] = work[u]
      BY <2>2, <1>2
    <3> QED
      BY <3>1 DEF TasksInOrder
  <2> QED
    BY <2>1, <2>2
<1>4. ASSUME NEW u \in Version,
             LegalReliance /\ task'[u].status = "SUCCEEDED" /\ task'[u].found
      PROVE  findings'[task'[u].run] # "none"
  <2>1. CASE u = v
    BY <2>1, <1>2, <1>4
  <2>2. CASE u # v
    BY <2>2, <1>2, <1>4 DEF TasksInOrder, TaskInOrder, RelianceLosesNothing
  <2> QED
    BY <2>1, <2>2
<1> QED
  BY <1>1, <1>3, <1>4 DEF TasksInOrder, TaskInOrder, Publishable, RelianceLosesNothing

\* An execution that goes on without publishing keeps its job.
LEMMA WalkKeeps ==
  ASSUME DerivedInv, NEW v \in Version, work[v].step # "idle",
         NEW step \in {"start", "read", "retry", "giveUp"}, Walk(v, step),
         UNCHANGED <<doc, blob, chunks, job, at, flow, task, run, findings, stage>>,
         faults' \in 0 .. MaxFaults
  PROVE  DerivedInv'
<1> DEFINE w == [work[v] EXCEPT !.step = step]
<1>1. task[v] \in TaskRow /\ work[v] \in WorkRow /\ TaskInOrder(task[v], work[v])
  BY DEF DerivedInv, TasksInOrder
<1>2. w \in WorkRow /\ w.step = step
  BY <1>1 DEF WorkRow
<1>3. work' = [work EXCEPT ![v] = w] /\ task' = [task EXCEPT ![v] = task[v]]
  BY DEF Walk, DerivedInv, TasksInOrder
<1> HIDE DEF w
<1>4. TaskInOrder(task[v], w) /\ Publishable(task[v], w)
  BY <1>1, <1>2 DEF TaskInOrder, Publishable
<1>5. TasksInOrder' /\ RelianceLosesNothing'
  BY <1>1, <1>2, <1>3, <1>4, OneTaskMoves DEF DerivedInv, RelianceLosesNothing
<1>6. IntakeInv'
  BY DEF DerivedInv, IntakeInv, JobsInOrder, EvidenceInOrder, FlowsInOrder
<1> QED
  BY <1>5, <1>6 DEF DerivedInv, FindingsInOrder, RunsInOrder, StagesInOrder

\* An execution ends with its job in a state that publishes nothing.
LEMMA RestKeeps ==
  ASSUME TasksInOrder, RelianceLosesNothing, NEW v \in Version, NEW t \in TaskRow,
         task' = [task EXCEPT ![v] = t], Rest(v), findings' = findings,
         t.status \in {"QUEUED", "WAITING_EXTERNAL", "FAILED"},
         t.status = "QUEUED" => t.attempts < MaxAttempts
  PROVE  TasksInOrder' /\ RelianceLosesNothing'
<1>1. Off \in WorkRow /\ Off.step = "idle"
  BY DEF Off, WorkRow
<1>2. TaskInOrder(t, Off) /\ Publishable(t, Off)
  BY <1>1 DEF TaskInOrder, Publishable
<1> QED
  BY <1>1, <1>2, OneTaskMoves DEF Rest

-----------------------------------------------------------------------------
(* The steps of the analyses.                                                  *)

\* The stage enqueues its job; a job that exists keeps its run and its buffer.
LEMMA BeginStageKeeps ==
  ASSUME DerivedInv, NEW f \in Flow, BeginStage(f)
  PROVE  DerivedInv'
<1> DEFINE v == VersionOf[f]
           t == EnqueuedTask(task[v])
           fresh == [NoTask EXCEPT !.status = "QUEUED"]
<1>1. v \in Version
  BY FlowAssumption
<1>2. /\ task[v] \in TaskRow /\ work[v] \in WorkRow
      /\ TaskInOrder(task[v], work[v]) /\ Publishable(task[v], work[v])
  BY <1>1 DEF DerivedInv, TasksInOrder
<1>3. NoTask \in TaskRow /\ NoTask.attempts = 0
  BY BudgetAssumption, RunAssumption DEF NoTask, TaskRow
<1>4. fresh \in TaskRow /\ fresh.status = "QUEUED" /\ fresh.attempts < MaxAttempts
  BY <1>3, BudgetAssumption DEF TaskRow
<1>5. /\ t \in TaskRow /\ TaskInOrder(t, work[v]) /\ Publishable(t, work[v])
      /\ t.status = "SUCCEEDED" => t = task[v]
  <2>1. CASE task[v].status \in {"ABSENT", "FAILED"}
    <3>1. t = fresh
      BY <2>1 DEF EnqueuedTask
    <3> HIDE DEF t, fresh
    <3>2. work[v].step = "idle"
      BY <2>1, <1>2 DEF TaskInOrder
    <3> QED
      BY <3>1, <3>2, <1>4 DEF TaskInOrder, Publishable
  <2>2. CASE task[v].status \notin {"ABSENT", "FAILED"}
    BY <2>2, <1>2 DEF EnqueuedTask
  <2> QED
    BY <2>1, <2>2
<1>6. task' = [task EXCEPT ![v] = t] /\ work' = [work EXCEPT ![v] = work[v]]
  BY DEF BeginStage, DerivedInv, TasksInOrder
<1>7. UNCHANGED vars /\ run' = run /\ findings' = findings
  BY DEF BeginStage
<1>8. (LegalReliance /\ t.status = "SUCCEEDED" /\ t.found) => findings'[t.run] # "none"
  <2> HIDE DEF t, v
  <2> QED
    BY <1>1, <1>5, <1>7 DEF DerivedInv, RelianceLosesNothing
<1> HIDE DEF t, v
<1>9. TasksInOrder' /\ RelianceLosesNothing'
  BY <1>1, <1>2, <1>5, <1>6, <1>7, <1>8, OneTaskMoves DEF DerivedInv
<1>10. StagesInOrder'
  BY DEF BeginStage, DerivedInv, StagesInOrder
<1> QED
  BY <1>7, <1>9, <1>10, IntakeStutters DEF DerivedInv, FindingsInOrder, RunsInOrder

\* The end of a stage moves its pipeline and nothing else.
LEMMA EndStageKeeps ==
  ASSUME DerivedInv, NEW f \in Flow, EndStage(f)
  PROVE  DerivedInv'
<1>1. UNCHANGED <<doc, blob, chunks, job, at, faults, task, work, run, findings>>
  BY DEF EndStage
<1>2. FlowsInOrder' /\ StagesInOrder'
  BY DEF EndStage, DerivedInv, IntakeInv, FlowsInOrder, FlowStages, StagesInOrder
<1>3. IntakeInv'
  BY <1>1, <1>2 DEF DerivedInv, IntakeInv, JobsInOrder, EvidenceInOrder
<1> QED
  BY <1>1, <1>2, <1>3 DEF DerivedInv, TasksInOrder, FindingsInOrder, RunsInOrder,
                          RelianceLosesNothing

\* A claim begins an execution that has read nothing yet.
LEMMA ClaimTaskKeeps ==
  ASSUME DerivedInv, NEW v \in Version, ClaimTask(v)
  PROVE  DerivedInv'
<1> DEFINE paid == IF task[v].status = "QUEUED" THEN task[v].attempts + 1
                   ELSE task[v].attempts
           t == [task[v] EXCEPT !.status = "RUNNING", !.attempts = paid]
           w == [work[v] EXCEPT !.step = "start"]
<1>1. task[v] \in TaskRow /\ work[v] \in WorkRow /\ TaskInOrder(task[v], work[v])
  BY DEF DerivedInv, TasksInOrder
<1>2. paid \in 0 .. MaxAttempts
  BY <1>1, BudgetAssumption DEF TaskRow, TaskInOrder
<1>3. task' = [task EXCEPT ![v] = t] /\ work' = [work EXCEPT ![v] = w]
  BY <1>1 DEF ClaimTask, Walk, DerivedInv, TasksInOrder
<1> HIDE DEF paid
<1>4. t \in TaskRow /\ t.status = "RUNNING" /\ w \in WorkRow /\ w.step = "start"
  BY <1>1, <1>2 DEF TaskRow, WorkRow
<1> HIDE DEF t, w
<1>5. TaskInOrder(t, w) /\ Publishable(t, w)
  BY <1>4 DEF TaskInOrder, Publishable
<1>6. UNCHANGED vars /\ UNCHANGED <<run, findings, stage>>
  BY DEF ClaimTask
<1>7. TasksInOrder' /\ RelianceLosesNothing'
  BY <1>3, <1>4, <1>5, <1>6, OneTaskMoves DEF DerivedInv
<1> QED
  BY <1>6, <1>7, IntakeStutters DEF DerivedInv, FindingsInOrder, RunsInOrder, StagesInOrder

\* A fault of an analysis is counted with those of the intake.
LEMMA FaultsMove ==
  ASSUME IntakeInv, UNCHANGED <<doc, blob, chunks, job, at, flow>>,
         faults' = faults \/ (faults < MaxFaults /\ faults' = faults + 1)
  PROVE  IntakeInv'
<1>1. faults' \in 0 .. MaxFaults
  BY BudgetAssumption DEF IntakeInv
<1> QED
  BY <1>1 DEF IntakeInv, JobsInOrder, EvidenceInOrder, FlowsInOrder

\* A displaced execution forgets what it read, or its job fails.
LEMMA DisplaceTaskKeeps ==
  ASSUME DerivedInv, NEW v \in Version, DisplaceTask(v)
  PROVE  DerivedInv'
<1>1. task[v] \in TaskRow
  BY DEF DerivedInv, TasksInOrder
<1>2. UNCHANGED <<doc, blob, chunks, job, at, flow, run, findings, stage>>
  BY DEF DisplaceTask
<1>3. IntakeInv'
  BY <1>2, FaultsMove DEF DisplaceTask, DerivedInv
<1>4. TasksInOrder' /\ RelianceLosesNothing'
  <2>1. CASE task[v].attempts < MaxAttempts
    <3> DEFINE t == [task[v] EXCEPT !.attempts = @ + 1]
               w == [Off EXCEPT !.step = "start"]
    <3>1. task' = [task EXCEPT ![v] = t] /\ work' = [work EXCEPT ![v] = w]
      BY <2>1 DEF DisplaceTask, DerivedInv, TasksInOrder
    <3>2. task[v].attempts + 1 \in 0 .. MaxAttempts
      BY <1>1, <2>1, BudgetAssumption DEF TaskRow
    <3>3. t \in TaskRow /\ t.status = "RUNNING"
      BY <1>1, <3>2 DEF DisplaceTask, TaskRow
    <3>4. w \in WorkRow /\ w.step = "start"
      BY DEF Off, WorkRow
    <3> HIDE DEF t, w
    <3>5. TaskInOrder(t, w) /\ Publishable(t, w)
      BY <3>3, <3>4 DEF TaskInOrder, Publishable
    <3> QED
      BY <1>2, <3>1, <3>3, <3>4, <3>5, OneTaskMoves DEF DerivedInv
  <2>2. CASE ~(task[v].attempts < MaxAttempts)
    <3> DEFINE t == [task[v] EXCEPT !.status = "FAILED"]
    <3>1. t \in TaskRow /\ t.status = "FAILED"
      BY <1>1 DEF TaskRow
    <3>2. task' = [task EXCEPT ![v] = t] /\ Rest(v)
      BY <2>2 DEF DisplaceTask, DerivedInv, TasksInOrder
    <3> HIDE DEF t
    <3> QED
      BY <1>2, <3>1, <3>2, RestKeeps DEF DerivedInv
  <2> QED
    BY <2>1, <2>2
<1> QED
  BY <1>2, <1>3, <1>4 DEF DerivedInv, FindingsInOrder, RunsInOrder, StagesInOrder

\* The check of the source and a failed call only move the execution.
LEMMA CheckOrFailKeeps ==
  ASSUME DerivedInv, NEW v \in Version, CheckSource(v) \/ AnalysisCallFails(v)
  PROVE  DerivedInv'
<1>1. PICK step \in {"read", "retry", "giveUp"} : Walk(v, step)
  BY DEF CheckSource, AnalysisCallFails
<1>2. /\ work[v].step # "idle"
      /\ UNCHANGED <<doc, blob, chunks, job, at, flow, task, run, findings, stage>>
  BY DEF CheckSource, AnalysisCallFails, vars
<1>3. faults' \in 0 .. MaxFaults
  BY BudgetAssumption DEF CheckSource, AnalysisCallFails, vars, DerivedInv, IntakeInv
<1> QED
  BY <1>1, <1>2, <1>3, WalkKeeps

\* The chunks as they are now decide whether the execution may publish.
LEMMA ReadChunksKeeps ==
  ASSUME DerivedInv, NEW v \in Version, ReadChunks(v)
  PROVE  DerivedInv'
<1>1. /\ task[v] \in TaskRow /\ TaskInOrder(task[v], work[v])
      /\ chunks \in ChunkRow /\ work \in [Version -> WorkRow]
  BY DEF DerivedInv, TasksInOrder, IntakeInv, EvidenceInOrder
<1>2. UNCHANGED vars /\ UNCHANGED <<task, run, findings, stage>>
  BY DEF ReadChunks
<1>3. PICK step \in {"retry", "open", "giveUp", "analyze", "publish"} :
        /\ work' = [work EXCEPT ![v] = [step |-> step, batch |-> chunks.batch,
                                        text |-> chunks.text]]
        /\ step = "publish" =>
             /\ task[v].run # 0
             /\ (LegalReliance /\ task[v].found) => task[v].cites = chunks.batch
  BY DEF ReadChunks, Acceptable
<1> DEFINE w == [step |-> step, batch |-> chunks.batch, text |-> chunks.text]
<1>4. w \in WorkRow /\ w.step = step /\ w.batch = chunks.batch
  BY <1>1 DEF ChunkRow, WorkRow
<1>5. task[v].run # 0 => task[v].run \in Run
  BY <1>1, RunAssumption DEF TaskRow, Run
<1>6. work' = [work EXCEPT ![v] = w] /\ task' = [task EXCEPT ![v] = task[v]]
  BY <1>2, <1>3 DEF DerivedInv, TasksInOrder
<1> HIDE DEF w
<1>7. TaskInOrder(task[v], w) /\ Publishable(task[v], w)
  BY <1>1, <1>3, <1>4, <1>5 DEF ReadChunks, TaskInOrder, Publishable
<1>8. TasksInOrder' /\ RelianceLosesNothing'
  BY <1>1, <1>2, <1>4, <1>6, <1>7, OneTaskMoves DEF DerivedInv, RelianceLosesNothing
<1> QED
  BY <1>2, <1>8, IntakeStutters DEF DerivedInv, FindingsInOrder, RunsInOrder, StagesInOrder

\* The first continuation opens a run and hands its job on.
LEMMA OpenRunKeeps ==
  ASSUME DerivedInv, NEW v \in Version, OpenRun(v)
  PROVE  DerivedInv'
<1>1. PICK r \in Run :
        /\ run' = [run EXCEPT ![r] = [status |-> "RUNNING", text |-> work[v].text]]
        /\ task' = [task EXCEPT ![v].status = "WAITING_EXTERNAL", ![v].run = r]
  BY DEF OpenRun
<1>2. task[v] \in TaskRow /\ work[v].text \in Text \cup {None}
  BY DEF DerivedInv, TasksInOrder, WorkRow
<1> DEFINE t == [task[v] EXCEPT !.status = "WAITING_EXTERNAL", !.run = r]
<1>3. r \in 0 .. MaxRuns
  BY RunAssumption DEF Run
<1>4. t \in TaskRow /\ t.status = "WAITING_EXTERNAL"
  BY <1>2, <1>3 DEF TaskRow
<1>5. task' = [task EXCEPT ![v] = t]
  BY <1>1 DEF DerivedInv, TasksInOrder
<1> HIDE DEF t
<1>6. UNCHANGED vars /\ UNCHANGED <<findings, stage>> /\ Rest(v)
  BY DEF OpenRun
<1>7. TasksInOrder' /\ RelianceLosesNothing'
  BY <1>4, <1>5, <1>6, RestKeeps DEF DerivedInv
<1>8. RunsInOrder'
  BY <1>1, <1>2 DEF DerivedInv, RunsInOrder, RunRow
<1> QED
  BY <1>6, <1>7, <1>8, IntakeStutters DEF DerivedInv, FindingsInOrder, StagesInOrder

\* The model's answer goes into the buffer of the job.
LEMMA AnalyzeKeeps ==
  ASSUME DerivedInv, NEW v \in Version, Analyze(v)
  PROVE  DerivedInv'
<1>1. PICK found \in BOOLEAN, rejected \in BOOLEAN :
        /\ rejected => faults < MaxFaults
        /\ faults' = IF rejected THEN faults + 1 ELSE faults
        /\ task' = [task EXCEPT ![v] = [@ EXCEPT
             !.status = "WAITING_EXTERNAL", !.done = TRUE, !.found = found,
             !.cites = IF found THEN work[v].batch ELSE None, !.rejected = rejected]]
  BY DEF Analyze
<1> DEFINE cited == IF found THEN work[v].batch ELSE None
           t == [task[v] EXCEPT !.status = "WAITING_EXTERNAL", !.done = TRUE,
                   !.found = found, !.cites = cited, !.rejected = rejected]
<1>2. task[v] \in TaskRow /\ cited \in Batch \cup {None}
  BY DEF DerivedInv, TasksInOrder, WorkRow
<1>3. task' = [task EXCEPT ![v] = t]
  BY <1>1 DEF DerivedInv, TasksInOrder
<1> HIDE DEF cited
<1>4. t \in TaskRow /\ t.status = "WAITING_EXTERNAL"
  BY <1>2 DEF TaskRow
<1> HIDE DEF t
<1>5. /\ UNCHANGED <<doc, blob, chunks, job, at, flow, run, findings, stage>>
      /\ Rest(v)
  BY DEF Analyze
<1>6. TasksInOrder' /\ RelianceLosesNothing'
  BY <1>3, <1>4, <1>5, RestKeeps DEF DerivedInv
<1>7. IntakeInv'
  BY <1>1, <1>5, FaultsMove DEF DerivedInv
<1> QED
  BY <1>5, <1>6, <1>7 DEF DerivedInv, FindingsInOrder, RunsInOrder, StagesInOrder

\* A failed job is queued again while it has an attempt left, or closes its run.
LEMMA FailTaskKeeps ==
  ASSUME DerivedInv, NEW v \in Version, FailTask(v)
  PROVE  DerivedInv'
<1> DEFINE again == work[v].step = "retry" /\ task[v].attempts < MaxAttempts
           t == [task[v] EXCEPT !.status = IF again THEN "QUEUED" ELSE "FAILED"]
<1>1. task[v] \in TaskRow
  BY DEF DerivedInv, TasksInOrder
<1>2. task' = [task EXCEPT ![v] = t]
  BY <1>1 DEF FailTask, DerivedInv, TasksInOrder
<1>3. t \in TaskRow /\ t.status \in {"QUEUED", "FAILED"}
  BY <1>1 DEF TaskRow
<1>4. t.status = "QUEUED" => t.attempts < MaxAttempts
  BY <1>1 DEF TaskRow
<1>5. UNCHANGED vars /\ UNCHANGED <<findings, stage>> /\ Rest(v)
  BY DEF FailTask
<1>6. RunsInOrder'
  <2>1. ASSUME NEW r \in Run PROVE run'[r] \in RunRow
    BY DEF FailTask, DerivedInv, RunsInOrder, RunRow
  <2>2. run' = [r \in Run |-> run'[r]]
    BY DEF FailTask
  <2> QED
    BY <2>1, <2>2 DEF RunsInOrder
<1> HIDE DEF t
<1>7. TasksInOrder' /\ RelianceLosesNothing'
  BY <1>2, <1>3, <1>4, <1>5, RestKeeps DEF DerivedInv
<1> QED
  BY <1>5, <1>6, <1>7, IntakeStutters DEF DerivedInv, FindingsInOrder, StagesInOrder

\* Publication supersedes what was unreviewed before it shows its own findings.
LEMMA PublishFindingsKeeps ==
  ASSUME DerivedInv, NEW v \in Version, PublishFindings(v)
  PROVE  DerivedInv'
<1> DEFINE grounded == task[v].found /\ task[v].cites = work[v].batch
           new == [r \in Run |-> IF r = task[v].run /\ grounded THEN "UNREVIEWED"
                                 ELSE Superseded(r)]
<1>1. /\ task[v] \in TaskRow /\ TaskInOrder(task[v], work[v])
      /\ task[v].run \in Run
      /\ (LegalReliance /\ task[v].found) => task[v].cites = work[v].batch
  BY DEF DerivedInv, TasksInOrder, Publishable, PublishFindings
<1>2. UNCHANGED vars /\ stage' = stage
  BY DEF PublishFindings
<1>3. CASE UNCHANGED findings /\ \E step \in {"giveUp", "retry"} :
               Walk(v, step) /\ UNCHANGED <<task, run>>
  <2>1. PICK step \in {"giveUp", "retry"} : Walk(v, step)
    BY <1>3
  <2>2. /\ UNCHANGED <<doc, blob, chunks, job, at, flow, task, run, findings, stage>>
        /\ faults' \in 0 .. MaxFaults
    BY <1>2, <1>3 DEF vars, DerivedInv, IntakeInv
  <2>3. work[v].step # "idle"
    BY DEF PublishFindings
  <2> QED
    BY <2>1, <2>2, <2>3, WalkKeeps
<1>4. CASE /\ findings' = new
           /\ run' = [run EXCEPT ![task[v].run].status = "SUCCEEDED"]
           /\ task' = [task EXCEPT ![v].status = "SUCCEEDED"] /\ Rest(v)
  <2> DEFINE t == [task[v] EXCEPT !.status = "SUCCEEDED"]
  <2>1. /\ t \in TaskRow /\ t.status = "SUCCEEDED" /\ t.run = task[v].run
        /\ t.found = task[v].found
    BY <1>1 DEF TaskRow
  <2>2. task' = [task EXCEPT ![v] = t]
    BY <1>4 DEF DerivedInv, TasksInOrder
  <2>3. Off \in WorkRow /\ Off.step = "idle"
    BY DEF Off, WorkRow
  <2> HIDE DEF t
  <2>4. TaskInOrder(t, Off) /\ Publishable(t, Off)
    BY <1>1, <2>1, <2>3 DEF TaskInOrder, Publishable
  <2>5. \A r \in Run : findings'[r] = IF r = task[v].run /\ grounded THEN "UNREVIEWED"
                                       ELSE Superseded(r)
    BY <1>4
  <2>6. \A r \in Run : findings[r] # "none" => findings'[r] # "none"
    BY <2>5 DEF Superseded
  <2>7. (LegalReliance /\ t.status = "SUCCEEDED" /\ t.found)
          => findings'[t.run] # "none"
    BY <1>1, <2>1, <2>5
  <2>8. TasksInOrder' /\ RelianceLosesNothing'
    BY <1>4, <2>1, <2>2, <2>3, <2>4, <2>6, <2>7, OneTaskMoves DEF Rest, DerivedInv
  <2>9. FindingsInOrder'
    <3>1. findings' \in [Run -> FindingStates]
      BY <1>4 DEF Superseded, DerivedInv, FindingsInOrder, FindingStates
    <3>2. \A r \in Run : findings'[r] = "UNREVIEWED" => r = task[v].run
      BY <2>5 DEF Superseded
    <3> QED
      BY <3>1, <3>2 DEF FindingsInOrder
  <2>10. RunsInOrder'
    BY <1>1, <1>4 DEF DerivedInv, RunsInOrder, RunRow
  <2> QED
    BY <1>2, <2>8, <2>9, <2>10, IntakeStutters DEF DerivedInv, StagesInOrder
<1> QED
  BY <1>3, <1>4 DEF PublishFindings

\* Counsel disposes of a finding and shows none.
LEMMA ReviewKeeps ==
  ASSUME DerivedInv, NEW r \in Run, Review(r)
  PROVE  DerivedInv'
<1>1. UNCHANGED vars /\ UNCHANGED <<task, work, run, stage>>
  BY DEF Review
<1>2. FindingsInOrder'
  BY DEF Review, DerivedInv, FindingsInOrder, FindingStates
<1>3. \A s \in Run : findings[s] # "none" => findings'[s] # "none"
  BY DEF Review, DerivedInv, FindingsInOrder
<1>4. RelianceLosesNothing'
  BY <1>1, <1>3 DEF DerivedInv, TasksInOrder, TaskInOrder, RelianceLosesNothing
<1> QED
  BY <1>1, <1>2, <1>4, IntakeStutters DEF DerivedInv, TasksInOrder, RunsInOrder,
     StagesInOrder

\* A step of the intake, whatever rows it inserts, is one of SourceIntake.
LEMMA IntakeStepIsNext == IntakeStep => Next
<1>1. ASSUME NEW k \in Job, PublishFresh(k) PROVE Publish(k)
  <2> DEFINE b == CHOOSE x \in Batch : x \notin Remembered
  <2>1. b \in Batch /\ b \notin Remembered
    BY <1>1 DEF PublishFresh
  <2>2. b \in Batch \ {chunks.batch} /\ PersistChunks(k, b)
    BY <1>1, <2>1 DEF PublishFresh, Remembered
  <2> QED
    BY <2>2 DEF Publish
<1> QED
  BY <1>1 DEF IntakeStep, Next

\* Every step keeps the inductive invariant of the analyses.
LEMMA DerivedInvStep == DerivedInv /\ [DerivedNext]_dvars => DerivedInv'
<1> SUFFICES ASSUME DerivedInv, [DerivedNext]_dvars PROVE DerivedInv'
  OBVIOUS
<1>1. CASE IntakeStep /\ UNCHANGED <<task, work, run, findings, stage>>
  <2>1. IntakeInv'
    BY <1>1, IntakeStepIsNext, IntakeInvStep DEF DerivedInv
  <2> QED
    BY <1>1, <2>1 DEF DerivedInv, TasksInOrder, FindingsInOrder, RunsInOrder,
                      StagesInOrder, RelianceLosesNothing
<1>2. ASSUME NEW f \in Flow, BeginStage(f) \/ EndStage(f) PROVE DerivedInv'
  BY <1>2, BeginStageKeeps, EndStageKeeps
<1>3. ASSUME NEW v \in Version,
             ClaimTask(v) \/ DisplaceTask(v) \/ AnalysisCallFails(v) \/ Continue(v)
      PROVE  DerivedInv'
  BY <1>3, ClaimTaskKeeps, DisplaceTaskKeeps, CheckOrFailKeeps, ReadChunksKeeps,
     OpenRunKeeps, AnalyzeKeeps, PublishFindingsKeeps, FailTaskKeeps DEF Continue
<1>4. ASSUME NEW r \in Run, Review(r) PROVE DerivedInv'
  BY <1>4, ReviewKeeps
<1>5. CASE UNCHANGED dvars
  BY <1>5, IntakeStutters DEF dvars, DerivedInv, TasksInOrder, FindingsInOrder,
     RunsInOrder, StagesInOrder, RelianceLosesNothing
<1> QED
  BY <1>1, <1>2, <1>3, <1>4, <1>5 DEF DerivedNext

-----------------------------------------------------------------------------
(* Theorems about what is derived.                                             *)

\* The inductive invariant holds in every state.
LEMMA DerivedInvHolds == DerivedSpec => []DerivedInv
BY InitDerived, DerivedInvStep, PTL DEF DerivedSpec

\* A document that says EXTRACTED is evidence also while it is being analysed
\* (lib/jobProcessor.ts:103-120, 140-150, 164-235).
THEOREM EvidenceUnderAnalysis == DerivedSpec => []ExtractedIsEvidence
<1>1. DerivedInv => ExtractedIsEvidence
  BY IntakeInvImplies DEF DerivedInv
<1> QED
  BY <1>1, DerivedInvHolds, PTL

\* The unreviewed findings of a document are those of one run, also when two
\* releases analyse it at the same time (lib/jobProcessor.ts:281).
THEOREM OneCurrentRunHolds == DerivedSpec => []OneCurrentRun
BY DerivedInvHolds, DerivedInvImplies, PTL

\* Under legal reliance a successful job has published what it found
\* (lib/jobProcessor.ts:268-270, 280).
THEOREM RelianceLosesNothingHolds == DerivedSpec => []RelianceLosesNothing
BY DerivedInvHolds, DerivedInvImplies, PTL

\* Findings appear only while the document is active, clean, verified and
\* extracted, and only from a run over the very text it has at that moment
\* (lib/jobProcessor.ts:272-287, 321-333).
THEOREM FindingsMatchSourceHolds == DerivedSpec => FindingsMatchSource
<1>1. DerivedInv /\ [DerivedNext]_dvars
        => [\A r \in Run : (findings[r] = "none" /\ findings'[r] # "none") =>
              Processable /\ run[r].text = chunks.text]_dvars
  <2> SUFFICES ASSUME DerivedInv, DerivedNext, NEW r \in Run,
                      findings[r] = "none", findings'[r] # "none"
               PROVE  Processable /\ run[r].text = chunks.text
    OBVIOUS
  <2>1. CASE IntakeStep /\ UNCHANGED <<task, work, run, findings, stage>>
    BY <2>1
  <2>2. ASSUME NEW f \in Flow, BeginStage(f) \/ EndStage(f) PROVE FALSE
    BY <2>2 DEF BeginStage, EndStage
  <2>3. ASSUME NEW v \in Version,
               \/ ClaimTask(v) \/ DisplaceTask(v) \/ AnalysisCallFails(v)
               \/ CheckSource(v) \/ ReadChunks(v) \/ OpenRun(v) \/ Analyze(v)
               \/ FailTask(v)
        PROVE  FALSE
    BY <2>3 DEF ClaimTask, DisplaceTask, AnalysisCallFails, CheckSource, ReadChunks,
                OpenRun, Analyze, FailTask
  <2>4. ASSUME NEW v \in Version, PublishFindings(v)
        PROVE  Processable /\ run[r].text = chunks.text
    <3>1. StillBound(v)
      BY <2>4 DEF PublishFindings
    <3>2. findings'[r] = "UNREVIEWED" => r = task[v].run
      BY <2>4 DEF PublishFindings, Superseded
    <3>3. findings'[r] \in {"UNREVIEWED", findings[r], Superseded(r)}
      BY <2>4 DEF PublishFindings
    <3> QED
      BY <3>1, <3>2, <3>3 DEF StillBound, Bound, Superseded
  <2>5. ASSUME NEW s \in Run, Review(s) PROVE FALSE
    BY <2>5 DEF Review, DerivedInv, FindingsInOrder
  <2> QED
    BY <2>1, <2>2, <2>3, <2>4, <2>5 DEF DerivedNext, Continue
<1> QED
  BY <1>1, DerivedInvHolds, PTL DEF DerivedSpec, FindingsMatchSource

\* Under an executed agreement no finding appears, changes or is superseded
\* (migration 006:433-461), and the text it was drawn from stays.
THEOREM ExecutedEvidenceIsKeptHolds == DerivedSpec => ExecutedEvidenceIsKept
<1>1. [DerivedNext]_dvars => [doc.frozen => findings' = findings /\ chunks' = chunks]_dvars
  <2> SUFFICES ASSUME DerivedNext, doc.frozen
               PROVE  findings' = findings /\ chunks' = chunks
    OBVIOUS
  <2>1. ASSUME NEW f \in Flow, Drive(f) PROVE chunks' = chunks
    BY <2>1 DEF Drive, Start, StageSucceeds, StageFails, Inspect
  <2>2. ASSUME NEW k \in Job,
               Claim(k) \/ Displaced(k) \/ CallFails(k) \/ Process(k) \/ PublishFresh(k)
        PROVE  chunks' = chunks
    BY <2>2 DEF Claim, Displaced, CallFails, Process, FailJob, Complete, BeginScan,
       ScanBytes, ApplyVerdict, RecordScanFailure, BeginExtract, LoadAndParse,
       BlockUnsupported, HandOffToOcr, RecordIntegrityFailure, BeginOcr, SubmitOcr,
       PollOcr, PublishFresh, PersistChunks, ChunksWritable
  <2>3. ASSUME Purge \/ Freeze \/ Alter PROVE chunks' = chunks
    BY <2>3 DEF Purge, Freeze, Alter
  <2>4. ASSUME NEW f \in Flow, BeginStage(f) \/ EndStage(f)
        PROVE  findings' = findings /\ chunks' = chunks
    BY <2>4 DEF BeginStage, EndStage, vars
  <2>5. ASSUME NEW v \in Version,
               ClaimTask(v) \/ DisplaceTask(v) \/ AnalysisCallFails(v) \/ Continue(v)
        PROVE  findings' = findings /\ chunks' = chunks
    BY <2>5 DEF ClaimTask, DisplaceTask, AnalysisCallFails, Continue, CheckSource,
       ReadChunks, OpenRun, Analyze, PublishFindings, FindingsWritable, FailTask, vars
  <2>6. ASSUME NEW r \in Run, Review(r) PROVE FALSE
    BY <2>6 DEF Review
  <2> QED
    BY <2>1, <2>2, <2>3, <2>4, <2>5, <2>6 DEF DerivedNext, IntakeStep
<1> QED
  BY <1>1, PTL DEF DerivedSpec, ExecutedEvidenceIsKept

\* A source whose purge has started gives no new text, and it shows no finding
\* that it did not show before (lib/jobProcessor.ts:144, 172, 198, 321-333).
THEOREM NothingDerivedAfterPurgeStarts ==
  DerivedSpec => [][~Active => /\ chunks' = chunks
                               /\ \A r \in Run : findings[r] = "none"
                                                => findings'[r] = "none"]_dvars
<1>1. [DerivedNext]_dvars => [~Active => chunks' = chunks]_dvars
  <2> SUFFICES ASSUME DerivedNext, ~Active PROVE chunks' = chunks
    OBVIOUS
  <2>1. CASE IntakeStep
    BY <2>1, IntakeStepIsNext, NoTextAfterPurgeStep DEF vars
  <2>2. CASE ~IntakeStep
    BY <2>2 DEF DerivedNext, BeginStage, EndStage, ClaimTask, DisplaceTask,
       AnalysisCallFails, Continue, CheckSource, ReadChunks, OpenRun, Analyze,
       PublishFindings, FailTask, Review, vars
  <2> QED
    BY <2>1, <2>2
<1>2. [\A r \in Run : (findings[r] = "none" /\ findings'[r] # "none") =>
         Processable /\ run[r].text = chunks.text]_dvars
        => [~Active => \A r \in Run : findings[r] = "none" => findings'[r] = "none"]_dvars
  BY DEF Processable, Usable
<1> QED
  BY <1>1, <1>2, FindingsMatchSourceHolds, PTL DEF DerivedSpec, FindingsMatchSource

-----------------------------------------------------------------------------
(* The analyses keep what the intake keeps, and their jobs the contract.       *)

Analyses == INSTANCE JobContract WITH
  Job <- Version, state <- [v \in Version |-> SeenOf(task[v])]

\* Both contracts have the same rules.
LEMMA MovesAlike ==
  ASSUME NEW old, NEW new, Kept(old, new)
  PROVE  SeenOf(new) = SeenOf(old) \/ Analyses!Moves(SeenOf(old), SeenOf(new))
BY DEF Kept, StageJobs!Moves, StageJobs!Enqueue, StageJobs!Run, StageJobs!Retry,
   StageJobs!EndOrWait, StageJobs!Seen, Analyses!Moves, Analyses!Enqueue, Analyses!Run,
   Analyses!Retry, Analyses!EndOrWait, Analyses!Seen

LEMMA OneTaskKept ==
  ASSUME TasksInOrder, TasksInOrder', NEW v \in Version, NEW t, Kept(task[v], t),
         task' = [task EXCEPT ![v] = t]
  PROVE  Analyses!Next
<1>1. [u \in Version |-> SeenOf(task'[u])] \in [Version -> Analyses!Life]
  BY BudgetAssumption DEF TasksInOrder, TaskRow, SeenOf, Analyses!Life
<1>2. \A u \in Version : Kept(task[u], task'[u])
  BY DEF TasksInOrder, Kept
<1> QED
  BY <1>1, <1>2, MovesAlike DEF Analyses!Next

\* What a continuation does to its job.
LEMMA ContinueKept ==
  ASSUME DerivedInv, DerivedInv', NEW v \in Version, Continue(v), task' # task
  PROVE  Analyses!Next
<1>1. /\ task \in [Version -> TaskRow] /\ task[v] \in TaskRow
      /\ TaskInOrder(task[v], work[v]) /\ TasksInOrder /\ TasksInOrder'
  BY DEF DerivedInv, TasksInOrder
<1>2. ASSUME NEW t \in TaskRow, task' = [task EXCEPT ![v] = t], work[v].step # "idle",
             t.attempts = task[v].attempts,
             \/ t.status \in {"WAITING_EXTERNAL", "SUCCEEDED", "FAILED"}
             \/ t.status = "QUEUED" /\ task[v].attempts < MaxAttempts
      PROVE  Analyses!Next
  <2>1. task[v].status = "RUNNING"
    BY <1>1, <1>2 DEF TaskInOrder
  <2>2. Kept(task[v], t)
    BY <1>2, <2>1 DEF Kept, SeenOf, StageJobs!Moves, StageJobs!Retry,
       StageJobs!EndOrWait, StageJobs!Seen
  <2> QED
    BY <1>1, <1>2, <2>2, OneTaskKept
<1>3. CASE OpenRun(v)
  <2>1. PICK r \in Run :
          task' = [task EXCEPT ![v].status = "WAITING_EXTERNAL", ![v].run = r]
    BY <1>3 DEF OpenRun
  <2> DEFINE t == [task[v] EXCEPT !.status = "WAITING_EXTERNAL", !.run = r]
  <2>2. task' = [task EXCEPT ![v] = t] /\ work[v].step # "idle"
    BY <1>1, <1>3, <2>1 DEF OpenRun
  <2>3. r \in 0 .. MaxRuns
    BY RunAssumption DEF Run
  <2>4. t \in TaskRow /\ t.status = "WAITING_EXTERNAL" /\ t.attempts = task[v].attempts
    BY <1>1, <2>3 DEF TaskRow
  <2> HIDE DEF t
  <2> QED
    BY <1>2, <2>2, <2>4
<1>4. CASE Analyze(v)
  <2>1. PICK found \in BOOLEAN, rejected \in BOOLEAN :
          task' = [task EXCEPT ![v] = [@ EXCEPT
            !.status = "WAITING_EXTERNAL", !.done = TRUE, !.found = found,
            !.cites = IF found THEN work[v].batch ELSE None, !.rejected = rejected]]
    BY <1>4 DEF Analyze
  <2> DEFINE t == [task[v] EXCEPT
            !.status = "WAITING_EXTERNAL", !.done = TRUE, !.found = found,
            !.cites = IF found THEN work[v].batch ELSE None, !.rejected = rejected]
  <2>2. task' = [task EXCEPT ![v] = t] /\ work[v].step # "idle"
    BY <1>1, <1>4, <2>1 DEF Analyze
  <2>3. work[v].batch \in Batch \cup {None}
    BY DEF DerivedInv, TasksInOrder, WorkRow
  <2>4. t \in TaskRow /\ t.status = "WAITING_EXTERNAL" /\ t.attempts = task[v].attempts
    BY <1>1, <2>3 DEF TaskRow
  <2> HIDE DEF t
  <2> QED
    BY <1>2, <2>2, <2>4
<1>5. CASE PublishFindings(v)
  <2> DEFINE t == [task[v] EXCEPT !.status = "SUCCEEDED"]
  <2>1. task' = [task EXCEPT ![v] = t] /\ work[v].step # "idle"
    BY <1>1, <1>5 DEF PublishFindings
  <2>2. t \in TaskRow /\ t.status = "SUCCEEDED" /\ t.attempts = task[v].attempts
    BY <1>1 DEF TaskRow
  <2> HIDE DEF t
  <2> QED
    BY <1>2, <2>1, <2>2
<1>6. CASE FailTask(v)
  <2> DEFINE again == work[v].step = "retry" /\ task[v].attempts < MaxAttempts
             t == [task[v] EXCEPT !.status = IF again THEN "QUEUED" ELSE "FAILED"]
  <2>1. task' = [task EXCEPT ![v] = t] /\ work[v].step # "idle"
    BY <1>1, <1>6 DEF FailTask
  <2>2. /\ t \in TaskRow /\ t.attempts = task[v].attempts
        /\ t.status = "FAILED" \/ (t.status = "QUEUED" /\ task[v].attempts < MaxAttempts)
    BY <1>1 DEF TaskRow
  <2> HIDE DEF t, again
  <2> QED
    BY <1>2, <2>1, <2>2
<1>7. CASE CheckSource(v) \/ ReadChunks(v)
  BY <1>7 DEF CheckSource, ReadChunks
<1> QED
  BY <1>3, <1>4, <1>5, <1>6, <1>7 DEF Continue

\* A stage enqueues its job, a claim pays for it or goes on, a takeover pays.
LEMMA AnalysesStep ==
  ASSUME DerivedInv, [DerivedNext]_dvars
  PROVE  [Analyses!Next]_([v \in Version |-> SeenOf(task[v])])
<1>1. DerivedInv'
  BY DerivedInvStep
<1>2. TasksInOrder /\ TasksInOrder' /\ task \in [Version -> TaskRow]
  BY <1>1 DEF DerivedInv, TasksInOrder
<1>3. CASE task' = task
  BY <1>3
<1>4. ASSUME NEW f \in Flow, BeginStage(f) PROVE Analyses!Next
  <2> DEFINE v == VersionOf[f]
             t == EnqueuedTask(task[v])
  <2>1. v \in Version /\ task' = [task EXCEPT ![v] = t] /\ task[v] \in TaskRow
    BY <1>2, <1>4, FlowAssumption DEF BeginStage
  <2>2. CASE task[v].status \in {"ABSENT", "FAILED"}
    <3>1. SeenOf(t) = [status |-> "QUEUED", attempts |-> 0]
      BY <2>2 DEF EnqueuedTask, NoTask, SeenOf
    <3> HIDE DEF t
    <3>2. Kept(task[v], t)
      BY <2>2, <3>1 DEF Kept, SeenOf, StageJobs!Moves, StageJobs!Enqueue, StageJobs!Seen
    <3> HIDE DEF v
    <3> QED
      BY <1>2, <2>1, <3>2, OneTaskKept
  <2>3. CASE task[v].status \notin {"ABSENT", "FAILED"}
    <3>1. t = task[v]
      BY <2>3 DEF EnqueuedTask
    <3> HIDE DEF t, v
    <3> QED
      BY <1>2, <2>1, <3>1, OneTaskKept DEF Kept
  <2> QED
    BY <2>2, <2>3
<1>5. ASSUME NEW v \in Version, ClaimTask(v) PROVE Analyses!Next
  <2> DEFINE paid == IF task[v].status = "QUEUED" THEN task[v].attempts + 1
                     ELSE task[v].attempts
             t == [task[v] EXCEPT !.status = "RUNNING", !.attempts = paid]
  <2>1. task[v] \in TaskRow /\ (task[v].status = "QUEUED" => task[v].attempts < MaxAttempts)
    BY <1>2 DEF TasksInOrder, TaskInOrder
  <2>2. task' = [task EXCEPT ![v] = t] /\ task[v].status \in {"QUEUED", "WAITING_EXTERNAL"}
    BY <1>2, <1>5 DEF ClaimTask
  <2>3. SeenOf(t) = [status |-> "RUNNING", attempts |-> paid]
    BY <2>1 DEF SeenOf, TaskRow
  <2> HIDE DEF t
  <2>4. Kept(task[v], t)
    BY <2>1, <2>2, <2>3 DEF Kept, SeenOf, StageJobs!Moves, StageJobs!Run, StageJobs!Seen
  <2> QED
    BY <1>2, <2>2, <2>4, OneTaskKept
<1>6. ASSUME NEW v \in Version, DisplaceTask(v) PROVE Analyses!Next
  <2>1. task[v] \in TaskRow /\ task[v].status = "RUNNING"
    BY <1>2, <1>6 DEF DisplaceTask
  <2>2. CASE task[v].attempts < MaxAttempts
    <3> DEFINE t == [task[v] EXCEPT !.attempts = @ + 1]
    <3>1. task' = [task EXCEPT ![v] = t]
      BY <1>2, <1>6, <2>2 DEF DisplaceTask
    <3>2. SeenOf(t) = [status |-> "RUNNING", attempts |-> task[v].attempts + 1]
      BY <2>1 DEF SeenOf, TaskRow
    <3> HIDE DEF t
    <3>3. Kept(task[v], t)
      BY <2>1, <2>2, <3>2 DEF Kept, SeenOf, StageJobs!Moves, StageJobs!Run, StageJobs!Seen
    <3> QED
      BY <1>2, <3>1, <3>3, OneTaskKept
  <2>3. CASE ~(task[v].attempts < MaxAttempts)
    <3> DEFINE t == [task[v] EXCEPT !.status = "FAILED"]
    <3>1. task' = [task EXCEPT ![v] = t]
      BY <1>2, <1>6, <2>3 DEF DisplaceTask
    <3>2. SeenOf(t) = [status |-> "FAILED", attempts |-> task[v].attempts]
      BY <2>1 DEF SeenOf, TaskRow
    <3> HIDE DEF t
    <3>3. Kept(task[v], t)
      BY <2>1, <3>2 DEF Kept, SeenOf, StageJobs!Moves, StageJobs!EndOrWait, StageJobs!Seen
    <3> QED
      BY <1>2, <3>1, <3>3, OneTaskKept
  <2> QED
    BY <2>2, <2>3
<1>7. ASSUME NEW v \in Version, Continue(v), task' # task PROVE Analyses!Next
  BY <1>1, <1>7, ContinueKept
<1>8. CASE \/ IntakeStep /\ UNCHANGED <<task, work, run, findings, stage>>
           \/ \E f \in Flow : EndStage(f)
           \/ \E v \in Version : AnalysisCallFails(v)
           \/ \E r \in Run : Review(r)
           \/ UNCHANGED dvars
  BY <1>3, <1>8 DEF EndStage, AnalysisCallFails, Review, dvars
<1> QED
  BY <1>3, <1>4, <1>5, <1>6, <1>7, <1>8 DEF DerivedNext

\* A step of the analyses is one of the intake, or leaves its jobs and the source.
LEMMA AnalysesLeaveIntake ==
  ASSUME DerivedInv, [DerivedNext]_dvars
  PROVE  /\ [Phases!Next]_<<doc.deletion, blob # "gone">>
         /\ [StageJobs!Next]_([k \in Job |-> SeenOf(job[k])])
<1>1. CASE IntakeStep
  BY <1>1, IntakeStepIsNext, PhaseStep, ContractStep DEF DerivedInv
<1>2. CASE ~IntakeStep
  <2>1. doc' = doc /\ blob' = blob /\ job' = job
    BY <1>2 DEF DerivedNext, BeginStage, EndStage, ClaimTask, DisplaceTask,
       AnalysisCallFails, Continue, CheckSource, ReadChunks, OpenRun, Analyze,
       PublishFindings, FailTask, Review, vars, dvars
  <2> QED
    BY <2>1
<1> QED
  BY <1>1, <1>2

LEMMA AnalysesInit == DerivedInit => Phases!Init /\ StageJobs!Init /\ Analyses!Init
BY PhaseInit, ContractInit DEF DerivedInit, NoTask, SeenOf, Analyses!Init, Analyses!Seen

\* While a document is analysed its purge keeps its phases, and the jobs of its
\* stages and of its analyses keep the contract of the queue: budget, final
\* success, and a failed job that starts over (README.md:114, lib/jobs.ts:40-66,
\* 119-147, lib/jobRuntime.ts:19-107).
THEOREM AnalysesKeepContract ==
  DerivedSpec => Phases!Spec /\ StageJobs!Spec /\ Analyses!Spec
BY DerivedInvHolds, AnalysesInit, AnalysesStep, AnalysesLeaveIntake, PTL
   DEF DerivedSpec, Phases!Spec, StageJobs!Spec, Analyses!Spec

-----------------------------------------------------------------------------
(* The analyses write the register of the runs that the versions of an         *)
(* agreement look at (AgreementLifecycleProofs, KeepsRegister).                *)

\* What the register shows of a run of the document and of its findings.
EntryOf(x, found) ==
  [doc |-> IF x.status = "ABSENT" THEN {} ELSE {"document"}, status |-> x.status,
   finding |-> IF found = "VALIDATED" THEN "DISPOSED" ELSE found]

Runs == INSTANCE RunRegister WITH
  Document <- {"document"}, record <- [r \in Run |-> EntryOf(run[r], findings[r])],
  frozen <- IF doc.frozen THEN {"document"} ELSE {}

\* Only a run that ended well has findings.
PublishedRuns == \A r \in Run : findings[r] # "none" => run[r].status = "SUCCEEDED"

\* What a publication writes when it is not refused.
LEMMA Published ==
  ASSUME DerivedInv, PublishedRuns, NEW v \in Version, PublishFindings(v),
         UNCHANGED <<run, findings>> => FALSE
  PROVE  /\ task[v].run \in Run /\ run[task[v].run].status = "RUNNING"
         /\ findings[task[v].run] = "none"
         /\ run'[task[v].run].status = "SUCCEEDED"
         /\ findings'[task[v].run] \in {"none", "UNREVIEWED"}
         /\ \A r \in Run \ {task[v].run} :
              run'[r] = run[r] /\ findings'[r] = Superseded(r)
         /\ doc.frozen => findings' = findings
<1> DEFINE mine == task[v].run
           grounded == task[v].found /\ task[v].cites = work[v].batch
           new == [r \in Run |-> IF r = mine /\ grounded THEN "UNREVIEWED" ELSE Superseded(r)]
<1>1. StillBound(v) /\ FindingsWritable(new)
  BY DEF PublishFindings
<1>2. findings' = new /\ run' = [run EXCEPT ![mine].status = "SUCCEEDED"]
  BY <1>1 DEF PublishFindings
<1>3. mine \in Run /\ run \in [Run -> RunRow]
  BY DEF DerivedInv, TasksInOrder, Publishable, PublishFindings, RunsInOrder
<1>4. run[mine].status = "RUNNING"
  BY <1>1 DEF StillBound, Bound
<1>5. findings[mine] = "none"
  BY <1>3, <1>4 DEF PublishedRuns
<1>6. run'[mine].status = "SUCCEEDED" /\ \A r \in Run \ {mine} : run'[r] = run[r]
  BY <1>2, <1>3 DEF RunRow
<1>7. new[mine] \in {"none", "UNREVIEWED"} /\ \A r \in Run \ {mine} : new[r] = Superseded(r)
  BY <1>3, <1>5 DEF Superseded
<1> HIDE DEF new, mine
<1>8. doc.frozen => findings' = findings
  BY <1>1, <1>2 DEF FindingsWritable
<1> QED
  BY <1>2, <1>3, <1>4, <1>5, <1>6, <1>7, <1>8 DEF mine

\* How a continuation that fails for good closes its run.
LEMMA ClosedRun ==
  ASSUME DerivedInv, NEW v \in Version, FailTask(v), run' # run
  PROVE  \E r \in Run :
           /\ run[r].status = "RUNNING" /\ run'[r].status = "FAILED"
           /\ \A s \in Run \ {r} : run'[s] = run[s]
<1> DEFINE again == work[v].step = "retry" /\ task[v].attempts < MaxAttempts
           r == task[v].run
<1>1. run' = [s \in Run |->
             IF ~again /\ s = r /\ run[s].status = "RUNNING"
               THEN [run[s] EXCEPT !.status = "FAILED"] ELSE run[s]]
  BY DEF FailTask
<1>2. run = [s \in Run |-> run[s]] /\ \A s \in Run : run[s] \in RunRow
  BY DEF DerivedInv, RunsInOrder
<1> HIDE DEF again, r
<1>3. r \in Run /\ ~again /\ run[r].status = "RUNNING"
  BY <1>1, <1>2
<1>4. run'[r] = [run[r] EXCEPT !.status = "FAILED"] /\ \A s \in Run \ {r} : run'[s] = run[s]
  BY <1>1, <1>3
<1>5. run'[r].status = "FAILED"
  BY <1>2, <1>3, <1>4 DEF RunRow
<1> QED
  BY <1>3, <1>4, <1>5

\* How the first continuation opens its run.
LEMMA OpenedRun ==
  ASSUME DerivedInv, NEW v \in Version, OpenRun(v)
  PROVE  \E r \in Run :
           /\ run[r].status = "ABSENT" /\ \A s \in 1 .. r - 1 : run[s].status # "ABSENT"
           /\ run'[r].status = "RUNNING"
           /\ \A s \in Run \ {r} : run'[s] = run[s]
<1>1. PICK r \in Run :
        /\ run[r].status = "ABSENT" /\ \A s \in 1 .. r - 1 : run[s].status # "ABSENT"
        /\ run' = [run EXCEPT ![r] = [status |-> "RUNNING", text |-> work[v].text]]
  BY DEF OpenRun
<1>2. run'[r].status = "RUNNING" /\ \A s \in Run \ {r} : run'[s] = run[s]
  BY <1>1 DEF DerivedInv, RunsInOrder
<1> QED
  BY <1>1, <1>2

\* Nothing else writes a run or a finding.
LEMMA RegisterWrites ==
  ASSUME [DerivedNext]_dvars
  PROVE  \/ UNCHANGED <<run, findings>>
         \/ \E v \in Version : OpenRun(v) \/ PublishFindings(v) \/ FailTask(v)
         \/ \E r \in Run : Review(r)
BY DEF DerivedNext, Continue, BeginStage, EndStage, ClaimTask, DisplaceTask,
   AnalysisCallFails, CheckSource, ReadChunks, Analyze, dvars

LEMMA PublishedRunsStep ==
  ASSUME DerivedInv, PublishedRuns, [DerivedNext]_dvars
  PROVE  PublishedRuns'
<1>1. CASE UNCHANGED <<run, findings>>
  BY <1>1 DEF PublishedRuns
<1>2. ASSUME NEW v \in Version, OpenRun(v) PROVE PublishedRuns'
  <2>1. findings' = findings
    BY <1>2 DEF OpenRun
  <2> QED
    BY <1>2, <2>1, OpenedRun DEF PublishedRuns
<1>3. ASSUME NEW v \in Version, FailTask(v), run' # run PROVE PublishedRuns'
  <2>1. findings' = findings
    BY <1>3 DEF FailTask
  <2> QED
    BY <1>3, <2>1, ClosedRun DEF PublishedRuns
<1>4. ASSUME NEW v \in Version, PublishFindings(v), UNCHANGED <<run, findings>> => FALSE
      PROVE  PublishedRuns'
  BY <1>4, Published DEF PublishedRuns, Superseded
<1>5. ASSUME NEW r \in Run, Review(r) PROVE PublishedRuns'
  BY <1>5 DEF Review, PublishedRuns, DerivedInv, FindingsInOrder
<1>6. ASSUME NEW v \in Version, FailTask(v), run' = run PROVE PublishedRuns'
  BY <1>6 DEF FailTask, PublishedRuns
<1> QED
  BY <1>1, <1>2, <1>3, <1>4, <1>5, <1>6, RegisterWrites

\* A publication in the register.
LEMMA RegisterPublishes ==
  ASSUME DerivedInv, PublishedRuns, NEW v \in Version, PublishFindings(v),
         UNCHANGED <<run, findings>> => FALSE
  PROVE  Runs!Publish(task[v].run)
<1> DEFINE now == [s \in Run |-> EntryOf(run[s], findings[s])]
           r == task[v].run
           found == findings'[r]
           old == Runs!Overtaken(r)
<1>1. /\ r \in Run /\ run[r].status = "RUNNING" /\ findings[r] = "none"
      /\ run'[r].status = "SUCCEEDED" /\ found \in {"none", "UNREVIEWED"}
      /\ \A s \in Run \ {r} : run'[s] = run[s] /\ findings'[s] = Superseded(s)
      /\ doc.frozen => findings' = findings
  BY Published
<1>2. doc' = doc /\ Run = Runs!Run
  BY DEF PublishFindings, vars, Run, Runs!Run
<1>3. now[r].status = "RUNNING" /\ now[r].doc = {"document"}
  BY <1>1 DEF EntryOf
<1>4. \A s \in Run : s \in old <=> s # r /\ findings[s] = "UNREVIEWED"
  <2>1. \A s \in Run : findings[s] = "UNREVIEWED" => now[s].doc = {"document"}
    BY DEF PublishedRuns, EntryOf
  <2>2. \A s \in Run : now[s].finding = "UNREVIEWED" <=> findings[s] = "UNREVIEWED"
    BY DEF EntryOf
  <2>3. \A s \in Run : s \in old <=>
          s # r /\ now[s].doc = now[r].doc /\ now[s].finding = "UNREVIEWED"
    BY <1>2 DEF Runs!Overtaken
  <2> HIDE DEF now, old, r
  <2> QED
    BY <1>1, <1>3, <2>1, <2>2, <2>3
<1>5. EntryOf(run'[r], found) = Runs!Seen(now[r].doc, "SUCCEEDED", found)
  BY <1>1, <1>3 DEF EntryOf, Runs!Seen
<1>6. ASSUME NEW s \in Run \ {r}
      PROVE  EntryOf(run'[s], findings'[s]) =
               IF s \in old THEN Runs!Seen(now[s].doc, now[s].status, "SUPERSEDED") ELSE now[s]
  <2>1. CASE s \in old
    BY <1>1, <1>4, <2>1 DEF EntryOf, Runs!Seen, Superseded
  <2>2. CASE s \notin old
    BY <1>1, <1>4, <2>2 DEF EntryOf, Superseded
  <2> QED
    BY <2>1, <2>2
<1>7. Runs!IsFrozen(r) => found = "none" /\ old = {}
  <2>1. Runs!IsFrozen(r) => doc.frozen
    BY DEF Runs!IsFrozen
  <2>2. doc.frozen => \A s \in Run \ {r} : Superseded(s) = findings[s]
    BY <1>1
  <2>3. doc.frozen => old = {}
    BY <1>2, <1>4, <2>2 DEF Superseded, Runs!Overtaken
  <2> QED
    BY <1>1, <2>1, <2>3
<1>8. now' = [s \in Runs!Run |->
                IF s = r THEN Runs!Seen(now[r].doc, "SUCCEEDED", found)
                ELSE IF s \in old THEN Runs!Seen(now[s].doc, now[s].status, "SUPERSEDED")
                ELSE now[s]]
  <2> HIDE DEF old, found, r
  <2> QED
    BY <1>1, <1>2, <1>5, <1>6 DEF found
<1>9. UNCHANGED (IF doc.frozen THEN {"document"} ELSE {})
  BY <1>2
<1> QED
  BY <1>1, <1>3, <1>7, <1>8, <1>9 DEF Runs!Publish

\* Every step of the analyses is one of the register.
LEMMA RegisterStep ==
  ASSUME DerivedInv, PublishedRuns, [DerivedNext]_dvars
  PROVE  [Runs!Next]_<<[r \in Run |-> EntryOf(run[r], findings[r])],
                       IF doc.frozen THEN {"document"} ELSE {}>>
<1> DEFINE now == [s \in Run |-> EntryOf(run[s], findings[s])]
<1>1. Run = Runs!Run
  BY DEF Run, Runs!Run
<1>2. CASE UNCHANGED <<run, findings>>
  BY <1>2 DEF Runs!Next, Runs!Refreeze
<1>3. ASSUME NEW r \in Run, NEW e, EntryOf(run'[r], findings'[r]) = e,
             \A s \in Run \ {r} : run'[s] = run[s] /\ findings'[s] = findings[s]
      PROVE  now' = [now EXCEPT ![r] = e]
  BY <1>3
<1>4. ASSUME NEW v \in Version, OpenRun(v) PROVE Runs!Next
  <2>1. PICK r \in Run :
          /\ run[r].status = "ABSENT" /\ \A s \in 1 .. r - 1 : run[s].status # "ABSENT"
          /\ run'[r].status = "RUNNING"
          /\ \A s \in Run \ {r} : run'[s] = run[s]
    BY <1>4, OpenedRun
  <2>2. findings' = findings /\ doc' = doc /\ findings[r] = "none"
    BY <1>4, <2>1 DEF OpenRun, vars, PublishedRuns
  <2>3. EntryOf(run'[r], findings'[r]) = Runs!Seen({"document"}, "RUNNING", "none")
    BY <2>1, <2>2 DEF EntryOf, Runs!Seen
  <2>4. \A s \in 1 .. r - 1 : s \in Run
    BY RunAssumption DEF Run
  <2>5. now' = [now EXCEPT ![r] = Runs!Seen({"document"}, "RUNNING", "none")]
    BY <1>3, <2>1, <2>2, <2>3
  <2>6. now[r].status = "ABSENT" /\ \A s \in 1 .. r - 1 : now[s].status # "ABSENT"
    BY <2>1, <2>4 DEF EntryOf
  <2>7. UNCHANGED (IF doc.frozen THEN {"document"} ELSE {})
    BY <2>2
  <2>8. Runs!Open(r)
    BY <2>5, <2>6, <2>7 DEF Runs!Open
  <2> QED
    BY <1>1, <2>8 DEF Runs!Next
<1>5. ASSUME NEW v \in Version, FailTask(v), run' # run PROVE Runs!Next
  <2>1. PICK r \in Run :
          /\ run[r].status = "RUNNING" /\ run'[r].status = "FAILED"
          /\ \A s \in Run \ {r} : run'[s] = run[s]
    BY <1>5, ClosedRun
  <2>2. findings' = findings /\ doc' = doc
    BY <1>5 DEF FailTask, vars
  <2>3. EntryOf(run'[r], findings'[r]) = Runs!Seen(now[r].doc, "FAILED", now[r].finding)
    BY <2>1, <2>2 DEF EntryOf, Runs!Seen
  <2>4. now' = [now EXCEPT ![r] = Runs!Seen(now[r].doc, "FAILED", now[r].finding)]
    BY <1>3, <2>1, <2>2, <2>3
  <2>5. now[r].status = "RUNNING"
    BY <2>1 DEF EntryOf
  <2>6. Runs!Fail(r)
    BY <2>2, <2>4, <2>5 DEF Runs!Fail
  <2> QED
    BY <1>1, <2>6 DEF Runs!Next
<1>6. ASSUME NEW v \in Version, PublishFindings(v), UNCHANGED <<run, findings>> => FALSE
      PROVE  Runs!Next
  <2>1. task[v].run \in Run
    BY <1>6, Published
  <2> QED
    BY <1>1, <1>6, <2>1, RegisterPublishes DEF Runs!Next
<1>7. ASSUME NEW r \in Run, Review(r) PROVE Runs!Next
  <2>1. /\ run' = run /\ doc' = doc /\ ~doc.frozen /\ findings[r] = "UNREVIEWED"
        /\ findings'[r] = "VALIDATED" /\ \A s \in Run \ {r} : findings'[s] = findings[s]
    BY <1>7 DEF Review, vars, DerivedInv, FindingsInOrder
  <2>2. EntryOf(run'[r], findings'[r]) = Runs!Seen(now[r].doc, now[r].status, "DISPOSED")
    BY <2>1 DEF EntryOf, Runs!Seen
  <2>3. now' = [now EXCEPT ![r] = Runs!Seen(now[r].doc, now[r].status, "DISPOSED")]
    BY <1>3, <2>1, <2>2
  <2>4. now[r].finding = "UNREVIEWED" /\ ~Runs!IsFrozen(r)
    BY <2>1 DEF EntryOf, Runs!IsFrozen
  <2>5. Runs!Dispose(r)
    BY <2>1, <2>3, <2>4 DEF Runs!Dispose
  <2> QED
    BY <1>1, <2>5 DEF Runs!Next
<1>8. ASSUME NEW v \in Version, FailTask(v), run' = run PROVE UNCHANGED <<run, findings>>
  BY <1>8 DEF FailTask
<1> QED
  BY <1>2, <1>4, <1>5, <1>6, <1>7, <1>8, RegisterWrites

\* What the analyses make of the runs and the findings of a document in all their
\* continuations is what the register promises to the agreement versions: they
\* may take it as it stands (lib/jobProcessor.ts:278-290, 571-591, migration
\* 006:433-461).
THEOREM AnalysesKeepRegister == DerivedSpec => Runs!Spec
<1>1. DerivedInit => PublishedRuns
  BY DEF DerivedInit, PublishedRuns
<1>2. DerivedInit => Runs!Init
  <2> SUFFICES ASSUME DerivedInit PROVE Runs!Init
    OBVIOUS
  <2>1. doc.frozen = FALSE
    BY DEF DerivedInit, Init
  <2>2. \A r \in Run : EntryOf(run[r], findings[r]) = Runs!Seen({}, "ABSENT", "none")
    BY DEF DerivedInit, EntryOf, Runs!Seen
  <2>3. [r \in Run |-> EntryOf(run[r], findings[r])]
          = [r \in Runs!Run |-> Runs!Seen({}, "ABSENT", "none")]
    BY <2>2 DEF Run, Runs!Run
  <2> QED
    BY <2>1, <2>3 DEF Runs!Init
<1> QED
  BY <1>1, <1>2, DerivedInvHolds, PublishedRunsStep, RegisterStep, PTL
     DEF DerivedSpec, Runs!Spec

=============================================================================
