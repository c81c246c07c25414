------------------------------ MODULE JobLease ------------------------------
(* The durable job queue of the cockpit: rows of processing_jobs, the          *)
(* executions of the workflow step that claim and process them, and the        *)
(* lease fence of migration 012 (lib/jobs.ts, lib/jobRuntime.ts,               *)
(* workflows/contract-processing.ts, db/migrations/012).                       *)
(*                                                                             *)
(* An execution is one run of processJobStep.  The workflow runtime may run    *)
(* the same step again while an earlier run of it is still alive, and the two  *)
(* runs carry the same worker identity: WorkerOf need not be injective, so     *)
(* only the lease generation tells them apart.                                 *)
(*                                                                             *)
(* Timestamps are compared with now() and with nothing else, so a lease is     *)
(* "live" (lease_expires_at > now()), "expired" or "none" (null), and `due'    *)
(* stands for next_attempt_at <= now().                                        *)
EXTENDS Naturals

CONSTANTS
  Job,               \* idempotency keys
  Exec,              \* executions of the claiming step
  Worker,            \* values of locked_by
  WorkerOf,          \* the worker identity each execution carries
  MaxAttempts,       \* max_attempts of every row
  RecoveryEnabled,   \* JOB_LEASE_RECOVERY_ENABLED = "true"
  MaxWaits,          \* bound: continuations of one job
  MaxReactivations,  \* bound: FAILED rows enqueued again, per job
  MaxCrashes,        \* bound: executions that die
  NoOwner,           \* null in locked_by
  NoJob              \* an idle execution holds no row

ASSUME WorkerAssumption == 
  WorkerOf \in [Exec -> Worker] /\ NoOwner \notin Worker /\ NoJob \notin Job
ASSUME BudgetAssumption == MaxAttempts \in Nat \ {0}
ASSUME BoundAssumption ==
  MaxWaits \in Nat /\ MaxReactivations \in Nat /\ MaxCrashes \in Nat
ASSUME RecoveryAssumption == RecoveryEnabled \in BOOLEAN

VARIABLES
  row,          \* processing_jobs, one row for each key
  pc,           \* where each execution is: "idle", "claimed", "working"
  hold,         \* the row each execution read when it claimed
  effect,       \* generation whose domain writes were committed last, 0 if none
  refused,      \* a trigger refused a write of the fencing-capable bundle
  waits, reactivated, crashes   \* what the bounds count

vars == <<row, pc, hold, effect, refused, waits, reactivated, crashes>>

Status == {"ABSENT", "QUEUED", "RUNNING", "WAITING_EXTERNAL", "SUCCEEDED", "FAILED"}
Settled == {"SUCCEEDED", "FAILED"}

Row == [status : Status, attempts : Nat, gen : Nat, owner : Worker \cup {NoOwner},
        lease : {"none", "live", "expired"}, due : BOOLEAN, ext : BOOLEAN]

\* What an execution keeps of the row it claimed.  `ext' says whether the row
\* carried an external operation.
Hold == [job : Job \cup {NoJob}, gen : Nat, attempts : Nat, ext : BOOLEAN]

NoHold == [job |-> NoJob, gen |-> 0, attempts |-> 0, ext |-> FALSE]

NoRow == [status |-> "ABSENT", attempts |-> 0, gen |-> 0, owner |-> NoOwner,
          lease |-> "none", due |-> FALSE, ext |-> FALSE]

TypeOK ==
  /\ row \in [Job -> Row]
  /\ pc \in [Exec -> {"idle", "claimed", "working"}]
  /\ hold \in [Exec -> Hold]
  /\ \A e \in Exec : pc[e] = "idle" <=> hold[e].job = NoJob
  /\ effect \in [Job -> Nat]
  /\ refused \in BOOLEAN
  /\ waits \in [Job -> 0 .. MaxWaits]
  /\ reactivated \in [Job -> 0 .. MaxReactivations]
  /\ crashes \in 0 .. MaxCrashes

-----------------------------------------------------------------------------
(* The triggers on processing_jobs.  A write is refused as a whole, or is     *)
(* stored as the trigger rewrote it.                                           *)

\* prevent_succeeded_job_mutation: a successful receipt never changes.
ReceiptUnchanged(old, new) == old.status = "SUCCEEDED" => new = old

\* A claim that carries an owner and no new generation is a pre-fencing claim:
\* the trigger completes it into a fenced lease.  A release that leaves the
\* lease columns set has them cleared.
Normalized(old, new) ==
  IF old.status # "RUNNING" /\ new.status = "RUNNING" /\ new.gen = old.gen
    THEN [new EXCEPT !.gen = old.gen + 1, !.lease = "live"]
  ELSE IF old.status = "RUNNING" /\ new.status # "RUNNING" /\ new.owner = NoOwner
    THEN [new EXCEPT !.lease = "none"]
  ELSE new

\* The exceptions enforce_processing_job_lease_fence raises.
FenceAccepts(old, new) ==
  LET stored == Normalized(old, new)
      entering == old.status # "RUNNING" /\ new.status = "RUNNING"
      changesOwner == old.status = "RUNNING" /\ new.status = "RUNNING"
                      /\ new.owner # old.owner
  IN /\ (entering /\ new.gen = old.gen) => new.owner # NoOwner
     /\ stored.gen \in {old.gen, old.gen + 1}
     /\ stored.gen = old.gen + 1 => stored.status = "RUNNING"
     /\ (entering \/ changesOwner) => stored.gen = old.gen + 1

\* processing_jobs_lease_state_check
LeaseStateCheck(r) ==
  IF r.status = "RUNNING"
    THEN r.gen > 0 /\ r.owner # NoOwner /\ r.lease # "none"
    ELSE r.owner = NoOwner /\ r.lease = "none"

Accepted(old, new) ==
  /\ FenceAccepts(old, new)
  /\ ReceiptUnchanged(old, Normalized(old, new))
  /\ LeaseStateCheck(Normalized(old, new))

Write(j, new) ==
  /\ row' = IF Accepted(row[j], new)
              THEN [row EXCEPT ![j] = Normalized(row[j], new)] ELSE row
  /\ refused' = (refused \/ ~Accepted(row[j], new))

-----------------------------------------------------------------------------
(* Enqueue: insert, or wake a failed row and leave every other row alone.      *)

\* A bug the refusal history catches: a finished row is woken too.
EnqueuedRow_WakesSucceeded(r) ==
  IF r.status \in {"ABSENT", "FAILED", "SUCCEEDED"}
    THEN [NoRow EXCEPT !.status = "QUEUED", !.due = TRUE, !.gen = r.gen] ELSE r

EnqueuedRow(r) ==
  IF r.status \in {"ABSENT", "FAILED"}
    THEN [NoRow EXCEPT !.status = "QUEUED", !.due = TRUE, !.gen = r.gen] ELSE r

EnqueueJob(j) ==
  /\ row[j].status = "FAILED" => reactivated[j] < MaxReactivations
  /\ Write(j, EnqueuedRow(row[j]))
  /\ reactivated' = [reactivated EXCEPT ![j] =
                       IF row[j].status = "FAILED" THEN @ + 1 ELSE @]
  /\ UNCHANGED <<pc, hold, effect, waits, crashes>>

-----------------------------------------------------------------------------
(* Claims (claimJob): one transaction that locks the row.                      *)

Take(e, j, r) ==
  /\ pc' = [pc EXCEPT ![e] = "claimed"]
  /\ hold' = [hold EXCEPT ![e] = [job |-> j, gen |-> r.gen,
                                  attempts |-> r.attempts, ext |-> r.ext]]

ClaimedRow(r, w, charge) ==
  [r EXCEPT !.status = "RUNNING", !.attempts = @ + charge, !.owner = w,
            !.gen = @ + 1, !.lease = "live"]

FailedRow(r) ==
  [r EXCEPT !.status = "FAILED", !.owner = NoOwner, !.lease = "none"]

\* A bug (the guard of the unused claimNextJob): a continuation of the last
\* attempt also needs budget.
Claimable_WithBudget(r) ==
  r.status \in {"QUEUED", "WAITING_EXTERNAL"} /\ r.due /\ r.attempts < MaxAttempts

Claimable(r) == r.status \in {"QUEUED", "WAITING_EXTERNAL"} /\ r.due

\* A due row.  QUEUED consumes an attempt and WAITING_EXTERNAL does not; a
\* QUEUED row without budget is failed instead.
ClaimDue(e, j) ==
  /\ pc[e] = "idle" /\ Claimable(row[j])
  /\ LET charge == IF row[j].status = "QUEUED" THEN 1 ELSE 0
         exhausted == charge = 1 /\ row[j].attempts >= MaxAttempts
         new == IF exhausted THEN FailedRow(row[j])
                             ELSE ClaimedRow(row[j], WorkerOf[e], charge)
     IN /\ Write(j, new)
        /\ IF exhausted THEN UNCHANGED <<pc, hold>> ELSE Take(e, j, new)
  /\ UNCHANGED <<effect, waits, reactivated, crashes>>

\* A bug: the takeover keeps the generation of the lease it displaces.
RecoveredRow_SameGeneration(r, w) ==
  [r EXCEPT !.attempts = @ + 1, !.owner = w, !.lease = "live"]

\* Takeover of an expired lease: a new generation and one more attempt.
RecoveredRow(r, w) == ClaimedRow(r, w, 1)

\* The condition under which claimJob touches a RUNNING row.
MayRecover(r) == RecoveryEnabled /\ r.status = "RUNNING" /\ r.lease = "expired"

RecoverExpired(e, j) ==
  /\ pc[e] = "idle"
  /\ MayRecover(row[j]) /\ row[j].attempts < MaxAttempts
  /\ LET new == RecoveredRow(row[j], WorkerOf[e])
     IN Write(j, new) /\ Take(e, j, new)
  /\ UNCHANGED <<effect, waits, reactivated, crashes>>

\* An expired lease with no budget left ends the job.
FailExhausted(e, j) ==
  /\ pc[e] = "idle"
  /\ MayRecover(row[j]) /\ row[j].attempts >= MaxAttempts
  /\ Write(j, FailedRow(row[j]))
  /\ UNCHANGED <<pc, hold, effect, waits, reactivated, crashes>>

-----------------------------------------------------------------------------
(* The fence every later write of an execution carries.                        *)

\* A bug: the fence names the worker and forgets the generation.
FenceHolds_OwnerOnly(r, h, w) ==
  r.status = "RUNNING" /\ r.owner = w /\ r.lease = "live"

\* where id=$1 and status='RUNNING' and locked_by=$2 and lease_generation=$3
\*   and lease_expires_at>now()
FenceHolds(r, h, w) ==
  /\ r.status = "RUNNING"
  /\ r.owner = w
  /\ r.gen = h.gen
  /\ r.lease = "live"

Fenced(e) ==
  hold[e].job \in Job /\ FenceHolds(row[hold[e].job], hold[e], WorkerOf[e])

\* A bug: the heartbeat timer of an execution that ended is not cleared.
Leave_TimerKeepsRunning(e) ==
  UNCHANGED pc /\ hold' = [hold EXCEPT ![e] = NoHold]

Leave(e) ==
  /\ pc' = [pc EXCEPT ![e] = "idle"]
  /\ hold' = [hold EXCEPT ![e] = NoHold]

\* After a commit the execution returns, or it never sees the answer: then it
\* goes on in the belief that the commit failed.
LeaveOrMissAnswer(e) == Leave(e) \/ UNCHANGED <<pc, hold>>

\* processJob starts with a heartbeat.
HeartbeatJob(e) ==
  /\ pc[e] = "claimed" /\ Fenced(e)
  /\ pc' = [pc EXCEPT ![e] = "working"]
  /\ UNCHANGED <<row, hold, effect, refused, waits, reactivated, crashes>>

\* JobLeaseLostError: whatever the execution was about to write, it writes
\* nothing more.
LoseLease(e) ==
  /\ pc[e] # "idle" /\ ~Fenced(e)
  /\ Leave(e)
  /\ UNCHANGED <<row, effect, refused, waits, reactivated, crashes>>

\* transitionJobWithFence.  Only QUEUED and WAITING_EXTERNAL move next_attempt_at.
TransitionedRow(r, status, ext, delayed) ==
  [r EXCEPT !.status = status, !.ext = ext, !.owner = NoOwner, !.lease = "none",
            !.due = IF status \in {"QUEUED", "WAITING_EXTERNAL"} THEN ~delayed ELSE @]

Transition(e, status, ext, delayed) ==
  /\ pc[e] = "working" /\ Fenced(e)
  /\ Write(hold[e].job, TransitionedRow(row[hold[e].job], status, ext, delayed))
  /\ LeaveOrMissAnswer(e)

\* The domain writes of a transaction that passed the fence.
DomainWrites(e) == effect' = [effect EXCEPT ![hold[e].job] = hold[e].gen]

\* A domain transaction that leaves the job running (persistChunks, a recorded
\* integrity failure): assertJobLease and the writes.
PublishPartial(e) ==
  /\ pc[e] = "working" /\ Fenced(e)
  /\ DomainWrites(e)
  /\ UNCHANGED <<row, pc, hold, refused, waits, reactivated, crashes>>

\* A domain transaction that ends the job, or completeJob.
CompleteJob(e) ==
  /\ Transition(e, "SUCCEEDED", FALSE, FALSE)
  /\ DomainWrites(e)
  /\ UNCHANGED <<waits, reactivated, crashes>>

\* continueJob (no operation) and waitExternal (an operation, always delayed);
\* the transaction that starts an analysis run writes the run as well.
ContinueJob(e) ==
  /\ Fenced(e) /\ waits[hold[e].job] < MaxWaits
  /\ \E ext, delayed \in BOOLEAN :
       (ext => delayed) /\ Transition(e, "WAITING_EXTERNAL", ext, delayed)
  /\ DomainWrites(e) \/ UNCHANGED effect
  /\ waits' = [waits EXCEPT ![hold[e].job] = @ + 1]
  /\ UNCHANGED <<reactivated, crashes>>

\* A bug: one retry too many.
Retries_OneTooMany(h, retryable) == retryable /\ h.attempts <= MaxAttempts

\* Whether failJob schedules another try.  attempts is the claimed copy's.
Retries(h, retryable) == retryable /\ h.attempts < MaxAttempts

\* failJob, and the transactions that fail the job together with its analysis
\* run or with a quarantine.  The operation of the claimed copy survives a retry
\* unless the provider rejected it.
FailJob(e) ==
  /\ \E retryable, preserve \in BOOLEAN :
       LET retry == Retries(hold[e], retryable)
       IN /\ Transition(e, IF retry THEN "QUEUED" ELSE "FAILED",
                        retry /\ preserve /\ hold[e].ext, retry)
          /\ UNCHANGED effect \/ (~retry /\ DomainWrites(e))
  /\ UNCHANGED <<waits, reactivated, crashes>>

-----------------------------------------------------------------------------
(* Time and crashes.                                                           *)

\* next_attempt_at passes.
BecomeDue(j) ==
  /\ row[j].status \in {"QUEUED", "WAITING_EXTERNAL"} /\ ~row[j].due
  /\ row' = [row EXCEPT ![j].due = TRUE]
  /\ UNCHANGED <<pc, hold, effect, refused, waits, reactivated, crashes>>

\* lease_expires_at passes: the owner died, or its heartbeats are late.
Expire(j) ==
  /\ row[j].lease = "live"
  /\ row' = [row EXCEPT ![j].lease = "expired"]
  /\ UNCHANGED <<pc, hold, effect, refused, waits, reactivated, crashes>>

\* The process of an execution dies; the runtime runs the step again later.
Crash(e) ==
  /\ pc[e] # "idle" /\ crashes < MaxCrashes
  /\ Leave(e)
  /\ crashes' = crashes + 1
  /\ UNCHANGED <<row, effect, refused, waits, reactivated>>

Init ==
  /\ row = [j \in Job |-> NoRow]
  /\ pc = [e \in Exec |-> "idle"]
  /\ hold = [e \in Exec |-> NoHold]
  /\ effect = [j \in Job |-> 0]
  /\ refused = FALSE
  /\ waits = [j \in Job |-> 0]
  /\ reactivated = [j \in Job |-> 0]
  /\ crashes = 0

Claim(e, j) == ClaimDue(e, j) \/ RecoverExpired(e, j) \/ FailExhausted(e, j)

Process(e) ==
  \/ HeartbeatJob(e) \/ LoseLease(e) \/ PublishPartial(e)
  \/ CompleteJob(e) \/ ContinueJob(e) \/ FailJob(e)

Next ==
  \/ \E j \in Job : EnqueueJob(j) \/ BecomeDue(j) \/ Expire(j)
  \/ \E e \in Exec, j \in Job : Claim(e, j)
  \/ \E e \in Exec : Process(e) \/ Crash(e)

Spec == Init /\ [][Next]_vars

\* No execution that is still running holds the current lease of j.
Orphaned(j) == ~ \E e \in Exec : hold[e].job = j /\ Fenced(e)

\* The runtime keeps running the steps of every workflow, a step that is
\* running gets on, and time passes.  A lease is only sure to expire when
\* nobody renews it.
Fairness ==
  /\ \A j \in Job : WF_vars(BecomeDue(j)) /\ WF_vars(Orphaned(j) /\ Expire(j))
  /\ \A e \in Exec : WF_vars(Process(e))
  /\ \A e \in Exec, j \in Job : WF_vars(Claim(e, j))

FairSpec == Spec /\ Fairness

-----------------------------------------------------------------------------
(* Properties.                                                                 *)

\* Of all the executions that believe they own a job, at most one passes the
\* fence, whatever worker identities they share and whoever was displaced
\* (lib/jobs.ts:87-147, lib/jobRuntime.ts:41-52).
OneCurrentHolder ==
  \A e, f \in Exec :
    (e # f /\ hold[e].job # NoJob /\ hold[f].job = hold[e].job)
      => ~(Fenced(e) /\ Fenced(f))

\* Domain writes are only ever committed by the newest generation of the job,
\* so a displaced execution can never write over its successor
\* (assertJobLease, lib/jobs.ts:87-97).
NoStaleEffect ==
  [][\A j \in Job : effect'[j] # effect[j] =>
       effect'[j] = row[j].gen /\ effect'[j] > effect[j]]_vars

\* The triggers of migrations 008 and 012 never refuse a write of this code:
\* what follows a refused claim or release is an error path nobody handles.
NeverRefused == ~refused

\* A job never has more attempts than its budget, also over crashes and
\* takeovers, and a row that waits for a retry still has one: the branch of
\* claimJob that fails a QUEUED row (lib/jobRuntime.ts:56-66) is never needed.
RetryBudget ==
  \A j \in Job : /\ row[j].attempts <= MaxAttempts
                 /\ row[j].status = "QUEUED" => row[j].attempts < MaxAttempts

\* With recovery enabled every job that was enqueued ends, whoever crashed
\* while holding it: no lease is stranded and no continuation is forgotten.
EveryJobSettles ==
  \A j \in Job : row[j].status = "QUEUED" ~> row[j].status \in Settled

\* What the fence promises the rest of the system.
Promise == INSTANCE FencedPublication WITH
  epoch <- [j \in Job |-> row[j].gen],
  open <- [j \in Job |-> row[j].status = "RUNNING"],
  final <- [j \in Job |-> row[j].status = "SUCCEEDED"],
  published <- effect

\* Every step of the queue is a step of the promise or none of its business.
KeepsPromise == Promise!Spec

=============================================================================
