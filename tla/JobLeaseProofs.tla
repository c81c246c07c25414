--------------------------- MODULE JobLeaseProofs ---------------------------
(* Proofs about the job queue, for any set of jobs, executions and worker      *)
(* identities and any budget.                                                  *)
(*                                                                             *)
(* The argument.  A lease generation is never handed out twice: every claim    *)
(* advances the generation of its row by one, so what an execution holds is at *)
(* most the row's generation and two executions of one job hold different      *)
(* ones.  The fence compares generations, hence at most one of them passes     *)
(* it, whatever worker identities they share.  That a claim always succeeds in *)
(* advancing the generation rests on the triggers accepting every write of     *)
(* this code, which is why the shape of a row (RowInv) is part of the          *)
(* invariant.                                                                  *)
EXTENDS JobLease, TLAPS

-----------------------------------------------------------------------------
(* The inductive invariant.                                                    *)

\* A row satisfies the lease check of migration 012 and stays in its budget.
RowInv(r) ==
  /\ LeaseStateCheck(r)
  /\ r.attempts <= MaxAttempts
  /\ r.status = "QUEUED" => r.attempts < MaxAttempts
  /\ r.status = "ABSENT" => r.gen = 0

\* What an execution holds was the row's generation once.
HoldInv(e) ==
  pc[e] # "idle" =>
    LET r == row[hold[e].job]
    IN /\ hold[e].gen \in 1 .. r.gen
       /\ (r.status = "RUNNING" /\ hold[e].gen = r.gen)
            => hold[e].attempts = r.attempts

\* No generation was handed out twice.
Distinct(e, f) ==
  (e # f /\ pc[e] # "idle" /\ pc[f] # "idle" /\ hold[e].job = hold[f].job)
    => hold[e].gen # hold[f].gen

Inv ==
  /\ TypeOK
  /\ \A j \in Job : RowInv(row[j])
  /\ \A e \in Exec : HoldInv(e)
  /\ \A e, f \in Exec : Distinct(e, f)
  /\ \A j \in Job : effect[j] <= row[j].gen
  /\ NeverRefused

-----------------------------------------------------------------------------
(* Every row this code writes is stored as it was written.                     *)

Stored(old, new) ==
  new \in Row /\ RowInv(new) /\ Accepted(old, new) /\ Normalized(old, new) = new

\* The triggers store a write as it is when it advances the generation exactly
\* when it makes the row RUNNING, and leaves a finished row alone.
LEMMA StoredWhenFenced ==
  ASSUME NEW old \in Row, RowInv(old), NEW new \in Row, RowInv(new),
         new.gen \in {old.gen, old.gen + 1},
         new = old \/ (new.status = "RUNNING" <=> new.gen = old.gen + 1),
         old.status = "SUCCEEDED" => new = old
  PROVE  Stored(old, new)
<1>1. Normalized(old, new) = new
  <2>1. CASE new = old
    BY <2>1 DEF Normalized
  <2>2. CASE new.status = "RUNNING" /\ new.gen = old.gen + 1
    BY <2>2 DEF Normalized, Row
  <2>3. CASE new.status # "RUNNING"
    <3>1. new.lease = "none"
      BY <2>3 DEF RowInv, LeaseStateCheck
    <3>2. [new EXCEPT !.lease = "none"] = new
      BY <3>1 DEF Row
    <3> QED BY <2>3, <3>2 DEF Normalized
  <2> QED BY <2>1, <2>2, <2>3
<1>2. FenceAccepts(old, new)
  <2>1. old.gen \in Nat /\ new.gen \in Nat
    BY DEF Row
  <2>2. new.status = "RUNNING" => new.owner # NoOwner
    BY DEF RowInv, LeaseStateCheck
  <2>3. old.status # "RUNNING" \/ new.status # "RUNNING" \/ new.owner = old.owner
          \/ new.gen = old.gen + 1
    BY DEF Row
  <2> QED BY <1>1, <2>1, <2>2, <2>3 DEF FenceAccepts
<1>3. ReceiptUnchanged(old, new)
  BY DEF ReceiptUnchanged
<1> QED BY <1>1, <1>2, <1>3 DEF Stored, Accepted, RowInv

\* Enqueueing never trips a trigger (enqueueSql).
LEMMA EnqueueStored ==
  ASSUME NEW r \in Row, RowInv(r)
  PROVE  Stored(r, EnqueuedRow(r))
<1>1. EnqueuedRow(r) \in Row /\ RowInv(EnqueuedRow(r))
  <2>1. CASE r.status \in {"ABSENT", "FAILED"}
    <3> DEFINE n == [NoRow EXCEPT !.status = "QUEUED", !.due = TRUE, !.gen = r.gen]
    <3>1. n \in Row
      BY DEF NoRow, Row, Status
    <3>2. RowInv(n)
      BY BudgetAssumption DEF NoRow, RowInv, LeaseStateCheck
    <3>3. EnqueuedRow(r) = n
      BY <2>1 DEF EnqueuedRow
    <3> HIDE DEF n
    <3> QED BY <3>1, <3>2, <3>3
  <2>2. CASE r.status \notin {"ABSENT", "FAILED"}
    BY <2>2 DEF EnqueuedRow
  <2> QED BY <2>1, <2>2
<1>2. EnqueuedRow(r) = r \/ (EnqueuedRow(r).status = "QUEUED" /\ EnqueuedRow(r).gen = r.gen)
  BY DEF EnqueuedRow, NoRow, Row, RowInv
<1>3. r.status = "SUCCEEDED" => EnqueuedRow(r) = r
  BY DEF EnqueuedRow
<1> QED BY <1>1, <1>2, <1>3, StoredWhenFenced DEF Row

\* A claim that finds budget never trips a trigger (claimJob, lines 68-78).
LEMMA ClaimStored ==
  ASSUME NEW r \in Row, RowInv(r), NEW w \in Worker, NEW charge \in {0, 1},
         r.status # "SUCCEEDED", r.attempts + charge <= MaxAttempts
  PROVE  Stored(r, ClaimedRow(r, w, charge))
<1> DEFINE n == ClaimedRow(r, w, charge)
<1>1. n \in Row
  <2>1. r.attempts + charge \in Nat /\ r.gen + 1 \in Nat
    BY DEF Row
  <2> QED BY <2>1 DEF ClaimedRow, Row, Status
<1>2. n.status = "RUNNING" /\ n.gen = r.gen + 1 /\ n.owner = w
      /\ n.lease = "live" /\ n.attempts = r.attempts + charge
  BY DEF ClaimedRow, Row
<1>3. RowInv(n)
  BY <1>2, WorkerAssumption DEF RowInv, LeaseStateCheck, Row
<1> HIDE DEF n
<1> QED BY <1>1, <1>2, <1>3, StoredWhenFenced DEF n, Row

\* Nor does failing a row without budget, or one whose lease expired.
LEMMA FailStored ==
  ASSUME NEW r \in Row, RowInv(r), r.status # "SUCCEEDED"
  PROVE  Stored(r, FailedRow(r))
<1>1. FailedRow(r) \in Row /\ RowInv(FailedRow(r))
  BY BudgetAssumption DEF FailedRow, Row, Status, RowInv, LeaseStateCheck
<1>2. FailedRow(r).status = "FAILED" /\ FailedRow(r).gen = r.gen
  BY DEF FailedRow, Row
<1> QED BY <1>1, <1>2, StoredWhenFenced DEF Row

\* Nor a fenced transition (transitionJobWithFence).
LEMMA TransitionStored ==
  ASSUME NEW r \in Row, RowInv(r), r.status = "RUNNING",
         NEW status \in {"QUEUED", "WAITING_EXTERNAL", "SUCCEEDED", "FAILED"},
         NEW ext \in BOOLEAN, NEW delayed \in BOOLEAN,
         status = "QUEUED" => r.attempts < MaxAttempts
  PROVE  Stored(r, TransitionedRow(r, status, ext, delayed))
<1> DEFINE n == TransitionedRow(r, status, ext, delayed)
<1>1. n.status = status /\ n.gen = r.gen /\ n.attempts = r.attempts
      /\ n.owner = NoOwner /\ n.lease = "none"
  BY DEF TransitionedRow, Row
<1>2. n \in Row
  BY DEF TransitionedRow, Row, Status
<1>3. RowInv(n)
  BY <1>1 DEF RowInv, LeaseStateCheck
<1> HIDE DEF n
<1> QED BY <1>1, <1>2, <1>3, StoredWhenFenced DEF n, Row

\* What a write of a storable row does.
LEMMA WriteStores ==
  ASSUME NEW j \in Job, NEW new, Stored(row[j], new), Write(j, new),
         refused \in BOOLEAN
  PROVE  row' = [row EXCEPT ![j] = new] /\ refused' = refused
  BY DEF Write, Stored

-----------------------------------------------------------------------------
(* Steps.  Either a claim advances the generation of a row and gives it to the *)
(* claiming execution, or the generation stays and executions at most leave.   *)

\* Executions leave the job they hold, or nobody does.
Leaving == (\E e \in Exec : Leave(e)) \/ UNCHANGED <<pc, hold>>

Counters ==
  /\ waits \in [Job -> 0 .. MaxWaits]
  /\ reactivated \in [Job -> 0 .. MaxReactivations]
  /\ crashes \in 0 .. MaxCrashes

\* A step that keeps every generation keeps the invariant, provided that a row
\* that runs after it ran before it with the same number of attempts.
LEMMA SameGeneration ==
  ASSUME Inv, NEW j \in Job, NEW new \in Row, RowInv(new),
         new.gen = row[j].gen,
         new.status = "RUNNING" =>
           row[j].status = "RUNNING" /\ new.attempts = row[j].attempts,
         row' = [row EXCEPT ![j] = new], refused' = refused,
         Leaving,
         effect' = effect \/ effect' = [effect EXCEPT ![j] = row[j].gen],
         Counters'
  PROVE  Inv'
<1> USE DEF Inv, TypeOK
<1>1. /\ \A k \in Job : row'[k].gen = row[k].gen
      /\ \A k \in Job : row'[k].status = "RUNNING" =>
           row[k].status = "RUNNING" /\ row'[k].attempts = row[k].attempts
  OBVIOUS
<1>2. row' \in [Job -> Row] /\ effect' \in [Job -> Nat]
  BY DEF Row
<1>3. /\ pc' \in [Exec -> {"idle", "claimed", "working"}]
      /\ hold' \in [Exec -> Hold]
      /\ \A e \in Exec : pc'[e] = "idle" <=> hold'[e].job = NoJob
  <2>1. CASE \E e \in Exec : Leave(e)
    <3>1. NoHold \in Hold /\ NoHold.job = NoJob
      BY DEF NoHold, Hold
    <3> QED BY <2>1, <3>1 DEF Leave
  <2>2. CASE UNCHANGED <<pc, hold>>
    BY <2>2
  <2> QED BY <2>1, <2>2 DEF Leaving
<1>4. \A e \in Exec : pc'[e] # "idle" => pc[e] # "idle" /\ hold'[e] = hold[e]
  BY DEF Leaving, Leave
<1>5. TypeOK'
  BY <1>2, <1>3 DEF NeverRefused, Counters
<1>6. \A k \in Job : RowInv(row'[k])
  OBVIOUS
<1>7. \A e \in Exec : HoldInv(e)'
  <2>1. SUFFICES ASSUME NEW e \in Exec, pc'[e] # "idle"
                 PROVE  HoldInv(e)'
    BY DEF HoldInv
  <2>2. HoldInv(e) /\ hold'[e] = hold[e] /\ hold[e].job \in Job /\ pc[e] # "idle"
    BY <1>4, <2>1 DEF Hold
  <2> QED BY <1>1, <2>2 DEF HoldInv
<1>8. \A e, f \in Exec : Distinct(e, f)'
  BY <1>4 DEF Distinct
<1>9. \A k \in Job : effect'[k] <= row'[k].gen
  BY <1>1 DEF Row
<1> QED BY <1>5, <1>6, <1>7, <1>8, <1>9 DEF NeverRefused

\* A claim keeps it: the generation it hands out is new.
LEMMA NewGeneration ==
  ASSUME Inv, NEW e \in Exec, NEW j \in Job, NEW new \in Row, RowInv(new),
         new.gen = row[j].gen + 1,
         row' = [row EXCEPT ![j] = new], refused' = refused,
         pc[e] = "idle", Take(e, j, new),
         UNCHANGED <<effect, waits, reactivated, crashes>>
  PROVE  Inv'
<1> USE DEF Inv, TypeOK
<1>1. \A k \in Job : row[k].gen \in Nat /\ row'[k].gen \in Nat
                     /\ row'[k].gen >= row[k].gen
  BY DEF Row
<1>2. row' \in [Job -> Row]
  OBVIOUS
<1>3. [job |-> j, gen |-> new.gen, attempts |-> new.attempts, ext |-> new.ext] \in Hold
  BY DEF Row, Hold
<1>4. /\ pc' \in [Exec -> {"idle", "claimed", "working"}]
      /\ hold' \in [Exec -> Hold]
  BY <1>3 DEF Take
<1>5. \A f \in Exec : pc'[f] = "idle" <=> hold'[f].job = NoJob
  BY WorkerAssumption DEF Take
<1>6. TypeOK'
  BY <1>2, <1>4, <1>5 DEF NeverRefused
<1>7. \A k \in Job : RowInv(row'[k])
  OBVIOUS
<1>8. \A f \in Exec : f # e => pc'[f] = pc[f] /\ hold'[f] = hold[f]
  BY DEF Take
<1>9. /\ pc'[e] = "claimed"
      /\ hold'[e].job = j /\ hold'[e].gen = row[j].gen + 1
      /\ hold'[e].attempts = new.attempts /\ row'[j] = new
  BY DEF Take
<1>10. \A f \in Exec : HoldInv(f)'
  <2> SUFFICES ASSUME NEW f \in Exec, pc'[f] # "idle"
               PROVE  HoldInv(f)'
    BY DEF HoldInv
  <2>1. CASE f = e
    BY <2>1, <1>1, <1>9 DEF HoldInv
  <2>2. CASE f # e
    <3>1. HoldInv(f) /\ hold'[f] = hold[f] /\ hold[f].job \in Job /\ pc[f] # "idle"
      BY <2>2, <1>8 DEF Hold
    <3>2. CASE hold[f].job = j
      BY <3>1, <3>2, <1>1, <1>9 DEF HoldInv
    <3>3. CASE hold[f].job # j
      BY <3>1, <3>3 DEF HoldInv
    <3> QED BY <3>2, <3>3
  <2> QED BY <2>1, <2>2
<1>11. \A f, g \in Exec : Distinct(f, g)'
  <2>1. \A f \in Exec : (f # e /\ pc'[f] # "idle" /\ hold'[f].job = j)
                          => hold'[f].gen # row[j].gen + 1
    BY <1>1, <1>8 DEF HoldInv
  <2> QED BY <2>1, <1>8, <1>9 DEF Distinct
<1>12. \A k \in Job : effect'[k] <= row'[k].gen
  BY <1>1
<1> QED BY <1>6, <1>7, <1>10, <1>11, <1>12 DEF NeverRefused

-----------------------------------------------------------------------------
(* One lemma for each operation.                                               *)

\* Counters that a step leaves alone keep their bounds.
LEMMA CountersKept ==
  ASSUME Inv, UNCHANGED <<waits, reactivated, crashes>>
  PROVE  Counters'
  BY DEF Inv, TypeOK, Counters

LEMMA EnqueueKeepsInv ==
  ASSUME Inv, NEW j \in Job, EnqueueJob(j)
  PROVE  Inv'
<1> DEFINE n == EnqueuedRow(row[j])
<1>1. row[j] \in Row /\ RowInv(row[j]) /\ refused \in BOOLEAN
  BY DEF Inv, TypeOK
<1>2. Stored(row[j], n)
  BY <1>1, EnqueueStored
<1>3. n.gen = row[j].gen /\ (n.status = "RUNNING" => n = row[j])
  BY DEF EnqueuedRow, NoRow
<1>4. row' = [row EXCEPT ![j] = n] /\ refused' = refused
  <2> HIDE DEF n
  <2> QED BY <1>1, <1>2, WriteStores DEF EnqueueJob, n
<1>5. Counters'
  BY BoundAssumption DEF Inv, TypeOK, Counters, EnqueueJob
<1> HIDE DEF n
<1> QED BY <1>2, <1>3, <1>4, <1>5, SameGeneration DEF EnqueueJob, Stored, Leaving

LEMMA BecomeDueKeepsInv ==
  ASSUME Inv, NEW j \in Job, BecomeDue(j)
  PROVE  Inv'
<1> DEFINE n == [row[j] EXCEPT !.due = TRUE]
<1>1. n \in Row /\ RowInv(n) /\ n.gen = row[j].gen /\ n.status # "RUNNING"
  BY DEF Inv, TypeOK, BecomeDue, Row, RowInv, LeaseStateCheck
<1>2. row' = [row EXCEPT ![j] = n]
  BY DEF BecomeDue
<1> HIDE DEF n
<1> QED BY <1>1, <1>2, SameGeneration, CountersKept DEF BecomeDue, Leaving

LEMMA ExpireKeepsInv ==
  ASSUME Inv, NEW j \in Job, Expire(j)
  PROVE  Inv'
<1> DEFINE n == [row[j] EXCEPT !.lease = "expired"]
<1>1. row[j].status = "RUNNING"
  BY DEF Inv, Expire, RowInv, LeaseStateCheck
<1>2. n \in Row /\ RowInv(n) /\ n.gen = row[j].gen /\ n.attempts = row[j].attempts
  BY <1>1 DEF Inv, TypeOK, Row, RowInv, LeaseStateCheck
<1>3. row' = [row EXCEPT ![j] = n]
  BY DEF Expire
<1> HIDE DEF n
<1> QED BY <1>1, <1>2, <1>3, SameGeneration, CountersKept DEF Expire, Leaving

\* A row that is failed, because its budget is gone or its lease expired.
LEMMA FailingKeepsInv ==
  ASSUME Inv, NEW j \in Job, row[j].status # "SUCCEEDED",
         Write(j, FailedRow(row[j])),
         UNCHANGED <<pc, hold, effect, waits, reactivated, crashes>>
  PROVE  Inv'
<1> DEFINE n == FailedRow(row[j])
<1>1. row[j] \in Row /\ RowInv(row[j]) /\ refused \in BOOLEAN
  BY DEF Inv, TypeOK
<1>2. Stored(row[j], n)
  BY <1>1, FailStored
<1>3. n.gen = row[j].gen /\ n.status # "RUNNING"
  BY <1>1 DEF FailedRow, Row
<1> HIDE DEF n
<1>4. row' = [row EXCEPT ![j] = n] /\ refused' = refused
  BY <1>1, <1>2, WriteStores DEF n
<1> QED BY <1>2, <1>3, <1>4, SameGeneration, CountersKept DEF Stored, Leaving

\* A claim that finds budget.
LEMMA ClaimingKeepsInv ==
  ASSUME Inv, NEW e \in Exec, NEW j \in Job, NEW charge \in {0, 1},
         pc[e] = "idle", row[j].status # "SUCCEEDED",
         row[j].attempts + charge <= MaxAttempts,
         Write(j, ClaimedRow(row[j], WorkerOf[e], charge)),
         Take(e, j, ClaimedRow(row[j], WorkerOf[e], charge)),
         UNCHANGED <<effect, waits, reactivated, crashes>>
  PROVE  Inv'
<1> DEFINE n == ClaimedRow(row[j], WorkerOf[e], charge)
<1>1. row[j] \in Row /\ RowInv(row[j]) /\ refused \in BOOLEAN /\ WorkerOf[e] \in Worker
  BY WorkerAssumption DEF Inv, TypeOK
<1>2. Stored(row[j], n)
  BY <1>1, ClaimStored
<1>3. n.gen = row[j].gen + 1
  BY <1>1 DEF ClaimedRow, Row
<1> HIDE DEF n
<1>4. row' = [row EXCEPT ![j] = n] /\ refused' = refused
  BY <1>1, <1>2, WriteStores DEF n
<1> QED BY <1>2, <1>3, <1>4, NewGeneration DEF Stored, n

LEMMA ClaimKeepsInv ==
  ASSUME Inv, NEW e \in Exec, NEW j \in Job, Claim(e, j)
  PROVE  Inv'
<1>1. RowInv(row[j]) /\ row[j].attempts \in Nat
  BY DEF Inv, TypeOK, Row
<1>2. CASE ClaimDue(e, j)
  <2> DEFINE charge == IF row[j].status = "QUEUED" THEN 1 ELSE 0
             exhausted == charge = 1 /\ row[j].attempts >= MaxAttempts
  <2>1. row[j].status # "SUCCEEDED" /\ pc[e] = "idle"
    BY <1>2 DEF ClaimDue, Claimable
  <2>2. CASE exhausted
    BY <1>2, <2>1, <2>2, FailingKeepsInv DEF ClaimDue
  <2>3. CASE ~exhausted
    <3>1. row[j].attempts + charge <= MaxAttempts
      BY <1>1, <2>3, BudgetAssumption DEF RowInv
    <3>2. /\ Write(j, ClaimedRow(row[j], WorkerOf[e], charge))
          /\ Take(e, j, ClaimedRow(row[j], WorkerOf[e], charge))
          /\ UNCHANGED <<effect, waits, reactivated, crashes>>
      BY <1>2, <2>3 DEF ClaimDue
    <3> QED BY <2>1, <3>1, <3>2, ClaimingKeepsInv
  <2> QED BY <2>2, <2>3
<1>3. CASE RecoverExpired(e, j)
  <2>1. row[j].attempts + 1 <= MaxAttempts
    BY <1>1, <1>3, BudgetAssumption DEF RecoverExpired
  <2> QED BY <1>3, <2>1, ClaimingKeepsInv DEF RecoverExpired, RecoveredRow, MayRecover
<1>4. CASE FailExhausted(e, j)
  BY <1>4, FailingKeepsInv DEF FailExhausted, MayRecover
<1> QED BY <1>2, <1>3, <1>4 DEF Claim

\* Whoever passes the fence holds the current generation of a running row.
LEMMA FencedIsCurrent ==
  ASSUME Inv, NEW e \in Exec, pc[e] # "idle", Fenced(e)
  PROVE  LET r == row[hold[e].job]
         IN /\ hold[e].job \in Job /\ r \in Row /\ RowInv(r)
            /\ r.status = "RUNNING"
            /\ hold[e].gen = r.gen
            /\ hold[e].attempts = r.attempts
  BY DEF Inv, TypeOK, Fenced, FenceHolds, HoldInv

\* A step of an execution that writes no row.
LEMMA RowKeptKeepsInv ==
  ASSUME Inv, NEW e \in Exec, pc[e] # "idle",
         UNCHANGED <<row, refused>>, Leaving, Counters',
         effect' = effect \/ (Fenced(e) /\ DomainWrites(e))
  PROVE  Inv'
<1> DEFINE j == hold[e].job
<1>1. j \in Job
  BY DEF Inv, TypeOK, Hold
<1>2. row[j] \in Row /\ RowInv(row[j]) /\ row' = [row EXCEPT ![j] = row[j]]
  BY <1>1 DEF Inv, TypeOK
<1>3. effect' = effect \/ effect' = [effect EXCEPT ![j] = row[j].gen]
  BY FencedIsCurrent DEF DomainWrites
<1> HIDE DEF j
<1> QED BY <1>1, <1>2, <1>3, SameGeneration

LEMMA HeartbeatKeepsInv ==
  ASSUME Inv, NEW e \in Exec, HeartbeatJob(e)
  PROVE  Inv'
  BY DEF Inv, TypeOK, HeartbeatJob, RowInv, LeaseStateCheck, HoldInv, Distinct, NeverRefused

\* A fenced transition, with or without domain writes.
LEMMA TransitionKeepsInv ==
  ASSUME Inv, NEW e \in Exec,
         NEW status \in {"QUEUED", "WAITING_EXTERNAL", "SUCCEEDED", "FAILED"},
         NEW ext \in BOOLEAN, NEW delayed \in BOOLEAN,
         status = "QUEUED" => hold[e].attempts < MaxAttempts,
         Transition(e, status, ext, delayed),
         effect' = effect \/ DomainWrites(e),
         Counters'
  PROVE  Inv'
<1> DEFINE j == hold[e].job
           n == TransitionedRow(row[j], status, ext, delayed)
<1>1. pc[e] # "idle" /\ Fenced(e) /\ refused \in BOOLEAN
  BY DEF Transition, Inv, TypeOK
<1>2. /\ j \in Job /\ row[j] \in Row /\ RowInv(row[j])
      /\ row[j].status = "RUNNING"
      /\ hold[e].gen = row[j].gen /\ hold[e].attempts = row[j].attempts
  BY <1>1, FencedIsCurrent
<1>3. Stored(row[j], n)
  BY <1>2, TransitionStored
<1>4. n.gen = row[j].gen /\ n.status = status
  BY <1>2 DEF TransitionedRow, Row
<1>5. Leaving
  BY DEF Transition, LeaveOrMissAnswer, Leaving
<1>6. effect' = effect \/ effect' = [effect EXCEPT ![j] = row[j].gen]
  BY <1>2 DEF DomainWrites
<1> HIDE DEF n
<1>7. row' = [row EXCEPT ![j] = n] /\ refused' = refused
  BY <1>1, <1>2, <1>3, WriteStores DEF Transition, n
<1> HIDE DEF j
<1> QED BY <1>2, <1>3, <1>4, <1>5, <1>6, <1>7, SameGeneration DEF Stored

LEMMA ProcessKeepsInv ==
  ASSUME Inv, NEW e \in Exec, Process(e)
  PROVE  Inv'
<1>1. CASE HeartbeatJob(e)
  BY <1>1, HeartbeatKeepsInv
<1>2. CASE LoseLease(e)
  BY <1>2, RowKeptKeepsInv, CountersKept DEF LoseLease, Leaving
<1>3. CASE PublishPartial(e)
  BY <1>3, RowKeptKeepsInv, CountersKept DEF PublishPartial, Leaving
<1>4. CASE CompleteJob(e)
  BY <1>4, TransitionKeepsInv, CountersKept DEF CompleteJob
<1>5. CASE ContinueJob(e)
  <2>1. PICK ext \in BOOLEAN, delayed \in BOOLEAN :
          Transition(e, "WAITING_EXTERNAL", ext, delayed)
    BY <1>5 DEF ContinueJob
  <2>2. Counters'
    <3>1. waits[hold[e].job] + 1 \in 0 .. MaxWaits
      BY <1>5, BoundAssumption DEF ContinueJob, Fenced, Inv, TypeOK
    <3> QED BY <1>5, <3>1 DEF ContinueJob, Inv, TypeOK, Counters
  <2> QED BY <1>5, <2>1, <2>2, TransitionKeepsInv DEF ContinueJob
<1>6. CASE FailJob(e)
  <2>1. PICK retryable \in BOOLEAN, preserve \in BOOLEAN :
          LET retry == Retries(hold[e], retryable)
          IN /\ Transition(e, IF retry THEN "QUEUED" ELSE "FAILED",
                           retry /\ preserve /\ hold[e].ext, retry)
             /\ UNCHANGED effect \/ (~retry /\ DomainWrites(e))
    BY <1>6 DEF FailJob
  <2> DEFINE retry == Retries(hold[e], retryable)
  <2>2. retry \in BOOLEAN /\ (retry => hold[e].attempts < MaxAttempts)
    BY DEF Retries
  <2>3. Counters'
    BY <1>6, CountersKept DEF FailJob
  <2> HIDE DEF retry
  <2>4. (retry /\ preserve /\ hold[e].ext) \in BOOLEAN
    OBVIOUS
  <2>5. CASE retry
    BY <2>1, <2>2, <2>3, <2>4, <2>5, TransitionKeepsInv DEF retry
  <2>6. CASE ~retry
    BY <2>1, <2>2, <2>3, <2>4, <2>6, TransitionKeepsInv DEF retry
  <2> QED BY <2>5, <2>6
<1> QED BY <1>1, <1>2, <1>3, <1>4, <1>5, <1>6 DEF Process

LEMMA CrashKeepsInv ==
  ASSUME Inv, NEW e \in Exec, Crash(e)
  PROVE  Inv'
<1>1. Counters'
  BY BoundAssumption DEF Crash, Inv, TypeOK, Counters
<1> QED BY <1>1, RowKeptKeepsInv DEF Crash, Leaving

LEMMA InitInv == Init => Inv
<1> SUFFICES ASSUME Init PROVE Inv
  OBVIOUS
<1>1. TypeOK
  <2>1. NoRow \in Row /\ NoHold \in Hold /\ NoHold.job = NoJob
    BY DEF Row, Hold, NoRow, NoHold, Status
  <2>2. 0 \in 0 .. MaxWaits /\ 0 \in 0 .. MaxReactivations /\ 0 \in 0 .. MaxCrashes
    BY BoundAssumption
  <2>3. row \in [Job -> Row] /\ hold \in [Exec -> Hold]
        /\ pc \in [Exec -> {"idle", "claimed", "working"}]
    BY <2>1 DEF Init
  <2>4. \A e \in Exec : pc[e] = "idle" <=> hold[e].job = NoJob
    BY <2>1 DEF Init
  <2>5. effect \in [Job -> Nat] /\ refused \in BOOLEAN
        /\ waits \in [Job -> 0 .. MaxWaits]
        /\ reactivated \in [Job -> 0 .. MaxReactivations]
        /\ crashes \in 0 .. MaxCrashes
    BY <2>2 DEF Init
  <2> QED BY <2>3, <2>4, <2>5 DEF TypeOK
<1>2. RowInv(NoRow)
  BY BudgetAssumption DEF NoRow, RowInv, LeaseStateCheck
<1> QED BY <1>1, <1>2 DEF Inv, Init, HoldInv, Distinct, NeverRefused, NoRow

LEMMA StepInv == Inv /\ [Next]_vars => Inv'
<1> SUFFICES ASSUME Inv, [Next]_vars PROVE Inv'
  OBVIOUS
<1>1. ASSUME NEW j \in Job, EnqueueJob(j) \/ BecomeDue(j) \/ Expire(j) PROVE Inv'
  BY <1>1, EnqueueKeepsInv, BecomeDueKeepsInv, ExpireKeepsInv
<1>2. ASSUME NEW e \in Exec, NEW j \in Job, Claim(e, j) PROVE Inv'
  BY <1>2, ClaimKeepsInv
<1>3. ASSUME NEW e \in Exec, Process(e) \/ Crash(e) PROVE Inv'
  BY <1>3, ProcessKeepsInv, CrashKeepsInv
<1>4. CASE UNCHANGED vars
  BY <1>4 DEF vars, Inv, TypeOK, RowInv, LeaseStateCheck, HoldInv, Distinct, NeverRefused
<1> QED BY <1>1, <1>2, <1>3, <1>4 DEF Next

THEOREM InvHolds == Spec => []Inv
  BY InitInv, StepInv, PTL DEF Spec

-----------------------------------------------------------------------------
(* The results.                                                                *)

\* Every variable keeps its type, and an execution is idle exactly when it
\* holds no row.
THEOREM TypeCorrect == Spec => []TypeOK
<1>1. Inv => TypeOK
  BY DEF Inv
<1> QED BY <1>1, InvHolds, PTL

\* At most one execution of a job passes the fence, for any number of
\* executions and any sharing of worker identities (lib/jobs.ts:87-147).
THEOREM FenceIsExclusive == Spec => []OneCurrentHolder
<1>1. Inv => OneCurrentHolder
  <2> SUFFICES ASSUME Inv, NEW e \in Exec, NEW f \in Exec, e # f,
                      hold[e].job # NoJob, hold[f].job = hold[e].job,
                      Fenced(e), Fenced(f)
               PROVE  FALSE
    BY DEF OneCurrentHolder
  <2>1. pc[e] # "idle" /\ pc[f] # "idle"
    BY DEF Inv, TypeOK
  <2>2. hold[e].gen = hold[f].gen
    BY DEF Fenced, FenceHolds
  <2> QED BY <2>1, <2>2 DEF Inv, Distinct
<1> QED BY <1>1, InvHolds, PTL

\* No write of the fencing-capable bundle is refused by a trigger
\* (db/migrations/008, 012).
THEOREM TriggersAccept == Spec => []NeverRefused
<1>1. Inv => NeverRefused
  BY DEF Inv
<1> QED BY <1>1, InvHolds, PTL

\* Attempts stay within the budget, over crashes and takeovers too.
THEOREM AttemptsBounded == Spec => []RetryBudget
<1>1. Inv => RetryBudget
  BY DEF Inv, RowInv, RetryBudget
<1> QED BY <1>1, InvHolds, PTL

\* What a step does to the last published generation.
LEMMA EffectStep ==
  ASSUME Inv, [Next]_vars
  PROVE  \/ UNCHANGED effect
         \/ \E e \in Exec : pc[e] # "idle" /\ Fenced(e) /\ DomainWrites(e)
<1>1. ASSUME NEW j \in Job, EnqueueJob(j) \/ BecomeDue(j) \/ Expire(j)
      PROVE  UNCHANGED effect
  BY <1>1 DEF EnqueueJob, BecomeDue, Expire
<1>2. ASSUME NEW e \in Exec, NEW j \in Job, Claim(e, j) PROVE UNCHANGED effect
  BY <1>2 DEF Claim, ClaimDue, RecoverExpired, FailExhausted
<1>3. ASSUME NEW e \in Exec, Process(e)
      PROVE  UNCHANGED effect \/ (pc[e] # "idle" /\ Fenced(e) /\ DomainWrites(e))
  BY <1>3 DEF Process, HeartbeatJob, LoseLease, PublishPartial, CompleteJob,
              ContinueJob, FailJob, Transition
<1>4. ASSUME NEW e \in Exec, Crash(e) PROVE UNCHANGED effect
  BY <1>4 DEF Crash
<1>5. CASE UNCHANGED vars
  BY <1>5 DEF vars
<1> QED BY <1>1, <1>2, <1>3, <1>4, <1>5 DEF Next

\* Only the newest generation of a job publishes, and generations publish in
\* their order (assertJobLease, lib/jobs.ts:87-97).
THEOREM OnlyNewestPublishes == Spec => NoStaleEffect
<1> DEFINE A == \A j \in Job : effect'[j] # effect[j] =>
                  effect'[j] = row[j].gen /\ effect'[j] > effect[j]
<1>1. Inv /\ [Next]_vars => [A]_vars
  <2> SUFFICES ASSUME Inv, [Next]_vars, NEW j \in Job, effect'[j] # effect[j]
               PROVE  effect'[j] = row[j].gen /\ effect'[j] > effect[j]
    OBVIOUS
  <2>1. PICK e \in Exec : pc[e] # "idle" /\ Fenced(e) /\ DomainWrites(e)
    BY EffectStep
  <2>2. hold[e].job \in Job /\ hold[e].gen = row[hold[e].job].gen
    BY <2>1, FencedIsCurrent
  <2>3. effect'[j] = row[j].gen
    BY <2>1, <2>2 DEF DomainWrites, Inv, TypeOK
  <2>4. effect[j] \in Nat /\ row[j].gen \in Nat /\ effect[j] <= row[j].gen
    BY DEF Inv, TypeOK, Row
  <2> QED BY <2>3, <2>4
<1> QED BY <1>1, InvHolds, PTL DEF Spec, NoStaleEffect

-----------------------------------------------------------------------------
(* The queue keeps its promise: every step of it is a step of                  *)
(* FencedPublication, or changes nothing the promise speaks of.                *)

Open(r) == r.status = "RUNNING"
Final(r) == r.status = "SUCCEEDED"

\* A step that writes one row is a step of the promise when the row moves the
\* way an epoch does.
LEMMA RowStepPromised ==
  ASSUME Inv, NEW j \in Job, NEW new \in Row,
         row' = [row EXCEPT ![j] = new],
         \/ (* an owner *) 
            /\ ~Final(row[j]) /\ new.gen = row[j].gen + 1
            /\ Open(new) /\ ~Final(new) /\ effect' = effect
         \/ (* the end of an owner *) 
            /\ Open(row[j]) /\ new.gen = row[j].gen /\ ~Open(new)
            /\ \/ ~Final(new) /\ effect' = effect
               \/ effect' = [effect EXCEPT ![j] = row[j].gen]
         \/ (* nothing *) 
            /\ new.gen = row[j].gen /\ Open(new) = Open(row[j])
            /\ Final(new) = Final(row[j]) /\ effect' = effect
  PROVE  Promise!Next \/ UNCHANGED Promise!vars
<1> USE DEF Inv, TypeOK
<1>1. /\ row'[j] = new
      /\ \A k \in Job : k # j => row'[k] = row[k]
  OBVIOUS
<1>2. ASSUME new.gen = row[j].gen
      PROVE  [k \in Job |-> row'[k].gen] = [k \in Job |-> row[k].gen]
  BY <1>1, <1>2
<1>3. ASSUME Final(new) = Final(row[j])
      PROVE  [k \in Job |-> row'[k].status = "SUCCEEDED"]
               = [k \in Job |-> row[k].status = "SUCCEEDED"]
  BY <1>1, <1>3 DEF Final
<1>4. ASSUME Open(new) = Open(row[j])
      PROVE  [k \in Job |-> row'[k].status = "RUNNING"]
               = [k \in Job |-> row[k].status = "RUNNING"]
  BY <1>1, <1>4 DEF Open
<1>5. CASE /\ ~Final(row[j]) /\ new.gen = row[j].gen + 1
           /\ Open(new) /\ ~Final(new) /\ effect' = effect
  <2>1. [k \in Job |-> row'[k].gen]
          = [[k \in Job |-> row[k].gen] EXCEPT ![j] = row[j].gen + 1]
    BY <1>1, <1>5
  <2>2. [k \in Job |-> row'[k].status = "RUNNING"]
          = [[k \in Job |-> row[k].status = "RUNNING"] EXCEPT ![j] = TRUE]
    BY <1>1, <1>5, Zenon DEF Open
  <2> QED BY <1>3, <1>5, <2>1, <2>2 DEF Promise!Next, Promise!Open, Final
<1>6. CASE /\ Open(row[j]) /\ new.gen = row[j].gen /\ ~Open(new)
           /\ \/ ~Final(new) /\ effect' = effect
              \/ effect' = [effect EXCEPT ![j] = row[j].gen]
  <2>1. [k \in Job |-> row'[k].status = "RUNNING"]
          = [[k \in Job |-> row[k].status = "RUNNING"] EXCEPT ![j] = FALSE]
    BY <1>1, <1>6, Zenon DEF Open
  <2>2. CASE ~Final(new)
    BY <1>2, <1>3, <1>6, <2>1, <2>2 DEF Promise!Next, Promise!Close, Final, Open
  <2>3. CASE Final(new)
    <3>1. [k \in Job |-> row'[k].status = "SUCCEEDED"]
            = [[k \in Job |-> row[k].status = "SUCCEEDED"] EXCEPT ![j] = TRUE]
      BY <1>1, <2>3, Zenon DEF Final
    <3> QED BY <1>2, <1>6, <2>1, <2>3, <3>1 DEF Promise!Next, Promise!Finish, Open
  <2> QED BY <2>2, <2>3
<1>7. CASE /\ new.gen = row[j].gen /\ Open(new) = Open(row[j])
           /\ Final(new) = Final(row[j]) /\ effect' = effect
  BY <1>2, <1>3, <1>4, <1>7 DEF Promise!vars
<1> QED BY <1>5, <1>6, <1>7

LEMMA ClaimPromised ==
  ASSUME Inv, NEW e \in Exec, NEW j \in Job, Claim(e, j)
  PROVE  Promise!Next \/ UNCHANGED Promise!vars
<1>1. row[j] \in Row /\ RowInv(row[j]) /\ refused \in BOOLEAN /\ WorkerOf[e] \in Worker
  BY WorkerAssumption DEF Inv, TypeOK
<1>2. row[j].attempts \in Nat
  BY <1>1 DEF Row
<1>3. ASSUME row[j].status # "SUCCEEDED", Write(j, FailedRow(row[j])), UNCHANGED effect
      PROVE  Promise!Next \/ UNCHANGED Promise!vars
  <2> DEFINE n == FailedRow(row[j])
  <2>1. Stored(row[j], n)
    BY <1>1, <1>3, FailStored
  <2>2. n.gen = row[j].gen /\ n.status = "FAILED"
    BY <1>1 DEF FailedRow, Row
  <2> HIDE DEF n
  <2>3. row' = [row EXCEPT ![j] = n]
    BY <1>1, <1>3, <2>1, WriteStores DEF n
  <2> QED BY <1>3, <2>1, <2>2, <2>3, RowStepPromised DEF Stored, Open, Final
<1>4. ASSUME NEW charge \in {0, 1}, row[j].status # "SUCCEEDED",
             row[j].attempts + charge <= MaxAttempts,
             Write(j, ClaimedRow(row[j], WorkerOf[e], charge)), UNCHANGED effect
      PROVE  Promise!Next \/ UNCHANGED Promise!vars
  <2> DEFINE n == ClaimedRow(row[j], WorkerOf[e], charge)
  <2>1. Stored(row[j], n)
    BY <1>1, <1>4, ClaimStored
  <2>2. n.gen = row[j].gen + 1 /\ n.status = "RUNNING"
    BY <1>1 DEF ClaimedRow, Row
  <2> HIDE DEF n
  <2>3. row' = [row EXCEPT ![j] = n]
    BY <1>1, <1>4, <2>1, WriteStores DEF n
  <2> QED BY <1>4, <2>1, <2>2, <2>3, RowStepPromised DEF Stored, Open, Final
<1>5. CASE ClaimDue(e, j)
  <2> DEFINE charge == IF row[j].status = "QUEUED" THEN 1 ELSE 0
             exhausted == charge = 1 /\ row[j].attempts >= MaxAttempts
  <2>1. row[j].status # "SUCCEEDED" /\ UNCHANGED effect
    BY <1>5 DEF ClaimDue, Claimable
  <2>2. CASE exhausted
    BY <1>3, <1>5, <2>1, <2>2 DEF ClaimDue
  <2>3. CASE ~exhausted
    <3>1. row[j].attempts + charge <= MaxAttempts
      BY <1>1, <1>2, <2>3, BudgetAssumption DEF RowInv
    <3>2. Write(j, ClaimedRow(row[j], WorkerOf[e], charge))
      BY <1>5, <2>3 DEF ClaimDue
    <3> QED BY <1>4, <2>1, <3>1, <3>2
  <2> QED BY <2>2, <2>3
<1>6. CASE RecoverExpired(e, j)
  <2>1. row[j].attempts + 1 <= MaxAttempts
    BY <1>2, <1>6, BudgetAssumption DEF RecoverExpired
  <2> QED BY <1>4, <1>6, <2>1 DEF RecoverExpired, RecoveredRow, MayRecover
<1>7. CASE FailExhausted(e, j)
  BY <1>3, <1>7 DEF FailExhausted, MayRecover
<1> QED BY <1>5, <1>6, <1>7 DEF Claim

LEMMA TransitionPromised ==
  ASSUME Inv, NEW e \in Exec,
         NEW status \in {"QUEUED", "WAITING_EXTERNAL", "SUCCEEDED", "FAILED"},
         NEW ext \in BOOLEAN, NEW delayed \in BOOLEAN,
         status = "QUEUED" => hold[e].attempts < MaxAttempts,
         Transition(e, status, ext, delayed),
         DomainWrites(e) \/ (status # "SUCCEEDED" /\ UNCHANGED effect)
  PROVE  Promise!Next \/ UNCHANGED Promise!vars
<1> DEFINE j == hold[e].job
           n == TransitionedRow(row[j], status, ext, delayed)
<1>1. pc[e] # "idle" /\ Fenced(e) /\ refused \in BOOLEAN
  BY DEF Transition, Inv, TypeOK
<1>2. /\ j \in Job /\ row[j] \in Row /\ RowInv(row[j])
      /\ row[j].status = "RUNNING"
      /\ hold[e].gen = row[j].gen /\ hold[e].attempts = row[j].attempts
  BY <1>1, FencedIsCurrent
<1>3. Stored(row[j], n)
  BY <1>2, TransitionStored
<1>4. n.gen = row[j].gen /\ n.status = status
  BY <1>2 DEF TransitionedRow, Row
<1>5. \/ status # "SUCCEEDED" /\ effect' = effect
      \/ effect' = [effect EXCEPT ![j] = row[j].gen]
  BY <1>2 DEF DomainWrites
<1> HIDE DEF n
<1>6. row' = [row EXCEPT ![j] = n]
  BY <1>1, <1>2, <1>3, WriteStores DEF Transition, n
<1> HIDE DEF j
<1> QED BY <1>2, <1>3, <1>4, <1>5, <1>6, RowStepPromised DEF Stored, Open, Final

LEMMA ProcessPromised ==
  ASSUME Inv, NEW e \in Exec, Process(e)
  PROVE  Promise!Next \/ UNCHANGED Promise!vars
<1>1. CASE HeartbeatJob(e) \/ LoseLease(e)
  BY <1>1 DEF HeartbeatJob, LoseLease, Promise!vars
<1>2. CASE PublishPartial(e)
  <2>1. /\ hold[e].job \in Job /\ row[hold[e].job].status = "RUNNING"
        /\ hold[e].gen = row[hold[e].job].gen
    BY <1>2, FencedIsCurrent DEF PublishPartial
  <2> QED BY <1>2, <2>1
          DEF PublishPartial, DomainWrites, Promise!Next, Promise!Publish
<1>3. CASE CompleteJob(e)
  BY <1>3, TransitionPromised DEF CompleteJob
<1>4. CASE ContinueJob(e)
  BY <1>4, TransitionPromised DEF ContinueJob
<1>5. CASE FailJob(e)
  <2>1. PICK retryable \in BOOLEAN, preserve \in BOOLEAN :
          LET retry == Retries(hold[e], retryable)
          IN /\ Transition(e, IF retry THEN "QUEUED" ELSE "FAILED",
                           retry /\ preserve /\ hold[e].ext, retry)
             /\ UNCHANGED effect \/ (~retry /\ DomainWrites(e))
    BY <1>5 DEF FailJob
  <2> DEFINE retry == Retries(hold[e], retryable)
  <2>2. retry \in BOOLEAN /\ (retry => hold[e].attempts < MaxAttempts)
    BY DEF Retries
  <2> HIDE DEF retry
  <2>3. (retry /\ preserve /\ hold[e].ext) \in BOOLEAN
    OBVIOUS
  <2>4. CASE retry
    BY <2>1, <2>2, <2>3, <2>4, TransitionPromised DEF retry
  <2>5. CASE ~retry
    BY <2>1, <2>2, <2>3, <2>5, TransitionPromised DEF retry
  <2> QED BY <2>4, <2>5
<1> QED BY <1>1, <1>2, <1>3, <1>4, <1>5 DEF Process

\* The detailed queue implements FencedPublication: results come in epochs,
\* only the newest open one publishes, and nothing moves after the final one.
THEOREM Implements == Spec => KeepsPromise
<1>1. Init => Promise!Init
  <2> SUFFICES ASSUME Init PROVE Promise!Init
    OBVIOUS
  <2>1. \A j \in Job : row[j].gen = 0 /\ row[j].status = "ABSENT"
    BY DEF Init, NoRow
  <2>2. \A j \in Job : ~(row[j].status = "RUNNING") /\ ~(row[j].status = "SUCCEEDED")
    BY <2>1
  <2>3. /\ [j \in Job |-> row[j].status = "RUNNING"] = [j \in Job |-> FALSE]
        /\ [j \in Job |-> row[j].status = "SUCCEEDED"] = [j \in Job |-> FALSE]
    BY <2>2, Zenon
  <2>4. [j \in Job |-> row[j].gen] = [j \in Job |-> 0]
    BY <2>1
  <2> QED BY <2>3, <2>4 DEF Init, Promise!Init
<1>2. Inv /\ [Next]_vars => [Promise!Next]_Promise!vars
  <2> SUFFICES ASSUME Inv, [Next]_vars PROVE Promise!Next \/ UNCHANGED Promise!vars
    OBVIOUS
  <2>1. ASSUME NEW j \in Job, EnqueueJob(j) PROVE Promise!Next \/ UNCHANGED Promise!vars
    <3> DEFINE n == EnqueuedRow(row[j])
    <3>1. row[j] \in Row /\ RowInv(row[j]) /\ refused \in BOOLEAN
      BY DEF Inv, TypeOK
    <3>2. Stored(row[j], n)
      BY <3>1, EnqueueStored
    <3>3. n.gen = row[j].gen /\ Open(n) = Open(row[j]) /\ Final(n) = Final(row[j])
      BY DEF EnqueuedRow, NoRow, Open, Final
    <3> HIDE DEF n
    <3>4. row' = [row EXCEPT ![j] = n]
      BY <2>1, <3>1, <3>2, WriteStores DEF EnqueueJob, n
    <3> QED BY <2>1, <3>2, <3>3, <3>4, RowStepPromised DEF EnqueueJob, Stored
  <2>2. ASSUME NEW j \in Job, BecomeDue(j) \/ Expire(j)
        PROVE  Promise!Next \/ UNCHANGED Promise!vars
    <3>1. \A k \in Job : row'[k].gen = row[k].gen /\ row'[k].status = row[k].status
      <4>1. row' = [row EXCEPT ![j] = [row[j] EXCEPT !.due = TRUE]]
            \/ row' = [row EXCEPT ![j] = [row[j] EXCEPT !.lease = "expired"]]
        BY <2>2 DEF BecomeDue, Expire
      <4>2. row \in [Job -> Row]
        BY DEF Inv, TypeOK
      <4> QED BY <4>1, <4>2 DEF Row
    <3>2. UNCHANGED Promise!vars
      <4>1. effect' = effect
        BY <2>2 DEF BecomeDue, Expire
      <4>2. /\ [k \in Job |-> row'[k].status = "RUNNING"]
                 = [k \in Job |-> row[k].status = "RUNNING"]
            /\ [k \in Job |-> row'[k].status = "SUCCEEDED"]
                 = [k \in Job |-> row[k].status = "SUCCEEDED"]
        BY <3>1, Zenon
      <4>3. [k \in Job |-> row'[k].gen] = [k \in Job |-> row[k].gen]
        BY <3>1
      <4> QED BY <4>1, <4>2, <4>3 DEF Promise!vars
    <3> QED BY <3>2
  <2>3. ASSUME NEW e \in Exec, NEW j \in Job, Claim(e, j)
        PROVE  Promise!Next \/ UNCHANGED Promise!vars
    BY <2>3, ClaimPromised
  <2>4. ASSUME NEW e \in Exec, Process(e) PROVE Promise!Next \/ UNCHANGED Promise!vars
    BY <2>4, ProcessPromised
  <2>5. ASSUME NEW e \in Exec, Crash(e) PROVE Promise!Next \/ UNCHANGED Promise!vars
    BY <2>5 DEF Crash, Promise!vars
  <2>6. CASE UNCHANGED vars
    BY <2>6 DEF vars, Promise!vars
  <2> QED BY <2>1, <2>2, <2>3, <2>4, <2>5, <2>6 DEF Next
<1> QED BY <1>1, <1>2, InvHolds, PTL DEF Spec, KeepsPromise, Promise!Spec

-----------------------------------------------------------------------------
(* The queue keeps the contract of a job that the stages of a pipeline and the *)
(* analyses count on (EvidenceProofs, IntakeKeepsContract).                    *)

SeenOf(r) == [status |-> r.status, attempts |-> r.attempts]

Contract == INSTANCE JobContract WITH state <- [j \in Job |-> SeenOf(row[j])]

KeepsContract == Contract!Spec

\* A step that writes one row is a step of the contract when the row is seen to
\* move by it, or not to move.
LEMMA RowKept ==
  ASSUME Inv, NEW j \in Job, NEW new \in Row, row' = [row EXCEPT ![j] = new],
         \/ new.status = row[j].status /\ new.attempts = row[j].attempts
         \/ Contract!Moves(SeenOf(row[j]), SeenOf(new))
  PROVE  Contract!Next
<1>1. row \in [Job -> Row] /\ row' \in [Job -> Row]
  BY DEF Inv, TypeOK
<1>2. [k \in Job |-> SeenOf(row'[k])] \in [Job -> Contract!Life]
  BY <1>1 DEF SeenOf, Row, Status, Contract!Life
<1>3. \A k \in Job : \/ SeenOf(row'[k]) = SeenOf(row[k])
                     \/ Contract!Moves(SeenOf(row[k]), SeenOf(row'[k]))
  BY <1>1 DEF SeenOf
<1> QED
  BY <1>2, <1>3 DEF Contract!Next

\* A claim pays for a queued job or takes over a running one, both with budget, or
\* goes on for free; without budget it ends a running job.
LEMMA ClaimKept ==
  ASSUME Inv, NEW e \in Exec, NEW j \in Job, Claim(e, j)
  PROVE  Contract!Next
<1>1. row[j] \in Row /\ RowInv(row[j]) /\ refused \in BOOLEAN /\ WorkerOf[e] \in Worker
  BY WorkerAssumption DEF Inv, TypeOK
<1>2. row[j].attempts \in Nat
  BY <1>1 DEF Row
<1>3. ASSUME row[j].status = "RUNNING", Write(j, FailedRow(row[j]))
      PROVE  Contract!Next
  <2> DEFINE n == FailedRow(row[j])
  <2>1. Stored(row[j], n)
    BY <1>1, <1>3, FailStored
  <2>2. n.status = "FAILED" /\ n.attempts = row[j].attempts
    BY <1>1 DEF FailedRow, Row
  <2> HIDE DEF n
  <2>3. row' = [row EXCEPT ![j] = n]
    BY <1>1, <1>3, <2>1, WriteStores DEF n
  <2>4. Contract!Moves(SeenOf(row[j]), SeenOf(n))
    BY <1>3, <2>2 DEF SeenOf, Contract!Moves, Contract!EndOrWait, Contract!Seen
  <2> QED BY <2>1, <2>3, <2>4, RowKept DEF Stored
<1>4. ASSUME NEW charge \in {0, 1}, Write(j, ClaimedRow(row[j], WorkerOf[e], charge)),
             \/ /\ charge = 1 /\ row[j].attempts < MaxAttempts
                /\ row[j].status \in {"QUEUED", "RUNNING"}
             \/ charge = 0 /\ row[j].status = "WAITING_EXTERNAL"
      PROVE  Contract!Next
  <2> DEFINE n == ClaimedRow(row[j], WorkerOf[e], charge)
  <2>1. row[j].status # "SUCCEEDED" /\ row[j].attempts + charge <= MaxAttempts
    BY <1>1, <1>2, <1>4, BudgetAssumption DEF RowInv
  <2>2. Stored(row[j], n)
    BY <1>1, <2>1, ClaimStored
  <2>3. n.status = "RUNNING" /\ n.attempts = row[j].attempts + charge
    BY <1>1 DEF ClaimedRow, Row
  <2> HIDE DEF n
  <2>4. row' = [row EXCEPT ![j] = n]
    BY <1>1, <1>4, <2>2, WriteStores DEF n
  <2>5. Contract!Moves(SeenOf(row[j]), SeenOf(n))
    BY <1>2, <1>4, <2>3 DEF SeenOf, Contract!Moves, Contract!Run, Contract!Seen
  <2> QED BY <2>2, <2>4, <2>5, RowKept DEF Stored
<1>5. CASE ClaimDue(e, j)
  <2>1. row[j].status \in {"QUEUED", "WAITING_EXTERNAL"}
    BY <1>5 DEF ClaimDue, Claimable
  <2>2. CASE row[j].status = "QUEUED"
    <3>1. row[j].attempts < MaxAttempts /\ ~(row[j].attempts >= MaxAttempts)
      BY <1>1, <1>2, <2>2, BudgetAssumption DEF RowInv
    <3>2. Write(j, ClaimedRow(row[j], WorkerOf[e], 1))
      BY <1>5, <2>2, <3>1 DEF ClaimDue
    <3> QED BY <1>4, <2>2, <3>1, <3>2
  <2>3. CASE row[j].status = "WAITING_EXTERNAL"
    <3>1. Write(j, ClaimedRow(row[j], WorkerOf[e], 0))
      BY <1>5, <2>3 DEF ClaimDue
    <3> QED BY <1>4, <2>3, <3>1
  <2> QED BY <2>1, <2>2, <2>3
<1>6. CASE RecoverExpired(e, j)
  BY <1>4, <1>6 DEF RecoverExpired, RecoveredRow, MayRecover
<1>7. CASE FailExhausted(e, j)
  BY <1>3, <1>7 DEF FailExhausted, MayRecover
<1> QED BY <1>5, <1>6, <1>7 DEF Claim

LEMMA TransitionKept ==
  ASSUME Inv, NEW e \in Exec,
         NEW status \in {"QUEUED", "WAITING_EXTERNAL", "SUCCEEDED", "FAILED"},
         NEW ext \in BOOLEAN, NEW delayed \in BOOLEAN,
         status = "QUEUED" => hold[e].attempts < MaxAttempts,
         Transition(e, status, ext, delayed)
  PROVE  Contract!Next
<1> DEFINE j == hold[e].job
           n == TransitionedRow(row[j], status, ext, delayed)
<1>1. pc[e] # "idle" /\ Fenced(e) /\ refused \in BOOLEAN
  BY DEF Transition, Inv, TypeOK
<1>2. /\ j \in Job /\ row[j] \in Row /\ RowInv(row[j])
      /\ row[j].status = "RUNNING" /\ hold[e].attempts = row[j].attempts
  BY <1>1, FencedIsCurrent
<1>3. Stored(row[j], n)
  BY <1>2, TransitionStored
<1>4. n.status = status /\ n.attempts = row[j].attempts
  BY <1>2 DEF TransitionedRow, Row
<1> HIDE DEF n
<1>5. row' = [row EXCEPT ![j] = n]
  BY <1>1, <1>2, <1>3, WriteStores DEF Transition, n
<1>6. Contract!Moves(SeenOf(row[j]), SeenOf(n))
  BY <1>2, <1>4 DEF SeenOf, Contract!Moves, Contract!Retry, Contract!EndOrWait,
     Contract!Seen
<1> HIDE DEF j
<1> QED BY <1>2, <1>3, <1>5, <1>6, RowKept DEF Stored

LEMMA ContractStep ==
  ASSUME Inv, [Next]_vars
  PROVE  [Contract!Next]_([j \in Job |-> SeenOf(row[j])])
<1>1. CASE row' = row
  BY <1>1
<1>2. ASSUME NEW j \in Job, EnqueueJob(j) PROVE Contract!Next
  <2> DEFINE n == EnqueuedRow(row[j])
  <2>1. row[j] \in Row /\ RowInv(row[j]) /\ refused \in BOOLEAN
    BY DEF Inv, TypeOK
  <2>2. Stored(row[j], n)
    BY <2>1, EnqueueStored
  <2>3. \/ n = row[j]
        \/ /\ row[j].status \in {"ABSENT", "FAILED"}
           /\ n.status = "QUEUED" /\ n.attempts = 0
    BY DEF EnqueuedRow, NoRow
  <2> HIDE DEF n
  <2>4. row' = [row EXCEPT ![j] = n]
    BY <1>2, <2>1, <2>2, WriteStores DEF EnqueueJob, n
  <2>5. n = row[j] \/ Contract!Moves(SeenOf(row[j]), SeenOf(n))
    BY <2>3 DEF SeenOf, Contract!Moves, Contract!Enqueue, Contract!Seen
  <2> QED BY <2>2, <2>4, <2>5, RowKept DEF Stored
<1>3. ASSUME NEW j \in Job, BecomeDue(j) \/ Expire(j) PROVE Contract!Next
  <2>1. row \in [Job -> Row]
    BY DEF Inv, TypeOK
  <2>2. PICK n \in Row : /\ row' = [row EXCEPT ![j] = n]
                         /\ n.status = row[j].status /\ n.attempts = row[j].attempts
    <3>1. [row[j] EXCEPT !.due = TRUE] \in Row
          /\ [row[j] EXCEPT !.lease = "expired"] \in Row
      BY <2>1 DEF Row
    <3>2. \/ row' = [row EXCEPT ![j] = [row[j] EXCEPT !.due = TRUE]]
          \/ row' = [row EXCEPT ![j] = [row[j] EXCEPT !.lease = "expired"]]
      BY <1>3 DEF BecomeDue, Expire
    <3> QED BY <2>1, <3>1, <3>2 DEF Row
  <2> QED BY <2>2, RowKept
<1>4. ASSUME NEW e \in Exec, Process(e), row' # row PROVE Contract!Next
  <2>1. CASE CompleteJob(e)
    BY <2>1, TransitionKept DEF CompleteJob
  <2>2. CASE ContinueJob(e)
    BY <2>2, TransitionKept DEF ContinueJob
  <2>3. CASE FailJob(e)
    <3>1. PICK retryable \in BOOLEAN, preserve \in BOOLEAN :
            LET retry == Retries(hold[e], retryable)
            IN Transition(e, IF retry THEN "QUEUED" ELSE "FAILED",
                          retry /\ preserve /\ hold[e].ext, retry)
      BY <2>3 DEF FailJob
    <3> DEFINE retry == Retries(hold[e], retryable)
    <3>2. retry \in BOOLEAN /\ (retry => hold[e].attempts < MaxAttempts)
      BY DEF Retries
    <3> HIDE DEF retry
    <3>3. (retry /\ preserve /\ hold[e].ext) \in BOOLEAN
      OBVIOUS
    <3>4. CASE retry
      BY <3>1, <3>2, <3>3, <3>4, TransitionKept DEF retry
    <3>5. CASE ~retry
      BY <3>1, <3>2, <3>3, <3>5, TransitionKept DEF retry
    <3> QED BY <3>4, <3>5
  <2>4. CASE HeartbeatJob(e) \/ LoseLease(e) \/ PublishPartial(e)
    BY <1>4, <2>4 DEF HeartbeatJob, LoseLease, PublishPartial
  <2> QED BY <1>4, <2>1, <2>2, <2>3, <2>4 DEF Process
<1>5. ASSUME NEW e \in Exec, Crash(e) PROVE row' = row
  BY <1>5 DEF Crash
<1>6. CASE UNCHANGED vars
  BY <1>1, <1>6 DEF vars
<1> QED BY <1>1, <1>2, <1>3, <1>4, <1>5, <1>6, ClaimKept DEF Next

\* Of a job seen by its status and attempts, the queue shows the contract only:
\* budget, final success, and a failed job that starts over, over takeovers,
\* crashes and answers that were missed (lib/jobs.ts:40-66, 119-147,
\* lib/jobRuntime.ts:19-107).
THEOREM ImplementsContract == Spec => KeepsContract
<1>1. Init => Contract!Init
  BY DEF Init, NoRow, SeenOf, Contract!Init, Contract!Seen
<1> QED BY <1>1, ContractStep, InvHolds, PTL DEF Spec, KeepsContract, Contract!Spec

=============================================================================
