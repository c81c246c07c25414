-------------------------- MODULE SourcePurgeProofs --------------------------
(* Proofs about the destruction of a source file, for any people, calls and    *)
(* bounds.                                                                     *)
(*                                                                             *)
(* The argument.  The record agrees with the file (DurableTrail) because the   *)
(* marker is set before a call gets on (CallsAreMarked), is never taken back,  *)
(* and because the request of a call with the locks stays as it was checked    *)
(* (HolderChecked): every handler that could change it waits.  A call that     *)
(* goes on without its locks can delete the file but not write the record.     *)
(* As long as no session was lost, the call that deletes is the one with the   *)
(* locks (LocksKept), which makes the destruction authorized at that moment.   *)
EXTENDS SourcePurge, TLAPS

ApprovedByAnother ==
  \A r \in Request :
    request[r].status \in {"APPROVED", "EXECUTED"} => request[r].approver # request[r].by

CallsAreMarked ==
  \A c \in Call : call[c].step # "idle" => deletion # "ACTIVE" /\ call[c].request \in Request

DeletedIsGone == \A c \in Call : call[c].step = "deleted" => ~stored

HolderChecked ==
  holder # Nobody =>
    /\ call[holder].step \in {"locked", "deleting", "deleted"}
    /\ deletion = "PENDING_PURGE" /\ ~hold /\ retention = "expired"
    /\ request[call[holder].request].status = "APPROVED"

LocksKept ==
  losses = 0 =>
    \A c \in Call : call[c].step \in {"locked", "deleting", "deleted"} => holder = c

Inv ==
  /\ DurableTrail
  /\ ApprovedByAnother /\ CallsAreMarked /\ DeletedIsGone /\ HolderChecked /\ LocksKept

RequestRow == [status : Open \cup {"ABSENT", "REJECTED", "CANCELLED", "EXECUTED"},
               by : Person \cup {Nobody}, approver : Person \cup {Nobody}]

\* A call names a request or none.
CallRow == [step : {"idle", "prepared", "locked", "deleting", "deleted"},
            by : Person \cup {Nobody}, request : 0 .. MaxRequests]

\* The rows that EXECUTE writes.
LEMMA CallRows ==
  /\ NoCall \in CallRow /\ NoCall.step = "idle"
  /\ \A p \in Person, r \in Request : [step |-> "prepared", by |-> p, request |-> r] \in CallRow
  /\ \A row \in CallRow, step \in {"locked", "deleting", "deleted"} :
       /\ [row EXCEPT !.step = step] \in CallRow
       /\ [row EXCEPT !.step = step].step = step
       /\ [row EXCEPT !.step = step].request = row.request
<1> MaxRequests \in Nat
  BY BoundAssumption
<1> QED BY DEF CallRow, NoCall, Request

USE NobodyAssumption, BoundAssumption DEF Request, Open

-----------------------------------------------------------------------------
(* The initial states, and the handlers that are one transaction.              *)

\* The inductive invariant holds in a matter whose source is not yet purged
\* (migration 003).
LEMMA InitInv == Init => Inv
BY DEF Init, Inv, DurableTrail, TypeOK, ApprovedByAnother, CallsAreMarked, DeletedIsGone,
       HolderChecked, LocksKept, NoRequest, NoCall

\* A new request is the only open one (the unique index of migration 003).
LEMMA RequestStep ==
  ASSUME Inv, NEW p \in Person, RequestPurge(p)
  PROVE  Inv'
<1> DEFINE w == [NoRequest EXCEPT !.status = "PENDING", !.by = p]
<1>1. PICK r \in Request : request[r].status = "ABSENT" /\ request' = [request EXCEPT ![r] = w]
  BY DEF RequestPurge
<1>2. /\ UNCHANGED <<deletion, stored, hold, retention, admin, call, holder, changes, failures, losses>>
      /\ holder = Nobody /\ \A s \in Request : request[s].status \notin Open
  BY DEF RequestPurge, Unlocked, NoOpenRequest, bounds
<1>3. w \in RequestRow /\ w.status = "PENDING"
  BY DEF NoRequest, RequestRow
<1> HIDE DEF w
<1>4. TypeOK'
  BY <1>1, <1>2, <1>3 DEF Inv, DurableTrail, TypeOK, RequestRow
<1>5. DurableTrail'
  BY <1>1, <1>2, <1>3, <1>4 DEF Inv, DurableTrail, TypeOK
<1>6. (ApprovedByAnother /\ CallsAreMarked /\ DeletedIsGone /\ HolderChecked /\ LocksKept)'
  BY <1>1, <1>2, <1>3 DEF Inv, DurableTrail, TypeOK, ApprovedByAnother, CallsAreMarked,
       DeletedIsGone, HolderChecked, LocksKept
<1> QED BY <1>5, <1>6 DEF Inv

\* What a disposition writes into a request.
LEMMA DisposedRow ==
  ASSUME request \in [Request -> RequestRow], NEW r \in Request, NEW p \in Person,
         NEW status \in {"APPROVED", "REJECTED"}, Disposed(r, status, p)
  PROVE  /\ request' \in [Request -> RequestRow]
         /\ \A s \in Request \ {r} : request'[s] = request[s]
         /\ request'[r].status = status /\ request'[r].by = request[r].by
         /\ request'[r].approver = p
BY DEF Disposed, RequestRow

\* A disposition keeps the approved request of a purge that was begun
\* (purge-requests/[id]/route.ts:44-56).
LEMMA DispositionStep ==
  ASSUME Inv, NEW p \in Person, NEW r \in Request, Approve(p, r) \/ Reject(p, r) \/ Cancel(p, r)
  PROVE  Inv'
<1>1. request \in [Request -> RequestRow]
  BY DEF Inv, DurableTrail, TypeOK, RequestRow
<1>2. /\ UNCHANGED <<deletion, stored, hold, retention, admin, call, holder, changes, failures, losses>>
      /\ holder = Nobody /\ request[r].status \in Open
      /\ request[r].status = "APPROVED" => deletion # "PENDING_PURGE"
  BY DEF Approve, Reject, Cancel, Cancellable, Unlocked, bounds
<1>3. /\ request' \in [Request -> RequestRow]
      /\ \A s \in Request \ {r} : request'[s] = request[s]
      /\ request'[r].status \in {"APPROVED", "REJECTED", "CANCELLED"}
      /\ request'[r].status = "APPROVED" => request'[r].approver # request'[r].by
  <2>1. CASE Approve(p, r)
    <3>1. Disposed(r, "APPROVED", p) /\ request[r].by # p
      BY <2>1 DEF Approve
    <3> QED BY <1>1, <3>1, DisposedRow
  <2>2. CASE Reject(p, r)
    <3>1. Disposed(r, "REJECTED", p)
      BY <2>2 DEF Reject
    <3> QED BY <1>1, <3>1, DisposedRow
  <2>3. CASE Cancel(p, r)
    <3>1. request' = [request EXCEPT ![r].status = "CANCELLED"]
      BY <2>3 DEF Cancel
    <3> QED BY <1>1, <3>1 DEF RequestRow
  <2> QED BY <2>1, <2>2, <2>3
<1>4. TypeOK'
  BY <1>2, <1>3 DEF Inv, DurableTrail, TypeOK, RequestRow
<1>5. DurableTrail'
  BY <1>2, <1>3, <1>4 DEF Inv, DurableTrail
<1>6. (ApprovedByAnother /\ CallsAreMarked /\ DeletedIsGone /\ HolderChecked /\ LocksKept)'
  BY <1>2, <1>3 DEF Inv, ApprovedByAnother, CallsAreMarked, DeletedIsGone, HolderChecked, LocksKept
<1> QED BY <1>5, <1>6 DEF Inv

\* Hold, retention and roles are no part of the record, and they wait for a call
\* that relies on them (matters/[id]/governance/route.ts).
LEMMA SurroundingStep ==
  ASSUME Inv,
         ChangeGovernance \/ RetentionExpires \/ (\E q, p \in Person : ChangeRole(q, p))
  PROVE  Inv'
<1>1. TypeOK' /\ UNCHANGED <<deletion, stored, request, call, holder, losses>>
  BY DEF ChangeGovernance, RetentionExpires, ChangeRole, Inv, DurableTrail, TypeOK, bounds
<1>2. holder # Nobody => (hold' = hold /\ (retention = "expired" => retention' = retention))
  BY DEF ChangeGovernance, GovernanceWaits, RetentionExpires, ChangeRole
<1>3. DurableTrail'
  BY <1>1 DEF Inv, DurableTrail
<1>4. (ApprovedByAnother /\ CallsAreMarked /\ DeletedIsGone /\ HolderChecked /\ LocksKept)'
  BY <1>1, <1>2 DEF Inv, ApprovedByAnother, CallsAreMarked, DeletedIsGone, HolderChecked, LocksKept
<1> QED BY <1>3, <1>4 DEF Inv

-----------------------------------------------------------------------------
(* The steps of EXECUTE.                                                       *)

\* The marker is set before the call goes on.
LEMMA PrepareStep ==
  ASSUME Inv, NEW c \in Call, NEW p \in Person, NEW r \in Request, Prepare(c, p, r)
  PROVE  Inv'
<1>1. /\ UNCHANGED <<stored, hold, retention, request, admin, holder, changes, failures, losses>>
      /\ holder = Nobody /\ deletion' = "PENDING_PURGE" /\ deletion \in {"ACTIVE", "PENDING_PURGE"}
      /\ request[r].status = "APPROVED"
      /\ call' = [call EXCEPT ![c] = [step |-> "prepared", by |-> p, request |-> r]]
  BY DEF Prepare, Unlocked, Executable, Reconcilable, Marked, bounds
<1>2. TypeOK'
  BY <1>1, CallRows DEF Inv, DurableTrail, TypeOK, CallRow
<1>3. DurableTrail'
  BY <1>1, <1>2 DEF Inv, DurableTrail
<1>4. (ApprovedByAnother /\ CallsAreMarked /\ DeletedIsGone /\ HolderChecked /\ LocksKept)'
  BY <1>1 DEF Inv, DurableTrail, TypeOK, ApprovedByAnother, CallsAreMarked, DeletedIsGone,
              HolderChecked, LocksKept
<1> QED BY <1>3, <1>4 DEF Inv

\* A call that gets the locks found a purge that is pending and permitted.
LEMMA LockStep ==
  ASSUME Inv, NEW c \in Call, LockAndCheck(c)
  PROVE  Inv'
<1>1. UNCHANGED <<deletion, stored, hold, retention, request, admin, changes, failures, losses>>
      /\ holder = Nobody /\ call[c].step = "prepared"
  BY DEF LockAndCheck, Unlocked, bounds
<1>2. CASE Executable(call[c].by, call[c].request)
  <2>1. holder' = c /\ call' = [call EXCEPT ![c].step = "locked"]
    BY <1>2 DEF LockAndCheck, Goto
  <2>2. TypeOK'
    BY <1>1, <2>1 DEF Inv, DurableTrail, TypeOK
  <2>3. DurableTrail'
    BY <1>1, <2>2 DEF Inv, DurableTrail
  <2>4. (ApprovedByAnother /\ CallsAreMarked /\ DeletedIsGone /\ HolderChecked /\ LocksKept)'
    BY <1>1, <1>2, <2>1 DEF Inv, DurableTrail, TypeOK, ApprovedByAnother, CallsAreMarked,
         DeletedIsGone, HolderChecked, LocksKept, Executable, Reconcilable
  <2> QED BY <2>3, <2>4 DEF Inv
<1>3. CASE ~Executable(call[c].by, call[c].request)
  <2>1. holder' = holder /\ call' = [call EXCEPT ![c] = NoCall]
    BY <1>3 DEF LockAndCheck
  <2>2. TypeOK'
    BY <1>1, <2>1, CallRows DEF Inv, DurableTrail, TypeOK, CallRow
  <2>3. DurableTrail'
    BY <1>1, <2>2 DEF Inv, DurableTrail
  <2>4. (ApprovedByAnother /\ CallsAreMarked /\ DeletedIsGone /\ HolderChecked /\ LocksKept)'
    BY <1>1, <2>1 DEF Inv, DurableTrail, TypeOK, ApprovedByAnother, CallsAreMarked,
         DeletedIsGone, HolderChecked, LocksKept, NoCall
  <2> QED BY <2>3, <2>4 DEF Inv
<1> QED BY <1>2, <1>3

\* The calls to the blob store leave the record and the locks alone.
LEMMA BlobStep ==
  ASSUME Inv, NEW c \in Call, FindBlob(c) \/ DeleteBlob(c)
  PROVE  Inv'
<1>1. /\ UNCHANGED <<deletion, hold, retention, request, admin, holder, changes, failures, losses>>
      /\ stored' \in BOOLEAN /\ (~stored => ~stored')
      /\ call[c].step \in {"locked", "deleting"}
      /\ \E step \in {"deleting", "deleted"} :
           call' = [call EXCEPT ![c].step = step] /\ (step = "deleted" => ~stored')
  <2>1. CASE FindBlob(c)
    BY <2>1 DEF FindBlob, Goto, Inv, DurableTrail, TypeOK, bounds
  <2>2. CASE DeleteBlob(c)
    BY <2>2 DEF DeleteBlob, Goto, bounds
  <2> QED BY <2>1, <2>2
<1>2. TypeOK'
  BY <1>1 DEF Inv, DurableTrail, TypeOK
<1>3. DurableTrail'
  BY <1>1, <1>2 DEF Inv, DurableTrail, CallsAreMarked
<1>4. (ApprovedByAnother /\ CallsAreMarked /\ DeletedIsGone /\ HolderChecked /\ LocksKept)'
  BY <1>1 DEF Inv, DurableTrail, TypeOK, ApprovedByAnother, CallsAreMarked, DeletedIsGone,
              HolderChecked, LocksKept
<1> QED BY <1>3, <1>4 DEF Inv

\* The tombstone is written by the call that has the locks, over a file that is
\* gone (purge-requests/[id]/route.ts:74-79).
LEMMA RecordStep ==
  ASSUME Inv, NEW c \in Call, RecordPurged(c)
  PROVE  Inv'
<1>1. /\ UNCHANGED <<stored, hold, retention, admin, changes, failures, losses>>
      /\ call[c].step = "deleted" /\ call' = [call EXCEPT ![c] = NoCall]
      /\ holder' = IF holder = c THEN Nobody ELSE holder
      /\ call[c].request \in Request /\ ~stored
  BY DEF RecordPurged, Released, Inv, CallsAreMarked, DeletedIsGone, bounds
<1>a. /\ \A d \in Call \ {c} : call'[d] = call[d]
      /\ call'[c].step = "idle" /\ call' \in [Call -> CallRow] /\ holder \in Call \cup {Nobody}
  BY <1>1, CallRows DEF Inv, DurableTrail, TypeOK, CallRow
<1>2. CASE holder = c
  <2> DEFINE r == call[c].request
  <2>1. /\ deletion' = "PURGED" /\ holder' = Nobody /\ request[r].status = "APPROVED"
        /\ request' = [request EXCEPT ![r].status = "EXECUTED"]
    BY <1>1, <1>2 DEF RecordPurged, Inv, HolderChecked
  <2>2. request' \in [Request -> RequestRow]
    <3> HIDE DEF r
    <3>1. request \in [Request -> RequestRow]
      BY DEF Inv, DurableTrail, TypeOK, RequestRow
    <3> QED BY <2>1, <3>1 DEF RequestRow
  <2>3. /\ \A s \in Request \ {r} : request'[s] = request[s]
        /\ request'[r].status = "EXECUTED" /\ request'[r].by = request[r].by
        /\ request'[r].approver = request[r].approver
    BY <1>1, <2>1 DEF Inv, DurableTrail, TypeOK
  <2>4. TypeOK'
    BY <1>1, <1>a, <2>1, <2>2, <2>3 DEF Inv, DurableTrail, TypeOK, CallRow, RequestRow
  <2>5. DurableTrail'
    BY <1>1, <2>1, <2>4, <2>3 DEF Inv, DurableTrail, ApprovedByAnother
  <2>6. (ApprovedByAnother /\ CallsAreMarked /\ DeletedIsGone /\ HolderChecked /\ LocksKept)'
    BY <1>1, <1>a, <1>2, <2>1, <2>3 DEF Inv, ApprovedByAnother, CallsAreMarked, DeletedIsGone,
         HolderChecked, LocksKept
  <2> QED BY <2>5, <2>6 DEF Inv
<1>3. CASE holder # c
  <2>1. UNCHANGED <<deletion, request, holder>>
    BY <1>1, <1>3 DEF RecordPurged
  <2>2. TypeOK'
    BY <1>1, <1>a, <2>1 DEF Inv, DurableTrail, TypeOK, CallRow
  <2>3. DurableTrail'
    BY <1>1, <2>1, <2>2 DEF Inv, DurableTrail
  <2>4. (ApprovedByAnother /\ CallsAreMarked /\ DeletedIsGone /\ HolderChecked /\ LocksKept)'
    BY <1>1, <1>a, <1>3, <2>1 DEF Inv, ApprovedByAnother, CallsAreMarked, DeletedIsGone,
         HolderChecked, LocksKept
  <2> QED BY <2>3, <2>4 DEF Inv
<1> QED BY <1>2, <1>3

\* A failure undoes no delete and keeps no lock; a lost session is counted.
LEMMA FaultStep ==
  ASSUME Inv, NEW c \in Call, FailCall(c) \/ LoseSession(c)
  PROVE  Inv'
<1>1. CASE FailCall(c)
  <2>1. /\ UNCHANGED <<deletion, hold, retention, request, admin, changes, losses>>
        /\ stored' \in BOOLEAN /\ (~stored => ~stored')
        /\ call[c].step # "idle" /\ call' = [call EXCEPT ![c] = NoCall]
        /\ holder' = IF holder = c THEN Nobody ELSE holder
        /\ failures' \in 0 .. MaxFailures
    <3>1. MaxFailures \in Nat /\ failures \in 0 .. MaxFailures /\ stored \in BOOLEAN
      BY DEF Inv, DurableTrail, TypeOK
    <3>2. /\ call[c].step # "idle" /\ call' = [call EXCEPT ![c] = NoCall]
          /\ stored' = stored \/ stored' = FALSE
          /\ failures < MaxFailures /\ failures' = failures + 1
          /\ UNCHANGED <<deletion, hold, retention, request, admin, changes, losses>>
      BY <1>1 DEF FailCall
    <3>3. holder' = IF holder = c THEN Nobody ELSE holder
      BY <1>1 DEF FailCall, Released
    <3>4. failures' \in 0 .. MaxFailures
      BY <3>1, <3>2
    <3>5. stored' \in BOOLEAN /\ (~stored => ~stored')
      <4>1. CASE stored' = stored
        BY <3>1, <4>1, Zenon
      <4>2. CASE stored' = FALSE
        BY <4>2, Zenon
      <4> QED BY <3>2, <4>1, <4>2
    <3> QED BY <3>2, <3>3, <3>4, <3>5, Zenon
  <2>2. TypeOK'
    BY <2>1, CallRows DEF Inv, DurableTrail, TypeOK, CallRow
  <2>3. DurableTrail'
    BY <2>1, <2>2 DEF Inv, DurableTrail, CallsAreMarked
  <2>4. (ApprovedByAnother /\ CallsAreMarked /\ DeletedIsGone /\ HolderChecked /\ LocksKept)'
    BY <2>1 DEF Inv, DurableTrail, TypeOK, ApprovedByAnother, CallsAreMarked, DeletedIsGone,
                HolderChecked, LocksKept, NoCall
  <2> QED BY <2>3, <2>4 DEF Inv
<1>2. CASE LoseSession(c)
  <2>1. /\ UNCHANGED <<deletion, stored, hold, retention, request, admin, call, changes, failures>>
        /\ holder' = Nobody /\ losses' \in 0 .. MaxSessionLosses /\ losses' # 0
    BY <1>2 DEF LoseSession, Inv, DurableTrail, TypeOK
  <2>2. TypeOK'
    BY <2>1 DEF Inv, DurableTrail, TypeOK
  <2>3. DurableTrail'
    BY <2>1, <2>2 DEF Inv, DurableTrail
  <2>4. (ApprovedByAnother /\ CallsAreMarked /\ DeletedIsGone /\ HolderChecked /\ LocksKept)'
    BY <2>1 DEF Inv, ApprovedByAnother, CallsAreMarked, DeletedIsGone, HolderChecked, LocksKept
  <2> QED BY <2>3, <2>4 DEF Inv
<1> QED BY <1>1, <1>2

-----------------------------------------------------------------------------
(* Theorems.                                                                   *)

\* Every handler keeps the inductive invariant.
LEMMA InvStep == Inv /\ [Next]_vars => Inv'
<1> SUFFICES ASSUME Inv, [Next]_vars PROVE Inv'
  OBVIOUS
<1>1. CASE \E p \in Person : RequestPurge(p)
  BY <1>1, RequestStep
<1>2. CASE \E p \in Person, r \in Request : Approve(p, r) \/ Reject(p, r) \/ Cancel(p, r)
  BY ONLY <1>2, Inv, DispositionStep
<1>3. CASE ChangeGovernance \/ RetentionExpires \/ (\E q, p \in Person : ChangeRole(q, p))
  BY <1>3, SurroundingStep
<1>4. CASE \E c \in Call, p \in Person, r \in Request : Prepare(c, p, r)
  BY ONLY <1>4, Inv, PrepareStep
<1>5. CASE \E c \in Call : Proceed(c)
  BY <1>5, LockStep, BlobStep, RecordStep DEF Proceed
<1>6. CASE \E c \in Call : FailCall(c) \/ LoseSession(c)
  BY <1>6, FaultStep
<1>7. CASE UNCHANGED vars
  BY <1>7 DEF vars, bounds, Inv, DurableTrail, TypeOK, ApprovedByAnother, CallsAreMarked,
     DeletedIsGone, HolderChecked, LocksKept
<1> QED BY <1>1, <1>2, <1>3, <1>4, <1>5, <1>6, <1>7 DEF Next, Execute

\* The inductive invariant of the purge.
THEOREM InvHolds == Spec => []Inv
BY InitInv, InvStep, PTL DEF Spec

\* Whatever fails, the record tells what happened to the file and keeps the
\* request that can finish a purge that was begun
\* (purge-requests/[id]/route.ts:58-79, migration 006:240-294).
THEOREM TrailHolds == Spec => []DurableTrail
<1>1. Inv => DurableTrail
  BY DEF Inv
<1> QED BY <1>1, InvHolds, PTL

\* While no session was lost, a step that destroys the file is authorized at that
\* moment (purge-requests/[id]/route.ts:67-79).
LEMMA DestructionStep ==
  ASSUME Inv, [Next]_vars, stored' # stored, losses = 0
  PROVE  /\ ~hold /\ retention = "expired" /\ deletion = "PENDING_PURGE"
         /\ \E r \in Request : request[r].status = "APPROVED" /\ request[r].approver # request[r].by
<1>1. PICK c \in Call : call[c].step = "deleting" /\ (DeleteBlob(c) \/ FailCall(c))
  BY DEF Next, RequestPurge, Approve, Reject, Cancel, ChangeGovernance, RetentionExpires, ChangeRole,
         Execute, Proceed, Prepare, LockAndCheck, FindBlob, DeleteBlob, RecordPurged, FailCall,
         LoseSession, vars
<1>2. holder = c
  BY <1>1 DEF Inv, LocksKept
<1>3. call[c].request \in Request
  BY <1>1 DEF Inv, CallsAreMarked
<1> QED BY <1>2, <1>3 DEF Inv, HolderChecked, ApprovedByAnother

\* The file is only destroyed under everything the runbook asks for
\* (OPERATIONS_RUNBOOK.md:147-154).
THEOREM DestructionIsAuthorized == Spec => AuthorizedDestruction
<1>1. Inv /\ [Next]_vars =>
        [(stored' # stored /\ losses = 0) =>
           /\ ~hold /\ retention = "expired" /\ deletion = "PENDING_PURGE"
           /\ \E r \in Request : /\ request[r].status = "APPROVED"
                                 /\ request[r].approver # request[r].by]_vars
  BY DestructionStep
<1> QED BY <1>1, InvHolds, PTL DEF Spec, AuthorizedDestruction

\* Every handler makes a step of the two phases or leaves file and record alone.
LEMMA PhaseStep == Inv /\ [Next]_vars => [Promise!Next]_<<deletion, stored>>
<1> SUFFICES ASSUME Inv, [Next]_vars, <<deletion, stored>>' # <<deletion, stored>>
             PROVE  Promise!Next
  OBVIOUS
<1>1. CASE \E c \in Call, p \in Person, r \in Request : Prepare(c, p, r)
  BY <1>1 DEF Prepare, Executable, Reconcilable, Marked, Promise!Next, Promise!Mark
<1>2. CASE \E c \in Call : RecordPurged(c)
  BY <1>2 DEF RecordPurged, Inv, HolderChecked, DeletedIsGone, Promise!Next, Promise!Record
<1>3. CASE \E c \in Call : DeleteBlob(c) \/ FailCall(c)
  <2>1. PICK c \in Call : DeleteBlob(c) \/ FailCall(c)
    BY <1>3
  <2>2. deletion' = deletion /\ stored /\ stored' = FALSE /\ call[c].step = "deleting"
    BY <2>1 DEF DeleteBlob, FailCall, Inv, DurableTrail, TypeOK
  <2>3. deletion = "PENDING_PURGE"
    BY <2>2 DEF Inv, CallsAreMarked, DurableTrail, TypeOK
  <2> QED BY <2>2, <2>3 DEF Promise!Next, Promise!Destroy
<1> QED BY <1>1, <1>2, <1>3 DEF Next, RequestPurge, Approve, Reject, Cancel, ChangeGovernance,
         RetentionExpires, ChangeRole, Execute, Proceed, LockAndCheck, FindBlob, LoseSession, vars

\* The handlers implement the promise of the two phases (README.md:114).
THEOREM Implements == Spec => KeepsPhases
<1>1. Init => Promise!Init
  BY DEF Init, Promise!Init
<1> QED BY <1>1, PhaseStep, InvHolds, PTL DEF Spec, KeepsPhases, Promise!Spec

=============================================================================
