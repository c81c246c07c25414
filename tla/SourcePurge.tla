----------------------------- MODULE SourcePurge -----------------------------
(* The destruction of one source file: purge requests, their independent       *)
(* approval, the legal hold and the retention of the matter, and the two       *)
(* transactions of EXECUTE around the deletion of the blob                     *)
(* (app/api/purge-requests/[id]/route.ts, documents/[id]/purge/route.ts,       *)
(* matters/[id]/governance/route.ts, migrations 003 and 006).                  *)
(*                                                                             *)
(* Every handler but EXECUTE is one transaction that locks the matter row, so  *)
(* it is one step that waits while `holder' has that lock.  EXECUTE keeps the  *)
(* lock over its calls to the blob store, and its database session may be lost *)
(* under it: the locks go, the calls go on.                                    *)
EXTENDS Naturals

CONSTANTS
  Person,             \* legal editors and administrators
  Call,               \* EXECUTE calls in flight
  MaxRequests,        \* bound: purge requests for the document
  MaxRoleChanges,     \* bound: Admin roles granted or taken away
  MaxFailures,        \* bound: calls that fail or die
  MaxSessionLosses,   \* bound: database sessions lost inside the second transaction
  Nobody              \* no approver, no lock holder

ASSUME NobodyAssumption == Nobody \notin Person \cup Call
ASSUME BoundAssumption ==
  {MaxRequests, MaxRoleChanges, MaxFailures, MaxSessionLosses} \subseteq Nat

VARIABLES
  deletion,   \* deletion_status of the document
  stored      \* the blob is there
VARIABLES
  hold,       \* legal_hold of the matter
  retention,  \* the later retention end against the database clock
  request,    \* purge_requests, in the order they were opened
  admin,      \* who has the active Admin role
  call,       \* the EXECUTE calls
  holder,     \* the call whose second transaction holds the row locks
  changes, failures, losses   \* what the bounds count

bounds == <<changes, failures, losses>>
vars == <<deletion, stored, hold, retention, request, admin, call, holder, bounds>>

Request == 1 .. MaxRequests
Open == {"PENDING", "APPROVED"}

NoRequest == [status |-> "ABSENT", by |-> Nobody, approver |-> Nobody]
NoCall == [step |-> "idle", by |-> Nobody, request |-> 0]

TypeOK ==
  /\ deletion \in {"ACTIVE", "PENDING_PURGE", "PURGED"}
  /\ stored \in BOOLEAN /\ hold \in BOOLEAN
  /\ retention \in {"none", "running", "expired"}
  /\ request \in [Request -> [status : Open \cup {"ABSENT", "REJECTED", "CANCELLED", "EXECUTED"},
                              by : Person \cup {Nobody}, approver : Person \cup {Nobody}]]
  /\ \A r, s \in Request :
       (request[r].status \in Open /\ request[s].status \in Open) => r = s
  /\ admin \in SUBSET Person
  /\ call \in [Call -> [step : {"idle", "prepared", "locked", "deleting", "deleted"},
                        by : Person \cup {Nobody}, request : 0 .. MaxRequests]]
  /\ holder \in Call \cup {Nobody}
  /\ changes \in 0 .. MaxRoleChanges /\ failures \in 0 .. MaxFailures
  /\ losses \in 0 .. MaxSessionLosses

-----------------------------------------------------------------------------
(* Requests and their disposition.                                             *)

\* The matter row can be locked.
Unlocked == holder = Nobody

Disposed(r, status, p) ==
  request' = [request EXCEPT ![r].status = status, ![r].approver = p]

\* A bug: the unique index only covers requests that await approval.
NoOpenRequest_PendingOnly == \A r \in Request : request[r].status # "PENDING"

\* The unique index of migration 003.
NoOpenRequest == \A r \in Request : request[r].status \notin Open

\* POST documents/[id]/purge
RequestPurge(p) ==
  /\ Unlocked /\ ~hold /\ deletion = "ACTIVE"
  /\ NoOpenRequest
  /\ \E r \in Request :
       /\ request[r].status = "ABSENT" /\ \A s \in 1 .. r - 1 : request[s].status # "ABSENT"
       /\ request' = [request EXCEPT ![r] = [NoRequest EXCEPT !.status = "PENDING", !.by = p]]
  /\ UNCHANGED <<deletion, stored, hold, retention, admin, call, holder, bounds>>

Approve(p, r) ==
  /\ Unlocked /\ p \in admin
  /\ request[r].status = "PENDING" /\ request[r].by # p /\ ~hold
  /\ Disposed(r, "APPROVED", p)
  /\ UNCHANGED <<deletion, stored, hold, retention, admin, call, holder, bounds>>

Reject(p, r) ==
  /\ Unlocked /\ p \in admin /\ request[r].status = "PENDING"
  /\ Disposed(r, "REJECTED", p)
  /\ UNCHANGED <<deletion, stored, hold, retention, admin, call, holder, bounds>>

\* A bug: an approved request can be cancelled at any time.
Cancellable_AnyTime(r) == request[r].status \in Open

\* Once the marker is set the request has to stay, to reconcile the source.
Cancellable(r) == request[r].status \in Open /\ deletion # "PENDING_PURGE"

\* A bug: a cancelled purge takes the marker back.
Cancel_TakesBack(p, r) ==
  /\ Unlocked /\ p \in admin /\ request[r].status \in Open
  /\ request' = [request EXCEPT ![r].status = "CANCELLED"]
  /\ deletion' = IF deletion = "PENDING_PURGE" THEN "ACTIVE" ELSE deletion
  /\ UNCHANGED <<stored, hold, retention, admin, call, holder, bounds>>

Cancel(p, r) ==
  /\ Unlocked /\ p \in admin /\ Cancellable(r)
  /\ request' = [request EXCEPT ![r].status = "CANCELLED"]
  /\ UNCHANGED <<deletion, stored, hold, retention, admin, call, holder, bounds>>

-----------------------------------------------------------------------------
(* What the purge depends on and others may change.                            *)

\* A bug: the governance update does not lock the matter row.
GovernanceWaits_Never == FALSE

\* Hold and retention are read and written under the lock of the matter row.
GovernanceWaits == holder # Nobody

\* PATCH matters/[id]/governance
ChangeGovernance ==
  /\ ~GovernanceWaits
  /\ hold' \in BOOLEAN
  /\ retention' \in {"none", "running", "expired"}
  /\ UNCHANGED <<deletion, stored, request, admin, call, holder, bounds>>

\* The database clock passes the retention end.
RetentionExpires ==
  /\ retention = "running" /\ retention' = "expired"
  /\ UNCHANGED <<deletion, stored, hold, request, admin, call, holder, bounds>>

\* POST admin/roles by another Admin; an Admin remains.  The role of a caller
\* inside a transaction is locked for share, and both rows are locked here.
ChangeRole(q, p) ==
  /\ q \in admin /\ p # q /\ changes < MaxRoleChanges
  /\ holder # Nobody => call[holder].by \notin {p, q}
  /\ admin' = IF p \in admin THEN admin \ {p} ELSE admin \cup {p}
  /\ changes' = changes + 1
  /\ UNCHANGED <<deletion, stored, hold, retention, request, call, holder, failures, losses>>

-----------------------------------------------------------------------------
(* EXECUTE                                                                     *)

\* A bug: a purge that was interrupted cannot be taken up again.
Reconcilable_Active == deletion = "ACTIVE"

Reconcilable == deletion \in {"ACTIVE", "PENDING_PURGE"}

\* assertActiveAdmin and assertExecutable; both transactions check both.
Executable(p, r) ==
  /\ p \in admin
  /\ request[r].status = "APPROVED" /\ request[r].approver # request[r].by
  /\ ~hold /\ Reconcilable /\ retention = "expired"

Goto(c, step) == call' = [call EXCEPT ![c].step = step]

Marked == IF deletion = "ACTIVE" THEN "PENDING_PURGE" ELSE deletion

\* The first transaction commits the marker.
Prepare(c, p, r) ==
  /\ call[c].step = "idle" /\ Unlocked /\ Executable(p, r)
  /\ deletion' = Marked
  /\ call' = [call EXCEPT ![c] = [step |-> "prepared", by |-> p, request |-> r]]
  /\ UNCHANGED <<stored, hold, retention, request, admin, holder, bounds>>

\* The second one checks everything again and keeps the locks.
LockAndCheck(c) ==
  /\ call[c].step = "prepared" /\ Unlocked
  /\ IF Executable(call[c].by, call[c].request)
       THEN holder' = c /\ Goto(c, "locked")
       ELSE call' = [call EXCEPT ![c] = NoCall] /\ UNCHANGED holder
  /\ UNCHANGED <<deletion, stored, hold, retention, request, admin, bounds>>

\* head: a blob that is not there was deleted by an earlier try.
FindBlob(c) ==
  /\ call[c].step = "locked"
  /\ Goto(c, IF stored THEN "deleting" ELSE "deleted")
  /\ UNCHANGED <<deletion, stored, hold, retention, request, admin, holder, bounds>>

\* del.  The answer may be lost: FailCall.
DeleteBlob(c) ==
  /\ call[c].step = "deleting"
  /\ stored' = FALSE
  /\ Goto(c, "deleted")
  /\ UNCHANGED <<deletion, hold, retention, request, admin, holder, bounds>>

Released(c) == holder' = IF holder = c THEN Nobody ELSE holder

\* The tombstone and the executed request, and the commit; or, in a session that
\* is lost, an error.
RecordPurged(c) ==
  /\ call[c].step = "deleted"
  /\ IF holder = c
       THEN /\ deletion' = "PURGED"
            /\ request' = [request EXCEPT ![call[c].request].status = "EXECUTED"]
       ELSE UNCHANGED <<deletion, request>>
  /\ call' = [call EXCEPT ![c] = NoCall]
  /\ Released(c)
  /\ UNCHANGED <<stored, hold, retention, admin, bounds>>

\* A call throws or its process dies, a delete is done and its answer lost, a
\* commit fails: the transaction rolls back, the blob store does not.
FailCall(c) ==
  /\ call[c].step # "idle" /\ failures < MaxFailures
  /\ stored' \in IF call[c].step = "deleting" THEN {stored, FALSE} ELSE {stored}
  /\ call' = [call EXCEPT ![c] = NoCall]
  /\ Released(c)
  /\ failures' = failures + 1
  /\ UNCHANGED <<deletion, hold, retention, request, admin, changes, losses>>

\* The server drops the session while the call awaits the blob store.
LoseSession(c) ==
  /\ holder = c /\ losses < MaxSessionLosses
  /\ holder' = Nobody /\ losses' = losses + 1
  /\ UNCHANGED <<deletion, stored, hold, retention, request, admin, call, changes, failures>>

Init ==
  /\ deletion = "ACTIVE" /\ stored = TRUE
  /\ hold \in BOOLEAN /\ retention \in {"none", "running", "expired"}
  /\ request = [r \in Request |-> NoRequest]
  /\ admin \in (SUBSET Person) \ {{}}
  /\ call = [c \in Call |-> NoCall]
  /\ holder = Nobody
  /\ changes = 0 /\ failures = 0 /\ losses = 0

Proceed(c) == LockAndCheck(c) \/ FindBlob(c) \/ DeleteBlob(c) \/ RecordPurged(c)

Execute(c) == Proceed(c) \/ \E p \in Person, r \in Request : Prepare(c, p, r)

Next ==
  \/ \E p \in Person : RequestPurge(p)
  \/ \E p \in Person, r \in Request : Approve(p, r) \/ Reject(p, r) \/ Cancel(p, r)
  \/ \E q, p \in Person : ChangeRole(q, p)
  \/ ChangeGovernance \/ RetentionExpires
  \/ \E c \in Call : Execute(c) \/ FailCall(c) \/ LoseSession(c)

Spec == Init /\ [][Next]_vars

\* An Admin who sees a pending purge executes it again; a call gets on.
FairSpec == Spec /\ \A c \in Call : WF_vars(Execute(c)) /\ WF_vars(Proceed(c))

-----------------------------------------------------------------------------
(* Properties.                                                                 *)

\* The file is only destroyed under everything the runbook asks for, at the
\* moment it is destroyed and not only when it was checked: no hold, expired
\* retention, an approved request of somebody else and the durable marker
\* (purge-requests/[id]/route.ts:67-79, OPERATIONS_RUNBOOK.md:147-154).  The row
\* locks carry this, so it holds as long as no database session was lost.
AuthorizedDestruction ==
  [][(stored' # stored /\ losses = 0) =>
       /\ ~hold /\ retention = "expired" /\ deletion = "PENDING_PURGE"
       /\ \E r \in Request : /\ request[r].status = "APPROVED"
                             /\ request[r].approver # request[r].by]_vars

\* Whatever failed, the record tells what happened to the file, and a purge that
\* was begun keeps the approved request that can finish it
\* (purge-requests/[id]/route.ts:58-79, migration 006:240-294).
DurableTrail ==
  /\ TypeOK
  /\ ~stored => deletion # "ACTIVE"
  /\ deletion = "PENDING_PURGE" => \E r \in Request : request[r].status = "APPROVED"
  /\ deletion = "PURGED" => ~stored /\ \E r \in Request : request[r].status = "EXECUTED"
  /\ \A r \in Request : request[r].status = "EXECUTED" =>
       deletion = "PURGED" /\ request[r].approver # request[r].by

\* A purge that was begun is finished, over failed deletes, failed commits and
\* dead callers, unless a hold or a new retention end blocks it
\* (purge-requests/[id]/route.ts:67, 75).
BegunIsFinished ==
  deletion = "PENDING_PURGE"
    ~> (deletion = "PURGED" \/ hold \/ retention # "expired")

Promise == INSTANCE TwoPhasePurge WITH state <- deletion

\* The handlers keep the two phases, whoever calls them and whatever fails.
KeepsPhases == Promise!Spec

=============================================================================
