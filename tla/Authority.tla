------------------------------ MODULE Authority ------------------------------
(* Who may do what: application roles, the counsel capability and membership   *)
(* of a matter (lib/access.ts, app/api/admin, app/api/matters), and the        *)
(* handlers that rely on them while they change.                               *)
(*                                                                             *)
(* A request is admitted by a check outside any transaction and then runs one  *)
(* transaction at READ COMMITTED (lib/db.ts).  A stage of the transaction waits*)
(* for the row and table locks it takes, then checks what is committed; its    *)
(* writes are seen by others when it commits, and its locks go with it.  The   *)
(* handlers that sign something (attestations, dispositions, decisions) appear *)
(* with their authority checks only; what they sign is in AgreementLifecycle.  *)
(* There is one matter.  A person without a role row has the role NONE, as has *)
(* one whose row is inactive: both count as VIEWER and neither is an actor.    *)
EXTENDS Naturals, Sequences

CONSTANTS
  Person,        \* authenticated identities
  Nobody,        \* no owner yet
  First,         \* the identity BOOTSTRAP_ADMIN_EMAIL names
  Thread,        \* request handlers that run at a time
  MaxRequests    \* bound: requests

ASSUME PersonAssumption == Nobody \notin Person /\ First \in Person
ASSUME RequestAssumption == MaxRequests \in Nat

VARIABLES
  role,       \* active rows of app_user_roles
  counsel,    \* active rows of app_user_capabilities (LEGAL_COUNSEL_ATTEST)
  owner,      \* matters.owner_user_id
  restricted, \* matters.restricted
  member,     \* matter_members.access_level
  request,    \* the request each handler runs
  left        \* bound: requests still to come

vars == <<role, counsel, owner, restricted, member, request, left>>

Role == {"NONE", "VIEWER", "LAWYER", "APPROVER", "ADMIN"}
Level == {"VIEW", "EDIT", "APPROVE"}
Legal == {"LAWYER", "APPROVER", "ADMIN"}

\* ROLE_RANK and MATTER_ACCESS_RANK
Rank == [NONE |-> 1, VIEWER |-> 1, LAWYER |-> 2, APPROVER |-> 3, ADMIN |-> 4]
LevelRank == [NONE |-> 0, VIEW |-> 1, EDIT |-> 2, APPROVE |-> 3]
RoleFor == [VIEW |-> 1, EDIT |-> 2, APPROVE |-> 3]

Op == {"role", "capability", "bootstrap", "matter", "member", "attest", "dispose", "decide"}

\* What each transaction does, up to the stage it commits with.
Stages ==
  [role       |-> <<"table", "actor", "user", "target", "revoke">>,
   capability |-> <<"actor", "user", "target", "write">>,
   bootstrap  |-> <<"first", "target">>,
   matter     |-> <<"write">>,
   member     |-> <<"write">>,
   attest     |-> <<"signer", "counsel", "matter">>,
   dispose    |-> <<"counsel">>,
   decide     |-> <<"signer", "matter">>]

\* "on" and "to" are the target of a change and its new value.
Value == Role \cup Level \cup {"yes", "no"}
Answered(answer) ==
  [op |-> "none", by |-> Nobody, on |-> Nobody, to |-> "no", at |-> 0, state |-> answer]
NoRequest == Answered("idle")
Answer == {Answered(a) : a \in {"idle", "done", "refused"}}
Open == [op : Op, by : Person, on : Person, to : Value, at : 1 .. 5, state : {"open"}]

TypeOK ==
  /\ role \in [Person -> Role]
  /\ counsel \in [Person -> BOOLEAN]
  /\ owner \in Person \cup {Nobody}
  /\ restricted \in BOOLEAN
  /\ member \in [Person -> Level \cup {"NONE"}]
  /\ request \in [Thread -> Open \cup Answer]
  /\ \A t \in Thread : request[t].state = "open" => request[t].at <= Len(Stages[request[t].op])
  /\ left \in 0 .. MaxRequests

\* A fresh installation.
Init ==
  /\ role = [p \in Person |-> "NONE"]
  /\ counsel = [p \in Person |-> FALSE]
  /\ owner = Nobody /\ restricted = FALSE
  /\ member = [p \in Person |-> "NONE"]
  /\ request = [t \in Thread |-> NoRequest]
  /\ left = MaxRequests

-----------------------------------------------------------------------------
(* The checks that admit a request, made before its transaction.               *)

Entrusted(p) == role[p] = "ADMIN" \/ owner = p
AnyoneLegal(p, need) == need # "APPROVE" /\ ~restricted /\ role[p] \in Legal

\* requireMatterAccess: a membership that is there is the last word.
MatterAccess(p, need) ==
  /\ owner # Nobody /\ Rank[role[p]] >= RoleFor[need]
  /\ \/ Entrusted(p)
     \/ member[p] # "NONE" /\ LevelRank[member[p]] >= LevelRank[need]
     \/ member[p] = "NONE" /\ AnyoneLegal(p, need)

\* requireResourceMatterAccess
ResourceAccess(p, need) ==
  /\ owner # Nobody /\ Rank[role[p]] >= RoleFor[need]
  /\ \/ Entrusted(p)
     \/ member[p] # "NONE" /\ LevelRank[member[p]] >= LevelRank[need]
     \/ AnyoneLegal(p, need)

\* requireMembershipAdmin
MembershipAdmin(p) == MatterAccess(p, "EDIT") /\ Entrusted(p)

Admitted(op, by) ==
  CASE op \in {"role", "capability"} -> role[by] = "ADMIN"
    [] op = "bootstrap"              -> by = First
    [] op = "matter"                 -> role[by] \in Legal /\ owner = Nobody
    [] op = "member"                 -> MembershipAdmin(by)
    [] op \in {"attest", "dispose"}  -> ResourceAccess(by, "EDIT")
    [] op = "decide"                 -> ResourceAccess(by, "APPROVE")

\* What a request may ask for: a role (NONE deactivates), the capability, a
\* level (NONE removes the member), or a restricted matter.
Asked(op) ==
  CASE op = "role"                    -> Role
    [] op = "member"                  -> Level \cup {"NONE"}
    [] op \in {"capability", "matter"} -> {"yes", "no"}
    [] OTHER                          -> {"no"}
Targets(op, by) == IF op \in {"role", "capability", "member"} THEN Person ELSE {by}

Admit(t) ==
  /\ request[t].state # "open" /\ left > 0
  /\ \E op \in Op, by \in Person :
       /\ Admitted(op, by)
       /\ \E on \in Targets(op, by), to \in Asked(op) :
            request' = [request EXCEPT ![t] =
              [op |-> op, by |-> by, on |-> on, to |-> to, at |-> 1, state |-> "open"]]
  /\ left' = left - 1
  /\ UNCHANGED <<role, counsel, owner, restricted, member>>

-----------------------------------------------------------------------------
(* Locks.  A row without an active role is locked like one that is there.      *)

Shared(kind, p) == [on |-> <<kind, p>>, exclusive |-> FALSE]
Exclusive(kind, p) == [on |-> <<kind, p>>, exclusive |-> TRUE]

\* A role that takes the capability away.
Revokes(to) == to \notin Legal

\* A bug: rows are locked only by the statements that write them.
Needs_WritesOnly(r, stage) ==
  CASE stage = "target" /\ r.op # "capability" -> {Exclusive("role", r.on)}
    [] stage = "write" /\ r.op = "capability"  -> {Exclusive("counsel", r.on)}
    [] stage = "revoke" /\ Revokes(r.to)       -> {Exclusive("counsel", r.on)}
    [] OTHER -> {}

\* What a stage locks before it reads.  The upsert of roles and the bootstrap
\* conflict with the SHARE ROW EXCLUSIVE lock on the table of roles.
Needs(r, stage) ==
  CASE stage = "table"  -> {Exclusive("roles", Nobody)}
    [] stage = "actor"  -> {Exclusive("role", r.by)}
    [] stage = "user"   -> {IF r.op = "role" THEN Shared("user", r.on) ELSE Exclusive("user", r.on)}
    [] stage = "target" -> IF r.op = "capability" THEN {Shared("role", r.on)}
                           ELSE {Exclusive("role", r.on), Shared("roles", Nobody)}
    [] stage = "revoke" -> IF Revokes(r.to) THEN {Exclusive("counsel", r.on)} ELSE {}
    [] stage = "first"  -> {Exclusive("bootstrap", Nobody)}
    [] stage = "signer" -> {Shared("role", r.by)}
    [] stage = "counsel" -> {Shared("counsel", r.by)}
    [] stage = "matter" -> {Shared("matter", Nobody), Shared("member", r.by)}
    [] stage = "write"  -> CASE r.op = "capability" -> {Exclusive("counsel", r.on)}
                             [] r.op = "matter"     -> {}
                             [] r.op = "member"     -> {Exclusive("member", r.on)} \cup
                                  (IF r.to = "NONE" THEN {Exclusive("matter", Nobody)} ELSE {})

Reached(r) == {Stages[r.op][i] : i \in 1 .. r.at - 1}

\* The locks a transaction holds until it ends.
Holds(r) == IF r.state = "open" THEN UNION {Needs(r, stage) : stage \in Reached(r)} ELSE {}

Stage(t) == Stages[request[t].op][request[t].at]
Conflict(l, m) == l.on = m.on /\ (l.exclusive \/ m.exclusive)
WaitsFor(t, u) ==
  /\ t # u /\ request[t].state = "open"
  /\ \E l \in Needs(request[t], Stage(t)), m \in Holds(request[u]) : Conflict(l, m)
Waits(t) == \E u \in Thread : WaitsFor(t, u)

\* Transactions that wait for each other in a circle.
Deadlocked(t) ==
  \E circle \in SUBSET Thread : t \in circle /\ \A u \in circle : \E w \in circle : WaitsFor(u, w)

-----------------------------------------------------------------------------
(* Checks of the transactions.                                                 *)

\* enforced by the attestation and the decision routes on the matter they lock
SignsFor(r) ==
  \/ role[r.by] = "ADMIN" \/ owner = r.by \/ member[r.by] = "APPROVE"
  \/ r.op = "attest" /\ (member[r.by] = "EDIT" \/ ~restricted)

\* A bug: a signature relies on the role that admitted the request.
Passes_TrustsAdmission(r, stage) ==
  CASE stage = "actor"   -> role[r.by] = "ADMIN" /\ (r.op = "role" /\ r.on = r.by => r.to = "ADMIN")
    [] stage = "target"  -> r.op = "capability" /\ r.to = "yes" => role[r.on] \in Legal
    [] stage = "first"   -> \A p \in Person : role[p] # "ADMIN"
    [] stage = "counsel" -> counsel[r.by]
    [] stage = "matter"  -> SignsFor(r)
    [] OTHER -> TRUE

Passes(r, stage) ==
  CASE stage = "actor"   -> role[r.by] = "ADMIN" /\ (r.op = "role" /\ r.on = r.by => r.to = "ADMIN")
    [] stage = "target"  -> /\ r.op = "capability" /\ r.to = "yes" => role[r.on] \in Legal
                            /\ r.op = "role" => \E p \in Person :
                                 (IF p = r.on THEN r.to ELSE role[p]) = "ADMIN"
    [] stage = "first"   -> \A p \in Person : role[p] # "ADMIN"
    [] stage = "signer"  -> role[r.by] \in IF r.op = "decide" THEN {"APPROVER", "ADMIN"} ELSE Legal
    [] stage = "counsel" -> counsel[r.by]
    [] stage = "matter"  -> SignsFor(r)
    [] stage = "write"   -> /\ r.op = "member" /\ r.to = "NONE" => r.on # owner
                            /\ r.op = "matter" => owner = Nobody
    [] OTHER -> TRUE

-----------------------------------------------------------------------------
(* Steps of a transaction.                                                     *)

\* A bug: a transaction goes on after its last stage.
Last_GoesOn(t) == request[t].at > Len(Stages[request[t].op])
Last(t) == request[t].at = Len(Stages[request[t].op])
Ready(t) == request[t].state = "open" /\ ~Waits(t)

\* A bug: a role that is deactivated leaves the capability alone.
Kept_WhenInactive(p, to) == counsel[p] /\ to # "VIEWER"

\* Whether a person keeps the capability when the role becomes "to".
Kept(p, to) == counsel[p] /\ ~Revokes(to)

Advance(t) ==
  /\ Ready(t) /\ ~Last(t) /\ Passes(request[t], Stage(t))
  /\ request' = [request EXCEPT ![t].at = @ + 1]
  /\ UNCHANGED <<role, counsel, owner, restricted, member, left>>

\* A refusal, an error or a lost connection: the transaction is rolled back.
Ended_OnlyCommits(t) == request' = [request EXCEPT ![t].at = @]
Ended(t) == request' = [request EXCEPT ![t] = Answered("refused")]

Refuse(t) ==
  /\ Ready(t) /\ ~Passes(request[t], Stage(t))
  /\ Ended(t)
  /\ UNCHANGED <<role, counsel, owner, restricted, member, left>>

\* PostgreSQL aborts one of the transactions of a circle.
BreakDeadlock(t) ==
  /\ Deadlocked(t)
  /\ Ended(t)
  /\ UNCHANGED <<role, counsel, owner, restricted, member, left>>

Commits(t, op) ==
  /\ request[t].op = op /\ Ready(t) /\ Last(t) /\ Passes(request[t], Stage(t))
  /\ request' = [request EXCEPT ![t] = Answered("done")]
  /\ UNCHANGED left

\* POST admin/roles
ChangeRole(t) ==
  /\ Commits(t, "role")
  /\ LET p == request[t].on
     IN /\ role' = [role EXCEPT ![p] = request[t].to]
        /\ counsel' = [counsel EXCEPT ![p] = Kept(p, request[t].to)]
  /\ UNCHANGED <<owner, restricted, member>>

\* POST admin/capabilities
ChangeCapability(t) ==
  /\ Commits(t, "capability")
  /\ counsel' = [counsel EXCEPT ![request[t].on] = (request[t].to = "yes")]
  /\ UNCHANGED <<role, owner, restricted, member>>

\* POST admin/bootstrap
Bootstrap(t) ==
  /\ Commits(t, "bootstrap")
  /\ role' = [role EXCEPT ![request[t].by] = "ADMIN"]
  /\ UNCHANGED <<counsel, owner, restricted, member>>

\* POST matters
CreateMatter(t) ==
  /\ Commits(t, "matter")
  /\ owner' = request[t].by /\ restricted' = (request[t].to = "yes")
  /\ member' = [member EXCEPT ![request[t].by] = "EDIT"]
  /\ UNCHANGED <<role, counsel>>

\* POST and DELETE matters/[id]/members
ChangeMember(t) ==
  /\ Commits(t, "member")
  /\ member' = [member EXCEPT ![request[t].on] = request[t].to]
  /\ UNCHANGED <<role, counsel, owner, restricted>>

\* Attestations, dispositions of findings and graph objects, decisions and the
\* status of a version.
Sign(t) ==
  /\ \E op \in {"attest", "dispose", "decide"} : Commits(t, op)
  /\ UNCHANGED <<role, counsel, owner, restricted, member>>

Proceed(t) ==
  \/ Advance(t) \/ Refuse(t) \/ BreakDeadlock(t)
  \/ ChangeRole(t) \/ ChangeCapability(t) \/ Bootstrap(t)
  \/ CreateMatter(t) \/ ChangeMember(t) \/ Sign(t)

Next == \E t \in Thread : Admit(t) \/ Proceed(t)

Spec == Init /\ [][Next]_vars

\* The database goes on with every transaction that does not wait, and sooner or
\* later finds every deadlock.
Fairness == \A t \in Thread : WF_vars(Proceed(t))
FairSpec == Spec /\ Fairness

-----------------------------------------------------------------------------
(* Properties.                                                                 *)

\* The capability is only ever with an active Lawyer, Approver or Admin
\* (app/api/admin/capabilities/route.ts:83).  The grant and the role change read
\* and write different tables; the dispositions check the capability alone.
CounselIsLegal ==
  /\ TypeOK
  /\ \A p \in Person : counsel[p] => role[p] \in Legal

\* Once there is an Admin there always is one, however administrators demote
\* each other (app/api/admin/roles/route.ts:54).
AnAdminRemains ==
  [][(\E p \in Person : role[p] = "ADMIN") => \E p \in Person : role'[p] = "ADMIN"]_vars

\* Authority is held when it is used, not only when the request came: whoever
\* commits a role, a capability or a signature has what it takes at that moment
\* (app/api/analysis-attestations/route.ts:39, decisions/[id]/route.ts:30).
Authority(r) ==
  CASE r.op \in {"role", "capability"} -> role[r.by] = "ADMIN"
    [] r.op = "attest"  -> counsel[r.by] /\ role[r.by] \in Legal /\ SignsFor(r)
    [] r.op = "dispose" -> counsel[r.by] /\ role[r.by] \in Legal
    [] r.op = "decide"  -> role[r.by] \in {"APPROVER", "ADMIN"} /\ SignsFor(r)
    [] OTHER -> TRUE
AuthorityWhenUsed ==
  [][\A t \in Thread :
       request[t].state = "open" /\ request'[t].state = "done" => Authority(request[t])]_vars

\* Every request is answered, even when transactions wait for each other in a
\* circle (role changes lock the actor before the target, capability changes too).
RequestsEnd == \A t \in Thread : request[t].state = "open" ~> request[t].state # "open"

\* Whatever requireResourceMatterAccess lets in, requireMatterAccess would let in
\* too: "an explicit VIEW grant must constrain edit access without revealing
\* matter existence" (scripts/access-control-check.mjs).
MembershipConstrains ==
  \A p \in Person, need \in Level : ResourceAccess(p, need) => MatterAccess(p, need)

=============================================================================
