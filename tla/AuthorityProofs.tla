--------------------------- MODULE AuthorityProofs ---------------------------
(* Proofs about roles, the counsel capability and what is signed under them,   *)
(* for any people, any number of handlers and any bound.                       *)
(*                                                                             *)
(* The argument.  No two transactions hold locks that conflict (LocksApart):   *)
(* only Advance takes locks, and it waits.  What a transaction has checked is  *)
(* true until it ends (Checked), because it holds a lock on every row it read  *)
(* and whoever writes such a row needs an exclusive one.  So a commit may rely *)
(* on every check of its transaction, which is what the three properties need: *)
(* a role change that another Admin remains, a grant that its subject has a    *)
(* legal role, a signature that its signer has authority.  Two role changes    *)
(* never pass their checks side by side, as both lock the table of roles.      *)
EXTENDS Authority, TLAPS

\* What is asked for is something the operation can be asked for.
Asks ==
  \A t \in Thread : request[t].state = "open" =>
    /\ request[t].to \in Asked(request[t].op)
    /\ request[t].on \in Targets(request[t].op, request[t].by)

LocksApart ==
  \A t, u \in Thread : t # u =>
    \A l \in Holds(request[t]), m \in Holds(request[u]) : ~Conflict(l, m)

\* What the stages behind a transaction have found, as it is now.
Established(r) ==
  /\ r.op = "role" /\ r.at >= 3 => role[r.by] = "ADMIN"
  /\ r.op = "role" /\ r.at >= 5 =>
       \E p \in Person : (IF p = r.on THEN r.to ELSE role[p]) = "ADMIN"
  /\ r.op = "capability" /\ r.at >= 2 => role[r.by] = "ADMIN"
  /\ r.op = "capability" /\ r.at >= 4 /\ r.to = "yes" => role[r.on] \in Legal
  /\ r.op = "attest" /\ r.at >= 2 => role[r.by] \in Legal
  /\ r.op = "attest" /\ r.at >= 3 => counsel[r.by]
  /\ r.op = "decide" /\ r.at >= 2 => role[r.by] \in {"APPROVER", "ADMIN"}

Checked == \A t \in Thread : request[t].state = "open" => Established(request[t])

Inv == CounselIsLegal /\ Asks /\ LocksApart /\ Checked

-----------------------------------------------------------------------------
(* Requests, stages and the locks they hold.                                   *)

\* A request that is open has the fields of one.
LEMMA OpenRow ==
  ASSUME TypeOK, NEW t \in Thread, request[t].state = "open"
  PROVE  request[t] \in Open
BY DEF TypeOK, Answer, Answered

\* Where each operation stands, by the number of its stage.
LEMMA StageNames ==
  ASSUME NEW op \in Op
  PROVE  /\ Len(Stages[op]) \in 1 .. 5
         /\ op = "role" => /\ Len(Stages[op]) = 5 /\ Stages[op][1] = "table"
                           /\ Stages[op][2] = "actor" /\ Stages[op][3] = "user"
                           /\ Stages[op][4] = "target" /\ Stages[op][5] = "revoke"
         /\ op = "capability" => /\ Len(Stages[op]) = 4 /\ Stages[op][1] = "actor"
                                 /\ Stages[op][2] = "user" /\ Stages[op][3] = "target"
                                 /\ Stages[op][4] = "write"
         /\ op = "bootstrap" => /\ Len(Stages[op]) = 2 /\ Stages[op][1] = "first"
                                /\ Stages[op][2] = "target"
         /\ op = "attest" => /\ Len(Stages[op]) = 3 /\ Stages[op][1] = "signer"
                             /\ Stages[op][2] = "counsel" /\ Stages[op][3] = "matter"
         /\ op = "dispose" => Len(Stages[op]) = 1 /\ Stages[op][1] = "counsel"
         /\ op = "decide" => /\ Len(Stages[op]) = 2 /\ Stages[op][1] = "signer"
                             /\ Stages[op][2] = "matter"
         /\ op \in {"matter", "member"} => Len(Stages[op]) = 1 /\ Stages[op][1] = "write"
BY DEF Op, Stages

\* A transaction holds what its earlier stages needed.
LEMMA Held ==
  ASSUME NEW r, r.state = "open", NEW i \in 1 .. r.at - 1, NEW l \in Needs(r, Stages[r.op][i])
  PROVE  l \in Holds(r)
BY DEF Holds, Reached

\* The next stage adds what it needs, and nothing else.
LEMMA HoldsMore ==
  ASSUME NEW r \in Open, r.at < 5, NEW l \in Holds([r EXCEPT !.at = @ + 1])
  PROVE  l \in Holds(r) \/ l \in Needs(r, Stages[r.op][r.at])
<1> DEFINE s == [r EXCEPT !.at = @ + 1]
<1>1. s.op = r.op /\ s.by = r.by /\ s.on = r.on /\ s.to = r.to /\ s.at = r.at + 1
      /\ s.state = "open" /\ r.state = "open" /\ r.at \in 1 .. 5
  BY DEF Open
<1> HIDE DEF s
<1>2. \A stage : Needs(s, stage) = Needs(r, stage)
  BY <1>1 DEF Needs
<1>3. PICK stage \in Reached(s) : l \in Needs(s, stage)
  BY <1>1 DEF Holds, s
<1>4. PICK i \in 1 .. s.at - 1 : stage = Stages[s.op][i]
  BY <1>3 DEF Reached
<1>5. i = r.at \/ i \in 1 .. r.at - 1
  BY <1>1, <1>4
<1> QED BY <1>1, <1>2, <1>3, <1>4, <1>5, Held

-----------------------------------------------------------------------------
(* Transactions that end, and the rows they leave to the others.               *)

\* Whoever waits for nobody conflicts with nothing that is held.
LEMMA NoConflict ==
  ASSUME NEW t \in Thread, NEW u \in Thread, t # u, Ready(t),
         NEW l \in Needs(request[t], Stage(t)), NEW m \in Holds(request[u])
  PROVE  ~Conflict(l, m)
BY DEF Ready, Waits, WaitsFor

\* A transaction that ends gives its locks back and disturbs no other.
LEMMA EndingStep ==
  ASSUME TypeOK, Asks, LocksApart, NEW t \in Thread, NEW a \in {"done", "refused"},
         request' = [request EXCEPT ![t] = Answered(a)]
  PROVE  /\ request' \in [Thread -> Open \cup Answer]
         /\ \A u \in Thread : request'[u].state = "open" => u # t /\ request'[u] = request[u]
         /\ Asks' /\ LocksApart'
<1>1. Answered(a) \in Answer /\ Answered(a).state # "open"
  BY DEF Answered, Answer
<1>2. request' \in [Thread -> Open \cup Answer]
  BY <1>1 DEF TypeOK
<1>3. /\ request'[t] = Answered(a)
      /\ \A u \in Thread \ {t} : request'[u] = request[u]
  BY DEF TypeOK
<1>4. \A u \in Thread : request'[u].state = "open" => u # t /\ request'[u] = request[u]
  BY <1>1, <1>3
<1>5. Asks'
  BY <1>4 DEF Asks
<1>6. \A u \in Thread : \A l \in Holds(request'[u]) : u # t /\ request'[u] = request[u]
  BY <1>4 DEF Holds
<1>7. LocksApart'
  BY <1>6 DEF LocksApart
<1> QED BY <1>2, <1>4, <1>5, <1>7

\* A transaction that is undone changes nothing else.
LEMMA UndoneStep ==
  ASSUME Inv, NEW t \in Thread, Refuse(t) \/ BreakDeadlock(t)
  PROVE  Inv'
<1>1. request' = [request EXCEPT ![t] = Answered("refused")]
      /\ UNCHANGED <<role, counsel, owner, restricted, member, left>>
  BY DEF Refuse, BreakDeadlock, Ended
<1>2. /\ request' \in [Thread -> Open \cup Answer] /\ Asks' /\ LocksApart'
      /\ \A u \in Thread : request'[u].state = "open" => u # t /\ request'[u] = request[u]
  BY <1>1, EndingStep DEF Inv, CounselIsLegal
<1>3. CounselIsLegal'
  BY <1>1, <1>2 DEF Inv, CounselIsLegal, TypeOK
<1>4. Checked'
  BY <1>1, <1>2 DEF Inv, Checked, Established
<1> QED BY <1>2, <1>3, <1>4 DEF Inv

\* A request that is admitted has neither checked nor locked anything.
LEMMA AdmitStep ==
  ASSUME Inv, NEW t \in Thread, Admit(t)
  PROVE  Inv'
<1>1. PICK op \in Op, by \in Person, on \in Person, to \in Value :
        on \in Targets(op, by) /\ to \in Asked(op) /\ request' = [request EXCEPT ![t] =
          [op |-> op, by |-> by, on |-> on, to |-> to, at |-> 1, state |-> "open"]]
  <2>1. PICK op \in Op, by \in Person : \E on \in Targets(op, by), to \in Asked(op) :
          request' = [request EXCEPT ![t] =
            [op |-> op, by |-> by, on |-> on, to |-> to, at |-> 1, state |-> "open"]]
    BY Zenon DEF Admit
  <2>2. Targets(op, by) \subseteq Person /\ Asked(op) \subseteq Value
    BY DEF Targets, Asked, Value, Role
  <2> QED BY <2>1, <2>2, Zenon
<1> DEFINE r == [op |-> op, by |-> by, on |-> on, to |-> to, at |-> 1, state |-> "open"]
<1>2. /\ UNCHANGED <<role, counsel, owner, restricted, member>>
      /\ left \in 0 .. MaxRequests => left' \in 0 .. MaxRequests
  BY RequestAssumption DEF Admit
<1>3. r \in Open /\ r.op = op /\ r.at = 1 /\ r.to = to /\ r.by = by /\ r.on = on
  BY DEF Open
<1>4. Holds(r) = {}
  BY DEF Holds, Reached
<1> HIDE DEF r
<1>5. request'[t] = r /\ \A u \in Thread \ {t} : request'[u] = request[u]
  BY <1>1 DEF r, Inv, CounselIsLegal, TypeOK
<1>6. request' \in [Thread -> Open \cup Answer]
  BY <1>1, <1>3 DEF r, Inv, CounselIsLegal, TypeOK
<1>7. 1 <= Len(Stages[op])
  BY StageNames
<1>8. CounselIsLegal'
  BY <1>2, <1>3, <1>5, <1>6, <1>7 DEF Inv, CounselIsLegal, TypeOK
<1>9. Asks' /\ LocksApart'
  BY <1>1, <1>3, <1>4, <1>5 DEF Inv, Asks, LocksApart
<1>10. Established(r)
  BY <1>3 DEF Established
<1>11. Checked'
  BY <1>2, <1>5, <1>10 DEF Inv, Checked, Established
<1> QED BY <1>8, <1>9, <1>11 DEF Inv

-----------------------------------------------------------------------------
(* Steps within a transaction.                                                 *)

\* A stage that was passed is established.
LEMMA PassedStage ==
  ASSUME Inv, NEW t \in Thread, request[t].state = "open", Passes(request[t], Stage(t)),
         request[t].at < 5
  PROVE  Established([request[t] EXCEPT !.at = @ + 1])
<1> DEFINE r == request[t]  s == [r EXCEPT !.at = @ + 1]
<1>1. r \in Open /\ Established(r)
  BY OpenRow DEF Inv, CounselIsLegal, Checked
<1>2. s.op = r.op /\ s.by = r.by /\ s.on = r.on /\ s.to = r.to /\ s.at = r.at + 1
      /\ r.at \in 1 .. 5 /\ r.op \in Op /\ r.by \in Person /\ r.on \in Person
  BY <1>1 DEF Open
<1> HIDE DEF s
<1>3. CASE r.op = "role"
  <2>1. r.at = 2 => Passes(r, "actor")
    BY <1>2, <1>3, StageNames DEF Stage
  <2>2. r.at = 4 => Passes(r, "target")
    BY <1>2, <1>3, StageNames DEF Stage
  <2>3. r.at = 2 => role[r.by] = "ADMIN"
    BY <2>1 DEF Passes
  <2>4. r.at = 4 => \E p \in Person : (IF p = r.on THEN r.to ELSE role[p]) = "ADMIN"
    BY <2>2, <1>3 DEF Passes
  <2> QED BY <1>1, <1>2, <1>3, <2>3, <2>4 DEF Established
<1>4. CASE r.op = "capability"
  <2>1. r.at = 1 => Passes(r, "actor")
    BY <1>2, <1>4, StageNames DEF Stage
  <2>2. r.at = 3 => Passes(r, "target")
    BY <1>2, <1>4, StageNames DEF Stage
  <2>3. r.at = 1 => role[r.by] = "ADMIN"
    BY <2>1 DEF Passes
  <2>4. r.at = 3 /\ r.to = "yes" => role[r.on] \in Legal
    BY <2>2, <1>4 DEF Passes
  <2> QED BY <1>1, <1>2, <1>4, <2>3, <2>4 DEF Established
<1>5. CASE r.op \in {"attest", "decide"}
  <2>1. r.at = 1 => Passes(r, "signer")
    BY <1>2, <1>5, StageNames DEF Stage
  <2>2. r.op = "attest" /\ r.at = 2 => Passes(r, "counsel")
    BY <1>2, <1>5, StageNames DEF Stage
  <2>3. r.at = 1 => role[r.by] \in IF r.op = "decide" THEN {"APPROVER", "ADMIN"} ELSE Legal
    BY <2>1 DEF Passes
  <2>4. r.op = "attest" /\ r.at = 2 => counsel[r.by]
    BY <2>2 DEF Passes
  <2> QED BY <1>1, <1>2, <1>5, <2>3, <2>4 DEF Established
<1>6. CASE r.op \notin {"role", "capability", "attest", "decide"}
  BY <1>2, <1>6 DEF Established
<1> QED BY <1>3, <1>4, <1>5, <1>6 DEF s

\* A stage takes its locks when nobody else holds one that conflicts.
LEMMA AdvanceStep ==
  ASSUME Inv, NEW t \in Thread, Advance(t)
  PROVE  Inv'
<1> DEFINE r == request[t]  s == [r EXCEPT !.at = @ + 1]
<1>1. /\ Ready(t) /\ ~Last(t) /\ Passes(r, Stage(t)) /\ r.state = "open"
      /\ request' = [request EXCEPT ![t].at = @ + 1]
      /\ UNCHANGED <<role, counsel, owner, restricted, member, left>>
  BY DEF Advance, Ready
<1>2. r \in Open /\ r.at <= Len(Stages[r.op])
  BY <1>1, OpenRow DEF Inv, CounselIsLegal, TypeOK
<1>3. Len(Stages[r.op]) \in 1 .. 5
  BY <1>2, StageNames DEF Open
<1>4. r.at < Len(Stages[r.op]) /\ r.at \in 1 .. 4
  <2>1. r.at \in 1 .. 5
    BY <1>2 DEF Open
  <2>2. r.at # Len(Stages[r.op])
    BY <1>1 DEF Last
  <2> DEFINE n == Len(Stages[r.op])
  <2>3. n \in 1 .. 5 /\ r.at <= n /\ r.at # n
    BY <1>2, <1>3, <2>2
  <2> HIDE DEF n
  <2>4. r.at < n /\ r.at \in 1 .. 4
    BY <2>1, <2>3
  <2> QED BY <2>4 DEF n
<1>5. s \in Open /\ s.at = r.at + 1 /\ s.op = r.op /\ s.to = r.to /\ s.by = r.by /\ s.on = r.on
      /\ s.state = "open"
  BY <1>2, <1>4 DEF Open
<1>6. request'[t] = s /\ \A u \in Thread \ {t} : request'[u] = request[u]
  BY <1>1 DEF Inv, CounselIsLegal, TypeOK
<1>7. Established(s)
  BY <1>1, <1>4, PassedStage
<1>8. \A u \in Thread \ {t} : \A l \in Holds(s), m \in Holds(request[u]) : ~Conflict(l, m)
  <2> SUFFICES ASSUME NEW u \in Thread \ {t}, NEW l \in Holds(s), NEW m \in Holds(request[u])
               PROVE  ~Conflict(l, m)
    OBVIOUS
  <2>1. l \in Holds(r) \/ l \in Needs(r, Stage(t))
    BY <1>2, <1>4, HoldsMore DEF Stage
  <2> QED BY <1>1, <2>1, NoConflict DEF Inv, LocksApart
<1> HIDE DEF s
<1>9. request' \in [Thread -> Open \cup Answer]
  BY <1>1, <1>5, <1>6 DEF Inv, CounselIsLegal, TypeOK
<1>10. CounselIsLegal'
  BY <1>1, <1>3, <1>4, <1>5, <1>6, <1>9 DEF Inv, CounselIsLegal, TypeOK
<1>11. Asks'
  BY <1>1, <1>5, <1>6 DEF Inv, Asks
<1>12. \A l, m : Conflict(l, m) <=> Conflict(m, l)
  BY DEF Conflict
<1>13. LocksApart'
  BY <1>6, <1>8, <1>12 DEF Inv, LocksApart
<1>14. Checked'
  <2> SUFFICES ASSUME NEW u \in Thread, request'[u].state = "open"
               PROVE  Established(request[u])'
    BY DEF Checked
  <2>1. CASE u = t
    BY <1>1, <1>6, <1>7, <2>1 DEF Established
  <2>2. CASE u # t
    BY <1>1, <1>6, <2>2 DEF Inv, Checked, Established
  <2> QED BY <2>1, <2>2
<1> QED BY <1>10, <1>11, <1>13, <1>14 DEF Inv

-----------------------------------------------------------------------------
(* Commits.                                                                    *)

\* A row that a transaction has checked stays as it is unless it is written by
\* somebody whom that transaction's locks do not concern.
LEMMA OthersKept ==
  ASSUME Inv, NEW u \in Thread, request[u].state = "open", request'[u] = request[u],
         \A q \in Person : role'[q] = role[q]
           \/ \A m \in Holds(request[u]) : m.on # <<"role", q>>,
         \A q \in Person : counsel'[q] = counsel[q]
           \/ \A m \in Holds(request[u]) : m.on # <<"counsel", q>>,
         request[u].op = "role" /\ request[u].at >= 5 =>
           \A q \in Person : role[q] = "ADMIN" => role'[q] = "ADMIN"
  PROVE  Established(request[u])'
<1> DEFINE r == request[u]
<1>1. r \in Open /\ Established(r)
  BY OpenRow DEF Inv, CounselIsLegal, Checked
<1>2. r.op \in Op /\ r.at \in 1 .. 5 /\ r.by \in Person /\ r.on \in Person
  BY <1>1 DEF Open
<1> HIDE DEF r
<1>3. \A i \in 1 .. r.at - 1 : \A l \in Needs(r, Stages[r.op][i]) : l \in Holds(r)
  BY Held DEF r
<1>4. ASSUME r.op \in {"role", "capability"}, r.at >= 3 \/ (r.op = "capability" /\ r.at >= 2)
      PROVE  role'[r.by] = role[r.by]
  <2>1. \E i \in 1 .. r.at - 1 : Stages[r.op][i] = "actor"
    BY <1>2, <1>4, StageNames
  <2>2. Exclusive("role", r.by) \in Holds(r)
    BY <1>3, <2>1 DEF Needs
  <2> QED BY <1>2, <2>2 DEF Exclusive, r
<1>5. ASSUME r.op = "capability", r.at >= 4
      PROVE  role'[r.on] = role[r.on]
  <2>1. \E i \in 1 .. r.at - 1 : Stages[r.op][i] = "target"
    BY <1>2, <1>5, StageNames
  <2>2. Shared("role", r.on) \in Holds(r)
    BY <1>3, <1>5, <2>1 DEF Needs
  <2> QED BY <1>2, <2>2 DEF Shared, r
<1>6. ASSUME r.op \in {"attest", "decide"}, r.at >= 2
      PROVE  role'[r.by] = role[r.by]
  <2>1. \E i \in 1 .. r.at - 1 : Stages[r.op][i] = "signer"
    BY <1>2, <1>6, StageNames
  <2>2. Shared("role", r.by) \in Holds(r)
    BY <1>3, <2>1 DEF Needs
  <2> QED BY <1>2, <2>2 DEF Shared, r
<1>7. ASSUME r.op = "attest", r.at >= 3
      PROVE  counsel'[r.by] = counsel[r.by]
  <2>1. \E i \in 1 .. r.at - 1 : Stages[r.op][i] = "counsel"
    BY <1>2, <1>7, StageNames
  <2>2. Shared("counsel", r.by) \in Holds(r)
    BY <1>3, <2>1 DEF Needs
  <2> QED BY <1>2, <2>2 DEF Shared, r
<1>8. request'[u] = r
  BY DEF r
<1>9. /\ r.op = "role" /\ r.at >= 3 => role'[r.by] = "ADMIN"
      /\ r.op = "capability" /\ r.at >= 2 => role'[r.by] = "ADMIN"
      /\ r.op = "capability" /\ r.at >= 4 /\ r.to = "yes" => role'[r.on] \in Legal
      /\ r.op = "attest" /\ r.at >= 2 => role'[r.by] \in Legal
      /\ r.op = "decide" /\ r.at >= 2 => role'[r.by] \in {"APPROVER", "ADMIN"}
  BY <1>1, <1>4, <1>5, <1>6 DEF Established
<1>10. r.op = "attest" /\ r.at >= 3 => counsel'[r.by]
  BY <1>1, <1>7 DEF Established
<1>11. r.op = "role" /\ r.at >= 5 =>
         \E q \in Person : (IF q = r.on THEN r.to ELSE role'[q]) = "ADMIN"
  BY <1>1 DEF Established, r
<1> QED BY <1>8, <1>9, <1>10, <1>11 DEF Established

\* What is known when a transaction commits.
LEMMA CommitFacts ==
  ASSUME Inv, NEW t \in Thread, NEW op \in Op, Commits(t, op)
  PROVE  /\ request[t].state = "open" /\ request[t] \in Open /\ request[t].op = op
         /\ request[t].to \in Asked(op) /\ request[t].on \in Targets(op, request[t].by)
         /\ Established(request[t]) /\ Ready(t)
         /\ request[t].at = Len(Stages[op]) /\ Passes(request[t], Stages[op][request[t].at])
         /\ Stage(t) = Stages[op][request[t].at]
         /\ request' = [request EXCEPT ![t] = Answered("done")] /\ left' = left
         /\ request' \in [Thread -> Open \cup Answer] /\ Asks' /\ LocksApart'
         /\ \A u \in Thread : request'[u].state = "open" => u # t /\ request'[u] = request[u]
<1>1. /\ request[t].state = "open" /\ request[t].op = op /\ Ready(t) /\ Last(t)
      /\ Passes(request[t], Stage(t)) /\ left' = left
      /\ request' = [request EXCEPT ![t] = Answered("done")]
  BY DEF Commits, Ready
<1>2. /\ request' \in [Thread -> Open \cup Answer] /\ Asks' /\ LocksApart'
      /\ \A u \in Thread : request'[u].state = "open" => u # t /\ request'[u] = request[u]
  BY <1>1, EndingStep DEF Inv, CounselIsLegal
<1>3. request[t] \in Open /\ Established(request[t]) /\ request[t].to \in Asked(op)
      /\ request[t].on \in Targets(op, request[t].by)
  BY <1>1, OpenRow DEF Inv, CounselIsLegal, Checked, Asks
<1> QED BY <1>1, <1>2, <1>3 DEF Last, Stage

\* A role change concerns nobody's checks but its own: it alone has the table of
\* roles, its subject's row and, if it takes the capability away, that row too
\* (app/api/admin/roles/route.ts:34-70).
LEMMA RoleCommit ==
  ASSUME Inv, NEW t \in Thread, ChangeRole(t)
  PROVE  /\ Inv'
         /\ (\E p \in Person : role[p] = "ADMIN") => \E p \in Person : role'[p] = "ADMIN"
<1> DEFINE r == request[t]
<1>1. /\ r.state = "open" /\ r \in Open /\ r.op = "role" /\ r.to \in Asked("role")
      /\ Established(r) /\ Ready(t) /\ r.at = Len(Stages["role"])
      /\ Stage(t) = Stages["role"][r.at] /\ left' = left
      /\ request' \in [Thread -> Open \cup Answer] /\ Asks' /\ LocksApart'
      /\ \A u \in Thread : request'[u].state = "open" => u # t /\ request'[u] = request[u]
  BY CommitFacts DEF ChangeRole, Op
<1>2. r.at = 5 /\ Stage(t) = "revoke" /\ r.on \in Person /\ r.to \in Role
  BY <1>1, StageNames DEF Open, Op, Asked
<1>3. /\ role' = [role EXCEPT ![r.on] = r.to]
      /\ counsel' = [counsel EXCEPT ![r.on] = Kept(r.on, r.to)]
      /\ UNCHANGED <<owner, restricted, member>>
  BY DEF ChangeRole
<1>4. \E p \in Person : role'[p] = "ADMIN"
  BY <1>1, <1>2, <1>3 DEF Established, Inv, CounselIsLegal, TypeOK
<1>5. \A p \in Person : counsel'[p] = IF p = r.on THEN Kept(r.on, r.to) ELSE counsel[p]
  BY <1>3 DEF Inv, CounselIsLegal, TypeOK
<1>6. /\ role' \in [Person -> Role]
      /\ \A p \in Person : role'[p] = IF p = r.on THEN r.to ELSE role[p]
  BY <1>2, <1>3 DEF Inv, CounselIsLegal, TypeOK
<1>7. counsel' \in [Person -> BOOLEAN]
  BY <1>3 DEF Inv, CounselIsLegal, TypeOK, Kept
<1>8. CounselIsLegal'
  <2>1. TypeOK'
    BY <1>1, <1>3, <1>6, <1>7 DEF Inv, CounselIsLegal, TypeOK
  <2>2. \A p \in Person : counsel'[p] => role'[p] \in Legal
    BY <1>5, <1>6 DEF Inv, CounselIsLegal, Kept, Revokes
  <2> QED BY <2>1, <2>2 DEF CounselIsLegal
<1>9. Exclusive("role", r.on) \in Holds(r) /\ Exclusive("roles", Nobody) \in Holds(r)
  BY <1>1, <1>2, Held, StageNames DEF Needs, Op
<1>10. Checked'
  <2> SUFFICES ASSUME NEW u \in Thread, request'[u].state = "open"
               PROVE  Established(request[u])'
    BY DEF Checked
  <2>1. u # t /\ request'[u] = request[u] /\ request[u].state = "open"
    BY <1>1
  <2>2. \A m \in Holds(request[u]) : m.on # <<"role", r.on>> /\ m.on # <<"roles", Nobody>>
    BY <1>9, <2>1 DEF Inv, LocksApart, Conflict, Exclusive
  <2>3. Revokes(r.to) => \A m \in Holds(request[u]) : m.on # <<"counsel", r.on>>
    <3>1. Revokes(r.to) => Exclusive("counsel", r.on) \in Needs(r, Stage(t))
      BY <1>2 DEF Needs
    <3> QED BY <1>1, <2>1, <3>1, NoConflict DEF Conflict, Exclusive
  <2>4. ~(request[u].op = "role" /\ request[u].at >= 5)
    <3>1. request[u] \in Open
      BY <2>1, OpenRow DEF Inv, CounselIsLegal
    <3>2. request[u].op = "role" /\ request[u].at >= 2 => Exclusive("roles", Nobody) \in Holds(request[u])
      BY <2>1, <3>1, Held, StageNames DEF Needs, Op, Open
    <3> QED BY <2>2, <3>1, <3>2 DEF Exclusive, Open
  <2>5. \A q \in Person : role'[q] = role[q] \/ \A m \in Holds(request[u]) : m.on # <<"role", q>>
    BY <1>6, <2>2
  <2>6. \A q \in Person : counsel'[q] = counsel[q]
          \/ \A m \in Holds(request[u]) : m.on # <<"counsel", q>>
    BY <1>5, <2>3 DEF Kept, Inv, CounselIsLegal, TypeOK
  <2> QED BY <2>1, <2>4, <2>5, <2>6, OthersKept
<1> QED BY <1>1, <1>4, <1>8, <1>10 DEF Inv

\* The bootstrap adds an Admin and takes nobody's role away.
LEMMA BootstrapCommit ==
  ASSUME Inv, NEW t \in Thread, Bootstrap(t)
  PROVE  /\ Inv'
         /\ (\E p \in Person : role[p] = "ADMIN") => \E p \in Person : role'[p] = "ADMIN"
<1> DEFINE r == request[t]
<1>1. /\ r.state = "open" /\ r \in Open /\ r.op = "bootstrap" /\ Ready(t)
      /\ r.on \in Targets("bootstrap", r.by)
      /\ r.at = Len(Stages["bootstrap"]) /\ Stage(t) = Stages["bootstrap"][r.at] /\ left' = left
      /\ request' \in [Thread -> Open \cup Answer] /\ Asks' /\ LocksApart'
      /\ \A u \in Thread : request'[u].state = "open" => u # t /\ request'[u] = request[u]
  BY CommitFacts DEF Bootstrap, Op
<1>2. Stage(t) = "target" /\ r.by \in Person /\ r.on = r.by
  BY <1>1, StageNames DEF Open, Op, Targets
<1>3. role' = [role EXCEPT ![r.by] = "ADMIN"] /\ UNCHANGED <<counsel, owner, restricted, member>>
  BY DEF Bootstrap
<1>4. /\ role' \in [Person -> Role]
      /\ \A p \in Person : role'[p] = IF p = r.by THEN "ADMIN" ELSE role[p]
  BY <1>2, <1>3 DEF Inv, CounselIsLegal, TypeOK, Role
<1>5. CounselIsLegal'
  <2>1. TypeOK'
    BY <1>1, <1>3, <1>4 DEF Inv, CounselIsLegal, TypeOK
  <2>2. \A p \in Person : counsel'[p] => role'[p] \in Legal
    BY <1>3, <1>4 DEF Inv, CounselIsLegal, Legal
  <2> QED BY <2>1, <2>2 DEF CounselIsLegal
<1>6. Exclusive("role", r.by) \in Needs(r, Stage(t))
  BY <1>1, <1>2 DEF Needs
<1>7. Checked'
  <2> SUFFICES ASSUME NEW u \in Thread, request'[u].state = "open"
               PROVE  Established(request[u])'
    BY DEF Checked
  <2>1. u # t /\ request'[u] = request[u] /\ request[u].state = "open"
    BY <1>1
  <2>2. \A m \in Holds(request[u]) : m.on # <<"role", r.by>>
    BY <1>1, <1>6, <2>1, NoConflict DEF Conflict, Exclusive
  <2>3. \A q \in Person : role'[q] = role[q] \/ \A m \in Holds(request[u]) : m.on # <<"role", q>>
    BY <1>4, <2>2
  <2>4. \A q \in Person : role[q] = "ADMIN" => role'[q] = "ADMIN"
    BY <1>4
  <2> QED BY <1>3, <2>1, <2>3, <2>4, OthersKept
<1> QED BY <1>1, <1>4, <1>5, <1>7 DEF Inv

\* The subject of a grant has a legal role, and only the grant has the row of its
\* capability (app/api/admin/capabilities/route.ts:62-97).
LEMMA CapabilityCommit ==
  ASSUME Inv, NEW t \in Thread, ChangeCapability(t)
  PROVE  Inv' /\ role' = role
<1> DEFINE r == request[t]
<1>1. /\ r.state = "open" /\ r \in Open /\ r.op = "capability" /\ Ready(t) /\ Established(r)
      /\ r.at = Len(Stages["capability"]) /\ Stage(t) = Stages["capability"][r.at] /\ left' = left
      /\ request' \in [Thread -> Open \cup Answer] /\ Asks' /\ LocksApart'
      /\ \A u \in Thread : request'[u].state = "open" => u # t /\ request'[u] = request[u]
  BY CommitFacts DEF ChangeCapability, Op
<1>2. r.at = 4 /\ Stage(t) = "write" /\ r.on \in Person
  BY <1>1, StageNames DEF Open, Op
<1>3. /\ counsel' = [counsel EXCEPT ![r.on] = (r.to = "yes")]
      /\ UNCHANGED <<role, owner, restricted, member>>
  BY DEF ChangeCapability
<1>4. /\ counsel' \in [Person -> BOOLEAN]
      /\ \A p \in Person \ {r.on} : counsel'[p] = counsel[p]
      /\ counsel'[r.on] => r.to = "yes"
  BY <1>2, <1>3 DEF Inv, CounselIsLegal, TypeOK
<1>5. CounselIsLegal'
  <2>1. TypeOK'
    BY <1>1, <1>3, <1>4 DEF Inv, CounselIsLegal, TypeOK
  <2>2. \A p \in Person : counsel'[p] => role'[p] \in Legal
    BY <1>1, <1>2, <1>3, <1>4 DEF Inv, CounselIsLegal, Established
  <2> QED BY <2>1, <2>2 DEF CounselIsLegal
<1>6. Exclusive("counsel", r.on) \in Needs(r, Stage(t))
  BY <1>1, <1>2 DEF Needs
<1>7. Checked'
  <2> SUFFICES ASSUME NEW u \in Thread, request'[u].state = "open"
               PROVE  Established(request[u])'
    BY DEF Checked
  <2>1. u # t /\ request'[u] = request[u] /\ request[u].state = "open"
    BY <1>1
  <2>2. \A m \in Holds(request[u]) : m.on # <<"counsel", r.on>>
    BY <1>1, <1>6, <2>1, NoConflict DEF Conflict, Exclusive
  <2>3. \A q \in Person : counsel'[q] = counsel[q]
          \/ \A m \in Holds(request[u]) : m.on # <<"counsel", q>>
    BY <1>4, <2>2
  <2> QED BY <1>3, <2>1, <2>3, OthersKept
<1> QED BY <1>1, <1>3, <1>5, <1>7 DEF Inv

\* The matter and its members are no part of the roles, and a signature changes
\* none of them.
LEMMA OtherCommit ==
  ASSUME Inv, NEW t \in Thread, CreateMatter(t) \/ ChangeMember(t) \/ Sign(t)
  PROVE  Inv' /\ role' = role
<1>1. PICK op \in {"matter", "member", "attest", "dispose", "decide"} : Commits(t, op)
  BY DEF CreateMatter, ChangeMember, Sign
<1>2. op \in Op
  BY DEF Op
<1>3. /\ request[t] \in Open /\ request[t].op = op /\ request[t].to \in Asked(op) /\ left' = left
      /\ request' \in [Thread -> Open \cup Answer] /\ Asks' /\ LocksApart'
      /\ \A u \in Thread : request'[u].state = "open" => u # t /\ request'[u] = request[u]
  BY <1>1, <1>2, CommitFacts
<1>4. UNCHANGED <<role, counsel>>
  BY DEF CreateMatter, ChangeMember, Sign
<1>5. owner' \in Person \cup {Nobody} /\ restricted' \in BOOLEAN
  BY <1>3 DEF CreateMatter, ChangeMember, Sign, Open, Inv, CounselIsLegal, TypeOK
<1>6. member' \in [Person -> Level \cup {"NONE"}]
  <2>1. CASE CreateMatter(t)
    BY <2>1 DEF CreateMatter, Inv, CounselIsLegal, TypeOK, Level
  <2>2. CASE ChangeMember(t)
    <3>1. request[t].op = "member"
      BY <2>2 DEF ChangeMember, Commits
    <3>2. request[t].to \in Level \cup {"NONE"}
      BY <1>3, <3>1 DEF Asked
    <3> QED BY <2>2, <3>2 DEF ChangeMember, Inv, CounselIsLegal, TypeOK
  <2>3. CASE Sign(t)
    BY <2>3 DEF Sign, Inv, CounselIsLegal, TypeOK
  <2> QED BY <2>1, <2>2, <2>3
<1>7. CounselIsLegal'
  BY <1>3, <1>4, <1>5, <1>6 DEF Inv, CounselIsLegal, TypeOK
<1>8. Checked'
  BY <1>3, <1>4 DEF Inv, Checked, Established
<1> QED BY <1>3, <1>4, <1>7, <1>8 DEF Inv

-----------------------------------------------------------------------------
(* Theorems.                                                                   *)

LEMMA InitInv == Init => Inv
<1> SUFFICES ASSUME Init PROVE Inv
  OBVIOUS
<1>1. NoRequest \in Answer /\ NoRequest.state # "open"
  BY DEF NoRequest, Answered, Answer
<1>2. \A t \in Thread : request[t] \in Answer /\ request[t].state # "open"
  BY <1>1 DEF Init
<1>3. request \in [Thread -> Open \cup Answer]
  BY <1>1 DEF Init
<1>4. CounselIsLegal
  <2>1. /\ role \in [Person -> Role] /\ owner \in Person \cup {Nobody} /\ restricted \in BOOLEAN
        /\ member \in [Person -> Level \cup {"NONE"}]
    BY DEF Init, Role
  <2>2. counsel \in [Person -> BOOLEAN] /\ \A p \in Person : ~counsel[p]
    BY DEF Init
  <2>3. left \in 0 .. MaxRequests
    BY RequestAssumption DEF Init
  <2> QED BY <1>2, <1>3, <2>1, <2>2, <2>3 DEF CounselIsLegal, TypeOK
<1>5. Asks /\ LocksApart /\ Checked
  BY <1>2 DEF Asks, LocksApart, Holds, Checked
<1> QED BY <1>4, <1>5 DEF Inv

\* Every handler keeps the inductive invariant, and an Admin.
LEMMA InvStep ==
  ASSUME Inv, [Next]_vars
  PROVE  /\ Inv'
         /\ (\E p \in Person : role[p] = "ADMIN") => \E p \in Person : role'[p] = "ADMIN"
<1>1. CASE \E t \in Thread : Admit(t)
  BY <1>1, AdmitStep DEF Admit
<1>2. CASE \E t \in Thread : Advance(t)
  BY <1>2, AdvanceStep DEF Advance
<1>3. CASE \E t \in Thread : Refuse(t) \/ BreakDeadlock(t)
  BY <1>3, UndoneStep DEF Refuse, BreakDeadlock
<1>4. CASE \E t \in Thread : ChangeRole(t)
  BY <1>4, RoleCommit
<1>5. CASE \E t \in Thread : Bootstrap(t)
  BY <1>5, BootstrapCommit
<1>6. CASE \E t \in Thread : ChangeCapability(t)
  BY <1>6, CapabilityCommit
<1>7. CASE \E t \in Thread : CreateMatter(t) \/ ChangeMember(t) \/ Sign(t)
  BY <1>7, OtherCommit
<1>8. CASE UNCHANGED vars
  BY <1>8 DEF vars, Inv, CounselIsLegal, TypeOK, Asks, LocksApart, Checked, Established
<1> QED BY <1>1, <1>2, <1>3, <1>4, <1>5, <1>6, <1>7, <1>8 DEF Next, Proceed

\* The inductive invariant of roles, capability and the handlers that use them.
THEOREM InvHolds == Spec => []Inv
BY InitInv, InvStep, PTL DEF Spec

\* The capability is only ever with an active Lawyer, Approver or Admin
\* (app/api/admin/capabilities/route.ts:83).
THEOREM CounselHolds == Spec => []CounselIsLegal
<1>1. Inv => CounselIsLegal
  BY DEF Inv
<1> QED BY <1>1, InvHolds, PTL

\* However administrators demote each other, one remains
\* (app/api/admin/roles/route.ts:54).
THEOREM AdminRemains == Spec => AnAdminRemains
<1>1. Inv /\ [Next]_vars =>
        [(\E p \in Person : role[p] = "ADMIN") => \E p \in Person : role'[p] = "ADMIN"]_vars
  BY InvStep
<1> QED BY <1>1, InvHolds, PTL DEF Spec, AnAdminRemains

\* Whoever commits has authority at that moment.
LEMMA CommitStep ==
  ASSUME Inv, [Next]_vars, NEW t \in Thread, request[t].state = "open", request'[t].state = "done"
  PROVE  Authority(request[t])
<1> DEFINE r == request[t]
<1>1. request \in [Thread -> Open \cup Answer]
  BY DEF Inv, CounselIsLegal, TypeOK
<1>2. \A u \in Thread : \A x : request' = [request EXCEPT ![u] = x] => u = t /\ x.state = "done"
  BY <1>1
<1>3. PICK op \in Op : Commits(t, op)
  <2>1. PICK u \in Thread : Admit(u) \/ Proceed(u)
    BY DEF Next, vars
  <2>2. CASE Admit(u)
    BY <1>2, <2>2 DEF Admit
  <2>3. CASE Advance(u)
    BY <1>1, <2>3 DEF Advance
  <2>4. CASE Refuse(u) \/ BreakDeadlock(u)
    BY <1>2, <2>4 DEF Refuse, BreakDeadlock, Ended, Answered
  <2>5. CASE \E op \in Op : Commits(u, op)
    BY <1>2, <2>5 DEF Commits
  <2> QED BY <2>1, <2>2, <2>3, <2>4, <2>5
          DEF Proceed, ChangeRole, ChangeCapability, Bootstrap, CreateMatter, ChangeMember, Sign, Op
<1>4. /\ r.op = op /\ Established(r) /\ r.at = Len(Stages[op]) /\ r \in Open
      /\ Passes(r, Stages[op][r.at])
  BY <1>3, CommitFacts
<1>5. CASE op \in {"role", "capability"}
  BY <1>4, <1>5, StageNames DEF Established, Authority
<1>6. CASE op = "attest"
  BY <1>4, <1>6, StageNames DEF Established, Authority, Passes
<1>7. CASE op = "dispose"
  BY <1>4, <1>7, StageNames DEF Authority, Passes, Inv, CounselIsLegal, Open
<1>8. CASE op = "decide"
  BY <1>4, <1>8, StageNames DEF Established, Authority, Passes
<1>9. CASE op \in {"bootstrap", "matter", "member"}
  BY <1>4, <1>9 DEF Authority
<1> QED BY <1>5, <1>6, <1>7, <1>8, <1>9 DEF Op

\* Whoever commits a role, a capability or a signature has what it takes at that
\* moment (app/api/analysis-attestations/route.ts:39, decisions/[id]/route.ts:30).
THEOREM AuthorityHolds == Spec => AuthorityWhenUsed
<1>1. Inv /\ [Next]_vars =>
        [\A t \in Thread :
           request[t].state = "open" /\ request'[t].state = "done" => Authority(request[t])]_vars
  BY CommitStep
<1> QED BY <1>1, InvHolds, PTL DEF Spec, AuthorityWhenUsed

=============================================================================
