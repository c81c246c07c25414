--------------------------- MODULE RelianceProofs ---------------------------
(***************************************************************************)
(* Proofs about the playbook registry of a matter and about what the       *)
(* cockpit lets be relied upon, for any number of people, options, cases,  *)
(* engines, runs, standards, analyses and requests.                        *)
(*                                                                         *)
(* The playbook (PlaybookInv): whoever holds the lock of the matter has    *)
(* read the whole log (CallsInOrder), and what it has judged stays true    *)
(* until it appends (JudgedInOrder): nobody else appends, time only ends   *)
(* reviews, the source may not change and the reviewers an export cites    *)
(* keep their authority.  That no book has a circle needs what the walk    *)
(* along the dependencies computes: the recursive functions of the model   *)
(* are shown to exist by giving their value in closed form (Walks).        *)
(*                                                                         *)
(* Reliance (RelianceInv): a concluded run has the results its verdict was *)
(* given on (RunInOrder), and the audit log tells a checked job whether    *)
(* its analysis still is the latest one that ended well (JobInOrder).      *)
(***************************************************************************)
EXTENDS Reliance, TLAPS, FiniteSetTheorems

Draft == [kind : Operation, by : Person \cup {Nobody}, option : Option \cup {Nobody},
          at : Nat, expires : Nat, names : SUBSET Nat, text : Nat]
CallRow == [step : {"idle", "admitted", "holding", "judged"}, op : Operation,
            seen : 0 .. MaxLedger, judged : Nat, event : Draft]
Busy(c) == c.step \in {"holding", "judged"}

(* The log of a book: created once, about one text, and free of            *)
(* contradiction.                                                          *)
LedgerInOrder ==
  /\ ledger \in Seq(Event) /\ Len(ledger) <= MaxLedger
  /\ ledger # <<>> => ledger[1].kind = "create"
  /\ \A i \in DOMAIN ledger : /\ ledger[i].text = ledger[1].text
                              /\ ledger[i].names \subseteq DOMAIN ledger
  /\ OneLiveReview /\ RevokedOnce

(* One call holds the lock, and nothing was appended since it read.        *)
CallsInOrder ==
  /\ call \in [Person -> CallRow]
  /\ \A p, q \in Person : Busy(call[p]) /\ Busy(call[q]) => p = q
  /\ \A p \in Person : Busy(call[p]) => call[p].seen = Len(ledger)

(* A review cited by an export that was judged at a time.                  *)
Cited(i, o, time) ==
  /\ ledger[i].option = o /\ i \notin Revoked(ledger)
  /\ ledger[i].at <= time /\ time < ledger[i].expires
  /\ level[ledger[i].by] = "COUNSEL"

(* What is true of a judged event until it is appended.                    *)
JudgedInOrder(p, c) ==
  /\ c.event.by = p /\ c.event.kind = c.op /\ c.event.text = text
  /\ c.event.names \subseteq DOMAIN ledger
  /\ IF c.op = "create" THEN ledger = <<>> ELSE ledger # <<>> /\ ledger[1].text = text
  /\ c.op = "review" => \A i \in Active(ledger, now) : ledger[i].option # c.event.option
  /\ c.op = "revoke" => c.event.names \cap Revoked(ledger) = {}
  /\ c.op = "export" => \A o \in Option : \E i \in c.event.names : Cited(i, o, c.judged)

PlaybookInv ==
  /\ LedgerInOrder /\ CallsInOrder
  /\ \A p \in Person : call[p].step = "judged" => JudgedInOrder(p, call[p])
  /\ depends \in SUBSET (Option \X Option) /\ NoCircle
  /\ level \in [Person -> Level] /\ text \in 0 .. MaxText /\ now \in 0 .. MaxTime

-----------------------------------------------------------------------------
AuditInOrder ==
  /\ audit \in [next : 1 .. MaxAudit + 1, top : Nat, open : Nat]
  /\ audit.open <= audit.next - 1 /\ audit.top <= audit.next - 1
  /\ (decision = "held") = (audit.open # 0)
  /\ decision \in {"none", "held", "made"}

Results == [Case -> Verdict \cup {None}]
Run == [prompt : {Prompt[e] : e \in Engine}, status : Terminal \cup {"RUNNING"},
        step : {"cases", "finalize", "bind", "give up", "bind failure", "ended"},
        told : Results, stored : Results, manifest : Results,
        loose : {<<>>} \cup (Case \X Verdict)]

(* A verdict is given once, on the rows as they are, and a run passes only *)
(* if every case did.                                                      *)
RunInOrder(run) ==
  /\ run.status \in Terminal => run.step # "cases" /\ run.manifest = run.stored
  /\ run.status = "PASSED" => \A c \in Case : run.told[c] = "pass"

ValidationsInOrder ==
  /\ validation \in Seq(Run)
  /\ \A i \in DOMAIN validation : RunInOrder(validation[i])

MatterInOrder ==
  /\ engine \in Engine /\ authorised \in BOOLEAN
  /\ standard \in [made : 0 .. MaxStandards, active : 0 .. MaxStandards]
  /\ standard.active <= standard.made
  /\ analysis \in [n : 0 .. MaxAnalyses, status : {"NONE", "RUNNING", "SUCCEEDED", "FAILED"},
                   engine : Engine \cup {None}, standard : 0 .. MaxStandards,
                   attested : BOOLEAN]
  /\ analysis.attested => analysis.status = "SUCCEEDED"
  /\ graph \in [(1 .. MaxAnalyses) \X Engine -> {"none", "open", "attested"}]
  /\ version \in InForce \cup {"DRAFT", "SUPERSEDED"}

Evidences == [engine : Engine, validation : Nat, standard : Nat]
Job == [step : {"queued", "checked", "succeeded", "failed"}, engine : Engine \cup {None},
        audit : Nat, evidence : Evidences, analysis : Nat]

(* The engine of the policies has passed a complete validation.            *)
SeededPassed ==
  \E i \in DOMAIN validation :
    /\ validation[i].prompt = Prompt[Seeded] /\ validation[i].status = "PASSED"
    /\ \A c \in Case : validation[i].told[c] = "pass"

(* A new analysis leaves no trace in the log when it starts, but one when  *)
(* it ends well.                                                           *)
JobInOrder(job) ==
  /\ job.step = "checked" => job.engine = Seeded /\ SeededPassed
  /\ job.audit <= audit.top
  /\ job.audit = audit.top /\ job.analysis # analysis.n
       => analysis.status \in {"RUNNING", "FAILED"}

Succeeded == {j \in DOMAIN jobs : jobs[j].step = "succeeded"}
JobsInOrder ==
  /\ jobs \in Seq(Job) /\ asking \in Evidences \cup {None}
  /\ \A j \in DOMAIN jobs : JobInOrder(jobs[j])
  /\ snapshots \in Seq([job : Nat, engine : Engine \cup {None}, analysis : Nat, standard : Nat])
  /\ Len(snapshots) = Cardinality(Succeeded)

RelianceInv == AuditInOrder /\ ValidationsInOrder /\ MatterInOrder /\ JobsInOrder
Inv == PlaybookInv /\ RelianceInv

-----------------------------------------------------------------------------
(* Walks along dependencies, in which the values of the recursive functions *)
(* of the model have a closed form.                                        *)

Walks(edges, k, o) ==
  {w \in [0 .. k -> Option] : /\ w[0] = o
                              /\ \A n \in 1 .. k : <<w[n - 1], w[n]>> \in edges}

(* A step before a walk makes a walk, ...                                  *)
LEMMA WalkAfterStep ==
  ASSUME NEW edges, NEW k \in Nat, NEW o \in Option, NEW d \in Option,
         <<o, d>> \in edges, NEW w \in Walks(edges, k, d)
  PROVE  \E v \in Walks(edges, k + 1, o) :
           v[0] = o /\ \A n \in 0 .. k : v[n + 1] = w[n]
<1> DEFINE v == [n \in 0 .. k + 1 |-> IF n = 0 THEN o ELSE w[n - 1]]
<1>1. w \in [0 .. k -> Option] /\ w[0] = d
      /\ \A n \in 1 .. k : <<w[n - 1], w[n]>> \in edges
  BY DEF Walks
<1>2. v \in [0 .. k + 1 -> Option] /\ v[0] = o
  BY <1>1
<1>3. \A n \in 0 .. k : v[n + 1] = w[n]
  OBVIOUS
<1>4. ASSUME NEW n \in 1 .. k + 1 PROVE <<v[n - 1], v[n]>> \in edges
  <2>1. CASE n = 1
    <3>1. v[n - 1] = o /\ v[n] = d
      BY <1>1, <2>1
    <3> QED
      BY <3>1
  <2>2. CASE n # 1
    <3>1. n - 1 \in 1 .. k
      BY <2>2
    <3>2. v[n - 1] = w[n - 2] /\ v[n] = w[n - 1]
      BY <2>2
    <3>3. <<w[n - 1 - 1], w[n - 1]>> \in edges
      BY <1>1, <3>1
    <3>4. n - 1 - 1 = n - 2
      OBVIOUS
    <3> QED
      BY <3>2, <3>3, <3>4
  <2> QED
    BY <2>1, <2>2
<1> HIDE DEF v
<1>5. v \in Walks(edges, k + 1, o)
  BY <1>2, <1>4 DEF Walks
<1> QED
  BY <1>2, <1>3, <1>5

(* ... and what is left after the first step of a walk is one.             *)
LEMMA StepBeforeWalk ==
  ASSUME NEW edges, NEW k \in Nat, NEW o \in Option, NEW w \in Walks(edges, k + 1, o)
  PROVE  /\ w[1] \in Option /\ <<o, w[1]>> \in edges
         /\ \E v \in Walks(edges, k, w[1]) : \A n \in 0 .. k : v[n] = w[n + 1]
<1> DEFINE v == [n \in 0 .. k |-> w[n + 1]]
<1>1. w \in [0 .. k + 1 -> Option] /\ w[0] = o
      /\ \A n \in 1 .. k + 1 : <<w[n - 1], w[n]>> \in edges
  BY DEF Walks
<1>2. v \in [0 .. k -> Option] /\ v[0] = w[1]
  BY <1>1
<1>3. \A n \in 0 .. k : v[n] = w[n + 1]
  OBVIOUS
<1>4. ASSUME NEW n \in 1 .. k PROVE <<v[n - 1], v[n]>> \in edges
  <2>1. v[n - 1] = w[n] /\ v[n] = w[n + 1]
    OBVIOUS
  <2>2. <<w[n + 1 - 1], w[n + 1]>> \in edges
    <3>1. n + 1 \in 1 .. k + 1
      OBVIOUS
    <3> QED
      BY <1>1, <3>1
  <2>3. n + 1 - 1 = n
    OBVIOUS
  <2> QED
    BY <2>1, <2>2, <2>3
<1> HIDE DEF v
<1>5. v \in Walks(edges, k, w[1])
  BY <1>2, <1>4 DEF Walks
<1>6. w[1] \in Option
  BY <1>1
<1>7. <<w[0], w[1]>> \in edges
  <2>1. 1 \in 1 .. k + 1 /\ 1 - 1 = 0
    OBVIOUS
  <2> QED
    BY <1>1, <2>1
<1> QED
  BY <1>1, <1>3, <1>5, <1>6, <1>7

(* A book whose options are all ready has no option that is not ready by   *)
(* itself: propagation only ever takes options away.                       *)
LEMMA ReadyMeans ==
  ASSUME NEW events, NEW time, ReadyOptions(events, time) = Option
  PROVE  \A o \in Option : ReadyAlone(events, o, time)
<1> DEFINE N == Cardinality(Option)
           Base == {o \in Option : ReadyAlone(events, o, time)}
           Round(f) == [n \in 0 .. N |->
             IF n = 0 THEN {o \in Option : ReadyAlone(events, o, time)}
             ELSE {o \in f[n - 1] : \A d \in Option : <<o, d>> \in depends => d \in f[n - 1]}]
           Closed == [n \in 0 .. N |->
             {o \in Option : \A k \in 0 .. n : \A w \in Walks(depends, k, o) : w[k] \in Base}]
           ready == CHOOSE f : f = Round(f)
<1>1. N \in Nat
  BY FS_CardinalityType, PlaybookAssumption
<1>2. ReadyOptions(events, time) = ready[N]
  BY DEF ReadyOptions
<1> HIDE DEF N
<1>3. Closed[0] = Base
  <2>1. \A o \in Option : \A k \in 0 .. 0 : \A w \in Walks(depends, k, o) : w[k] = o
    BY DEF Walks
  <2>2. ASSUME NEW o \in Option PROVE \E w \in Walks(depends, 0, o) : w[0] = o
    <3> DEFINE w == [n \in 0 .. 0 |-> o]
    <3>1. w \in Walks(depends, 0, o) /\ w[0] = o
      BY DEF Walks
    <3> QED
      BY <3>1
  <2> HIDE DEF Base
  <2>3. Closed[0] = {o \in Option : o \in Base}
    BY <1>1, <2>1, <2>2
  <2> QED
    BY <2>3 DEF Base
<1>4. ASSUME NEW n \in 1 .. N
      PROVE  Closed[n] = {o \in Closed[n - 1] :
                            \A d \in Option : <<o, d>> \in depends => d \in Closed[n - 1]}
  <2> HIDE DEF Base
  <2> DEFINE Good(m, o) == \A k \in 0 .. m : \A w \in Walks(depends, k, o) : w[k] \in Base
  <2>1. n \in 0 .. N /\ n - 1 \in 0 .. N /\ n - 1 \in Nat
    BY <1>1
  <2>2. /\ Closed[n] = {o \in Option : Good(n, o)}
        /\ Closed[n - 1] = {o \in Option : Good(n - 1, o)}
    BY <2>1
  <2>3. ASSUME NEW o \in Option, Good(n, o)
        PROVE  /\ Good(n - 1, o)
               /\ \A d \in Option : <<o, d>> \in depends => Good(n - 1, d)
    <3>1. Good(n - 1, o)
      BY <2>1, <2>3
    <3>2. ASSUME NEW d \in Option, <<o, d>> \in depends,
                 NEW k \in 0 .. n - 1, NEW w \in Walks(depends, k, d)
          PROVE  w[k] \in Base
      <4>1. k \in Nat /\ k + 1 \in 0 .. n /\ k \in 0 .. k
        BY <2>1
      <4>2. PICK v \in Walks(depends, k + 1, o) :
                   v[0] = o /\ \A m \in 0 .. k : v[m + 1] = w[m]
        BY <3>2, <4>1, WalkAfterStep
      <4>3. v[k + 1] \in Base
        BY <2>3, <4>1, <4>2
      <4> QED
        BY <4>1, <4>2, <4>3
    <3> QED
      BY <3>1, <3>2
  <2>4. ASSUME NEW o \in Option, Good(n - 1, o),
               \A d \in Option : <<o, d>> \in depends => Good(n - 1, d)
        PROVE  Good(n, o)
    <3> SUFFICES ASSUME NEW k \in 0 .. n, NEW w \in Walks(depends, k, o)
                 PROVE  w[k] \in Base
      OBVIOUS
    <3>1. CASE k = 0
      BY <2>1, <2>4, <3>1
    <3>2. CASE k # 0
      <4>1. PICK h \in 0 .. n - 1 : k = h + 1
        <5>1. k - 1 \in 0 .. n - 1 /\ k = k - 1 + 1
          BY <2>1, <3>2
        <5> QED
          BY <5>1
      <4>2. h \in Nat /\ h \in 0 .. h /\ w \in Walks(depends, h + 1, o)
        BY <2>1, <4>1
      <4>3. /\ w[1] \in Option /\ <<o, w[1]>> \in depends
            /\ \E v \in Walks(depends, h, w[1]) : \A m \in 0 .. h : v[m] = w[m + 1]
        BY <4>2, StepBeforeWalk
      <4>4. PICK v \in Walks(depends, h, w[1]) : v[h] = w[h + 1]
        BY <4>2, <4>3
      <4>5. v[h] \in Base
        BY <2>4, <4>1, <4>3, <4>4
      <4> QED
        BY <4>1, <4>4, <4>5
    <3> QED
      BY <3>1, <3>2
  <2> HIDE DEF Closed, Good
  <2> QED
    BY <2>2, <2>3, <2>4
<1>5. Closed = Round(Closed)
  <2> DEFINE Value(n) == IF n = 0 THEN Base
               ELSE {o \in Closed[n - 1] :
                       \A d \in Option : <<o, d>> \in depends => d \in Closed[n - 1]}
  <2>1. Round(Closed) = [n \in 0 .. N |-> Value(n)]
    OBVIOUS
  <2>2. \E f : Closed = [n \in 0 .. N |-> f[n]]
    <3> WITNESS Closed
    <3> QED
      OBVIOUS
  <2> HIDE DEF Closed, Base
  <2>3. ASSUME NEW n \in 0 .. N PROVE Closed[n] = Value(n)
    <3>1. CASE n = 0
      BY <1>3, <3>1
    <3>2. CASE n # 0
      <4>1. n \in 1 .. N
        BY <1>1, <3>2
      <4> QED
        BY <1>4, <3>2, <4>1
    <3> QED
      BY <3>1, <3>2
  <2> HIDE DEF Value, Round
  <2> QED
    BY <2>1, <2>2, <2>3
<1>6. ready = Round(ready)
  <2> HIDE DEF Round, Closed
  <2> QED
    BY <1>5
<1> HIDE DEF ready, Closed
<1>7. /\ ready[0] = {o \in Option : ReadyAlone(events, o, time)}
      /\ \A n \in 1 .. N : ready[n] \subseteq ready[n - 1]
  <2>1. \A n \in 0 .. N : ready[n] = Round(ready)[n]
    BY <1>6
  <2>2. Round(ready)[0] = {o \in Option : ReadyAlone(events, o, time)}
    BY <1>1
  <2>3. \A n \in 1 .. N : Round(ready)[n] \subseteq ready[n - 1]
    BY <1>1
  <2> HIDE DEF Round
  <2> QED
    BY <1>1, <2>1, <2>2, <2>3
<1>8. Option \subseteq ready[0]
  <2> DEFINE Missing == {k \in 0 .. N : ~(Option \subseteq ready[N - k])}
  <2>1. CASE Missing = {}
    <3>1. N \in 0 .. N /\ N - N = 0
      BY <1>1
    <3> QED
      BY <2>1, <3>1
  <2>2. CASE Missing # {}
    <3>1. PICK k \in Missing : \A m \in Missing : ~(<<m, k>> \in OpToRel(<, Nat))
      <4>1. Missing \subseteq Nat
        BY <1>1
      <4> HIDE DEF Missing
      <4> QED
        BY <2>2, <4>1, NatLessThanWellFounded, WFMin
    <3>2. k \in 0 .. N /\ ~(Option \subseteq ready[N - k])
      OBVIOUS
    <3>3. k # 0
      BY <1>1, <1>2, <3>2
    <3>4. k - 1 \in 0 .. N /\ k - 1 \in Nat /\ k \in Nat /\ k - 1 < k
      BY <1>1, <3>2, <3>3
    <3>5. k - 1 \notin Missing
      <4> HIDE DEF Missing
      <4>1. <<k - 1, k>> \in OpToRel(<, Nat)
        BY <3>4 DEF OpToRel
      <4> QED
        BY <3>1, <4>1
    <3>6. Option \subseteq ready[N - (k - 1)]
      BY <3>4, <3>5
    <3>7. N - (k - 1) \in 1 .. N /\ N - (k - 1) - 1 = N - k
      BY <1>1, <3>2, <3>3
    <3> QED
      BY <1>7, <3>2, <3>6, <3>7
  <2> QED
    BY <2>1, <2>2
<1> QED
  BY <1>7, <1>8

(* Dependencies that the walk of the registry accepts have no circle.      *)
LEMMA AcyclicMeans ==
  ASSUME NEW edges, Acyclic(edges)
  PROVE  \A options \in (SUBSET Option) \ {{}} :
           \E o \in options : \A d \in options : <<o, d>> \notin edges
<1> DEFINE Place == (SUBSET Option) \X Option
           Visit(f) == [at \in Place |->
             /\ at[2] \notin at[1]
             /\ \A d \in Option : <<at[2], d>> \in edges => f[<<at[1] \cup {at[2]}, d>>]]
           Simple(path, o) ==
             \A k \in Nat : \A w \in Walks(edges, k, o) :
               /\ \A n \in 0 .. k : w[n] \notin path
               /\ \A n, m \in 0 .. k : n # m => w[n] # w[m]
           Closed == [at \in Place |-> Simple(at[1], at[2])]
           visit == CHOOSE f : f = Visit(f)
<1>1. \A o \in Option : visit[<<{}, o>>]
  BY DEF Acyclic
<1>2. ASSUME NEW path \in SUBSET Option, NEW o \in Option, Simple(path, o)
      PROVE  /\ o \notin path
             /\ \A d \in Option : <<o, d>> \in edges => Simple(path \cup {o}, d)
  <2>1. o \notin path
    <3> DEFINE w == [n \in 0 .. 0 |-> o]
    <3>1. w \in Walks(edges, 0, o) /\ w[0] = o /\ 0 \in 0 .. 0
      BY DEF Walks
    <3> HIDE DEF w
    <3> QED
      BY <1>2, <3>1
  <2>2. ASSUME NEW d \in Option, <<o, d>> \in edges, NEW k \in Nat,
               NEW w \in Walks(edges, k, d)
        PROVE  /\ \A n \in 0 .. k : w[n] \notin path \cup {o}
               /\ \A n, m \in 0 .. k : n # m => w[n] # w[m]
    <3>1. PICK v \in Walks(edges, k + 1, o) : v[0] = o /\ \A m \in 0 .. k : v[m + 1] = w[m]
      BY <2>2, WalkAfterStep
    <3>2. /\ \A n \in 0 .. k + 1 : v[n] \notin path
          /\ \A n, m \in 0 .. k + 1 : n # m => v[n] # v[m]
      <4>1. k + 1 \in Nat
        OBVIOUS
      <4> QED
        BY <1>2, <3>1, <4>1
    <3>3. ASSUME NEW n \in 0 .. k
          PROVE  n + 1 \in 0 .. k + 1 /\ n + 1 # 0 /\ 0 \in 0 .. k + 1 /\ w[n] = v[n + 1]
      BY <3>1
    <3>4. ASSUME NEW n \in 0 .. k, NEW m \in 0 .. k, n # m PROVE n + 1 # m + 1
      BY <3>4
    <3>5. ASSUME NEW n \in 0 .. k PROVE w[n] \notin path \cup {o}
      BY <3>1, <3>2, <3>3
    <3>6. ASSUME NEW n \in 0 .. k, NEW m \in 0 .. k, n # m PROVE w[n] # w[m]
      BY <3>2, <3>3, <3>4, <3>6
    <3> QED
      BY <3>5, <3>6
  <2> QED
    BY <2>1, <2>2
<1>3. ASSUME NEW path \in SUBSET Option, NEW o \in Option, o \notin path,
             \A d \in Option : <<o, d>> \in edges => Simple(path \cup {o}, d)
      PROVE  Simple(path, o)
  <2> SUFFICES ASSUME NEW k \in Nat, NEW w \in Walks(edges, k, o)
               PROVE  /\ \A n \in 0 .. k : w[n] \notin path
                      /\ \A n, m \in 0 .. k : n # m => w[n] # w[m]
    OBVIOUS
  <2>1. w[0] = o
    BY DEF Walks
  <2>2. CASE k = 0
    BY <1>3, <2>1, <2>2
  <2>3. CASE k # 0
    <3>1. PICK h \in Nat : k = h + 1
      <4>1. k - 1 \in Nat /\ k = k - 1 + 1
        BY <2>3
      <4> QED
        BY <4>1
    <3>2. w \in Walks(edges, h + 1, o)
      BY <3>1
    <3>3. /\ w[1] \in Option /\ <<o, w[1]>> \in edges
          /\ \E v \in Walks(edges, h, w[1]) : \A m \in 0 .. h : v[m] = w[m + 1]
      BY <3>2, StepBeforeWalk
    <3>4. PICK v \in Walks(edges, h, w[1]) : \A m \in 0 .. h : v[m] = w[m + 1]
      BY <3>3
    <3>5. /\ \A n \in 0 .. h : v[n] \notin path \cup {o}
          /\ \A n, m \in 0 .. h : n # m => v[n] # v[m]
      BY <1>3, <3>3, <3>4
    <3>6. ASSUME NEW n \in 0 .. k, n # 0
          PROVE  n - 1 \in 0 .. h /\ w[n] = v[n - 1]
      <4>1. n - 1 \in 0 .. h /\ n - 1 + 1 = n
        BY <3>1, <3>6
      <4> QED
        BY <3>4, <4>1
    <3>7. ASSUME NEW n \in 0 .. k PROVE w[n] \notin path
      BY <1>3, <2>1, <3>5, <3>6
    <3>8. ASSUME NEW n \in 0 .. k, NEW m \in 0 .. k, n # m PROVE w[n] # w[m]
      <4>1. CASE n # 0 /\ m # 0
        <5>1. n - 1 # m - 1
          BY <3>8
        <5> QED
          BY <3>5, <3>6, <4>1, <5>1
      <4>2. CASE n = 0 \/ m = 0
        BY <2>1, <3>5, <3>6, <3>8, <4>2
      <4> QED
        BY <4>1, <4>2
    <3> QED
      BY <3>7, <3>8
  <2> QED
    BY <2>2, <2>3
<1> HIDE DEF Simple
<1>4. Closed = Visit(Closed)
  <2>1. ASSUME NEW at \in Place PROVE Closed[at] = Visit(Closed)[at]
    <3>1. at[1] \in SUBSET Option /\ at[2] \in Option /\ at[1] \cup {at[2]} \in SUBSET Option
      OBVIOUS
    <3>2. \A d \in Option : Closed[<<at[1] \cup {at[2]}, d>>] = Simple(at[1] \cup {at[2]}, d)
      BY <3>1
    <3>3. Visit(Closed)[at] = (/\ at[2] \notin at[1]
                               /\ \A d \in Option : <<at[2], d>> \in edges
                                    => Simple(at[1] \cup {at[2]}, d))
      BY <3>2
    <3>4. Closed[at] = Simple(at[1], at[2])
      OBVIOUS
    <3>5. /\ Simple(at[1], at[2]) \in BOOLEAN
          /\ Simple(at[1], at[2]) <=>
               /\ at[2] \notin at[1]
               /\ \A d \in Option : <<at[2], d>> \in edges => Simple(at[1] \cup {at[2]}, d)
      <4>1. Simple(at[1], at[2]) \in BOOLEAN
        BY DEF Simple
      <4> QED
        BY <1>2, <1>3, <3>1, <4>1
    <3> HIDE DEF Visit, Closed
    <3> QED
      BY <3>3, <3>4, <3>5
  <2>2. \E f : Closed = [at \in Place |-> f[at]]
    <3> WITNESS Closed
    <3> QED
      OBVIOUS
  <2>3. \E f : Visit(Closed) = [at \in Place |-> f[at]]
    <3> WITNESS Visit(Closed)
    <3> QED
      OBVIOUS
  <2> HIDE DEF Closed, Visit
  <2> QED
    BY <2>1, <2>2, <2>3
<1>5. visit = Visit(visit)
  <2> HIDE DEF Visit, Closed
  <2> QED
    BY <1>4
<1> HIDE DEF visit, Closed
<1>6. ASSUME NEW path \in SUBSET Option, NEW o \in Option, visit[<<path, o>>]
      PROVE  /\ o \notin path
             /\ \A d \in Option : <<o, d>> \in edges => visit[<<path \cup {o}, d>>]
  <2>1. <<path, o>> \in Place
    OBVIOUS
  <2>2. visit[<<path, o>>] = Visit(visit)[<<path, o>>]
    BY <1>5
  <2>3. Visit(visit)[<<path, o>>]
          = (/\ o \notin path
             /\ \A d \in Option : <<o, d>> \in edges => visit[<<path \cup {o}, d>>])
    BY <2>1
  <2> HIDE DEF Visit, Place
  <2> QED
    BY <1>6, <2>2, <2>3
<1> HIDE DEF Visit, Place
<1> SUFFICES ASSUME NEW options \in (SUBSET Option) \ {{}},
                    \A o \in options : \E d \in options : <<o, d>> \in edges
             PROVE  FALSE
  OBVIOUS
<1> DEFINE Rest == {rest \in SUBSET Option : \E o \in options : visit[<<Option \ rest, o>>]}
<1>7. Rest # {}
  <2>1. PICK o \in options : TRUE
    OBVIOUS
  <2>2. o \in Option /\ Option \ Option = {}
    OBVIOUS
  <2>3. visit[<<Option \ Option, o>>]
    BY <1>1, <2>2
  <2> QED
    BY <2>1, <2>3
<1>8. PICK rest \in Rest : \A less \in Rest : ~(<<less, rest>> \in StrictSubsetOrdering(Option))
  <2>1. IsWellFoundedOn(StrictSubsetOrdering(Option), SUBSET Option)
    <3>1. FiniteSubsetsOf(Option) = SUBSET Option
      BY FS_FiniteSubsetsOfFinite, PlaybookAssumption
    <3>2. IsWellFoundedOn(StrictSubsetOrdering(Option), FiniteSubsetsOf(Option))
      BY FS_StrictSubsetOrderingWellFounded
    <3> QED
      BY <3>1, <3>2
  <2>2. Rest \subseteq SUBSET Option
    OBVIOUS
  <2> HIDE DEF Rest
  <2> QED
    BY <1>7, <2>1, <2>2, WFMin
<1>9. PICK o \in options : visit[<<Option \ rest, o>>]
  OBVIOUS
<1>10. PICK d \in options : <<o, d>> \in edges
  OBVIOUS
<1>11. /\ o \in Option /\ d \in Option /\ rest \in SUBSET Option
       /\ Option \ rest \in SUBSET Option
       /\ (Option \ rest) \cup {o} = Option \ (rest \ {o})
  OBVIOUS
<1>12. o \in rest /\ visit[<<(Option \ rest) \cup {o}, d>>]
  BY <1>6, <1>9, <1>10, <1>11
<1>13. rest \ {o} \in Rest
  BY <1>11, <1>12
<1>14. <<rest \ {o}, rest>> \in StrictSubsetOrdering(Option)
  BY <1>11, <1>12 DEF StrictSubsetOrdering
<1> QED
  BY <1>8, <1>13, <1>14

-----------------------------------------------------------------------------
(* The playbook: what the log says.                                        *)

LEMMA NoEventFacts ==
  /\ NoEvent \in Draft /\ NoEvent.names = {} /\ NoEvent.option = Nobody
  /\ NoCall.step = "idle" /\ NoCall.op = "create"
BY DEF NoEvent, Draft, Operation, NoCall

LEMMA NoCallType == NoCall \in CallRow
<1>1. MaxLedger \in Nat
  BY PlaybookAssumption
<1> QED
  BY <1>1, NoEventFacts DEF NoCall, CallRow, Operation

LEMMA AfterAppend ==
  ASSUME NEW l \in Seq(Event), NEW e \in Event
  PROVE  /\ Append(l, e) \in Seq(Event) /\ Len(l) \in Nat
         /\ Len(Append(l, e)) = Len(l) + 1
         /\ DOMAIN l = 1 .. Len(l) /\ DOMAIN Append(l, e) = 1 .. Len(l) + 1
         /\ \A i \in DOMAIN l : Append(l, e)[i] = l[i] /\ i # Len(l) + 1
         /\ Append(l, e)[Len(l) + 1] = e
OBVIOUS

LEMMA RevokedMeans ==
  ASSUME NEW l, NEW i
  PROVE  i \in Revoked(l) <=> \E j \in DOMAIN l : l[j].kind = "revoke" /\ i \in l[j].names
BY DEF Revoked

(* What is revoked after an event is appended.                             *)
LEMMA RevokedAfter ==
  ASSUME NEW l \in Seq(Event), NEW e \in Event, NEW i
  PROVE  i \in Revoked(Append(l, e)) <=>
           i \in Revoked(l) \/ (e.kind = "revoke" /\ i \in e.names)
<1>1. /\ DOMAIN Append(l, e) = DOMAIN l \cup {Len(l) + 1}
      /\ \A j \in DOMAIN l : Append(l, e)[j] = l[j]
      /\ Append(l, e)[Len(l) + 1] = e
  BY AfterAppend
<1> DEFINE m == Append(l, e)
<1>2. i \in Revoked(m) <=> \E j \in DOMAIN m : m[j].kind = "revoke" /\ i \in m[j].names
  BY RevokedMeans
<1>3. i \in Revoked(l) <=> \E j \in DOMAIN l : l[j].kind = "revoke" /\ i \in l[j].names
  BY RevokedMeans
<1> HIDE DEF m
<1>4. /\ DOMAIN m = DOMAIN l \cup {Len(l) + 1} /\ \A j \in DOMAIN l : m[j] = l[j]
      /\ m[Len(l) + 1] = e
  BY <1>1 DEF m
<1> QED
  BY <1>2, <1>3, <1>4 DEF m

(* Time and revocations end reviews; only the appended event is new.       *)
LEMMA ActiveAfter ==
  ASSUME NEW l \in Seq(Event), NEW e \in Event, NEW time \in Nat,
         NEW i \in Active(Append(l, e), time)
  PROVE  i \in Active(l, time) \/ (i = Len(l) + 1 /\ e.kind = "review" /\ e.expires > time)
<1>1. /\ DOMAIN Append(l, e) = DOMAIN l \cup {Len(l) + 1}
      /\ \A j \in DOMAIN l : Append(l, e)[j] = l[j]
      /\ Append(l, e)[Len(l) + 1] = e
  BY AfterAppend
<1>2. /\ i \in DOMAIN Append(l, e) /\ Append(l, e)[i].kind = "review"
      /\ i \notin Revoked(Append(l, e)) /\ Append(l, e)[i].expires > time
  BY DEF Active
<1>3. i \notin Revoked(l)
  BY <1>2, RevokedAfter
<1> QED
  BY <1>1, <1>2, <1>3 DEF Active

LEMMA ActiveEnds ==
  ASSUME NEW l \in Seq(Event), NEW time \in Nat, NEW i \in Active(l, time + 1)
  PROVE  i \in Active(l, time)
<1>1. i \in DOMAIN l /\ l[i] \in Event /\ l[i].expires > time + 1
  BY DEF Active
<1>2. l[i].expires \in Nat
  BY <1>1 DEF Event
<1>3. l[i].expires > time
  BY <1>1, <1>2
<1> QED
  BY <1>3 DEF Active

-----------------------------------------------------------------------------
(* The playbook: calls.                                                    *)

(* One call moves and nothing else does.                                   *)
LEMMA OneCallMoves ==
  ASSUME PlaybookInv, NEW p \in Person, NEW row \in CallRow,
         call' = [call EXCEPT ![p] = row], UNCHANGED <<ledger, depends, level, text, now>>,
         Busy(row) => /\ row.seen = Len(ledger)
                      /\ \A q \in Person \ {p} : ~Busy(call[q]),
         row.step = "judged" => JudgedInOrder(p, row)
  PROVE  PlaybookInv'
<1>1. call \in [Person -> CallRow]
  BY DEF PlaybookInv, CallsInOrder
<1>2. /\ call' \in [Person -> CallRow]
      /\ \A q \in Person : call'[q] = IF q = p THEN row ELSE call[q]
  BY <1>1
<1>3. CallsInOrder'
  BY <1>2 DEF PlaybookInv, CallsInOrder, Busy
<1>4. ASSUME NEW q \in Person, call'[q].step = "judged" PROVE JudgedInOrder(q, call[q])'
  <2>1. JudgedInOrder(q, call'[q])
    BY <1>2, <1>4 DEF PlaybookInv
  <2> QED
    BY <2>1 DEF JudgedInOrder, Cited, Active, Revoked
<1>5. LedgerInOrder'
  BY DEF PlaybookInv, LedgerInOrder, OneLiveReview, RevokedOnce, Active, Revoked
<1> QED
  BY <1>3, <1>4, <1>5 DEF PlaybookInv, NoCircle

LEMMA AdmitKeeps ==
  ASSUME PlaybookInv, NEW p \in Person, NEW op \in Operation, Admit(p, op)
  PROVE  PlaybookInv'
<1> DEFINE row == [NoCall EXCEPT !.step = "admitted", !.op = op]
<1>1. row \in CallRow /\ row.step = "admitted"
  BY NoCallType DEF CallRow
<1> QED
  BY <1>1, OneCallMoves DEF Admit, Busy

LEMMA HoldKeeps ==
  ASSUME PlaybookInv, NEW p \in Person, Hold(p)
  PROVE  PlaybookInv'
<1> DEFINE row == [call[p] EXCEPT !.step = "holding", !.seen = Len(ledger)]
<1>1. call[p] \in CallRow /\ Len(ledger) \in 0 .. MaxLedger
  BY PlaybookAssumption DEF PlaybookInv, CallsInOrder, LedgerInOrder
<1>2. row \in CallRow /\ row.step = "holding" /\ row.seen = Len(ledger)
  BY <1>1 DEF CallRow
<1>3. call' = [call EXCEPT ![p] = row]
  BY DEF Hold
<1>4. \A q \in Person : ~Busy(call[q])
  BY DEF Hold, Busy
<1> HIDE DEF row
<1> QED
  BY <1>2, <1>3, <1>4, OneCallMoves DEF Hold

LEMMA GiveUpKeeps ==
  ASSUME PlaybookInv, NEW p \in Person, GiveUp(p)
  PROVE  PlaybookInv'
BY NoCallType, NoEventFacts, OneCallMoves DEF GiveUp, Busy

(* Whoever holds the lock has seen the whole log.                          *)
LEMMA SeenAll ==
  ASSUME PlaybookInv, NEW p \in Person, Busy(call[p])
  PROVE  Seen(p) = ledger
<1>1. ledger \in Seq(Event) /\ call[p].seen = Len(ledger)
  BY DEF PlaybookInv, CallsInOrder, LedgerInOrder
<1> HIDE DEF Event
<1> QED
  BY <1>1 DEF Seen

(* A call that judges an event for which it has reasons.                   *)
LEMMA JudgeKeeps ==
  ASSUME PlaybookInv, NEW p \in Person, NEW e \in Draft, Judge(p, e),
         e.names \subseteq DOMAIN ledger,
         IF call[p].op = "create" THEN ledger = <<>> ELSE ledger # <<>> /\ ledger[1].text = text,
         call[p].op = "review" => \A i \in Active(ledger, now) : ledger[i].option # e.option,
         call[p].op = "revoke" => e.names \cap Revoked(ledger) = {},
         call[p].op = "export" => \A o \in Option : \E i \in e.names : Cited(i, o, now)
  PROVE  PlaybookInv'
<1> DEFINE event == [e EXCEPT !.by = p, !.kind = call[p].op, !.text = text]
           row == [call[p] EXCEPT !.step = "judged", !.judged = now, !.event = event]
<1>1. call[p] \in CallRow /\ call[p].op \in Operation
      /\ call[p].seen = Len(ledger)
  BY DEF PlaybookInv, CallsInOrder, CallRow, Judge, Busy
<1>2. text \in Nat /\ now \in Nat
  BY PlaybookAssumption DEF PlaybookInv
<1>3. /\ event \in Draft /\ event.by = p /\ event.kind = call[p].op /\ event.text = text
      /\ event.names = e.names /\ event.option = e.option
  BY <1>1, <1>2 DEF Draft
<1> HIDE DEF event
<1>4. /\ row \in CallRow /\ row.step = "judged" /\ row.op = call[p].op
      /\ row.seen = Len(ledger) /\ row.judged = now /\ row.event = event
  BY <1>1, <1>2, <1>3 DEF CallRow
<1>5. call' = [call EXCEPT ![p] = row]
  BY DEF Judge, event
<1> HIDE DEF row
<1>6. \A q \in Person \ {p} : ~Busy(call[q])
  BY DEF PlaybookInv, CallsInOrder, Judge, Busy
<1>7. JudgedInOrder(p, row)
  BY <1>3, <1>4 DEF JudgedInOrder
<1> QED
  BY <1>4, <1>5, <1>6, <1>7, OneCallMoves DEF Judge

LEMMA JudgeCreateKeeps ==
  ASSUME PlaybookInv, NEW p \in Person, JudgeCreate(p)
  PROVE  PlaybookInv'
<1>1. call[p].op = "create" /\ Judge(p, NoEvent) /\ Seen(p) = ledger
  BY SeenAll DEF JudgeCreate, Judge, Busy
<1>2. ledger = <<>>
  BY <1>1 DEF JudgeCreate, Created, PlaybookInv, LedgerInOrder
<1> QED
  BY <1>1, <1>2, NoEventFacts, JudgeKeeps

LEMMA JudgeReviewKeeps ==
  ASSUME PlaybookInv, NEW p \in Person, JudgeReview(p)
  PROVE  PlaybookInv'
<1>1. PICK o \in Settled : \E until \in now + 1 .. Until[o] :
        /\ ~\E i \in Active(Seen(p), now) : Seen(p)[i].option = o
        /\ Judge(p, [NoEvent EXCEPT !.option = o, !.expires = until])
  BY DEF JudgeReview
<1>2. PICK until \in now + 1 .. Until[o] :
        /\ ~\E i \in Active(Seen(p), now) : Seen(p)[i].option = o
        /\ Judge(p, [NoEvent EXCEPT !.option = o, !.expires = until])
  BY <1>1
<1> DEFINE e == [NoEvent EXCEPT !.option = o, !.expires = until]
<1>3. o \in Option /\ until \in Nat
  BY PlaybookAssumption DEF PlaybookInv
<1>4. e \in Draft /\ e.option = o /\ e.names = {}
  BY <1>3, NoEventFacts DEF Draft
<1>5. Seen(p) = ledger /\ call[p].op = "review" /\ ledger # <<>> /\ ledger[1].text = text
  <2>1. Seen(p) = ledger
    BY <1>2, SeenAll DEF Judge, Busy
  <2> QED
    BY <2>1 DEF JudgeReview, SameText, Created
<1>6. Judge(p, e)
  BY <1>2
<1> HIDE DEF e
<1> QED
  BY <1>2, <1>4, <1>5, <1>6, JudgeKeeps

LEMMA JudgeRevokeKeeps ==
  ASSUME PlaybookInv, NEW p \in Person, JudgeRevoke(p)
  PROVE  PlaybookInv'
<1>1. PICK i \in Active(Seen(p), now) : Judge(p, [NoEvent EXCEPT !.names = {i}])
  BY DEF JudgeRevoke
<1> DEFINE e == [NoEvent EXCEPT !.names = {i}]
<1>2. Seen(p) = ledger /\ call[p].op = "revoke" /\ ledger # <<>> /\ ledger[1].text = text
  <2>1. Seen(p) = ledger
    BY <1>1, SeenAll DEF Judge, Busy
  <2> QED
    BY <2>1 DEF JudgeRevoke, SameText, Created
<1>3. i \in DOMAIN ledger /\ i \notin Revoked(ledger)
  BY <1>2 DEF Active
<1>4. i \in Nat
  BY <1>3 DEF PlaybookInv, LedgerInOrder
<1>5. e \in Draft /\ e.names = {i}
  BY <1>4, NoEventFacts DEF Draft
<1>6. Judge(p, e)
  BY <1>1
<1> HIDE DEF e
<1> QED
  BY <1>2, <1>3, <1>5, <1>6, JudgeKeeps

LEMMA JudgeExportKeeps ==
  ASSUME PlaybookInv, NEW p \in Person, JudgeExport(p)
  PROVE  PlaybookInv'
<1> DEFINE cites == {i \in Active(Seen(p), now) : level[Seen(p)[i].by] = "COUNSEL"}
           e == [NoEvent EXCEPT !.names = cites]
<1>1. Judge(p, e)
  BY DEF JudgeExport
<1>2. Seen(p) = ledger /\ call[p].op = "export" /\ ledger # <<>> /\ ledger[1].text = text
  <2>1. Seen(p) = ledger
    BY SeenAll DEF JudgeExport, Judge, Busy
  <2> QED
    BY <2>1 DEF JudgeExport, SameText, Created
<1>3. cites \subseteq DOMAIN ledger /\ DOMAIN ledger \subseteq Nat
  BY <1>2 DEF Active, PlaybookInv, LedgerInOrder
<1>4. ASSUME NEW o \in Option PROVE \E i \in cites : Cited(i, o, now)
  <2> DEFINE about == {i \in Active(ledger, now) : ledger[i].option = o}
  <2>1. ReadyOptions(ledger, now) = Option
    BY <1>2 DEF JudgeExport
  <2>2. ReviewedNow(ledger, o, now)
    BY <2>1, ReadyMeans DEF ReadyAlone
  <2>3. /\ Cardinality(about) = 1
        /\ \A i \in about : level[ledger[i].by] = "COUNSEL" /\ ledger[i].at <= now
    BY <2>2 DEF ReviewedNow
  <2>4. about # {}
    BY <2>3, FS_EmptySet
  <2>5. PICK i \in about : TRUE
    BY <2>4
  <2>6. i \in DOMAIN ledger /\ i \notin Revoked(ledger) /\ ledger[i].expires > now
        /\ ledger[i].option = o
    BY DEF Active
  <2>7. now < ledger[i].expires
    <3>1. ledger[i] \in Event /\ now \in 0 .. MaxTime /\ MaxTime \in Nat
      BY <2>6, PlaybookAssumption DEF PlaybookInv, LedgerInOrder
    <3>2. ledger[i].expires \in Nat
      BY <3>1 DEF Event
    <3> QED
      BY <2>6, <3>1, <3>2
  <2>8. i \in cites
    BY <1>2, <2>3
  <2> QED
    BY <2>3, <2>6, <2>7, <2>8 DEF Cited
<1> HIDE DEF cites
<1>5. e \in Draft /\ e.names = cites
  BY <1>3, NoEventFacts DEF Draft
<1> HIDE DEF e
<1> QED
  BY <1>1, <1>2, <1>3, <1>4, <1>5, JudgeKeeps

(* What was judged is still true when it is appended.                      *)
LEMMA AppendKeeps ==
  ASSUME PlaybookInv, NEW p \in Person, Append1(p)
  PROVE  PlaybookInv'
<1> DEFINE e == [call[p].event EXCEPT !.at = now]
           n == Len(ledger) + 1
<1>1. /\ call[p] \in CallRow /\ JudgedInOrder(p, call[p]) /\ now \in Nat
      /\ ledger \in Seq(Event)
  BY PlaybookAssumption DEF PlaybookInv, CallsInOrder, LedgerInOrder, Append1
<1>2. /\ e \in Event /\ e.kind = call[p].op /\ e.text = text
      /\ e.names = call[p].event.names /\ e.option = call[p].event.option
  BY <1>1 DEF CallRow, Draft, Event, JudgedInOrder
<1>3. ledger' = Append(ledger, e)
  BY DEF Append1
<1>4. UNCHANGED <<level, text, now>> /\ Len(ledger) < MaxLedger
  BY DEF Append1
<1> HIDE DEF e
<1>5. /\ ledger' \in Seq(Event) /\ Len(ledger) \in Nat /\ Len(ledger') = n
      /\ DOMAIN ledger = 1 .. Len(ledger) /\ DOMAIN ledger' = 1 .. n
      /\ \A i \in DOMAIN ledger : ledger'[i] = ledger[i] /\ i # n
      /\ ledger'[n] = e
  BY <1>1, <1>2, <1>3, AfterAppend
<1>6. \A i \in DOMAIN ledger' : i \in DOMAIN ledger \/ i = n
  BY <1>5
<1>7. IF call[p].op = "create" THEN ledger = <<>> ELSE ledger # <<>> /\ ledger[1].text = text
  BY <1>1 DEF JudgedInOrder
<1>8. /\ ledger'[1].kind = "create" /\ ledger'[1].text = text
  <2>1. CASE ledger = <<>>
    <3>1. n = 1 /\ call[p].op = "create"
      BY <1>7, <2>1
    <3> QED
      BY <1>2, <1>5, <3>1
  <2>2. CASE ledger # <<>>
    <3>1. 1 \in DOMAIN ledger
      BY <1>1, <1>5, <2>2
    <3> QED
      BY <1>5, <1>7, <2>2, <3>1 DEF PlaybookInv, LedgerInOrder
  <2> QED
    BY <2>1, <2>2
<1>9. ASSUME NEW i \in DOMAIN ledger'
      PROVE  ledger'[i].text = ledger'[1].text /\ ledger'[i].names \subseteq DOMAIN ledger'
  <2>1. CASE i = n
    BY <1>1, <1>2, <1>5, <1>8, <2>1 DEF JudgedInOrder
  <2>2. CASE i \in DOMAIN ledger
    <3>1. /\ ledger'[i] = ledger[i] /\ ledger[i].text = ledger[1].text
          /\ ledger[i].names \subseteq DOMAIN ledger /\ ledger # <<>>
      BY <1>5, <2>2 DEF PlaybookInv, LedgerInOrder
    <3>2. ledger[1].text = text
      BY <1>7, <3>1
    <3> QED
      BY <1>5, <1>8, <3>1, <3>2
  <2> QED
    BY <1>6, <2>1, <2>2
<1>10. ASSUME NEW i \in Active(ledger', now), NEW j \in Active(ledger', now),
              ledger'[i].option = ledger'[j].option
       PROVE  i = j
  <2>1. \A k \in {i, j} : \/ k \in Active(ledger, now)
                          \/ k = n /\ e.kind = "review"
    BY <1>1, <1>2, <1>3, ActiveAfter
  <2>2. \A k \in Active(ledger, now) : k \in DOMAIN ledger /\ ledger'[k] = ledger[k]
    BY <1>5 DEF Active
  <2>3. e.kind = "review" => \A k \in Active(ledger, now) : ledger[k].option # e.option
    BY <1>1, <1>2 DEF JudgedInOrder
  <2>4. \A k, m \in Active(ledger, now) : ledger[k].option = ledger[m].option => k = m
    BY DEF PlaybookInv, LedgerInOrder, OneLiveReview
  <2> QED
    BY <1>5, <1>10, <2>1, <2>2, <2>3, <2>4
<1>11. ASSUME NEW i \in DOMAIN ledger', NEW j \in DOMAIN ledger', i # j,
              ledger'[i].kind = "revoke", ledger'[j].kind = "revoke"
       PROVE  ledger'[i].names \cap ledger'[j].names = {}
  <2>1. ASSUME NEW k \in DOMAIN ledger, ledger[k].kind = "revoke", e.kind = "revoke"
        PROVE  ledger[k].names \cap e.names = {}
    <3>1. e.names \cap Revoked(ledger) = {}
      BY <1>1, <1>2, <2>1 DEF JudgedInOrder
    <3>2. ledger[k].names \subseteq Revoked(ledger)
      BY <2>1, RevokedMeans
    <3> QED
      BY <3>1, <3>2
  <2>2. \A k, m \in DOMAIN ledger :
          ledger[k].kind = "revoke" /\ ledger[m].kind = "revoke" /\ k # m
            => ledger[k].names \cap ledger[m].names = {}
    BY DEF PlaybookInv, LedgerInOrder, RevokedOnce
  <2> QED
    BY <1>5, <1>6, <1>11, <2>1, <2>2
<1>12. LedgerInOrder'
  <2>1. Len(ledger') <= MaxLedger
    BY <1>4, <1>5, PlaybookAssumption
  <2>2. OneLiveReview'
    BY <1>4, <1>10 DEF OneLiveReview
  <2>3. RevokedOnce'
    BY <1>11 DEF RevokedOnce
  <2> QED
    BY <1>5, <1>8, <1>9, <2>1, <2>2, <2>3 DEF LedgerInOrder
<1>13. /\ call' \in [Person -> CallRow]
       /\ \A q \in Person : ~Busy(call'[q])
  <2>1. call \in [Person -> CallRow] /\ call' = [call EXCEPT ![p] = NoCall]
    BY DEF PlaybookInv, CallsInOrder, Append1
  <2>2. \A q \in Person \ {p} : ~Busy(call[q])
    BY DEF PlaybookInv, CallsInOrder, Append1, Busy
  <2> QED
    BY <2>1, <2>2, NoCallType, NoEventFacts DEF Busy
<1>14. CallsInOrder'
  BY <1>13 DEF CallsInOrder, Busy
<1>15. depends' \in SUBSET (Option \X Option) /\ NoCircle'
  <2>1. CASE UNCHANGED depends
    BY <2>1 DEF PlaybookInv, NoCircle
  <2>2. CASE depends' \in {edges \in SUBSET (Option \X Option) : Acyclic(edges)}
    <3>1. Acyclic(depends')
      BY <2>2
    <3>2. NoCircle'
      BY <3>1, AcyclicMeans DEF NoCircle
    <3> QED
      BY <2>2, <3>2
  <2> QED
    BY <2>1, <2>2 DEF Append1
<1> QED
  BY <1>4, <1>12, <1>13, <1>14, <1>15 DEF PlaybookInv, Busy

(* Time passes: reviews end, and what was judged stands.                   *)
LEMMA TickKeeps ==
  ASSUME PlaybookInv, Tick
  PROVE  PlaybookInv'
<1>1. /\ now' = now + 1 /\ now \in Nat /\ ledger \in Seq(Event) /\ now' \in 0 .. MaxTime
      /\ UNCHANGED <<ledger, depends, level, text, call>>
  BY PlaybookAssumption DEF PlaybookInv, LedgerInOrder, Tick
<1>2. Active(ledger, now') \subseteq Active(ledger, now)
  BY <1>1, ActiveEnds
<1>3. OneLiveReview' /\ RevokedOnce'
  BY <1>1, <1>2 DEF PlaybookInv, LedgerInOrder, OneLiveReview, RevokedOnce
<1>4. LedgerInOrder'
  BY <1>1, <1>3 DEF PlaybookInv, LedgerInOrder
<1>5. CallsInOrder'
  BY <1>1 DEF PlaybookInv, CallsInOrder
<1>6. ASSUME NEW q \in Person, call[q].step = "judged" PROVE JudgedInOrder(q, call[q])'
  <2>1. JudgedInOrder(q, call[q])
    BY <1>6 DEF PlaybookInv
  <2> QED
    BY <1>1, <1>2, <2>1 DEF JudgedInOrder, Cited, Revoked
<1> QED
  BY <1>1, <1>4, <1>5, <1>6 DEF PlaybookInv, NoCircle

(* The source does not change under a judged event.                        *)
LEMMA SetTextKeeps ==
  ASSUME PlaybookInv, NEW t \in 0 .. MaxText, SetText(t)
  PROVE  PlaybookInv'
<1>1. /\ \A q \in Person : call'[q].step # "judged"
      /\ UNCHANGED <<ledger, depends, level, now, call>> /\ text' = t
  BY DEF SetText
<1>2. LedgerInOrder' /\ CallsInOrder' /\ NoCircle'
  BY <1>1 DEF PlaybookInv, LedgerInOrder, OneLiveReview, RevokedOnce, CallsInOrder, NoCircle
<1> QED
  BY <1>1, <1>2 DEF PlaybookInv

(* Nor does the authority of the reviewers that a judged export cites.     *)
LEMMA SetLevelKeeps ==
  ASSUME PlaybookInv, NEW p \in Person, NEW l \in Level, SetLevel(p, l)
  PROVE  PlaybookInv'
<1>1. /\ UNCHANGED <<ledger, depends, text, now, call>> /\ level' = [level EXCEPT ![p] = l]
      /\ ~AuthorityLocked(p) /\ level \in [Person -> Level]
  BY DEF SetLevel, PlaybookInv
<1>2. LedgerInOrder' /\ CallsInOrder' /\ NoCircle'
  BY <1>1 DEF PlaybookInv, LedgerInOrder, OneLiveReview, RevokedOnce, CallsInOrder, NoCircle
<1>3. ASSUME NEW q \in Person, call[q].step = "judged" PROVE JudgedInOrder(q, call[q])'
  <2>1. JudgedInOrder(q, call[q])
    BY <1>3 DEF PlaybookInv
  <2>2. ASSUME call[q].op = "export", NEW o \in Option
        PROVE  \E i \in call[q].event.names : Cited(i, o, call[q].judged)'
    <3>1. PICK i \in call[q].event.names : Cited(i, o, call[q].judged)
      BY <2>1, <2>2 DEF JudgedInOrder
    <3>2. i \in DOMAIN ledger
      BY <2>1 DEF JudgedInOrder
    <3>3. ledger[i].by # p
      BY <1>1, <1>3, <2>2, <3>2 DEF AuthorityLocked, Reviewers
    <3>4. ledger[i].by \in Person
      <4>1. ledger[i] \in Event
        BY <3>2 DEF PlaybookInv, LedgerInOrder
      <4> QED
        BY <4>1 DEF Event
    <3> QED
      BY <1>1, <3>1, <3>3, <3>4 DEF Cited, Revoked
  <2> QED
    BY <1>1, <2>1, <2>2 DEF JudgedInOrder, Active, Revoked
<1>4. level' \in [Person -> Level]
  BY <1>1
<1> QED
  BY <1>1, <1>2, <1>3, <1>4 DEF PlaybookInv

LEMMA PlaybookKeeps ==
  ASSUME PlaybookInv, PlaybookNext
  PROVE  PlaybookInv'
<1>1. ASSUME NEW p \in Person,
             \/ \E op \in Operation : Admit(p, op)
             \/ Hold(p) \/ JudgeCreate(p) \/ JudgeReview(p) \/ JudgeRevoke(p)
             \/ JudgeExport(p) \/ Append1(p) \/ GiveUp(p)
             \/ \E l \in Level : SetLevel(p, l)
      PROVE  PlaybookInv'
  BY <1>1, AdmitKeeps, HoldKeeps, JudgeCreateKeeps, JudgeReviewKeeps, JudgeRevokeKeeps,
     JudgeExportKeeps, AppendKeeps, GiveUpKeeps, SetLevelKeeps
<1> QED
  BY <1>1, SetTextKeeps, TickKeeps DEF PlaybookNext

(* Nothing outside the playbook touches it.                                *)
LEMMA PlaybookStays ==
  ASSUME PlaybookInv, UNCHANGED playbookVars
  PROVE  PlaybookInv'
BY DEF playbookVars, PlaybookInv, LedgerInOrder, OneLiveReview, RevokedOnce, CallsInOrder,
   JudgedInOrder, Cited, Active, Revoked, NoCircle

-----------------------------------------------------------------------------
(* Reliance: the audit log.                                                *)

(* The log only grows, and an analysis that ends well shows in it.         *)
LogTells ==
  /\ audit.top <= audit'.top
  /\ audit'.top = audit.top
       => analysis' = analysis \/ analysis'.status \in {"RUNNING", "FAILED"}

LEMMA RecordedFacts ==
  ASSUME AuditInOrder, Recorded, decision' = decision
  PROVE  AuditInOrder' /\ audit.top < audit'.top /\ LogTells
<1>1. MaxAudit \in Nat
  BY PlaybookAssumption
<1>2. /\ audit.next \in 1 .. MaxAudit /\ audit.next \in Nat
      /\ audit.top \in Nat /\ audit.open \in Nat
      /\ audit.open <= audit.next - 1 /\ audit.top <= audit.next - 1
  BY <1>1 DEF AuditInOrder, Recorded
<1>3. audit' = [audit EXCEPT !.next = audit.next + 1, !.top = audit.next]
  BY DEF Recorded
<1>4. audit.next + 1 \in 1 .. MaxAudit + 1
  BY <1>1, <1>2
<1>5. audit \in [next : 1 .. MaxAudit + 1, top : Nat, open : Nat]
  BY DEF AuditInOrder
<1>6. /\ audit' \in [next : 1 .. MaxAudit + 1, top : Nat, open : Nat]
      /\ audit'.next = audit.next + 1 /\ audit'.top = audit.next /\ audit'.open = audit.open
  BY <1>2, <1>3, <1>4, <1>5
<1>7. AuditInOrder'
  BY <1>2, <1>6 DEF AuditInOrder
<1> QED
  BY <1>2, <1>6, <1>7 DEF LogTells

LEMMA LogStays ==
  ASSUME AuditInOrder, UNCHANGED audit,
         analysis' = analysis \/ analysis'.status \in {"RUNNING", "FAILED"}
  PROVE  LogTells /\ (decision' = decision => AuditInOrder')
BY DEF LogTells, AuditInOrder

(* Jobs that nobody touches stay in order.                                 *)
LEMMA JobStays ==
  ASSUME AuditInOrder, AuditInOrder', LogTells, SeededPassed => SeededPassed',
         NEW job \in Job, JobInOrder(job)
  PROVE  JobInOrder(job)'
<1>1. job.audit \in Nat /\ audit.top \in Nat /\ audit'.top \in Nat
  BY DEF Job, AuditInOrder
<1>2. job.audit <= audit'.top
  BY <1>1 DEF JobInOrder, LogTells
<1>3. job.audit = audit'.top => audit'.top = audit.top /\ job.audit = audit.top
  BY <1>1 DEF JobInOrder, LogTells
<1> QED
  BY <1>2, <1>3 DEF JobInOrder, LogTells

LEMMA JobsStay ==
  ASSUME RelianceInv, AuditInOrder', LogTells, SeededPassed => SeededPassed',
         UNCHANGED <<jobs, asking, snapshots>>
  PROVE  JobsInOrder'
<1>1. \A j \in DOMAIN jobs : jobs[j] \in Job /\ JobInOrder(jobs[j])
  BY DEF RelianceInv, JobsInOrder
<1>2. ASSUME NEW j \in DOMAIN jobs PROVE JobInOrder(jobs[j])'
  BY <1>1, JobStays DEF RelianceInv, JobInOrder
<1> QED
  BY <1>2 DEF RelianceInv, JobsInOrder, Succeeded

-----------------------------------------------------------------------------
(* Reliance: validation runs.                                              *)

(* What a concluded run keeps.                                             *)
Settles(run, after) ==
  run.status \in Terminal =>
    /\ after.status = run.status /\ after.told = run.told
    /\ after.stored = run.stored /\ after.manifest = run.manifest

(* Runs stay in order and verdicts stay what they are.                     *)
RunsGoOn ==
  /\ ValidationsInOrder'
  /\ \A i \in DOMAIN validation :
       /\ i \in DOMAIN validation' /\ validation'[i].prompt = validation[i].prompt
       /\ Settles(validation[i], validation'[i])

LEMMA RunsStay ==
  ASSUME ValidationsInOrder, UNCHANGED validation
  PROVE  RunsGoOn
BY DEF RunsGoOn, ValidationsInOrder, Settles

LEMMA OneRunGoesOn ==
  ASSUME ValidationsInOrder, NEW i \in DOMAIN validation, NEW run \in Run, RunInOrder(run),
         validation' = [validation EXCEPT ![i] = run],
         run.prompt = validation[i].prompt, Settles(validation[i], run)
  PROVE  RunsGoOn
<1>1. validation \in Seq(Run)
  BY DEF ValidationsInOrder
<1> HIDE DEF Run
<1>2. /\ validation' \in Seq(Run) /\ DOMAIN validation' = DOMAIN validation
      /\ \A k \in DOMAIN validation : validation'[k] = IF k = i THEN run ELSE validation[k]
  BY <1>1
<1> QED
  BY <1>2 DEF RunsGoOn, ValidationsInOrder, Settles

LEMMA RunFacts ==
  ASSUME ValidationsInOrder, NEW i \in DOMAIN validation
  PROVE  /\ validation[i] \in Run /\ RunInOrder(validation[i])
         /\ validation[i].step = "cases" => validation[i].status = "RUNNING"
<1>1. validation[i] \in Run /\ RunInOrder(validation[i])
  BY DEF ValidationsInOrder
<1>2. validation[i].status \in Terminal \cup {"RUNNING"}
  BY <1>1 DEF Run
<1> QED
  BY <1>1, <1>2 DEF RunInOrder

LEMMA EvaluateCaseGoesOn ==
  ASSUME ValidationsInOrder, NEW i \in DOMAIN validation, NEW c \in Case, NEW v \in Verdict,
         EvaluateCase(i, c, v)
  PROVE  RunsGoOn
<1> DEFINE run == validation[i]
<1>1. run \in Run /\ run.status = "RUNNING"
  BY RunFacts DEF EvaluateCase
<1>2. ASSUME NEW told \in {run.told, [run.told EXCEPT ![c] = v]},
             validation' = [validation EXCEPT ![i].stored[c] = v, ![i].told = told]
      PROVE  RunsGoOn
  <2> DEFINE stored == [run.stored EXCEPT ![c] = v]
             r == [run EXCEPT !.stored = stored, !.told = told]
  <2>1. told \in Results /\ stored \in Results
    BY <1>1, <1>2 DEF Run, Results
  <2>2. validation' = [validation EXCEPT ![i] = r]
    BY <1>2
  <2> HIDE DEF stored
  <2>3. r \in Run /\ r.status = "RUNNING" /\ r.prompt = run.prompt
    BY <1>1, <2>1 DEF Run
  <2> HIDE DEF r
  <2> QED
    BY <1>1, <2>2, <2>3, OneRunGoesOn DEF RunInOrder, Settles, Terminal
<1>3. ASSUME validation' = [validation EXCEPT ![i].loose = <<c, v>>]
      PROVE  RunsGoOn
  <2> DEFINE r == [run EXCEPT !.loose = <<c, v>>]
  <2>1. r \in Run /\ r.status = "RUNNING" /\ r.prompt = run.prompt
    BY <1>1 DEF Run
  <2>2. validation' = [validation EXCEPT ![i] = r]
    BY <1>3
  <2> HIDE DEF r
  <2> QED
    BY <1>1, <2>1, <2>2, OneRunGoesOn DEF RunInOrder, Settles, Terminal
<1> QED
  BY <1>2, <1>3 DEF EvaluateCase

LEMMA LateWriteGoesOn ==
  ASSUME ValidationsInOrder, NEW i \in DOMAIN validation, LateWrite(i)
  PROVE  RunsGoOn
<1> DEFINE run == validation[i]
           stored == IF Writable(run) THEN [run.stored EXCEPT ![run.loose[1]] = run.loose[2]]
                     ELSE run.stored
           r == [run EXCEPT !.loose = <<>>, !.stored = stored]
<1>1. run \in Run /\ RunInOrder(run) /\ run.loose # <<>>
  BY RunFacts DEF LateWrite
<1>2. run.loose[1] \in Case /\ run.loose[2] \in Verdict /\ run.stored \in Results
  BY <1>1 DEF Run
<1>3. stored \in Results
  BY <1>2 DEF Results
<1>4. validation' = [validation EXCEPT ![i] = r]
  BY DEF LateWrite
<1>5. run.status \in Terminal => stored = run.stored
  BY DEF Writable
<1> HIDE DEF stored
<1>6. /\ r \in Run /\ r.prompt = run.prompt /\ r.status = run.status /\ r.told = run.told
      /\ r.manifest = run.manifest /\ r.stored = stored /\ r.step = run.step
  BY <1>1, <1>3 DEF Run
<1> HIDE DEF r
<1> QED
  BY <1>1, <1>4, <1>5, <1>6, OneRunGoesOn DEF RunInOrder, Settles

LEMMA LeaveGoesOn ==
  ASSUME ValidationsInOrder, NEW i \in DOMAIN validation, Leave(i)
  PROVE  RunsGoOn
<1> DEFINE run == validation[i]
<1>1. run \in Run /\ RunInOrder(run)
  BY RunFacts
<1>2. PICK step \in {"finalize", "give up"} :
        validation' = [validation EXCEPT ![i].step = step]
  BY DEF Leave
<1> DEFINE r == [run EXCEPT !.step = step]
<1>3. /\ r \in Run /\ r.step # "cases" /\ r.status = run.status /\ r.prompt = run.prompt
      /\ r.told = run.told /\ r.stored = run.stored /\ r.manifest = run.manifest
  BY <1>1, <1>2 DEF Run
<1>4. validation' = [validation EXCEPT ![i] = r]
  BY <1>2
<1> HIDE DEF r
<1> QED
  BY <1>1, <1>3, <1>4, OneRunGoesOn DEF RunInOrder, Settles

LEMMA ReadManifestGoesOn ==
  ASSUME ValidationsInOrder, NEW i \in DOMAIN validation, ReadManifest(i)
  PROVE  RunsGoOn
<1> DEFINE run == validation[i]
           step == IF run.step = "finalize" THEN "bind" ELSE "bind failure"
           r == [run EXCEPT !.manifest = run.stored, !.step = step]
<1>1. run \in Run /\ RunInOrder(run)
  BY RunFacts
<1>2. step \in {"bind", "bind failure"}
  OBVIOUS
<1>3. validation' = [validation EXCEPT ![i] = r]
  BY DEF ReadManifest
<1> HIDE DEF step
<1>4. /\ r \in Run /\ r.step # "cases" /\ r.status = run.status /\ r.prompt = run.prompt
      /\ r.told = run.told /\ r.stored = run.stored /\ r.manifest = run.stored
  BY <1>1, <1>2 DEF Run
<1> HIDE DEF r
<1> QED
  BY <1>1, <1>3, <1>4, OneRunGoesOn DEF RunInOrder, Settles

(* A verdict binds the rows its manifest was read from; a step that is run *)
(* again, for it was refused or its answer was lost, changes nothing.      *)
LEMMA ConcludeGoesOn ==
  ASSUME ValidationsInOrder, NEW i \in DOMAIN validation, Conclude(i)
  PROVE  RunsGoOn
<1> DEFINE run == validation[i]
           again == IF run.step = "bind" THEN "finalize" ELSE "give up"
<1>1. run \in Run /\ RunInOrder(run) /\ again \in {"finalize", "give up"}
  BY RunFacts
<1>2. ASSUME Writable(run), run.manifest = run.stored, NEW step \in {"ended", again},
             validation' = [validation EXCEPT ![i].status = SummarizeValidation(run),
                                              ![i].step = step]
      PROVE  RunsGoOn
  <2> DEFINE verdict == SummarizeValidation(run)
             r == [run EXCEPT !.status = verdict, !.step = step]
  <2>1. validation' = [validation EXCEPT ![i] = r]
    BY <1>2
  <2>2. /\ verdict \in {"PASSED", "FAILED"}
        /\ verdict = "PASSED" => \A c \in Case : run.told[c] = "pass"
    BY DEF SummarizeValidation
  <2>3. step \in {"ended", "finalize", "give up"} /\ run.status \notin Terminal
    BY <1>1, <1>2 DEF Writable
  <2> HIDE DEF verdict, again
  <2>4. /\ r \in Run /\ r.status = verdict /\ r.step # "cases" /\ r.told = run.told
        /\ r.manifest = run.manifest /\ r.stored = run.stored /\ r.prompt = run.prompt
    BY <1>1, <2>2, <2>3 DEF Run, Terminal
  <2> HIDE DEF r
  <2>5. RunInOrder(r) /\ Settles(run, r)
    BY <1>2, <2>2, <2>3, <2>4 DEF RunInOrder, Settles
  <2> HIDE DEF run
  <2> QED
    BY <2>1, <2>4, <2>5, OneRunGoesOn DEF run
<1>3. ASSUME validation' = [validation EXCEPT ![i].step = again]
      PROVE  RunsGoOn
  <2> DEFINE r == [run EXCEPT !.step = again]
  <2>1. validation' = [validation EXCEPT ![i] = r]
    BY <1>3
  <2> HIDE DEF again
  <2>2. /\ r \in Run /\ r.step # "cases" /\ r.status = run.status /\ r.prompt = run.prompt
        /\ r.told = run.told /\ r.stored = run.stored /\ r.manifest = run.manifest
    BY <1>1 DEF Run
  <2> HIDE DEF r
  <2> QED
    BY <1>1, <2>1, <2>2, OneRunGoesOn DEF RunInOrder, Settles
<1> QED
  BY <1>2, <1>3 DEF Conclude

LEMMA StartGoesOn ==
  ASSUME ValidationsInOrder, engine \in Engine, StartValidation
  PROVE  RunsGoOn
<1> DEFINE r == NewRun(engine)
<1>1. r \in Run /\ r.status = "RUNNING"
  BY DEF NewRun, Nowhere, Run, Results
<1>2. validation' = Append(validation, r) /\ validation \in Seq(Run)
  BY DEF StartValidation, ValidationsInOrder
<1>3. RunInOrder(r)
  BY <1>1 DEF RunInOrder, Terminal
<1> HIDE DEF r, Run
<1>4. /\ validation' \in Seq(Run) /\ Len(validation) \in Nat
      /\ DOMAIN validation = 1 .. Len(validation)
      /\ DOMAIN validation' = 1 .. Len(validation) + 1
      /\ \A k \in DOMAIN validation : validation'[k] = validation[k]
      /\ validation'[Len(validation) + 1] = r
  BY <1>1, <1>2
<1>5. ASSUME NEW k \in DOMAIN validation' PROVE RunInOrder(validation'[k])
  <2>1. k \in DOMAIN validation \/ k = Len(validation) + 1
    BY <1>4
  <2> QED
    BY <1>3, <1>4, <2>1 DEF ValidationsInOrder
<1>6. ValidationsInOrder'
  BY <1>4, <1>5 DEF ValidationsInOrder, RunInOrder
<1> QED
  BY <1>4, <1>6 DEF RunsGoOn, Settles

LEMMA ValidationGoesOn ==
  ASSUME ValidationsInOrder, engine \in Engine, ValidationStep
  PROVE  RunsGoOn /\ OnlyValidation
<1>1. ASSUME NEW i \in DOMAIN validation,
             \/ \E c \in Case, v \in Verdict : EvaluateCase(i, c, v)
             \/ LateWrite(i) \/ Leave(i) \/ ReadManifest(i) \/ Conclude(i)
      PROVE  RunsGoOn /\ OnlyValidation
  <2>1. RunsGoOn
    BY <1>1, EvaluateCaseGoesOn, LateWriteGoesOn, LeaveGoesOn, ReadManifestGoesOn,
       ConcludeGoesOn
  <2>2. OnlyValidation
    BY <1>1 DEF EvaluateCase, LateWrite, Leave, ReadManifest, Conclude
  <2> QED
    BY <2>1, <2>2
<1>2. CASE StartValidation
  BY <1>2, StartGoesOn DEF StartValidation
<1> QED
  BY <1>1, <1>2 DEF ValidationStep

(* A validation that passed once has passed for ever.                      *)
LEMMA PassedStays ==
  ASSUME RunsGoOn, SeededPassed
  PROVE  SeededPassed'
<1>1. PICK i \in DOMAIN validation :
        /\ validation[i].prompt = Prompt[Seeded] /\ validation[i].status = "PASSED"
        /\ \A c \in Case : validation[i].told[c] = "pass"
  BY DEF SeededPassed
<1>2. /\ i \in DOMAIN validation' /\ validation'[i].prompt = validation[i].prompt
      /\ validation'[i].status = "PASSED" /\ validation'[i].told = validation[i].told
  BY <1>1 DEF RunsGoOn, Settles, Terminal
<1> QED
  BY <1>1, <1>2 DEF SeededPassed

-----------------------------------------------------------------------------
(* Reliance: the readiness gate.                                           *)

(* A set of positions that is not empty has a last one.                    *)
LEMMA LastOne ==
  ASSUME NEW n \in Nat, NEW S \in SUBSET (1 .. n), S # {}
  PROVE  \E i \in S : \A k \in S : k <= i
<1> DEFINE Behind == {m \in Nat : m <= n /\ n - m \in S}
<1>1. Behind # {}
  <2>1. PICK i \in S : TRUE
    OBVIOUS
  <2>2. n - i \in Nat /\ n - i <= n /\ n - (n - i) = i
    OBVIOUS
  <2> QED
    BY <2>1, <2>2
<1>2. Behind \subseteq Nat
  OBVIOUS
<1>3. PICK m \in Behind : \A k \in Behind : ~(<<k, m>> \in OpToRel(<, Nat))
  <2> HIDE DEF Behind
  <2> QED
    BY <1>1, <1>2, NatLessThanWellFounded, WFMin
<1>4. \A k \in Nat : k < m => k \notin Behind
  <2> SUFFICES ASSUME NEW k \in Nat, k < m, k \in Behind PROVE FALSE
    OBVIOUS
  <2>1. m \in Nat
    OBVIOUS
  <2> HIDE DEF Behind
  <2>2. <<k, m>> \in OpToRel(<, Nat)
    BY <2>1 DEF OpToRel
  <2> QED
    BY <1>3, <2>2
<1>5. m \in Nat /\ m <= n /\ n - m \in S
  OBVIOUS
<1>6. ASSUME NEW k \in S PROVE k <= n - m
  <2>1. k \in Nat /\ n - k \in Nat /\ n - k <= n /\ n - (n - k) = k
    OBVIOUS
  <2>2. n - k \in Behind
    BY <2>1
  <2> HIDE DEF Behind
  <2>3. ~(n - k < m)
    BY <1>4, <2>1, <2>2
  <2> QED
    BY <1>5, <2>1, <2>3
<1> QED
  BY <1>5, <1>6

LEMMA LatestFacts ==
  ASSUME ValidationsInOrder, NEW e
  PROVE  /\ LatestValidation(e) \in Nat
         /\ LatestValidation(e) # 0 =>
              /\ LatestValidation(e) \in DOMAIN validation
              /\ validation[LatestValidation(e)].prompt = Prompt[e]
<1> DEFINE same == {i \in DOMAIN validation : validation[i].prompt = Prompt[e]}
<1>1. Len(validation) \in Nat /\ DOMAIN validation = 1 .. Len(validation)
  BY DEF ValidationsInOrder
<1>2. CASE same = {}
  BY <1>2 DEF LatestValidation
<1>3. CASE same # {}
  <2>1. \E i \in same : \A k \in same : k <= i
    <3>1. same \in SUBSET (1 .. Len(validation))
      BY <1>1
    <3> HIDE DEF same
    <3> QED
      BY <1>1, <1>3, <3>1, LastOne
  <2>2. LatestValidation(e) = CHOOSE i \in same : \A k \in same : k <= i
    BY <1>3 DEF LatestValidation
  <2>3. LatestValidation(e) \in same
    <3> HIDE DEF same
    <3> QED
      BY <2>1, <2>2
  <2> QED
    BY <1>1, <2>3
<1> QED
  BY <1>2, <1>3

(* The gate only opens for the engine of the policies, and after one of    *)
(* its validations passed.                                                 *)
LEMMA ReadyMeansPassed ==
  ASSUME ValidationsInOrder, Ready(engine)
  PROVE  engine = Seeded /\ SeededPassed
<1> DEFINE i == LatestValidation(engine)
<1>1. engine = Seeded /\ i # 0 /\ validation[i].status = "PASSED"
  BY DEF Ready, EnginePoliciesMatch, ValidationPasses
<1>2. i \in DOMAIN validation /\ validation[i].prompt = Prompt[Seeded]
  BY <1>1, LatestFacts
<1>3. RunInOrder(validation[i])
  BY <1>2 DEF ValidationsInOrder
<1> QED
  BY <1>1, <1>2, <1>3 DEF SeededPassed, RunInOrder

LEMMA EvidenceType ==
  ASSUME ValidationsInOrder, MatterInOrder
  PROVE  Evidence(engine) \in Evidences
<1>1. standard.active \in Nat /\ engine \in Engine
  BY RelianceBounds DEF MatterInOrder
<1> QED
  BY <1>1, LatestFacts DEF Evidence, Evidences

LEMMA GateStepKeeps ==
  ASSUME RelianceInv, GateStep
  PROVE  /\ MatterInOrder'
         /\ UNCHANGED <<validation, analysis, decision, asking, jobs, snapshots, audit>>
<1>1. MaxStandards \in Nat
  BY RelianceBounds
<1>2. ASSUME NEW e \in Engine, Deploy(e) PROVE MatterInOrder'
  BY <1>2 DEF Deploy, RelianceInv, MatterInOrder
<1>3. ASSUME CreateStandard PROVE MatterInOrder'
  <2>1. /\ standard' = [standard EXCEPT !.made = standard.made + 1]
        /\ standard.made + 1 \in 0 .. MaxStandards /\ standard.active \in 0 .. MaxStandards
        /\ standard.active <= standard.made + 1
    BY <1>1, <1>3 DEF CreateStandard, RelianceInv, MatterInOrder
  <2>2. /\ standard' \in [made : 0 .. MaxStandards, active : 0 .. MaxStandards]
        /\ standard'.active <= standard'.made
    BY <2>1 DEF RelianceInv, MatterInOrder
  <2> QED
    BY <1>3, <2>2 DEF CreateStandard, RelianceInv, MatterInOrder
<1>4. ASSUME NEW s \in 1 .. MaxStandards, ActivateStandard(s) PROVE MatterInOrder'
  <2>1. /\ standard' = [standard EXCEPT !.active = s]
        /\ s \in 0 .. MaxStandards /\ s <= standard.made
    BY <1>1, <1>4 DEF ActivateStandard, RelianceInv, MatterInOrder
  <2>2. /\ standard' \in [made : 0 .. MaxStandards, active : 0 .. MaxStandards]
        /\ standard'.active <= standard'.made
    BY <2>1 DEF RelianceInv, MatterInOrder
  <2> QED
    BY <1>4, <2>2 DEF ActivateStandard, RelianceInv, MatterInOrder
<1>5. UNCHANGED <<validation, analysis, decision, asking, jobs, snapshots, audit>>
  BY DEF GateStep, Deploy, CreateStandard, ActivateStandard
<1> QED
  BY <1>2, <1>3, <1>4, <1>5 DEF GateStep

-----------------------------------------------------------------------------
(* Reliance: the matter.                                                   *)

AnalysisRow == [n : 0 .. MaxAnalyses, status : {"NONE", "RUNNING", "SUCCEEDED", "FAILED"},
                engine : Engine \cup {None}, standard : 0 .. MaxStandards,
                attested : BOOLEAN]

LEMMA AnalysisKeeps ==
  ASSUME RelianceInv,
         StartAnalysis \/ TakePositions \/ FinishAnalysis \/ FailAnalysis \/ AttestAnalysis
  PROVE  MatterInOrder' /\ AuditInOrder' /\ LogTells
<1>1. /\ analysis \in AnalysisRow
      /\ analysis.attested => analysis.status = "SUCCEEDED"
      /\ engine \in Engine /\ standard.active \in 0 .. MaxStandards
      /\ 0 \in 0 .. MaxStandards
  <2>1. MaxStandards \in Nat
    BY RelianceBounds
  <2> QED
    BY <2>1 DEF RelianceInv, MatterInOrder, AnalysisRow
<1>2. /\ UNCHANGED <<graph, version, decision, authorised>> /\ Elsewhere
      /\ decision' = decision
  BY DEF StartAnalysis, TakePositions, FinishAnalysis, FailAnalysis, AttestAnalysis
<1>3. ASSUME analysis' \in AnalysisRow, analysis'.attested => analysis'.status = "SUCCEEDED"
      PROVE  MatterInOrder'
  BY <1>2, <1>3 DEF RelianceInv, MatterInOrder, AnalysisRow, Elsewhere
<1>4. CASE StartAnalysis
  <2>1. analysis.n + 1 \in 0 .. MaxAnalyses
    <3>1. MaxAnalyses \in Nat
      BY RelianceBounds
    <3> QED
      BY <1>1, <1>4, <3>1 DEF StartAnalysis, AnalysisRow
  <2>2. analysis' \in AnalysisRow /\ ~analysis'.attested /\ analysis'.status = "RUNNING"
    BY <1>1, <1>4, <2>1 DEF StartAnalysis, AnalysisRow
  <2>3. UNCHANGED audit
    BY <1>4 DEF StartAnalysis
  <2> QED
    BY <1>2, <1>3, <2>2, <2>3, LogStays DEF RelianceInv
<1>5. CASE FinishAnalysis
  <2>1. analysis' \in AnalysisRow /\ analysis'.status = "SUCCEEDED"
    BY <1>1, <1>5 DEF FinishAnalysis, AnalysisRow
  <2>2. Recorded
    BY <1>5 DEF FinishAnalysis
  <2> QED
    BY <1>2, <1>3, <2>1, <2>2, RecordedFacts DEF RelianceInv
<1>6. CASE FailAnalysis
  <2>1. analysis' \in AnalysisRow /\ ~analysis'.attested /\ analysis'.status = "FAILED"
    BY <1>1, <1>6 DEF FailAnalysis, AnalysisRow
  <2>2. UNCHANGED audit
    BY <1>6 DEF FailAnalysis
  <2> QED
    BY <1>2, <1>3, <2>1, <2>2, LogStays DEF RelianceInv
<1>7. CASE TakePositions
  <2>1. analysis' \in AnalysisRow /\ ~analysis'.attested /\ analysis'.status = "RUNNING"
    BY <1>1, <1>7 DEF TakePositions, AnalysisRow
  <2>2. UNCHANGED audit
    BY <1>7 DEF TakePositions
  <2> QED
    BY <1>2, <1>3, <2>1, <2>2, LogStays DEF RelianceInv
<1>8. CASE AttestAnalysis
  <2>1. analysis' \in AnalysisRow /\ analysis'.status = "SUCCEEDED"
    BY <1>1, <1>8 DEF AttestAnalysis, AnalysisRow
  <2>2. Recorded
    BY <1>8 DEF AttestAnalysis
  <2> QED
    BY <1>2, <1>3, <2>1, <2>2, RecordedFacts DEF RelianceInv
<1> QED
  BY <1>4, <1>5, <1>6, <1>7, <1>8

LEMMA GraphKeeps ==
  ASSUME RelianceInv,
         BuildGraph \/ \E n \in 1 .. MaxAnalyses, e \in Engine : AttestGraph(n, e)
  PROVE  MatterInOrder' /\ AuditInOrder' /\ LogTells
<1>1. /\ Recorded /\ Elsewhere /\ UNCHANGED <<analysis, version, decision, authorised>>
      /\ decision' = decision
  BY DEF BuildGraph, AttestGraph
<1>2. \E at : \E state \in {"open", "attested"} : graph' = [graph EXCEPT ![at] = state]
  BY DEF BuildGraph, AttestGraph
<1>3. graph' \in [(1 .. MaxAnalyses) \X Engine -> {"none", "open", "attested"}]
  BY <1>2 DEF RelianceInv, MatterInOrder
<1>4. MatterInOrder'
  BY <1>1, <1>3 DEF RelianceInv, MatterInOrder, Elsewhere
<1> QED
  BY <1>1, <1>4, RecordedFacts DEF RelianceInv

LEMMA VersionKeeps ==
  ASSUME RelianceInv,
         (\E s \in InForce : Promote(s)) \/ Supersede \/ OtherEvent \/ ChangeAuthority
  PROVE  MatterInOrder' /\ AuditInOrder' /\ LogTells
<1>1. /\ Elsewhere /\ UNCHANGED <<analysis, graph, decision>> /\ decision' = decision
  BY DEF Promote, Supersede, OtherEvent, ChangeAuthority
<1>2. Recorded \/ UNCHANGED audit
  BY DEF Promote, Supersede, OtherEvent, ChangeAuthority
<1>3. /\ version' \in InForce \cup {"DRAFT", "SUPERSEDED"}
      /\ authorised' \in BOOLEAN
  BY DEF Promote, Supersede, OtherEvent, ChangeAuthority, RelianceInv, MatterInOrder
<1>4. MatterInOrder'
  BY <1>1, <1>3 DEF RelianceInv, MatterInOrder, Elsewhere
<1> QED
  BY <1>1, <1>2, <1>4, RecordedFacts, LogStays DEF RelianceInv

(* A decision holds its id back: the log may grow past it before it shows. *)
LEMMA DecisionKeeps ==
  ASSUME RelianceInv, Decide \/ CommitDecision \/ AbortDecision
  PROVE  MatterInOrder' /\ AuditInOrder' /\ LogTells
<1>1. /\ Elsewhere /\ UNCHANGED <<analysis, graph, version, authorised>>
      /\ analysis' = analysis
  BY DEF Decide, CommitDecision, AbortDecision
<1>2. MatterInOrder'
  BY <1>1 DEF RelianceInv, MatterInOrder, Elsewhere
<1>3. /\ audit \in [next : 1 .. MaxAudit + 1, top : Nat, open : Nat] /\ MaxAudit \in Nat
      /\ audit.next \in 1 .. MaxAudit + 1 /\ audit.top \in Nat /\ audit.open \in Nat
      /\ audit.open <= audit.next - 1 /\ audit.top <= audit.next - 1
      /\ (decision = "held") = (audit.open # 0)
  BY PlaybookAssumption DEF RelianceInv, AuditInOrder
<1>4. CASE Decide
  <2>1. audit.next + 1 \in 1 .. MaxAudit + 1 /\ audit.next \in Nat
    BY <1>3, <1>4 DEF Decide
  <2>2. audit' = [audit EXCEPT !.next = audit.next + 1, !.open = audit.next]
    BY <1>4 DEF Decide
  <2>3. /\ audit' \in [next : 1 .. MaxAudit + 1, top : Nat, open : Nat]
        /\ audit'.next = audit.next + 1 /\ audit'.open = audit.next /\ audit'.top = audit.top
    BY <1>3, <2>1, <2>2
  <2>4. decision' = "held"
    BY <1>4 DEF Decide
  <2> QED
    BY <1>1, <1>2, <1>3, <2>3, <2>4 DEF AuditInOrder, LogTells
<1>5. CASE CommitDecision
  <2> DEFINE top == IF audit.open > audit.top THEN audit.open ELSE audit.top
  <2>1. audit' = [audit EXCEPT !.open = 0, !.top = top]
    BY <1>5 DEF CommitDecision
  <2>2. top \in Nat /\ top <= audit.next - 1 /\ audit.top <= top
    BY <1>3
  <2> HIDE DEF top
  <2>3. /\ audit' \in [next : 1 .. MaxAudit + 1, top : Nat, open : Nat]
        /\ audit'.next = audit.next /\ audit'.open = 0 /\ audit'.top = top
    BY <1>3, <2>1, <2>2
  <2>4. decision' = "made"
    BY <1>5 DEF CommitDecision
  <2> QED
    BY <1>1, <1>2, <1>3, <2>2, <2>3, <2>4 DEF AuditInOrder, LogTells
<1>6. CASE AbortDecision
  <2>1. audit' = [audit EXCEPT !.open = 0] /\ decision' = "none"
    BY <1>6 DEF AbortDecision
  <2>2. /\ audit' \in [next : 1 .. MaxAudit + 1, top : Nat, open : Nat]
        /\ audit'.next = audit.next /\ audit'.open = 0 /\ audit'.top = audit.top
    BY <1>3, <2>1
  <2> QED
    BY <1>1, <1>2, <1>3, <2>1, <2>2 DEF AuditInOrder, LogTells
<1> QED
  BY <1>4, <1>5, <1>6

LEMMA MatterStepKeeps ==
  ASSUME RelianceInv, MatterStep
  PROVE  /\ MatterInOrder' /\ AuditInOrder' /\ LogTells
         /\ UNCHANGED <<validation, asking, jobs, snapshots>>
<1>1. MatterInOrder' /\ AuditInOrder' /\ LogTells
  BY AnalysisKeeps, GraphKeeps, VersionKeeps, DecisionKeeps DEF MatterStep
<1>2. Elsewhere
  BY DEF MatterStep, StartAnalysis, TakePositions, FinishAnalysis, FailAnalysis,
     AttestAnalysis, BuildGraph, AttestGraph, Promote, Supersede, Decide, CommitDecision, AbortDecision, OtherEvent,
     ChangeAuthority
<1> QED
  BY <1>1, <1>2 DEF Elsewhere

-----------------------------------------------------------------------------
(* Reliance: snapshots.                                                    *)

SnapshotRow == [job : Nat, engine : Engine \cup {None}, analysis : Nat, standard : Nat]

LEMMA JobFacts ==
  ASSUME JobsInOrder
  PROVE  /\ jobs \in Seq(Job) /\ Len(jobs) \in Nat /\ DOMAIN jobs = 1 .. Len(jobs)
         /\ \A j \in DOMAIN jobs : jobs[j] \in Job /\ JobInOrder(jobs[j])
BY DEF JobsInOrder

(* One job moves.                                                          *)
LEMMA OneJobMoves ==
  ASSUME RelianceInv, NEW j \in DOMAIN jobs, NEW row \in Job,
         jobs' = [jobs EXCEPT ![j] = row],
         row.audit = jobs[j].audit, row.analysis = jobs[j].analysis,
         row.step = "checked" => row.engine = Seeded /\ SeededPassed,
         AuditInOrder', LogTells, SeededPassed => SeededPassed'
  PROVE  /\ jobs' \in Seq(Job) /\ DOMAIN jobs' = DOMAIN jobs
         /\ \A k \in DOMAIN jobs' : JobInOrder(jobs[k])'
         /\ \A k \in DOMAIN jobs : jobs'[k] = IF k = j THEN row ELSE jobs[k]
<1>1. jobs \in Seq(Job) /\ \A k \in DOMAIN jobs : jobs[k] \in Job /\ JobInOrder(jobs[k])
  BY JobFacts DEF RelianceInv
<1> HIDE DEF Job
<1>2. /\ jobs' \in Seq(Job) /\ DOMAIN jobs' = DOMAIN jobs
      /\ \A k \in DOMAIN jobs : jobs'[k] = IF k = j THEN row ELSE jobs[k]
  BY <1>1
<1>3. JobInOrder(row)
  BY <1>1 DEF JobInOrder
<1>4. ASSUME NEW k \in DOMAIN jobs PROVE JobInOrder(jobs[k])'
  <2>1. jobs'[k] \in Job /\ JobInOrder(jobs'[k])
    BY <1>1, <1>2, <1>3
  <2> QED
    BY <2>1, JobStays DEF RelianceInv, JobInOrder
<1> QED
  BY <1>2, <1>4

(* A job that neither had published nor has now leaves the count alone.    *)
LEMMA NotPublished ==
  ASSUME RelianceInv, NEW j \in DOMAIN jobs, NEW row \in Job,
         jobs' = [jobs EXCEPT ![j] = row],
         row.audit = jobs[j].audit, row.analysis = jobs[j].analysis,
         row.step = "checked" => row.engine = Seeded /\ SeededPassed,
         row.step # "succeeded", jobs[j].step # "succeeded",
         OnlySnapshots, UNCHANGED <<asking, snapshots, audit>>
  PROVE  JobsInOrder'
<1>1. AuditInOrder' /\ LogTells /\ (SeededPassed => SeededPassed')
  BY LogStays DEF RelianceInv, OnlySnapshots, SeededPassed
<1>2. /\ jobs' \in Seq(Job) /\ DOMAIN jobs' = DOMAIN jobs
      /\ \A k \in DOMAIN jobs' : JobInOrder(jobs[k])'
      /\ \A k \in DOMAIN jobs : jobs'[k] = IF k = j THEN row ELSE jobs[k]
  BY <1>1, OneJobMoves
<1>3. Succeeded' = Succeeded
  BY <1>2 DEF Succeeded
<1> QED
  BY <1>2, <1>3 DEF RelianceInv, JobsInOrder

LEMMA CheckKeeps ==
  ASSUME RelianceInv, NEW j \in DOMAIN jobs, CheckSnapshot(j)
  PROVE  JobsInOrder'
<1> DEFINE fit == Ready(engine) /\ Evidence(engine) = jobs[j].evidence
           step == IF fit THEN "checked" ELSE "failed"
           row == [jobs[j] EXCEPT !.step = step, !.engine = engine]
<1>1. jobs[j] \in Job /\ engine \in Engine /\ jobs[j].step # "succeeded"
  BY JobFacts DEF RelianceInv, MatterInOrder, CheckSnapshot
<1>2. /\ step \in {"checked", "failed"}
      /\ step = "checked" => engine = Seeded /\ SeededPassed
  BY ReadyMeansPassed DEF RelianceInv
<1>3. jobs' = [jobs EXCEPT ![j] = row]
  BY DEF CheckSnapshot
<1> HIDE DEF step
<1>4. /\ row \in Job /\ row.step = step /\ row.engine = engine
      /\ row.audit = jobs[j].audit /\ row.analysis = jobs[j].analysis
  BY <1>1, <1>2 DEF Job
<1>5. OnlySnapshots /\ UNCHANGED <<asking, snapshots, audit>>
  BY DEF CheckSnapshot
<1> HIDE DEF row
<1> QED
  BY <1>1, <1>2, <1>3, <1>4, <1>5, NotPublished

LEMMA RefuseOrRetryKeeps ==
  ASSUME RelianceInv, NEW j \in DOMAIN jobs, RefuseSnapshot(j) \/ RetrySnapshot(j)
  PROVE  JobsInOrder'
<1>1. PICK step \in {"failed", "queued"} : jobs' = [jobs EXCEPT ![j].step = step]
  BY DEF RefuseSnapshot, RetrySnapshot
<1> DEFINE row == [jobs[j] EXCEPT !.step = step]
<1>2. jobs[j] \in Job /\ jobs[j].step # "succeeded"
  BY JobFacts DEF RelianceInv, RefuseSnapshot, RetrySnapshot
<1>3. jobs' = [jobs EXCEPT ![j] = row]
  BY <1>1
<1>4. /\ row \in Job /\ row.step = step
      /\ row.audit = jobs[j].audit /\ row.analysis = jobs[j].analysis
  BY <1>1, <1>2 DEF Job
<1>5. OnlySnapshots /\ UNCHANGED <<asking, snapshots, audit>>
  BY DEF RefuseSnapshot, RetrySnapshot
<1> HIDE DEF row
<1> QED
  BY <1>1, <1>2, <1>3, <1>4, <1>5, NotPublished

(* A request finds its job or makes one, with the log and the analysis of  *)
(* this moment.                                                            *)
LEMMA EnqueueKeeps ==
  ASSUME RelianceInv, EnqueueSnapshot
  PROVE  JobsInOrder'
<1>1. AuditInOrder' /\ LogTells /\ (SeededPassed => SeededPassed')
  BY LogStays DEF RelianceInv, EnqueueSnapshot, OnlySnapshots, SeededPassed
<1>2. /\ jobs \in Seq(Job) /\ Len(jobs) \in Nat /\ DOMAIN jobs = 1 .. Len(jobs)
      /\ \A j \in DOMAIN jobs : jobs[j] \in Job /\ JobInOrder(jobs[j])
  BY JobFacts DEF RelianceInv
<1>3. ASSUME NEW job \in Job, JobInOrder(job) PROVE JobInOrder(job)'
  BY <1>1, <1>3, JobStays DEF RelianceInv
<1>4. asking' = None /\ UNCHANGED snapshots
  BY DEF EnqueueSnapshot
<1>5. CASE jobs' = [j \in DOMAIN jobs |->
              IF j \in Asked(asking) /\ jobs[j].step = "failed"
                THEN [jobs[j] EXCEPT !.step = "queued"] ELSE jobs[j]]
  <2>1. ASSUME NEW j \in DOMAIN jobs
        PROVE  /\ jobs'[j] \in Job /\ JobInOrder(jobs'[j])
               /\ jobs'[j].step = "succeeded" <=> jobs[j].step = "succeeded"
    <3>1. CASE jobs'[j] = jobs[j]
      BY <1>2, <3>1
    <3>2. CASE jobs[j].step = "failed" /\ jobs'[j] = [jobs[j] EXCEPT !.step = "queued"]
      <4> DEFINE row == [jobs[j] EXCEPT !.step = "queued"]
      <4>1. /\ row \in Job /\ row.step = "queued"
            /\ row.audit = jobs[j].audit /\ row.analysis = jobs[j].analysis
        BY <1>2 DEF Job
      <4> HIDE DEF row
      <4>2. JobInOrder(row)
        BY <1>2, <4>1 DEF JobInOrder
      <4>3. jobs'[j] = row
        BY <3>2 DEF row
      <4> QED
        BY <3>2, <4>1, <4>2, <4>3
    <3> QED
      BY <1>5, <3>1, <3>2
  <2>2. DOMAIN jobs' = 1 .. Len(jobs)
    BY <1>2, <1>5
  <2>3. jobs' \in [1 .. Len(jobs) -> Job]
    <3>1. \E f : jobs' = [j \in DOMAIN jobs |-> f[j]]
      <4> WITNESS [j \in DOMAIN jobs |->
              IF j \in Asked(asking) /\ jobs[j].step = "failed"
                THEN [jobs[j] EXCEPT !.step = "queued"] ELSE jobs[j]]
      <4> QED
        BY <1>5
    <3> HIDE DEF Job
    <3> QED
      BY <1>2, <2>1, <3>1
  <2>4. jobs' \in Seq(Job)
    <3> HIDE DEF Job
    <3> QED
      BY <1>2, <2>3
  <2>5. Succeeded' = Succeeded
    BY <1>2, <2>1, <2>2 DEF Succeeded
  <2>6. \A j \in DOMAIN jobs' : JobInOrder(jobs[j])'
    BY <1>2, <1>3, <2>1, <2>2 DEF JobInOrder
  <2> QED
    BY <1>4, <2>4, <2>5, <2>6 DEF RelianceInv, JobsInOrder
<1>6. CASE jobs' = Append(jobs, [step |-> "queued", engine |-> None, audit |-> audit.top,
                 evidence |-> asking, analysis |-> analysis.n])
  <2> DEFINE row == [step |-> "queued", engine |-> None, audit |-> audit.top,
                     evidence |-> asking, analysis |-> analysis.n]
  <2>1. asking \in Evidences /\ audit.top \in Nat /\ analysis.n \in Nat
    BY RelianceBounds DEF EnqueueSnapshot, RelianceInv, JobsInOrder, AuditInOrder, MatterInOrder
  <2>2. /\ row \in Job /\ row.step = "queued" /\ row.audit = audit.top
        /\ row.analysis = analysis.n
    BY <2>1 DEF Job
  <2>3. jobs' = Append(jobs, row)
    BY <1>6
  <2> HIDE DEF row, Job
  <2>4. JobInOrder(row)
    BY <2>1, <2>2 DEF JobInOrder
  <2>5. /\ jobs' \in Seq(Job) /\ DOMAIN jobs' = DOMAIN jobs \cup {Len(jobs) + 1}
        /\ \A j \in DOMAIN jobs : jobs'[j] = jobs[j]
        /\ jobs'[Len(jobs) + 1] = row
    BY <1>2, <2>2, <2>3
  <2>6. ASSUME NEW j \in DOMAIN jobs' PROVE JobInOrder(jobs[j])'
    <3>1. jobs'[j] \in Job /\ JobInOrder(jobs'[j])
      BY <1>2, <2>2, <2>4, <2>5
    <3> QED
      BY <1>3, <3>1 DEF JobInOrder
  <2>7. Succeeded' = Succeeded
    BY <1>2, <2>2, <2>5 DEF Succeeded
  <2> QED
    BY <1>4, <2>5, <2>6, <2>7 DEF RelianceInv, JobsInOrder
<1> QED
  BY <1>5, <1>6 DEF EnqueueSnapshot

(* A snapshot is one more published job.                                   *)
LEMMA PublishKeeps ==
  ASSUME RelianceInv, NEW j \in DOMAIN jobs, PublishSnapshot(j)
  PROVE  JobsInOrder' /\ AuditInOrder' /\ LogTells
<1> DEFINE row == [jobs[j] EXCEPT !.step = "succeeded"]
           snapshot == [job |-> j, engine |-> jobs[j].engine, analysis |-> analysis.n,
                        standard |-> standard.active]
<1>1. /\ Recorded /\ OnlySnapshots /\ decision' = decision /\ asking' = asking
      /\ jobs[j].step = "checked"
  BY DEF PublishSnapshot, OnlySnapshots
<1>2. AuditInOrder' /\ LogTells /\ (SeededPassed => SeededPassed')
  BY <1>1, RecordedFacts DEF RelianceInv, OnlySnapshots, SeededPassed
<1>3. jobs[j] \in Job /\ j \in Nat /\ DOMAIN jobs = 1 .. Len(jobs) /\ Len(jobs) \in Nat
  BY JobFacts DEF RelianceInv
<1>4. /\ row \in Job /\ row.step = "succeeded"
      /\ row.audit = jobs[j].audit /\ row.analysis = jobs[j].analysis
  BY <1>3 DEF Job
<1>5. jobs' = [jobs EXCEPT ![j] = row]
  BY DEF PublishSnapshot
<1> HIDE DEF row
<1>6. /\ jobs' \in Seq(Job) /\ DOMAIN jobs' = DOMAIN jobs
      /\ \A k \in DOMAIN jobs' : JobInOrder(jobs[k])'
      /\ \A k \in DOMAIN jobs : jobs'[k] = IF k = j THEN row ELSE jobs[k]
  BY <1>2, <1>4, <1>5, OneJobMoves
<1>7. Succeeded' = Succeeded \cup {j} /\ j \notin Succeeded
  BY <1>1, <1>4, <1>6 DEF Succeeded
<1>8. Cardinality(Succeeded') = Cardinality(Succeeded) + 1
  <2>1. IsFiniteSet(Succeeded)
    <3>1. IsFiniteSet(1 .. Len(jobs))
      BY <1>3, FS_Interval
    <3>2. Succeeded \subseteq 1 .. Len(jobs)
      BY <1>3 DEF Succeeded
    <3> QED
      BY <3>1, <3>2, FS_Subset
  <2> QED
    BY <1>7, <2>1, FS_AddElement
<1>9. snapshot \in SnapshotRow /\ snapshots' = Append(snapshots, snapshot)
  <2>1. analysis.n \in Nat /\ standard.active \in Nat
    BY RelianceBounds DEF RelianceInv, MatterInOrder
  <2>2. jobs[j].engine \in Engine \cup {None}
    BY <1>3 DEF Job
  <2> QED
    BY <1>3, <2>1, <2>2 DEF SnapshotRow, PublishSnapshot
<1> HIDE DEF snapshot
<1>10. /\ snapshots' \in Seq(SnapshotRow) /\ Len(snapshots') = Len(snapshots) + 1
  <2>1. snapshots \in Seq(SnapshotRow)
    BY DEF RelianceInv, JobsInOrder, SnapshotRow
  <2> HIDE DEF SnapshotRow
  <2> QED
    BY <1>9, <2>1
<1>11. JobsInOrder'
  BY <1>1, <1>6, <1>8, <1>10 DEF RelianceInv, JobsInOrder, SnapshotRow
<1> QED
  BY <1>2, <1>11

LEMMA SnapshotStepKeeps ==
  ASSUME RelianceInv, SnapshotStep
  PROVE  JobsInOrder' /\ AuditInOrder' /\ LogTells /\ OnlySnapshots
<1>1. OnlySnapshots
  BY DEF SnapshotStep, AskReadiness, EnqueueSnapshot, RefuseRequest, CheckSnapshot,
     PublishSnapshot, RefuseSnapshot, RetrySnapshot
<1>2. UNCHANGED audit => AuditInOrder' /\ LogTells
  BY <1>1, LogStays DEF RelianceInv, OnlySnapshots
<1>3. SeededPassed => SeededPassed'
  BY <1>1 DEF OnlySnapshots, SeededPassed
<1>4. CASE AskReadiness \/ RefuseRequest
  <2>1. UNCHANGED <<jobs, snapshots, audit>> /\ asking' \in Evidences \cup {None}
    BY <1>4, EvidenceType DEF AskReadiness, RefuseRequest, RelianceInv
  <2>2. \A j \in DOMAIN jobs : JobInOrder(jobs[j])'
    BY <1>2, <1>3, <2>1, JobFacts, JobStays DEF RelianceInv, JobInOrder
  <2>3. JobsInOrder'
    BY <2>1, <2>2 DEF RelianceInv, JobsInOrder, Succeeded
  <2> QED
    BY <1>1, <1>2, <2>1, <2>3
<1>5. CASE EnqueueSnapshot
  BY <1>1, <1>2, <1>5, EnqueueKeeps DEF EnqueueSnapshot
<1>6. ASSUME NEW j \in DOMAIN jobs, CheckSnapshot(j) \/ RefuseSnapshot(j) \/ RetrySnapshot(j)
      PROVE  JobsInOrder' /\ AuditInOrder' /\ LogTells
  BY <1>2, <1>6, CheckKeeps, RefuseOrRetryKeeps
     DEF CheckSnapshot, RefuseSnapshot, RetrySnapshot
<1>7. ASSUME NEW j \in DOMAIN jobs, PublishSnapshot(j)
      PROVE  JobsInOrder' /\ AuditInOrder' /\ LogTells
  BY <1>7, PublishKeeps
<1> QED
  BY <1>1, <1>4, <1>5, <1>6, <1>7 DEF SnapshotStep

-----------------------------------------------------------------------------
(* The invariant.                                                          *)

LEMMA PlaybookAtFirst == PlaybookInit => PlaybookInv
<1> SUFFICES ASSUME PlaybookInit PROVE PlaybookInv
  OBVIOUS
<1>1. MaxText \in Nat /\ MaxText > 0 /\ MaxTime \in Nat /\ MaxLedger \in Nat
  BY PlaybookAssumption
<1>2. ledger = <<>> /\ ledger \in Seq(Event) /\ Len(ledger) = 0 /\ DOMAIN ledger = {}
  BY DEF PlaybookInit
<1>3. LedgerInOrder
  BY <1>1, <1>2 DEF LedgerInOrder, OneLiveReview, RevokedOnce, Active
<1>4. call \in [Person -> CallRow] /\ \A p \in Person : call[p].step = "idle"
  BY NoCallType, NoEventFacts DEF PlaybookInit
<1>5. CallsInOrder
  BY <1>4 DEF CallsInOrder, Busy
<1>6. depends = {} /\ NoCircle
  BY DEF PlaybookInit, NoCircle
<1>7. level \in [Person -> Level] /\ now \in 0 .. MaxTime
  BY <1>1 DEF PlaybookInit
<1> QED
  BY <1>1, <1>3, <1>4, <1>5, <1>6, <1>7 DEF PlaybookInv, PlaybookInit

LEMMA RelianceAtFirst == RelianceInit => RelianceInv
<1> SUFFICES ASSUME RelianceInit PROVE RelianceInv
  OBVIOUS
<1>1. /\ MaxStandards \in Nat /\ MaxAnalyses \in Nat /\ MaxAudit \in Nat
      /\ 0 \in 0 .. MaxStandards /\ 0 \in 0 .. MaxAnalyses /\ 1 \in 1 .. MaxAudit + 1
  BY RelianceBounds, PlaybookAssumption
<1>2. AuditInOrder
  BY <1>1 DEF RelianceInit, AuditInOrder
<1>3. ValidationsInOrder
  BY DEF RelianceInit, ValidationsInOrder
<1>4. MatterInOrder
  BY <1>1 DEF RelianceInit, MatterInOrder, NoAnalysis
<1>5. JobsInOrder
  <2>1. jobs = <<>> /\ snapshots = <<>> /\ asking = None
    BY DEF RelianceInit
  <2>2. Succeeded = {} /\ DOMAIN jobs = {} /\ Len(snapshots) = 0
    BY <2>1 DEF Succeeded
  <2>3. jobs \in Seq(Job)
    <3> HIDE DEF Job
    <3> QED
      BY <2>1
  <2>4. snapshots \in Seq(SnapshotRow)
    <3> HIDE DEF SnapshotRow
    <3> QED
      BY <2>1
  <2> QED
    BY <2>1, <2>2, <2>3, <2>4, FS_EmptySet DEF JobsInOrder, SnapshotRow
<1> QED
  BY <1>2, <1>3, <1>4, <1>5 DEF RelianceInv

LEMMA InitInv == Init => Inv
BY PlaybookAtFirst, RelianceAtFirst DEF Init, Inv

(* The playbook shares the audit log.                                      *)
LEMMA RelianceBesidePlaybook ==
  ASSUME RelianceInv, PlaybookNext, UNCHANGED relianceVars
  PROVE  RelianceInv'
<1>1. UNCHANGED audit \/ Recorded
  BY DEF PlaybookNext, Admit, Hold, JudgeCreate, JudgeReview, JudgeRevoke, JudgeExport, Judge,
     Append1, GiveUp, SetLevel, SetText, Tick
<1>2. /\ decision' = decision /\ analysis' = analysis
      /\ UNCHANGED <<engine, validation, standard, graph, version, authorised, asking, jobs,
                     snapshots>>
  BY DEF relianceVars
<1>3. AuditInOrder' /\ LogTells
  BY <1>1, <1>2, LogStays, RecordedFacts DEF RelianceInv
<1>4. SeededPassed => SeededPassed'
  BY <1>2 DEF SeededPassed
<1>5. JobsInOrder'
  BY <1>2, <1>3, <1>4, JobsStay
<1>6. ValidationsInOrder' /\ MatterInOrder'
  BY <1>2 DEF RelianceInv, ValidationsInOrder, MatterInOrder
<1> QED
  BY <1>3, <1>5, <1>6 DEF RelianceInv

LEMMA RelianceKeeps ==
  ASSUME RelianceInv, ValidationStep \/ GateStep \/ MatterStep \/ SnapshotStep
  PROVE  RelianceInv' /\ RunsGoOn
<1>1. CASE ValidationStep
  <2>1. RunsGoOn /\ OnlyValidation
    BY <1>1, ValidationGoesOn DEF RelianceInv, MatterInOrder
  <2>2. AuditInOrder' /\ LogTells /\ (SeededPassed => SeededPassed')
    BY <2>1, LogStays, PassedStays DEF RelianceInv, OnlyValidation
  <2>3. JobsInOrder'
    BY <2>1, <2>2, JobsStay DEF OnlyValidation
  <2>4. MatterInOrder'
    BY <2>1 DEF RelianceInv, MatterInOrder, OnlyValidation
  <2> QED
    BY <2>1, <2>2, <2>3, <2>4 DEF RelianceInv, RunsGoOn
<1>2. CASE GateStep
  <2>1. /\ MatterInOrder'
        /\ UNCHANGED <<validation, analysis, decision, asking, jobs, snapshots, audit>>
    BY <1>2, GateStepKeeps
  <2>2. RunsGoOn
    BY <2>1, RunsStay DEF RelianceInv
  <2>3. AuditInOrder' /\ LogTells /\ (SeededPassed => SeededPassed')
    BY <2>1, <2>2, LogStays, PassedStays DEF RelianceInv
  <2>4. JobsInOrder'
    BY <2>1, <2>3, JobsStay
  <2> QED
    BY <2>1, <2>2, <2>3, <2>4 DEF RelianceInv, RunsGoOn
<1>3. CASE MatterStep
  <2>1. /\ MatterInOrder' /\ AuditInOrder' /\ LogTells
        /\ UNCHANGED <<validation, asking, jobs, snapshots>>
    BY <1>3, MatterStepKeeps
  <2>2. RunsGoOn
    BY <2>1, RunsStay DEF RelianceInv
  <2>3. JobsInOrder'
    BY <2>1, <2>2, JobsStay, PassedStays
  <2> QED
    BY <2>1, <2>2, <2>3 DEF RelianceInv, RunsGoOn
<1>4. CASE SnapshotStep
  <2>1. JobsInOrder' /\ AuditInOrder' /\ OnlySnapshots
    BY <1>4, SnapshotStepKeeps
  <2>2. RunsGoOn
    BY <2>1, RunsStay DEF RelianceInv, OnlySnapshots
  <2>3. MatterInOrder'
    BY <2>1 DEF RelianceInv, MatterInOrder, OnlySnapshots
  <2> QED
    BY <2>1, <2>2, <2>3 DEF RelianceInv, RunsGoOn
<1> QED
  BY <1>1, <1>2, <1>3, <1>4

LEMMA InvStep == Inv /\ [Next]_vars => Inv'
<1> SUFFICES ASSUME Inv, [Next]_vars PROVE Inv'
  OBVIOUS
<1>1. CASE (ValidationStep \/ GateStep \/ MatterStep \/ SnapshotStep) /\ UNCHANGED playbookVars
  BY <1>1, PlaybookStays, RelianceKeeps DEF Inv
<1>2. CASE PlaybookNext /\ UNCHANGED relianceVars
  BY <1>2, PlaybookKeeps, RelianceBesidePlaybook DEF Inv
<1>3. CASE UNCHANGED vars
  <2>1. PlaybookInv'
    BY <1>3, PlaybookStays DEF Inv, vars
  <2>2. /\ UNCHANGED <<engine, validation, standard, graph, version, authorised, asking, jobs,
                       snapshots, audit>>
        /\ decision' = decision /\ analysis' = analysis
    BY <1>3 DEF vars, relianceVars
  <2>3. AuditInOrder' /\ LogTells /\ (SeededPassed => SeededPassed')
    BY <2>2, LogStays DEF Inv, RelianceInv, SeededPassed
  <2>4. JobsInOrder'
    BY <2>2, <2>3, JobsStay DEF Inv
  <2>5. ValidationsInOrder' /\ MatterInOrder'
    BY <2>2 DEF Inv, RelianceInv, ValidationsInOrder, MatterInOrder
  <2> QED
    BY <2>1, <2>3, <2>4, <2>5 DEF Inv, RelianceInv
<1> QED
  BY <1>1, <1>2, <1>3 DEF Next

(* The inductive invariant holds for ever.                                 *)
LEMMA AlwaysInOrder == Spec => []Inv
BY InitInv, InvStep, PTL DEF Spec

-----------------------------------------------------------------------------
(* The promises.                                                           *)

LEMMA InvCatalog == Inv => CatalogIsSound
<1> SUFFICES ASSUME Inv PROVE CatalogIsSound
  OBVIOUS
<1>1. ASSUME NEW p \in Person
      PROVE  /\ call[p].step \in {"idle", "admitted", "holding", "judged"}
             /\ call[p].op \in Operation /\ call[p].seen \in 0 .. MaxLedger
  BY DEF Inv, PlaybookInv, CallsInOrder, CallRow
<1>2. /\ audit.next \in 1 .. MaxAudit + 1
      /\ audit.open \in 0 .. audit.next - 1 /\ audit.top \in 0 .. audit.next - 1
  BY DEF Inv, RelianceInv, AuditInOrder
<1>3. PlaybookTypeOK
  BY <1>1, <1>2 DEF PlaybookTypeOK, Inv, PlaybookInv, LedgerInOrder
<1> QED
  BY <1>3 DEF CatalogIsSound, Inv, PlaybookInv, LedgerInOrder

LEMMA InvType == Inv => RelianceTypeOK
<1> SUFFICES ASSUME Inv PROVE RelianceTypeOK
  OBVIOUS
<1>1. ASSUME NEW i \in DOMAIN validation
      PROVE  LET run == validation[i] IN
             /\ run.status \in Terminal \cup {"RUNNING"}
             /\ run.step \in {"cases", "finalize", "bind", "give up", "bind failure", "ended"}
             /\ {run.told, run.stored, run.manifest} \subseteq [Case -> Verdict \cup {None}]
             /\ run.status \in Terminal => run.step # "cases"
  <2>1. validation[i] \in Run /\ RunInOrder(validation[i])
    BY DEF Inv, RelianceInv, ValidationsInOrder
  <2> QED
    BY <2>1 DEF Run, Results, RunInOrder, Terminal
<1>2. /\ standard.active \in 0 .. standard.made /\ standard.made \in 0 .. MaxStandards
      /\ analysis.n \in 0 .. MaxAnalyses /\ analysis.standard \in 0 .. MaxStandards
  BY DEF Inv, RelianceInv, MatterInOrder
<1>3. \A j \in DOMAIN jobs : jobs[j].step \in {"queued", "checked", "succeeded", "failed"}
  BY JobFacts DEF Inv, RelianceInv, Job
<1> QED
  BY <1>1, <1>2, <1>3 DEF RelianceTypeOK, Inv, RelianceInv, MatterInOrder, AuditInOrder,
     JobsInOrder, Succeeded

(* What the log of a playbook says is free of contradiction, whoever       *)
(* writes at the same time: an option has one review in force, a review is *)
(* revoked once, and no book has a circle of dependencies.                 *)
THEOREM CatalogIsSoundHolds == Spec => []CatalogIsSound
BY AlwaysInOrder, InvCatalog, PTL

(* The reliance gate and the snapshots keep their types; a validation that *)
(* passed has ended, and there is one snapshot for each published job.     *)
THEOREM RelianceTypeOKHolds == Spec => []RelianceTypeOK
BY AlwaysInOrder, InvType, PTL

(* An export is recorded only while it stands on live reviews of the       *)
(* present text by people who still are counsel, for every option.         *)
THEOREM ExportStandsOnLiveReviewsHolds == Spec => ExportStandsOnLiveReviews
<1> DEFINE Stands(p) ==
      call[p].step = "judged" /\ call[p].op = "export" /\ Len(ledger') > Len(ledger)
         /\ ledger'[Len(ledger')].by = p
       => \A o \in Option : \E i \in call[p].event.names :
            /\ ledger[i].option = o /\ i \notin Revoked(ledger)
            /\ ledger[i].at <= call[p].judged
            /\ call[p].judged < ledger[i].expires
            /\ ledger[i].text = text
            /\ level[ledger[i].by] = "COUNSEL"
<1>1. ASSUME Inv PROVE \A p \in Person : Stands(p)
  <2> SUFFICES ASSUME NEW p \in Person, call[p].step = "judged", call[p].op = "export",
                      NEW o \in Option
               PROVE  \E i \in call[p].event.names :
                        Cited(i, o, call[p].judged) /\ ledger[i].text = text
    BY DEF Cited
  <2>1. JudgedInOrder(p, call[p]) /\ LedgerInOrder
    BY <1>1 DEF Inv, PlaybookInv
  <2>2. PICK i \in call[p].event.names : Cited(i, o, call[p].judged)
    BY <2>1 DEF JudgedInOrder
  <2>3. i \in DOMAIN ledger /\ ledger[1].text = text
    BY <2>1, <2>2 DEF JudgedInOrder
  <2> QED
    BY <2>1, <2>2, <2>3 DEF LedgerInOrder
<1>2. Inv => [\A p \in Person : Stands(p)]_<<ledger, call>>
  BY <1>1
<1> QED
  BY <1>2, AlwaysInOrder, PTL DEF ExportStandsOnLiveReviews

(* Results, verdict and manifest of a concluded validation never change,   *)
(* whatever attempts of its steps are still under way.                     *)
THEOREM VerdictIsFinalHolds == Spec => VerdictIsFinal
<1> DEFINE Final(i) == validation[i].status \in Terminal =>
             /\ validation'[i].status = validation[i].status
             /\ validation'[i].stored = validation[i].stored
             /\ validation'[i].manifest = validation[i].stored
<1>1. ASSUME Inv, [Next]_vars PROVE [\A i \in DOMAIN validation : Final(i)]_validation
  <2>1. RunsGoOn \/ UNCHANGED validation
    BY <1>1, RelianceKeeps DEF Inv, Next, vars, relianceVars
  <2>2. ASSUME RunsGoOn, NEW i \in DOMAIN validation PROVE Final(i)
    BY <1>1, <2>2, RunFacts DEF Inv, RelianceInv, RunsGoOn, Settles, RunInOrder
  <2> QED
    BY <2>1, <2>2
<1> QED
  BY <1>1, AlwaysInOrder, PTL DEF Spec, VerdictIsFinal

(* A snapshot freezes what may be relied upon when it commits: reviewed    *)
(* evidence of the engine of the policies, which passed a complete         *)
(* validation, under the standard in force, and the analysis that was the  *)
(* latest when it was asked for.                                           *)
THEOREM RelianceIsCurrentHolds == Spec => RelianceIsCurrent
<1> DEFINE Current ==
      Len(snapshots') > Len(snapshots) =>
       LET new == snapshots'[Len(snapshots')] IN
       /\ authorised /\ version \in InForce
       /\ new.engine = Seeded /\ analysis.engine = Seeded /\ analysis.attested
       /\ analysis.standard = standard.active
       /\ new.analysis = jobs[new.job].analysis
       /\ \E i \in DOMAIN validation :
            /\ validation[i].prompt = Prompt[Seeded] /\ validation[i].status = "PASSED"
            /\ \A c \in Case : validation[i].told[c] = "pass"
<1>1. ASSUME Inv, [Next]_vars, snapshots' # snapshots
      PROVE  \E j \in DOMAIN jobs : PublishSnapshot(j)
  BY <1>1, GateStepKeeps, MatterStepKeeps, ValidationGoesOn
     DEF Inv, RelianceInv, MatterInOrder, Next, vars, relianceVars, OnlyValidation, SnapshotStep,
     AskReadiness, EnqueueSnapshot, RefuseRequest, CheckSnapshot, RefuseSnapshot, RetrySnapshot
<1>2. ASSUME Inv, NEW j \in DOMAIN jobs, PublishSnapshot(j) PROVE Current
  <2> DEFINE new == [job |-> j, engine |-> jobs[j].engine, analysis |-> analysis.n,
                     standard |-> standard.active]
  <2>1. snapshots' = Append(snapshots, new) /\ snapshots \in Seq(SnapshotRow)
    BY <1>2 DEF PublishSnapshot, Inv, RelianceInv, JobsInOrder, SnapshotRow
  <2>2. snapshots'[Len(snapshots')] = new
    <3> HIDE DEF new, SnapshotRow
    <3> QED
      BY <2>1
  <2>3. /\ jobs[j].step = "checked" /\ JobInOrder(jobs[j]) /\ Publishable(jobs[j])
    BY <1>2, JobFacts DEF PublishSnapshot, Inv, RelianceInv
  <2>4. /\ jobs[j].engine = Seeded /\ SeededPassed /\ Reviewed(Seeded)
        /\ jobs[j].analysis = analysis.n
    BY <2>3 DEF JobInOrder, Publishable, Reviewed
  <2>5. new.job = j /\ new.engine = Seeded /\ new.analysis = analysis.n
    BY <2>4
  <2> HIDE DEF new
  <2> QED
    BY <2>2, <2>3, <2>4, <2>5 DEF Publishable, Reviewed, SeededPassed
<1>3. Inv /\ [Next]_vars => [Current]_snapshots
  BY <1>1, <1>2
<1> QED
  BY <1>3, AlwaysInOrder, PTL DEF Spec, RelianceIsCurrent

=============================================================================
