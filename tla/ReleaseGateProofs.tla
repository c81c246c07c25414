------------------------- MODULE ReleaseGateProofs -------------------------
(***************************************************************************)
(* Proofs about the release gate, for any number of releases, database     *)
(* instances and people, and for every world the assumptions allow.        *)
(*                                                                         *)
(* The argument has three parts that lean on each other.  The gates        *)
(* (GatesInOrder): a running gate stands on one instance, the transaction  *)
(* it has open is on that instance and on no other gate's, and a running   *)
(* release knows that its instance is anchored and, once it is past the    *)
(* first move of the accounts, that the move is recorded there.  The       *)
(* databases (DatabasesInOrder): a receipt tells the truth and moved       *)
(* accounts have one key each, record by record, so that a copy of a       *)
(* database is as good as the original.  The account script                *)
(* (ScriptInOrder): what it read before the move either is untouched by    *)
(* the move or makes it refuse.  A database that somebody stands on is     *)
(* never replaced by a copy and only grows (Grows).                        *)
(***************************************************************************)
EXTENDS ReleaseGate, TLAPS

GateRow == [is : {"waiting", "running", "failed", "accepted"}, at : Nat,
            host : Instances \cup {None}, boot : Nat, held : BOOLEAN,
            open : Instances \cup {None}, asserted : Instances \cup {None}]

(* What gate g, in state r, may count on in the databases d.               *)
GateOK(d, g, r) ==
  /\ r \in GateRow /\ r.at \in DOMAIN Plan(g)
  /\ r.is # "running" =>
       r.at = 1 /\ r.host = None /\ r.open = None /\ r.asserted = None /\ ~r.held
  /\ r.is = "running" => r.host \in Instances
  /\ r.open # None => r.open = r.host
  /\ r.asserted # None => r.asserted = r.host /\ d[r.asserted].boot = r.boot
  /\ (r.open # None /\ Plan(g)[r.at] = "app") => d[r.open].history <= Length[g]
  /\ (g \in Releases /\ r.is = "running") =>
       /\ d[r.host].anchored
       /\ r.at >= 5 => d[r.host].moved

GatesInOrder ==
  /\ gate \in [Gates -> GateRow]
  /\ \A g \in Gates : GateOK(db, g, gate[g])
  /\ \A g, h \in Gates : (gate[g].open # None /\ gate[g].open = gate[h].open) => g = h

(* One key for every account, no old subject, the key of the token.        *)
OneKeyEach(key) ==
  /\ \A p \in Persons : key[p] # "sub"
  /\ ~Shared(key)
  /\ \A p \in Persons : Verified(p) => key[p] \in {None, p}

RecordOK(d) ==
  /\ d \in Databases
  /\ \A g \in d.receipts :
       d.anchored /\ d.identity # None /\ d.history >= Length[g] /\ d.moved
  /\ d.moved => OneKeyEach(d.key)

DatabasesInOrder ==
  /\ db \in [Instances -> Databases]
  /\ \A i \in Instances : RecordOK(db[i])

(* What a person's key, seen by the script, can have become, and where the *)
(* script takes it.                                                        *)
PlanOK(p, from, to, key) ==
  /\ from = None => to = None /\ key \in {None, p}
  /\ from # None => to \in Persons
  /\ from \in Persons => to = p
  /\ from = p => key = p

ScriptInOrder ==
  /\ script \in [at : {"idle", "planned", "ended"}, on : Instances \cup {None},
                 from : [Persons -> Keys], to : [Persons -> Keys]]
  /\ script.at = "planned" =>
       /\ script.on \in Instances
       /\ \A p \in Persons : PlanOK(p, script.from[p], script.to[p], db[script.on].key[p])

ServedInOrder ==
  /\ served \in [Releases -> Instances \cup {None}]
  /\ ServedIsReleased

(* What does not depend on the rest.                                       *)
SurroundingsInOrder ==
  /\ route \in [Credentials -> Instances]
  /\ proof \in [Persons -> {None, "verified", "unverifiable"}]
  /\ export \in [Persons -> Persons \cup {None}]
  /\ faults \in Nat

Inv ==
  /\ GatesInOrder /\ DatabasesInOrder /\ ScriptInOrder /\ ServedInOrder
  /\ SurroundingsInOrder

(* What nobody takes from a database that somebody stands on.              *)
KeysKept(key, after) ==
  \A p \in Persons : /\ key[p] = p => after[p] = p
                     /\ key[p] = None => after[p] \in {None, p}
Grows(d, e) ==
  /\ d.anchored => e.anchored
  /\ d.moved => e.moved
  /\ d.receipts \subseteq e.receipts
  /\ KeysKept(d.key, e.key)

StandsStill == \A i \in Instances : InUse(i) => Grows(db[i], db'[i])
OpenStays(h) ==
  gate[h].open # None => db'[gate[h].open].history = db[gate[h].open].history
BootStays(h) ==
  gate[h].asserted # None => db'[gate[h].asserted].boot = db[gate[h].asserted].boot
GroundStays(g) == \A h \in Gates \ {g} : OpenStays(h) /\ BootStays(h)

-----------------------------------------------------------------------------
(* Lemmas about the operators of the model.                                *)

(* The children of a gate, by their place.                                 *)
LEMMA PlanFacts ==
  /\ \A g \in Gates : /\ Len(Plan(g)) \in Nat \ {0}
                      /\ DOMAIN Plan(g) = 1 .. Len(Plan(g))
  /\ \A g \in Releases : \A n \in DOMAIN Plan(g) :
       /\ n = 4 => Plan(g)[n] = "auth"
       /\ Plan(g)[n] = "establish" => n = 9
       /\ Plan(g)[n] # "anchor" /\ Plan(g)[n] # "readers"
  /\ \A n \in DOMAIN Plan(Bootstrap) : Plan(Bootstrap)[n] \in {"anchor", "readers"}
<1>1. \A g \in Releases : g # Bootstrap
  BY GateAssumption
<1>3. Plan(Bootstrap) = <<"anchor", "readers">>
  BY DEF Plan
<1>4. /\ Len(Plan(Bootstrap)) = 2 /\ DOMAIN Plan(Bootstrap) = 1 .. 2
      /\ Plan(Bootstrap)[1] = "anchor" /\ Plan(Bootstrap)[2] = "readers"
  BY <1>3
<1>5. ASSUME NEW g \in Releases
      PROVE  /\ Len(Plan(g)) = 11 /\ DOMAIN Plan(g) = 1 .. 11
             /\ Plan(g)[1] = "preflight" /\ Plan(g)[2] = "preflight" /\ Plan(g)[3] = "app"
             /\ Plan(g)[4] = "auth" /\ Plan(g)[5] = "preflight" /\ Plan(g)[6] = "app"
             /\ Plan(g)[7] = "auth" /\ Plan(g)[8] = "verify" /\ Plan(g)[9] = "establish"
             /\ Plan(g)[10] = "read back" /\ Plan(g)[11] = "principal"
  <2> DEFINE s == <<"preflight", "preflight", "app", "auth", "preflight", "app", "auth",
                    "verify", "establish", "read back", "principal">>
  <2>1. Plan(g) = s
    BY <1>1 DEF Plan
  <2>2. Len(s) = 11 /\ DOMAIN s = 1 .. 11
    OBVIOUS
  <2>3. /\ s[1] = "preflight" /\ s[2] = "preflight" /\ s[3] = "app" /\ s[4] = "auth"
        /\ s[5] = "preflight" /\ s[6] = "app" /\ s[7] = "auth" /\ s[8] = "verify"
        /\ s[9] = "establish" /\ s[10] = "read back" /\ s[11] = "principal"
    OBVIOUS
  <2> HIDE DEF s
  <2> QED
    BY <2>1, <2>2, <2>3
<1>6. ASSUME NEW g \in Releases, NEW n \in DOMAIN Plan(g)
      PROVE  /\ n = 4 => Plan(g)[n] = "auth"
             /\ Plan(g)[n] = "establish" => n = 9
             /\ Plan(g)[n] # "anchor" /\ Plan(g)[n] # "readers"
  <2>1. n \in 1 .. 11
    BY <1>5
  <2>2. n \in {1, 2, 3, 4, 5, 6, 7, 8, 9, 10, 11}
    BY <2>1
  <2> QED
    BY <2>2, <1>5
<1>7. ASSUME NEW n \in DOMAIN Plan(Bootstrap)
      PROVE  Plan(Bootstrap)[n] \in {"anchor", "readers"}
  <2>1. n = 1 \/ n = 2
    BY <1>4
  <2> QED
    BY <2>1, <1>4
<1>8. ASSUME NEW g \in Gates
      PROVE  Len(Plan(g)) \in Nat \ {0} /\ DOMAIN Plan(g) = 1 .. Len(Plan(g))
  <2>1. CASE g = Bootstrap
    BY <2>1, <1>4
  <2>2. CASE g \in Releases
    <3>1. Len(Plan(g)) = 11 /\ DOMAIN Plan(g) = 1 .. 11
      BY <2>2, <1>5
    <3> QED
      BY <3>1
  <2> QED
    BY <2>1, <2>2 DEF Gates
<1> QED
  BY <1>6, <1>7, <1>8

(* A database is as good after a step that leaves it alone.                *)
LEMMA GrowsSelf == \A d : Grows(d, d)
BY DEF Grows, KeysKept

(* Copies and single writes keep the databases in order, record by record. *)
LEMMA OneDatabase ==
  ASSUME DatabasesInOrder, proof' = proof, NEW i \in Instances, NEW d, RecordOK(d),
         db' = [db EXCEPT ![i] = d]
  PROVE  DatabasesInOrder'
<1>1. db \in [Instances -> Databases] /\ d \in Databases
  BY DEF DatabasesInOrder, RecordOK
<1>2. db' \in [Instances -> Databases]
  BY <1>1
<1>3. \A j \in Instances : db'[j] = IF j = i THEN d ELSE db[j]
  BY <1>1
<1>4. \A j \in Instances : RecordOK(db'[j])
  BY <1>3 DEF DatabasesInOrder
<1> QED
  BY <1>2, <1>4 DEF DatabasesInOrder, RecordOK, OneKeyEach, Verified

(* The databases stay in order when nobody writes them.                    *)
LEMMA DatabasesStay ==
  ASSUME DatabasesInOrder, UNCHANGED <<db, proof>>
  PROVE  DatabasesInOrder'
BY DEF DatabasesInOrder, RecordOK, OneKeyEach, Verified

(* What another gate may count on outlives a step that lets the databases  *)
(* grow and leaves alone the history under its open transaction, and the   *)
(* start of the instance that passed its last assertion.                   *)
LEMMA OthersKept ==
  ASSUME GatesInOrder, NEW h \in Gates, StandsStill, OpenStays(h), BootStays(h)
  PROVE  GateOK(db', h, gate[h])
<1>1. GateOK(db, h, gate[h])
  BY DEF GatesInOrder
<1>2. gate[h].host \in Instances => Grows(db[gate[h].host], db'[gate[h].host])
  BY DEF StandsStill, InUse
<1> QED
  BY <1>1, <1>2 DEF GateOK, Grows, OpenStays, BootStays

(* The script's plan outlives a step that keeps the keys it may rewrite.   *)
LEMMA ScriptKept ==
  ASSUME ScriptInOrder, script' = script,
         script.at = "planned" => KeysKept(db[script.on].key, db'[script.on].key)
  PROVE  ScriptInOrder'
<1>1. ASSUME script.at = "planned", NEW p \in Persons
      PROVE  PlanOK(p, script.from[p], script.to[p], db'[script.on].key[p])
  BY <1>1 DEF ScriptInOrder, PlanOK, KeysKept
<1> QED
  BY <1>1 DEF ScriptInOrder

(* One gate moves and the databases grow.                                  *)
LEMMA OneGateMoves ==
  ASSUME Inv, NEW g \in Gates, NEW r, gate' = [gate EXCEPT ![g] = r], served' = served,
         gate[g].is # "accepted", GateOK(db', g, r),
         r.open # None => \A h \in Gates \ {g} : gate[h].open # r.open,
         StandsStill, GroundStays(g)
  PROVE  GatesInOrder' /\ ServedInOrder'
<1>1. gate \in [Gates -> GateRow] /\ r \in GateRow
  BY DEF Inv, GatesInOrder, GateOK
<1>2. \A h \in Gates : gate'[h] = IF h = g THEN r ELSE gate[h]
  BY <1>1
<1>3. ASSUME NEW h \in Gates PROVE GateOK(db', h, gate'[h])
  <2>1. CASE h = g
    BY <2>1, <1>2
  <2>2. CASE h # g
    <3>1. GateOK(db', h, gate[h])
      BY <2>2, OthersKept DEF Inv, GroundStays
    <3> QED
      BY <3>1, <2>2, <1>2
  <2> QED
    BY <2>1, <2>2
<1>4. ASSUME NEW h \in Gates, NEW k \in Gates,
             gate'[h].open # None, gate'[h].open = gate'[k].open
      PROVE  h = k
  BY <1>2, <1>4 DEF Inv, GatesInOrder
<1>5. GatesInOrder'
  BY <1>1, <1>3, <1>4 DEF GatesInOrder
<1>6. ASSUME NEW h \in Releases, served[h] # None
      PROVE  h \in db'[served[h]].receipts /\ gate'[h].is = "accepted"
  <2>1. served[h] \in Instances /\ h \in db[served[h]].receipts /\ gate[h].is = "accepted"
    BY <1>6 DEF Inv, ServedInOrder, ServedIsReleased
  <2>2. Grows(db[served[h]], db'[served[h]])
    BY <2>1 DEF StandsStill, InUse
  <2> QED
    BY <2>1, <2>2, <1>2 DEF Grows, Gates
<1>7. ServedInOrder'
  BY <1>6 DEF Inv, ServedInOrder, ServedIsReleased
<1> QED
  BY <1>5, <1>7

(* A gate that fails gives up all it has.                                  *)
LEMMA FailsKeeps ==
  ASSUME Inv, NEW g \in Gates, Fails(g), gate[g].is # "accepted", served' = served,
         StandsStill, GroundStays(g)
  PROVE  GatesInOrder' /\ ServedInOrder'
<1> DEFINE r == [Waiting EXCEPT !.is = "failed"]
<1>1. /\ r \in GateRow /\ r.is = "failed" /\ r.at = 1 /\ r.host = None /\ r.open = None
      /\ r.asserted = None /\ ~r.held
  BY DEF Waiting, GateRow
<1>2. gate' = [gate EXCEPT ![g] = r]
  BY DEF Fails
<1>3. 1 \in DOMAIN Plan(g)
  BY PlanFacts
<1> HIDE DEF r
<1>4. GateOK(db', g, r)
  BY <1>1, <1>3 DEF GateOK
<1> QED
  BY <1>1, <1>2, <1>4, OneGateMoves

(* A gate goes on to its next child, or is accepted after the last one; a  *)
(* release that leaves its fourth child has moved the accounts.            *)
LEMMA ProceedsKeeps ==
  ASSUME Inv, NEW g \in Gates, Proceeds(g), gate[g].is = "running", served' = served,
         (g \in Releases /\ gate[g].at = 4) => db'[gate[g].host].moved,
         StandsStill, GroundStays(g)
  PROVE  GatesInOrder' /\ ServedInOrder'
<1>1. gate[g] \in GateRow /\ GateOK(db, g, gate[g]) /\ gate[g].host \in Instances
  BY DEF Inv, GatesInOrder, GateOK
<1>2. CASE gate[g].at = Len(Plan(g))
  <2> DEFINE r == [Waiting EXCEPT !.is = "accepted"]
  <2>1. /\ r \in GateRow /\ r.is = "accepted" /\ r.at = 1 /\ r.host = None
        /\ r.open = None /\ r.asserted = None /\ ~r.held
    BY DEF Waiting, GateRow
  <2>2. gate' = [gate EXCEPT ![g] = r]
    BY <1>2 DEF Proceeds
  <2>3. 1 \in DOMAIN Plan(g)
    BY PlanFacts
  <2> HIDE DEF r
  <2>4. GateOK(db', g, r)
    BY <2>1, <2>3 DEF GateOK
  <2> QED
    BY <2>1, <2>2, <2>4, OneGateMoves
<1>3. CASE gate[g].at # Len(Plan(g))
  <2> DEFINE next == gate[g].at + 1
             r == [gate[g] EXCEPT !.at = next, !.open = None, !.asserted = None]
  <2>0. next \in Nat
    BY <1>1 DEF GateRow
  <2>2. gate' = [gate EXCEPT ![g] = r]
    BY <1>3 DEF Proceeds
  <2> HIDE DEF next
  <2>1. /\ r \in GateRow /\ r.is = "running" /\ r.at = next
        /\ r.host = gate[g].host /\ r.open = None /\ r.asserted = None
    BY <1>1, <2>0 DEF GateRow
  <2>3. next \in DOMAIN Plan(g)
    BY <1>1, <1>3, PlanFacts DEF GateOK, next
  <2>4. Grows(db[gate[g].host], db'[gate[g].host])
    BY <1>1 DEF StandsStill, InUse
  <2> HIDE DEF r
  <2>5. GateOK(db', g, r)
    <3>1. (g \in Releases) => db'[r.host].anchored
      BY <1>1, <2>1, <2>4 DEF GateOK, Grows
    <3>2. (g \in Releases /\ r.at >= 5) => db'[r.host].moved
      <4>1. gate[g].at \in Nat
        BY <1>1 DEF GateRow
      <4>2. CASE gate[g].at = 4
        BY <4>2, <2>1
      <4>3. CASE gate[g].at # 4
        BY <4>1, <4>3, <1>1, <2>1, <2>4 DEF GateOK, Grows, next
      <4> QED
        BY <4>2, <4>3
    <3> QED
      BY <1>1, <2>1, <2>3, <3>1, <3>2 DEF GateOK
  <2> QED
    BY <2>1, <2>2, <2>5, OneGateMoves
<1> QED
  BY <1>2, <1>3

(* A write to one database that lets it grow disturbs nobody.              *)
LEMMA OneWrite ==
  ASSUME DatabasesInOrder, NEW i \in Instances, NEW d, db' = [db EXCEPT ![i] = d],
         Grows(db[i], d)
  PROVE  /\ StandsStill
         /\ \A j \in Instances : Grows(db[j], db'[j])
         /\ \A j \in Instances \ {i} : db'[j] = db[j]
         /\ db'[i] = d
<1>1. db \in [Instances -> Databases]
  BY DEF DatabasesInOrder
<1>2. db'[i] = d /\ \A j \in Instances \ {i} : db'[j] = db[j]
  BY <1>1
<1>3. ASSUME NEW j \in Instances PROVE Grows(db[j], db'[j])
  <2>1. CASE j = i
    BY <2>1, <1>2
  <2>2. CASE j # i
    <3>1. db'[j] = db[j]
      BY <2>2, <1>2
    <3> QED
      BY <3>1, GrowsSelf
  <2> QED
    BY <2>1, <2>2
<1> QED
  BY <1>2, <1>3 DEF StandsStill

(* Nobody is disturbed when nothing is written.                            *)
LEMMA NoWrite ==
  ASSUME NEW g \in Gates, db' = db
  PROVE  StandsStill /\ GroundStays(g)
BY GrowsSelf DEF StandsStill, GroundStays, OpenStays, BootStays

-----------------------------------------------------------------------------
(* The gates.                                                              *)

(* A gate with a child under way runs, and its fourth child moves accounts. *)
LEMMA StepFacts ==
  ASSUME Inv, NEW g \in Gates, Step(g) # None
  PROVE  /\ gate[g].is = "running" /\ gate[g].host \in Instances
         /\ Step(g) = Plan(g)[gate[g].at] /\ gate[g].at \in DOMAIN Plan(g)
         /\ (g \in Releases /\ gate[g].at = 4) => Step(g) = "auth"
         /\ Step(g) \notin {"anchor", "readers"} => g \in Releases
<1>1. gate[g].is = "running" /\ Step(g) = Plan(g)[gate[g].at]
  BY DEF Step
<1>2. GateOK(db, g, gate[g])
  BY DEF Inv, GatesInOrder
<1> QED
  BY <1>1, <1>2, PlanFacts DEF GateOK, Gates

(* A child that writes nothing, and is not the move of the accounts.       *)
LEMMA QuietChild ==
  ASSUME Inv, NEW g \in Gates, Step(g) # None, Step(g) # "auth",
         Fails(g) \/ Proceeds(g), Unchanged, db' = db
  PROVE  Inv'
<1>1. gate[g].is = "running" /\ ~(g \in Releases /\ gate[g].at = 4)
  BY StepFacts
<1>2. StandsStill /\ GroundStays(g)
  BY NoWrite
<1>3. GatesInOrder' /\ ServedInOrder'
  BY <1>1, <1>2, FailsKeeps, ProceedsKeeps DEF Unchanged
<1>4. DatabasesInOrder'
  BY DatabasesStay DEF Inv, Unchanged
<1>5. ScriptInOrder' /\ SurroundingsInOrder'
  BY DEF Inv, ScriptInOrder, SurroundingsInOrder, Unchanged
<1> QED
  BY <1>3, <1>4, <1>5 DEF Inv

(* A child that ends its gate before it wrote anything.                    *)
LEMMA FailingChild ==
  ASSUME Inv, NEW g \in Gates, gate[g].is # "accepted", Fails(g), Unchanged, db' = db
  PROVE  Inv'
<1>1. StandsStill /\ GroundStays(g)
  BY NoWrite
<1>2. GatesInOrder' /\ ServedInOrder'
  BY <1>1, FailsKeeps DEF Unchanged
<1>3. DatabasesInOrder'
  BY DatabasesStay DEF Inv, Unchanged
<1>4. ScriptInOrder' /\ SurroundingsInOrder'
  BY DEF Inv, ScriptInOrder, SurroundingsInOrder, Unchanged
<1> QED
  BY <1>2, <1>3, <1>4 DEF Inv

(* A child that writes one database and goes on.                           *)
LEMMA WritingChild ==
  ASSUME Inv, NEW g \in Gates, Step(g) # None, Proceeds(g), Unchanged,
         NEW i \in Instances, NEW d, db' = [db EXCEPT ![i] = d],
         RecordOK(d), Grows(db[i], d),
         (g \in Releases /\ gate[g].at = 4) => i = gate[g].host /\ d.moved,
         d.history # db[i].history => i = gate[g].open, d.boot = db[i].boot
  PROVE  Inv'
<1>1. gate[g].is = "running"
  BY StepFacts
<1>2. /\ StandsStill /\ \A j \in Instances : Grows(db[j], db'[j])
      /\ \A j \in Instances \ {i} : db'[j] = db[j]
      /\ db'[i] = d
  BY OneWrite DEF Inv
<1>3. GroundStays(g)
  <2>1. ASSUME NEW h \in Gates \ {g}, gate[h].open # None
        PROVE  db'[gate[h].open].history = db[gate[h].open].history
    <3>1. gate[h].open \in Instances
      BY <2>1 DEF Inv, GatesInOrder, GateRow
    <3>2. gate[h].open = gate[g].open => FALSE
      BY <2>1 DEF Inv, GatesInOrder
    <3> QED
      BY <3>1, <3>2, <1>2
  <2>2. ASSUME NEW h \in Gates \ {g}, gate[h].asserted # None
        PROVE  db'[gate[h].asserted].boot = db[gate[h].asserted].boot
    <3>1. gate[h].asserted \in Instances
      BY <2>2 DEF Inv, GatesInOrder, GateRow
    <3> QED
      BY <3>1, <1>2
  <2> QED
    BY <2>1, <2>2 DEF GroundStays, OpenStays, BootStays
<1>4. GatesInOrder' /\ ServedInOrder'
  BY <1>1, <1>2, <1>3, ProceedsKeeps DEF Unchanged
<1>5. DatabasesInOrder'
  BY OneDatabase DEF Inv, Unchanged
<1>6. ScriptInOrder'
  <2>1. script.at = "planned" => script.on \in Instances
    BY DEF Inv, ScriptInOrder
  <2>2. script.at = "planned" => KeysKept(db[script.on].key, db'[script.on].key)
    BY <2>1, <1>2 DEF Grows
  <2> QED
    BY <2>2, ScriptKept DEF Inv, Unchanged
<1>7. SurroundingsInOrder'
  BY DEF Inv, SurroundingsInOrder, Unchanged
<1> QED
  BY <1>4, <1>5, <1>6, <1>7 DEF Inv

(* The read-only children.                                                 *)
LEMMA ReadersKeep ==
  ASSUME Inv, NEW g \in Gates,
         Preflight(g) \/ VerifyTarget(g) \/ VerifyPrincipal(g) \/ VerifyReaders(g)
           \/ ReadBack(g)
  PROVE  Inv'
<1>1. Step(g) \in {"preflight", "verify", "principal", "readers", "read back"}
  BY DEF Preflight, VerifyTarget, VerifyPrincipal, VerifyReaders, ReadBack
<1>2. Step(g) # None /\ Step(g) # "auth"
  BY <1>1 DEF None
<1>3. (Fails(g) \/ Proceeds(g)) /\ Unchanged /\ db' = db
  BY DEF Preflight, VerifyTarget, VerifyPrincipal, VerifyReaders, ReadBack, Settles
<1> QED
  BY <1>2, <1>3, QuietChild

(* The parent proves the instance it will stand on.                        *)
LEMMA BindKeeps ==
  ASSUME Inv, NEW g \in Gates, Bind(g)
  PROVE  Inv'
<1> DEFINE i == route["migrator"]
           r == [gate[g] EXCEPT !.is = "running", !.host = i, !.boot = Fingerprint(i),
                                !.held = TRUE]
<1>1. gate[g].is = "waiting" /\ gate[g] \in GateRow /\ GateOK(db, g, gate[g])
  BY DEF Bind, Inv, GatesInOrder
<1>2. i \in Instances /\ db[i] \in Databases
  BY DEF Inv, SurroundingsInOrder, Credentials, DatabasesInOrder
<1>3. CASE gate' = [gate EXCEPT ![g] = r] /\ (g \in Releases => Anchored(i))
  <2>1. Fingerprint(i) \in Nat
    BY <1>2 DEF Fingerprint, Databases
  <2>2. /\ r \in GateRow /\ r.is = "running" /\ r.host = i /\ r.open = gate[g].open
        /\ r.at = gate[g].at /\ r.asserted = gate[g].asserted
    BY <1>1, <1>2, <2>1 DEF GateRow
  <2>3. gate[g].at = 1 /\ gate[g].open = None /\ gate[g].asserted = None /\ 1 \in DOMAIN Plan(g)
    BY <1>1 DEF GateOK
  <2> HIDE DEF r, i
  <2>4. GateOK(db, g, r)
    BY <1>2, <1>3, <2>2, <2>3 DEF GateOK, Anchored
  <2>5. db' = db /\ Unchanged
    BY DEF Bind
  <2>6. GateOK(db', g, r)
    BY <2>4, <2>5
  <2>7. StandsStill /\ GroundStays(g)
    BY <2>5, NoWrite
  <2>8. GatesInOrder' /\ ServedInOrder'
    BY <1>1, <1>3, <2>2, <2>3, <2>5, <2>6, <2>7, OneGateMoves DEF Unchanged
  <2> QED
    BY <2>5, <2>8, DatabasesStay
       DEF Inv, ScriptInOrder, SurroundingsInOrder, Unchanged
<1>4. CASE Fails(g)
  BY <1>1, <1>4, FailingChild DEF Bind
<1> QED
  BY <1>3, <1>4 DEF Bind

(* A transaction opens where no other gate has one.                        *)
LEMMA OpenKeeps ==
  ASSUME Inv, NEW g \in Gates, Open(g)
  PROVE  Inv'
<1> DEFINE i == route["migrator"]
           r == [gate[g] EXCEPT !.open = i]
<1>1. Step(g) # None
  BY DEF Open, Writes, None
<1>2. /\ gate[g] \in GateRow /\ GateOK(db, g, gate[g]) /\ gate[g].is = "running"
      /\ Step(g) = Plan(g)[gate[g].at] /\ i \in Instances
  BY <1>1, StepFacts DEF Inv, GatesInOrder, SurroundingsInOrder, Credentials
<1>3. CASE gate' = [gate EXCEPT ![g].open = i] /\ Opens(g, i)
  <2>1. /\ r \in GateRow /\ r.is = "running" /\ r.host = gate[g].host /\ r.open = i
        /\ r.at = gate[g].at /\ r.asserted = gate[g].asserted /\ r.boot = gate[g].boot
    BY <1>2 DEF GateRow
  <2>2. gate' = [gate EXCEPT ![g] = r]
    BY <1>3 DEF Inv, GatesInOrder
  <2>3. i = gate[g].host /\ (Step(g) = "app" => db[i].history <= Length[g])
    BY <1>3 DEF Opens, Challenged, PrefixOf
  <2>4. \A h \in Gates \ {g} : gate[h].open # i
    BY DEF Open, LockFree
  <2> HIDE DEF r, i
  <2>5. GateOK(db, g, r)
    BY <1>2, <2>1, <2>3 DEF GateOK
  <2>6. db' = db /\ Unchanged
    BY DEF Open
  <2>7. GateOK(db', g, r)
    BY <2>5, <2>6
  <2>8. StandsStill /\ GroundStays(g)
    BY <2>6, NoWrite
  <2>9. GatesInOrder' /\ ServedInOrder'
    BY <1>2, <2>1, <2>2, <2>4, <2>6, <2>7, <2>8, OneGateMoves DEF Unchanged
  <2> QED
    BY <2>6, <2>9, DatabasesStay
       DEF Inv, ScriptInOrder, SurroundingsInOrder, Unchanged
<1>4. CASE Fails(g)
  BY <1>2, <1>4, FailingChild DEF Open
<1> QED
  BY <1>3, <1>4 DEF Open

(* The last assertion passes only on the instance the gate stands on.      *)
LEMMA AssertKeeps ==
  ASSUME Inv, NEW g \in Gates, NEW i, gate[g].is = "running", Unchanged, db' = db,
         \/ Challenged(g, i) /\ gate' = [gate EXCEPT ![g].asserted = i]
         \/ Fails(g)
  PROVE  Inv'
<1> DEFINE r == [gate[g] EXCEPT !.asserted = i]
<1>1. /\ gate[g] \in GateRow /\ GateOK(db, g, gate[g]) /\ gate[g].host \in Instances
  BY DEF Inv, GatesInOrder, GateOK
<1>2. CASE Challenged(g, i) /\ gate' = [gate EXCEPT ![g].asserted = i]
  <2>1. i \in Instances /\ i = gate[g].host /\ db[i].boot = gate[g].boot
    BY <1>1, <1>2 DEF Challenged, Fingerprint
  <2>2. /\ r \in GateRow /\ r.is = gate[g].is /\ r.host = gate[g].host
        /\ r.open = gate[g].open /\ r.at = gate[g].at /\ r.asserted = i
        /\ r.boot = gate[g].boot
    BY <1>1, <2>1 DEF GateRow
  <2>3. gate' = [gate EXCEPT ![g] = r]
    BY <1>2 DEF Inv, GatesInOrder
  <2>4. \A h \in Gates \ {g} : gate[g].open # None => gate[h].open # gate[g].open
    BY DEF Inv, GatesInOrder
  <2> HIDE DEF r
  <2>5. GateOK(db', g, r)
    BY <1>1, <2>1, <2>2 DEF GateOK
  <2>6. StandsStill /\ GroundStays(g)
    BY NoWrite
  <2>7. GatesInOrder' /\ ServedInOrder'
    BY <2>2, <2>3, <2>4, <2>5, <2>6, OneGateMoves DEF Unchanged
  <2> QED
    BY <2>7, DatabasesStay DEF Inv, ScriptInOrder, SurroundingsInOrder, Unchanged
<1>3. CASE Fails(g)
  BY <1>3, FailingChild
<1> QED
  BY <1>2, <1>3

(* The last assertion of the writing children, and the one of the anchor.  *)
LEMMA AssertionsKeep ==
  ASSUME Inv, NEW g \in Gates, AssertAgain(g) \/ AssertAnchor(g)
  PROVE  Inv'
<1>1. CASE AssertAgain(g)
  <2>1. gate[g].is = "running"
    BY <1>1 DEF AssertAgain, Inv, GatesInOrder, GateOK
  <2> QED
    BY <1>1, <2>1, AssertKeeps DEF AssertAgain
<1>2. CASE AssertAnchor(g)
  <2>1. gate[g].is = "running"
    BY <1>2, StepFacts DEF AssertAnchor, None
  <2> QED
    BY <1>2, <2>1, AssertKeeps DEF AssertAnchor
<1> QED
  BY <1>1, <1>2

(* What every transaction of a release knows of the database it is in.     *)
LEMMA TransactionFacts ==
  ASSUME Inv, NEW g \in Gates, Step(g) \in Writes, gate[g].open # None
  PROVE  /\ g \in Releases /\ gate[g].open \in Instances /\ gate[g].open = gate[g].host
         /\ RecordOK(db[gate[g].open]) /\ db[gate[g].open].anchored
         /\ Step(g) = "app" => db[gate[g].open].history <= Length[g]
         /\ Step(g) = "establish" => db[gate[g].open].moved
         /\ Length[g] \in Nat \ {0}
         /\ (g \in Releases /\ gate[g].at = 4) => Step(g) = "auth"
<1>1. Step(g) # None /\ Step(g) \notin {"anchor", "readers"}
  BY DEF Writes, None
<1>2. /\ g \in Releases /\ gate[g].is = "running" /\ Step(g) = Plan(g)[gate[g].at]
      /\ gate[g].at \in DOMAIN Plan(g) /\ gate[g].host \in Instances
      /\ gate[g].at = 4 => Step(g) = "auth"
  BY <1>1, StepFacts
<1>3. GateOK(db, g, gate[g]) /\ gate[g].open = gate[g].host
  BY DEF Inv, GatesInOrder, GateOK
<1>4. Step(g) = "establish" => gate[g].at = 9
  BY <1>2, PlanFacts
<1>5. RecordOK(db[gate[g].open])
  BY <1>2, <1>3 DEF Inv, DatabasesInOrder
<1> QED
  BY <1>2, <1>3, <1>4, <1>5, GateAssumption DEF GateOK

(* The migrations of a manifest are only ever appended to its prefix.      *)
LEMMA MigrateAppKeeps ==
  ASSUME Inv, NEW g \in Gates, MigrateApp(g)
  PROVE  Inv'
<1> DEFINE i == gate[g].open
           identity == IF Pristine(i) THEN i ELSE db[i].identity
           d == [db[i] EXCEPT !.history = Length[g], !.identity = identity]
<1>1. Step(g) = "app" /\ i # None /\ Unchanged
  BY DEF MigrateApp, Commit
<1>2. /\ g \in Releases /\ i \in Instances /\ RecordOK(db[i]) /\ gate[g].at # 4
      /\ db[i].history <= Length[g] /\ Length[g] \in Nat
  BY <1>1, TransactionFacts DEF Writes
<1>3. db[i] \in Databases /\ identity \in Instances \cup {None}
      /\ (db[i].identity # None => identity # None)
  BY <1>1, <1>2 DEF RecordOK, Databases
<1>4. CASE Proceeds(g) /\ db' = [db EXCEPT ![i] = d]
  <2> HIDE DEF identity
  <2>1. /\ d \in Databases /\ d.receipts = db[i].receipts /\ d.anchored = db[i].anchored
        /\ d.moved = db[i].moved /\ d.key = db[i].key /\ d.identity = identity
        /\ d.history = Length[g] /\ d.boot = db[i].boot
    BY <1>2, <1>3 DEF Databases
  <2> HIDE DEF d
  <2>2. \A h \in d.receipts : d.history >= Length[h]
    <3> SUFFICES ASSUME NEW h \in db[i].receipts PROVE Length[g] >= Length[h]
      BY <2>1
    <3>1. db[i].history >= Length[h] /\ db[i].history \in Nat /\ Length[h] \in Nat
      BY <1>2, <1>3, GateAssumption DEF RecordOK, Databases
    <3> QED
      BY <3>1, <1>2
  <2>3. RecordOK(d)
    BY <1>2, <1>3, <2>1, <2>2 DEF RecordOK
  <2>4. Grows(db[i], d)
    BY <2>1 DEF Grows, KeysKept
  <2>5. Step(g) # None
    BY <1>1 DEF None
  <2> QED
    BY <1>1, <1>2, <1>4, <2>1, <2>3, <2>4, <2>5, WritingChild
<1>5. CASE Fails(g) /\ db' = db
  BY <1>1, <1>5, FailingChild DEF Step, None
<1> QED
  BY <1>4, <1>5 DEF MigrateApp, Commit

(* The plan of the move takes every account to one key of its own, and an  *)
(* account that has its person's key keeps it.                             *)
LEMMA PlannedKeys ==
  ASSUME Inv, NEW i \in Instances, Acceptable(i)
  PROVE  /\ Planned(i) \in [Persons -> Keys] /\ OneKeyEach(Planned(i))
         /\ KeysKept(db[i].key, Planned(i))
<1>1. /\ RecordOK(db[i]) /\ db[i].key \in [Persons -> Keys]
  BY DEF Inv, DatabasesInOrder, RecordOK, Databases
<1>2. \A p \in Persons : export[p] \in Persons \cup {None}
  BY DEF Inv, SurroundingsInOrder
<1>3. \A p \in Persons : Planned(i)[p] = Destination(i, p) /\ Destination(i, p) # "refused"
  BY DEF Planned, Acceptable
<1>4. \A p \in Persons : db[i].moved => db[i].key[p] # "sub"
  BY <1>1 DEF RecordOK, OneKeyEach
<1>5. ASSUME NEW p \in Persons
      PROVE  /\ Destination(i, p) \in Keys /\ Destination(i, p) # "sub"
             /\ Verified(p) => Destination(i, p) \in {None, p}
             /\ db[i].key[p] = p => Destination(i, p) = p
             /\ db[i].key[p] = None => Destination(i, p) = None
  BY <1>1, <1>2, <1>3, <1>4, NameAssumption DEF Destination, Mapped, Keys, None
<1>6. Planned(i) \in [Persons -> Keys]
  BY <1>5 DEF Planned
<1>7. OneKeyEach(Planned(i))
  BY <1>3, <1>5 DEF OneKeyEach, Acceptable
<1>8. KeysKept(db[i].key, Planned(i))
  BY <1>3, <1>5 DEF KeysKept
<1> QED
  BY <1>6, <1>7, <1>8

(* The move is recorded together with the keys it gave.                    *)
LEMMA MigrateAuthKeeps ==
  ASSUME Inv, NEW g \in Gates, MigrateAuth(g)
  PROVE  Inv'
<1> DEFINE i == gate[g].open
           d == [db[i] EXCEPT !.key = Planned(i), !.moved = TRUE]
<1>1. Step(g) = "auth" /\ i # None /\ Unchanged
  BY DEF MigrateAuth, Commit
<1>2. /\ i \in Instances /\ RecordOK(db[i]) /\ i = gate[g].host /\ db[i] \in Databases
  BY <1>1, TransactionFacts DEF Writes, RecordOK
<1>3. CASE /\ Proceeds(g) /\ db' = [db EXCEPT ![i] = d] /\ Acceptable(i)
  <2>1. /\ Planned(i) \in [Persons -> Keys] /\ OneKeyEach(Planned(i))
        /\ KeysKept(db[i].key, Planned(i))
    BY <1>2, <1>3, PlannedKeys
  <2>2. /\ d \in Databases /\ d.receipts = db[i].receipts /\ d.anchored = db[i].anchored
        /\ d.moved = TRUE /\ d.key = Planned(i) /\ d.identity = db[i].identity
        /\ d.history = db[i].history /\ d.boot = db[i].boot
    BY <1>2, <2>1 DEF Databases
  <2> HIDE DEF d
  <2>3. RecordOK(d)
    BY <1>2, <2>1, <2>2 DEF RecordOK
  <2>4. Grows(db[i], d)
    BY <2>1, <2>2 DEF Grows
  <2>5. Step(g) # None
    BY <1>1 DEF None
  <2> QED
    BY <1>1, <1>2, <1>3, <2>2, <2>3, <2>4, <2>5, WritingChild
<1>4. CASE Fails(g) /\ db' = db
  BY <1>1, <1>4, FailingChild DEF Step, None
<1> QED
  BY <1>3, <1>4 DEF MigrateAuth, Commit

(* The receipt is written where everything it says is true.                *)
LEMMA EstablishKeeps ==
  ASSUME Inv, NEW g \in Gates, Establish(g)
  PROVE  Inv'
<1> DEFINE i == gate[g].open
           d == [db[i] EXCEPT !.receipts = @ \cup {g}, !.drift = @ \ {"receipt grant"}]
<1>1. Step(g) = "establish" /\ i # None /\ Unchanged
  BY DEF Establish, Commit
<1>2. /\ g \in Releases /\ i \in Instances /\ RecordOK(db[i]) /\ db[i].anchored
      /\ db[i].moved /\ gate[g].at # 4 /\ db[i] \in Databases /\ Length[g] \in Nat
  BY <1>1, TransactionFacts DEF Writes, RecordOK
<1>3. CASE /\ Proceeds(g) /\ db' = [db EXCEPT ![i] = d]
           /\ db[i].identity # None /\ ExactFor(g, i)
  <2>1. /\ d \in Databases /\ d.receipts = db[i].receipts \cup {g}
        /\ d.anchored = db[i].anchored /\ d.moved = db[i].moved /\ d.key = db[i].key
        /\ d.identity = db[i].identity /\ d.history = db[i].history
        /\ d.boot = db[i].boot
    BY <1>2 DEF Databases
  <2> HIDE DEF d
  <2>2. RecordOK(d)
    BY <1>2, <1>3, <2>1 DEF RecordOK, ExactFor
  <2>3. Grows(db[i], d)
    BY <2>1 DEF Grows, KeysKept
  <2>4. Step(g) # None
    BY <1>1 DEF None
  <2> QED
    BY <1>1, <1>2, <1>3, <2>1, <2>2, <2>3, <2>4, WritingChild
<1>4. CASE Fails(g) /\ db' = db
  BY <1>1, <1>4, FailingChild DEF Step, None
<1> QED
  BY <1>3, <1>4 DEF Establish, Commit

(* The anchor is placed.                                                   *)
LEMMA PlaceAnchorKeeps ==
  ASSUME Inv, NEW g \in Gates, PlaceAnchor(g)
  PROVE  Inv'
<1> DEFINE i == gate[g].asserted
           d == [db[i] EXCEPT !.anchored = TRUE]
<1>1. Step(g) = "anchor" /\ Unchanged /\ i # None
  BY DEF PlaceAnchor
<1>2. i \in Instances /\ RecordOK(db[i]) /\ db[i] \in Databases
  BY <1>1 DEF Inv, GatesInOrder, GateRow, DatabasesInOrder, RecordOK
<1>3. Step(g) # None /\ ~(g \in Releases /\ gate[g].at = 4)
  BY <1>1, StepFacts DEF None
<1>4. CASE Proceeds(g) /\ db' = [db EXCEPT ![i].anchored = TRUE]
  <2>1. db' = [db EXCEPT ![i] = d]
    BY <1>4
  <2>2. /\ d \in Databases /\ d.receipts = db[i].receipts /\ d.anchored = TRUE
        /\ d.moved = db[i].moved /\ d.key = db[i].key /\ d.identity = db[i].identity
        /\ d.history = db[i].history /\ d.boot = db[i].boot
    BY <1>2 DEF Databases
  <2> HIDE DEF d, i
  <2>3. RecordOK(d)
    BY <1>2, <2>2 DEF RecordOK
  <2>4. Grows(db[i], d)
    BY <2>2 DEF Grows, KeysKept
  <2> QED
    BY <1>1, <1>2, <1>3, <1>4, <2>1, <2>2, <2>3, <2>4, WritingChild
<1>5. CASE Fails(g) /\ db' = db
  BY <1>1, <1>5, FailingChild DEF Step, None
<1> QED
  BY <1>4, <1>5 DEF PlaceAnchor

(* What the children of the gates do.                                      *)
LEMMA ChildKeeps ==
  ASSUME Inv, NEW g \in Gates, Child(g)
  PROVE  Inv'
BY BindKeeps, ReadersKeep, OpenKeeps, AssertionsKeep, MigrateAppKeeps, MigrateAuthKeeps, EstablishKeeps,
   PlaceAnchorKeeps DEF Child

-----------------------------------------------------------------------------
(* The environment, and those who work beside the gates.                   *)

(* A step that leaves the gates alone, lets what is stood on grow and      *)
(* neither rewrites the history there nor restarts it.                     *)
LEMMA GatesStay ==
  ASSUME Inv, UNCHANGED <<gate, served>>, StandsStill,
         \A i \in Instances :
           InUse(i) => db'[i].history = db[i].history /\ db'[i].boot = db[i].boot
  PROVE  GatesInOrder' /\ ServedInOrder'
<1>1. ASSUME NEW h \in Gates PROVE GateOK(db', h, gate[h])
  <2>1. GateOK(db, h, gate[h]) /\ gate[h] \in GateRow
    BY DEF Inv, GatesInOrder
  <2>2. gate[h].open # None => gate[h].open \in Instances /\ InUse(gate[h].open)
    BY <2>1 DEF GateOK, GateRow, InUse
  <2>3. gate[h].asserted # None => gate[h].asserted \in Instances /\ InUse(gate[h].asserted)
    BY <2>1 DEF GateOK, GateRow, InUse
  <2> QED
    BY <2>2, <2>3, OthersKept DEF Inv, OpenStays, BootStays
<1>2. ASSUME NEW h \in Releases, served[h] # None
      PROVE  h \in db'[served[h]].receipts /\ gate[h].is = "accepted"
  <2>1. served[h] \in Instances /\ h \in db[served[h]].receipts /\ gate[h].is = "accepted"
    BY <1>2 DEF Inv, ServedInOrder, ServedIsReleased
  <2>2. Grows(db[served[h]], db'[served[h]])
    BY <2>1 DEF StandsStill, InUse
  <2> QED
    BY <2>1, <2>2 DEF Grows
<1> QED
  BY <1>1, <1>2 DEF Inv, GatesInOrder, ServedInOrder, ServedIsReleased

(* The script's plan survives what lets the database it is about grow.     *)
LEMMA ScriptStays ==
  ASSUME Inv, script' = script, StandsStill
  PROVE  ScriptInOrder'
<1>1. script.at = "planned" => script.on \in Instances /\ InUse(script.on)
  BY DEF Inv, ScriptInOrder, InUse
<1>2. script.at = "planned" => KeysKept(db[script.on].key, db'[script.on].key)
  BY <1>1 DEF StandsStill, Grows
<1> QED
  BY <1>2, ScriptKept DEF Inv

(* A write to one database, beside the gates, that rewrites no history.    *)
LEMMA WriteBeside ==
  ASSUME Inv, UNCHANGED <<gate, served, script, proof, export>>,
         route' \in [Credentials -> Instances], faults' \in Nat,
         NEW i \in Instances, NEW d, db' = [db EXCEPT ![i] = d], RecordOK(d),
         ~InUse(i) \/ (Grows(db[i], d) /\ d.history = db[i].history /\ d.boot = db[i].boot)
  PROVE  Inv'
<1>1. db \in [Instances -> Databases]
  BY DEF Inv, DatabasesInOrder
<1>2. db'[i] = d /\ \A j \in Instances \ {i} : db'[j] = db[j]
  BY <1>1
<1>3. /\ StandsStill
      /\ \A j \in Instances :
           InUse(j) => db'[j].history = db[j].history /\ db'[j].boot = db[j].boot
  BY <1>2, GrowsSelf DEF StandsStill
<1>4. GatesInOrder' /\ ServedInOrder'
  BY <1>3, GatesStay
<1>5. ScriptInOrder'
  BY <1>3, ScriptStays
<1>6. DatabasesInOrder'
  BY OneDatabase DEF Inv
<1> QED
  BY <1>4, <1>5, <1>6 DEF Inv, SurroundingsInOrder

(* A fault takes one from the budget.                                      *)
LEMMA FaultyFacts ==
  ASSUME Inv, Faulty
  PROVE  faults' \in Nat /\ faults' # faults /\ UNCHANGED <<proof, export>>
BY DEF Inv, SurroundingsInOrder, Faulty

(* New connections are routed elsewhere.                                   *)
LEMMA RerouteKeeps ==
  ASSUME Inv, NEW c \in Credentials, NEW i \in Instances, Reroute(c, i)
  PROVE  Inv'
<1>1. route' \in [Credentials -> Instances]
  BY DEF Reroute, Inv, SurroundingsInOrder
<1>2. faults' \in Nat /\ UNCHANGED <<proof, export>>
  BY FaultyFacts DEF Reroute
<1>3. UNCHANGED <<db, gate, script, served>>
  BY DEF Reroute
<1>4. DatabasesInOrder'
  BY <1>2, <1>3, DatabasesStay DEF Inv
<1> QED
  BY <1>1, <1>2, <1>3, <1>4 DEF Inv, GatesInOrder, ScriptInOrder, ServedInOrder,
     ServedIsReleased, SurroundingsInOrder

(* Controls and grants drift.                                              *)
LEMMA DriftKeeps ==
  ASSUME Inv, NEW i \in Instances, NEW x \in Drifts, Drift(i, x)
  PROVE  Inv'
<1> DEFINE d == [db[i] EXCEPT !.drift = @ \cup {x}]
<1>1. db[i] \in Databases /\ RecordOK(db[i]) /\ db' = [db EXCEPT ![i] = d]
  BY DEF Inv, DatabasesInOrder, Drift
<1>2. /\ d \in Databases /\ d.receipts = db[i].receipts /\ d.anchored = db[i].anchored
      /\ d.moved = db[i].moved /\ d.key = db[i].key /\ d.identity = db[i].identity
      /\ d.history = db[i].history /\ d.boot = db[i].boot
  BY <1>1 DEF Databases
<1> HIDE DEF d
<1>3. RecordOK(d) /\ Grows(db[i], d)
  BY <1>1, <1>2 DEF RecordOK, Grows, KeysKept
<1>4. /\ UNCHANGED <<gate, served, script, proof, export>> /\ faults' \in Nat
      /\ route' \in [Credentials -> Instances]
  BY FaultyFacts DEF Drift, Inv, SurroundingsInOrder
<1> QED
  BY <1>1, <1>2, <1>3, <1>4, WriteBeside

(* A copy is as good as its original, and replaces nothing in use.         *)
LEMMA CopyKeeps ==
  ASSUME Inv, NEW i \in Instances, NEW j \in Instances, Copy(i, j)
  PROVE  Inv'
<1> DEFINE d == [db[i] EXCEPT !.boot = db[j].boot]
<1>1. /\ db[i] \in Databases /\ db[j] \in Databases /\ RecordOK(db[i])
      /\ db' = [db EXCEPT ![j] = d]
  BY DEF Inv, DatabasesInOrder, Copy
<1>2. /\ d \in Databases /\ d.receipts = db[i].receipts /\ d.anchored = db[i].anchored
      /\ d.moved = db[i].moved /\ d.key = db[i].key /\ d.identity = db[i].identity
      /\ d.history = db[i].history
  BY <1>1 DEF Databases
<1> HIDE DEF d
<1>3. RecordOK(d)
  BY <1>1, <1>2 DEF RecordOK
<1>4. /\ UNCHANGED <<gate, served, script, proof, export>> /\ faults' \in Nat
      /\ route' \in [Credentials -> Instances] /\ ~InUse(j)
  BY FaultyFacts DEF Copy, Inv, SurroundingsInOrder
<1> QED
  BY <1>1, <1>3, <1>4, WriteBeside

(* The sessions of a challenge are lost, or the gate is killed.            *)
LEMMA LoseOrKillKeeps ==
  ASSUME Inv, NEW g \in Gates, LoseChallenge(g) \/ Kill(g)
  PROVE  Inv'
<1>1. /\ gate[g] \in GateRow /\ GateOK(db, g, gate[g]) /\ gate[g].is = "running"
  BY DEF LoseChallenge, Kill, Inv, GatesInOrder, GateOK
<1>2. /\ UNCHANGED <<db, route, script, served, proof, export>> /\ faults' \in Nat
  BY FaultyFacts DEF LoseChallenge, Kill
<1>3. StandsStill /\ GroundStays(g)
  BY <1>2, NoWrite
<1>4. GatesInOrder' /\ ServedInOrder'
  <2>1. CASE Kill(g)
    BY <2>1, <1>1, <1>2, <1>3, FailsKeeps DEF Kill
  <2>2. CASE LoseChallenge(g)
    <3> DEFINE r == [gate[g] EXCEPT !.held = FALSE]
    <3>1. /\ r \in GateRow /\ r.is = gate[g].is /\ r.host = gate[g].host
          /\ r.open = gate[g].open /\ r.at = gate[g].at /\ ~r.held
          /\ r.asserted = gate[g].asserted /\ r.boot = gate[g].boot
      BY <1>1 DEF GateRow
    <3>2. gate' = [gate EXCEPT ![g] = r]
      BY <2>2 DEF LoseChallenge, Inv, GatesInOrder
    <3> HIDE DEF r
    <3>3. GateOK(db', g, r)
      BY <1>1, <1>2, <3>1 DEF GateOK
    <3>4. r.open # None => \A h \in Gates \ {g} : gate[h].open # r.open
      BY <3>1 DEF Inv, GatesInOrder
    <3> QED
      BY <1>1, <1>2, <1>3, <3>2, <3>3, <3>4, OneGateMoves
  <2> QED
    BY <2>1, <2>2
<1> QED
  BY <1>2, <1>4, DatabasesStay DEF Inv, ScriptInOrder, SurroundingsInOrder

(* An instance restarts: who has a transaction open there fails, who only  *)
(* stands there loses the challenge, and the rest goes on.                 *)
LEMMA RestartKeeps ==
  ASSUME Inv, NEW i \in Instances, Restart(i)
  PROVE  Inv'
<1> DEFINE d == [db[i] EXCEPT !.boot = @ + 1]
           failed == [Waiting EXCEPT !.is = "failed"]
<1>1. db[i] \in Databases /\ RecordOK(db[i]) /\ db' = [db EXCEPT ![i] = d]
  BY DEF Inv, DatabasesInOrder, Restart
<1>2. /\ d \in Databases /\ d.receipts = db[i].receipts /\ d.anchored = db[i].anchored
      /\ d.moved = db[i].moved /\ d.key = db[i].key /\ d.identity = db[i].identity
      /\ d.history = db[i].history
  <2> DEFINE boot == db[i].boot + 1
  <2>1. boot \in Nat
    BY <1>1 DEF Databases
  <2>2. d = [db[i] EXCEPT !.boot = boot]
    OBVIOUS
  <2> HIDE DEF boot, d
  <2> QED
    BY <1>1, <2>1, <2>2 DEF Databases
<1> HIDE DEF d
<1>3. RecordOK(d) /\ Grows(db[i], d)
  BY <1>1, <1>2 DEF RecordOK, Grows, KeysKept
<1>4. /\ UNCHANGED <<route, script, served, proof, export>> /\ faults' \in Nat
  BY FaultyFacts DEF Restart
<1>5. /\ StandsStill /\ \A j \in Instances \ {i} : db'[j] = db[j]
      /\ db'[i] = d
  BY <1>1, <1>3, OneWrite DEF Inv
<1>6. \A h \in Gates : gate[h].open # None => gate[h].open \in Instances
  BY DEF Inv, GatesInOrder, GateRow
<1>7. /\ \A h \in Gates : OpenStays(h)
      /\ \A h \in Gates : gate[h].asserted # i => BootStays(h)
  <2>1. \A h \in Gates : OpenStays(h)
    BY <1>2, <1>5, <1>6 DEF OpenStays
  <2>2. \A h \in Gates : gate[h].asserted # None => gate[h].asserted \in Instances
    BY DEF Inv, GatesInOrder, GateRow
  <2>3. \A h \in Gates : gate[h].asserted # i => BootStays(h)
    BY <1>5, <2>2 DEF BootStays
  <2> QED
    BY <2>1, <2>3
<1>8. /\ failed \in GateRow /\ failed.is = "failed" /\ failed.at = 1
      /\ failed.host = None /\ failed.open = None /\ failed.asserted = None
      /\ ~failed.held
  BY DEF Waiting, GateRow
<1>9. ASSUME NEW h \in Gates
      PROVE  /\ gate'[h] \in GateRow /\ GateOK(db', h, gate'[h])
             /\ gate'[h].open \in {None, gate[h].open}
             /\ gate[h].is = "accepted" => gate'[h].is = "accepted"
  <2>1. /\ gate[h] \in GateRow /\ GateOK(db, h, gate[h])
        /\ gate[h].asserted # i => GateOK(db', h, gate[h])
    BY <1>5, <1>7, OthersKept DEF Inv, GatesInOrder
  <2>2. gate'[h] \in {failed, [gate[h] EXCEPT !.held = FALSE], gate[h]}
    BY DEF Restart
  <2>3. /\ gate'[h] = failed => \/ i \in {gate[h].open, gate[h].asserted, gate[h].host}
                               \/ gate[h] = failed
        /\ gate[h].asserted = i => gate'[h] = failed
    <3> DEFINE ended == i \in {gate[h].open, gate[h].asserted}
                        \/ (Step(h) = "read back" /\ gate[h].host = i)
    <3>0. gate'[h] = IF ended THEN failed
                     ELSE IF gate[h].host = i THEN [gate[h] EXCEPT !.held = FALSE] ELSE gate[h]
      BY DEF Restart
    <3>1. CASE ended
      BY <3>0, <3>1
    <3>2. CASE ~ended
      <4>1. gate'[h] = IF gate[h].host = i THEN [gate[h] EXCEPT !.held = FALSE] ELSE gate[h]
        BY <3>0, <3>2
      <4> QED
        BY <3>2, <4>1
    <3> QED
      BY <3>1, <3>2
  <2>4. i \in {gate[h].open, gate[h].asserted, gate[h].host} => gate[h].is = "running"
    BY <2>1, NameAssumption DEF GateOK
  <2> HIDE DEF failed
  <2>5. CASE gate'[h] = failed
    <3>1. 1 \in DOMAIN Plan(h)
      BY PlanFacts
    <3> QED
      BY <2>3, <2>4, <2>5, <1>8, <3>1 DEF GateOK
  <2>6. CASE gate'[h] = [gate[h] EXCEPT !.held = FALSE] /\ gate'[h] # failed
    <3> DEFINE r == [gate[h] EXCEPT !.held = FALSE]
    <3>1. /\ r \in GateRow /\ r.is = gate[h].is /\ r.host = gate[h].host
          /\ r.open = gate[h].open /\ r.at = gate[h].at /\ ~r.held
          /\ r.asserted = gate[h].asserted /\ r.boot = gate[h].boot
      BY <2>1 DEF GateRow
    <3>2. gate'[h] = r
      BY <2>6
    <3> HIDE DEF r
    <3>3. GateOK(db', h, gate[h])
      BY <2>1, <2>3, <2>6
    <3> QED
      BY <2>1, <3>1, <3>2, <3>3 DEF GateOK
  <2>7. CASE gate'[h] = gate[h] /\ gate'[h] # failed
    BY <2>1, <2>3, <2>7
  <2> QED
    BY <2>2, <2>5, <2>6, <2>7
<1>10. GatesInOrder'
  <2>1. gate' \in [Gates -> GateRow]
    <3>1. gate' = [h \in Gates |-> gate'[h]]
      BY DEF Restart
    <3> QED
      BY <3>1, <1>9
  <2>2. ASSUME NEW h \in Gates, NEW k \in Gates,
               gate'[h].open # None, gate'[h].open = gate'[k].open
        PROVE  h = k
    BY <1>9, <2>2 DEF Inv, GatesInOrder
  <2> QED
    BY <1>9, <2>1, <2>2 DEF GatesInOrder
<1>11. ServedInOrder'
  <2>1. ASSUME NEW h \in Releases, served[h] # None
        PROVE  h \in db'[served[h]].receipts /\ gate'[h].is = "accepted"
    <3>1. served[h] \in Instances /\ h \in db[served[h]].receipts
          /\ gate[h].is = "accepted"
      BY <2>1 DEF Inv, ServedInOrder, ServedIsReleased
    <3>2. Grows(db[served[h]], db'[served[h]])
      BY <1>5, <3>1 DEF StandsStill, InUse
    <3> QED
      BY <3>1, <3>2, <1>9 DEF Grows, Gates
  <2> QED
    BY <1>4, <2>1 DEF Inv, ServedInOrder, ServedIsReleased
<1>12. DatabasesInOrder'
  BY <1>1, <1>3, <1>4, OneDatabase DEF Inv
<1>13. ScriptInOrder'
  BY <1>4, <1>5, ScriptStays
<1> QED
  BY <1>4, <1>10, <1>11, <1>12, <1>13 DEF Inv, SurroundingsInOrder

(* A candidate is accepted where its own receipt is.                       *)
LEMMA AcceptKeeps ==
  ASSUME Inv, NEW g \in Releases, AcceptCandidate(g)
  PROVE  Inv'
<1>1. UNCHANGED <<db, route, gate, script, proof, export, faults>>
  BY DEF AcceptCandidate
<1>2. /\ gate[g].is = "accepted" /\ route["runtime"] \in Instances
      /\ g \in db[route["runtime"]].receipts
      /\ served' = [served EXCEPT ![g] = route["runtime"]]
  BY DEF AcceptCandidate, HandedOver, Attested, Inv, SurroundingsInOrder, Credentials
<1>3. ServedInOrder'
  BY <1>1, <1>2 DEF Inv, ServedInOrder, ServedIsReleased
<1>4. DatabasesInOrder'
  BY <1>1, DatabasesStay DEF Inv
<1> QED
  BY <1>1, <1>3, <1>4 DEF Inv, GatesInOrder, ScriptInOrder, SurroundingsInOrder

(* The first sign-in of a person takes a key nobody has.                   *)
LEMMA SignInKeeps ==
  ASSUME Inv, NEW p \in Persons, SignIn(p)
  PROVE  Inv'
<1> DEFINE i == route["runtime"]
           key == [db[i].key EXCEPT ![p] = p]
           d == [db[i] EXCEPT !.key = key]
<1>1. /\ i \in Instances /\ db[i] \in Databases /\ RecordOK(db[i])
      /\ db[i].key \in [Persons -> Keys]
  BY DEF Inv, SurroundingsInOrder, Credentials, DatabasesInOrder, Databases
<1>2. /\ db' = [db EXCEPT ![i] = d] /\ db[i].moved /\ db[i].key[p] = None
      /\ \A q \in Persons : db[i].key[q] # p
  BY DEF SignIn, Inv, DatabasesInOrder
<1>3. /\ key \in [Persons -> Keys] /\ key[p] = p
      /\ \A q \in Persons \ {p} : key[q] = db[i].key[q]
  BY <1>1 DEF Keys
<1> HIDE DEF key
<1>4. OneKeyEach(key)
  <2>1. OneKeyEach(db[i].key)
    BY <1>1, <1>2 DEF RecordOK
  <2>2. /\ \A q \in Persons : key[q] # "sub"
        /\ \A q \in Persons : Verified(q) => key[q] \in {None, q}
    BY <2>1, <1>3, NameAssumption DEF OneKeyEach
  <2>3. ASSUME NEW a \in Persons, NEW b \in Persons, a # b, key[a] = key[b],
               key[a] \notin {None, "sub"}
        PROVE  FALSE
    <3>1. CASE a = p \/ b = p
      BY <3>1, <2>3, <1>2, <1>3
    <3>2. CASE a # p /\ b # p
      BY <3>2, <2>1, <2>3, <1>3 DEF OneKeyEach, Shared
    <3> QED
      BY <3>1, <3>2
  <2> QED
    BY <2>2, <2>3 DEF OneKeyEach, Shared
<1>5. KeysKept(db[i].key, key)
  BY <1>2, <1>3 DEF KeysKept
<1>6. /\ d \in Databases /\ d.receipts = db[i].receipts /\ d.anchored = db[i].anchored
      /\ d.moved = db[i].moved /\ d.key = key /\ d.identity = db[i].identity
      /\ d.history = db[i].history /\ d.boot = db[i].boot
  BY <1>1, <1>3 DEF Databases
<1> HIDE DEF d
<1>7. RecordOK(d) /\ Grows(db[i], d)
  BY <1>1, <1>4, <1>5, <1>6 DEF RecordOK, Grows
<1>8. /\ UNCHANGED <<gate, served, script, proof, export>> /\ faults' \in Nat
      /\ route' \in [Credentials -> Instances]
  BY DEF SignIn, Inv, SurroundingsInOrder
<1> QED
  BY <1>1, <1>2, <1>6, <1>7, <1>8, WriteBeside

(* The script plans from what it reads.                                    *)
LEMMA InventoryKeeps ==
  ASSUME Inv, Inventory
  PROVE  Inv'
<1> DEFINE i == route["migrator"]
           key == db[i].key
           new == [p \in Persons |->
                     IF key[p] = "sub" THEN Guess(p)
                     ELSE IF key[p] # None /\ proof[p] # None THEN p ELSE None]
<1>1. UNCHANGED <<db, route, gate, served, proof, export, faults>>
  BY DEF Inventory
<1>2. /\ script' = [at |-> "planned", on |-> i, from |-> key, to |-> new]
      /\ \A p \in Persons : key[p] # None => new[p] # None
  BY DEF Inventory
<1>3. /\ i \in Instances /\ key \in [Persons -> Keys]
      /\ \A p \in Persons : export[p] \in Persons \cup {None}
  BY DEF Inv, SurroundingsInOrder, Credentials, DatabasesInOrder, Databases
<1>4. ASSUME NEW p \in Persons
      PROVE  PlanOK(p, key[p], new[p], key[p]) /\ new[p] \in Keys
  <2>1. key[p] \in {None, "sub"} \cup Persons
    BY <1>3 DEF Keys
  <2>2. new[p] = IF key[p] = "sub" THEN Guess(p)
                 ELSE IF key[p] # None /\ proof[p] # None THEN p ELSE None
    OBVIOUS
  <2>3. key[p] # None => new[p] # None
    BY <1>2
  <2> HIDE DEF new, key
  <2>4. CASE key[p] = None
    BY <2>2, <2>4, NameAssumption DEF PlanOK, Keys, None
  <2>5. CASE key[p] = "sub"
    BY <2>2, <2>3, <2>5, <1>3, NameAssumption DEF PlanOK, Keys, Guess, None
  <2>6. CASE key[p] \in Persons
    BY <2>2, <2>3, <2>6, NameAssumption DEF PlanOK, Keys, None
  <2> QED
    BY <2>1, <2>4, <2>5, <2>6
<1>5. new \in [Persons -> Keys]
  BY <1>4
<1>6. ScriptInOrder'
  <2> HIDE DEF new
  <2>1. db[i].key = key /\ db' = db
    BY <1>1
  <2> HIDE DEF key, i
  <2> QED
    BY <1>2, <1>3, <1>4, <1>5, <2>1 DEF ScriptInOrder
<1>7. DatabasesInOrder'
  BY <1>1, DatabasesStay DEF Inv
<1> QED
  BY <1>1, <1>6, <1>7 DEF Inv, GatesInOrder, ServedInOrder, ServedIsReleased,
     SurroundingsInOrder

(* The script rewrites what is still as it read it.  Once the accounts have *)
(* moved, that is nothing that would hurt: a plan that has an old subject   *)
(* in it is refused, and what is left of any other takes people to their    *)
(* own keys.                                                                *)
LEMMA RewriteKeeps ==
  ASSUME Inv, Rewrite
  PROVE  Inv'
<1> DEFINE i == script.on
           changed == {p \in Persons : script.to[p] # script.from[p]}
           key == [p \in Persons |-> IF p \in changed THEN script.to[p] ELSE db[i].key[p]]
           d == [db[i] EXCEPT !.key = key]
           ended == [Idle EXCEPT !.at = "ended"]
<1>1. UNCHANGED <<route, gate, served, proof, export, faults>> /\ script' = ended
  BY DEF Rewrite
<1>2. /\ i \in Instances /\ script.from \in [Persons -> Keys]
      /\ script.to \in [Persons -> Keys]
      /\ \A p \in Persons : PlanOK(p, script.from[p], script.to[p], db[i].key[p])
  BY DEF Rewrite, Inv, ScriptInOrder
<1>3. db[i] \in Databases /\ RecordOK(db[i]) /\ db[i].key \in [Persons -> Keys]
  BY <1>2 DEF Inv, DatabasesInOrder, Databases
<1>4. ScriptInOrder'
  <2>1. /\ ended \in [at : {"idle", "planned", "ended"}, on : Instances \cup {None},
                       from : [Persons -> Keys], to : [Persons -> Keys]]
        /\ ended.at = "ended"
    BY DEF Idle, Keys
  <2> HIDE DEF ended
  <2> QED
    BY <1>1, <2>1 DEF ScriptInOrder
<1>5. CASE db' = db
  BY <1>1, <1>4, <1>5, DatabasesStay DEF Inv, GatesInOrder, ServedInOrder,
     ServedIsReleased, SurroundingsInOrder
<1>6. CASE /\ db' # db
           /\ \A p \in changed : db[i].key[p] = script.from[p]
           /\ db' = [db EXCEPT ![i].key = key]
  <2>1. db' = [db EXCEPT ![i] = d]
    BY <1>6
  <2>2. /\ \A p \in changed : key[p] = script.to[p]
        /\ \A p \in Persons \ changed : key[p] = db[i].key[p]
        /\ key \in [Persons -> Keys]
    BY <1>2, <1>3
  <2>3. /\ \A p \in changed : p \in Persons /\ script.to[p] # script.from[p]
        /\ \A p \in Persons \ changed : script.to[p] = script.from[p]
    OBVIOUS
  <2>4. \A p \in Persons : script.from[p] \in {None, "sub"} \cup Persons
    BY <1>2 DEF Keys
  <2> HIDE DEF key, changed
  <2>5. KeysKept(db[i].key, key)
    BY <1>2, <1>6, <2>2, <2>3, NameAssumption DEF KeysKept, PlanOK
  <2>6. ASSUME db[i].moved PROVE OneKeyEach(key)
    <3>1. OneKeyEach(db[i].key)
      BY <2>6, <1>3 DEF RecordOK
    <3>2. ASSUME NEW p \in Persons PROVE key[p] \in {None, p}
      <4>1. CASE p \in changed
        BY <4>1, <3>1, <1>2, <1>6, <2>2, <2>3, <2>4 DEF PlanOK, OneKeyEach
      <4>2. CASE p \notin changed
        BY <4>2, <1>2, <2>2, <2>3, <2>4, NameAssumption DEF PlanOK
      <4> QED
        BY <4>1, <4>2
    <3> QED
      BY <3>2, NameAssumption DEF OneKeyEach, Shared, None
  <2>7. /\ d \in Databases /\ d.receipts = db[i].receipts /\ d.anchored = db[i].anchored
        /\ d.moved = db[i].moved /\ d.key = key /\ d.identity = db[i].identity
        /\ d.history = db[i].history /\ d.boot = db[i].boot
    BY <1>3, <2>2 DEF Databases
  <2> HIDE DEF d
  <2>8. RecordOK(d) /\ Grows(db[i], d)
    BY <1>3, <2>5, <2>6, <2>7 DEF RecordOK, Grows
  <2>9. /\ StandsStill /\ \A j \in Instances \ {i} : db'[j] = db[j]
        /\ db'[i] = d
    BY <1>2, <2>1, <2>8, OneWrite DEF Inv
  <2>10. GatesInOrder' /\ ServedInOrder'
    BY <1>1, <2>7, <2>9, GatesStay
  <2>11. DatabasesInOrder'
    BY <1>1, <1>2, <2>1, <2>8, OneDatabase DEF Inv
  <2> QED
    BY <1>1, <1>4, <2>10, <2>11 DEF Inv, SurroundingsInOrder
<1> QED
  BY <1>5, <1>6 DEF Rewrite

-----------------------------------------------------------------------------
(* In every world that is considered, the invariant holds at the start.    *)
LEMMA InitInv == Init => Inv
<1> SUFFICES ASSUME NEW w \in Worlds,
                    /\ db = w.db /\ proof = w.proof /\ export = w.export
                    /\ route = [c \in Credentials |-> w.home]
                    /\ gate = [g \in Gates |-> IF g \in w.gates THEN Waiting
                                               ELSE [Waiting EXCEPT !.is = "failed"]]
                    /\ script = IF w.script THEN Idle ELSE [Idle EXCEPT !.at = "ended"]
                    /\ served = [g \in Releases |-> None]
                    /\ faults = w.faults
             PROVE  Inv
  BY DEF Init
<1>1. SurroundingsInOrder
  BY WorldAssumption, GateAssumption DEF SurroundingsInOrder
<1>2. ServedInOrder
  BY DEF ServedInOrder, ServedIsReleased
<1>3. ScriptInOrder
  <2>1. Idle \in [at : {"idle", "planned", "ended"}, on : Instances \cup {None},
                  from : [Persons -> Keys], to : [Persons -> Keys]]
    BY DEF Idle, Keys
  <2>2. Idle.at = "idle" /\ [Idle EXCEPT !.at = "ended"].at = "ended"
    BY DEF Idle
  <2> QED
    BY <2>1, <2>2 DEF ScriptInOrder
<1>4. DatabasesInOrder
  <2>1. ASSUME NEW i \in Instances PROVE RecordOK(db[i])
    <3>1. db[i] \in Databases /\ db[i].receipts = {}
      BY WorldAssumption
    <3>2. ASSUME db[i].moved PROVE OneKeyEach(db[i].key)
      <4>1. \A p \in Persons :
              /\ db[i].key[p] # "sub"
              /\ proof[p] = "verified" => db[i].key[p] \in {None, p}
              /\ \A q \in Persons \ {p} :
                   db[i].key[p] = db[i].key[q] => db[i].key[p] = None
        BY <3>2, WorldAssumption
      <4> QED
        BY <4>1 DEF OneKeyEach, Shared, Verified
    <3> QED
      BY <3>1, <3>2 DEF RecordOK
  <2> QED
    BY <2>1, WorldAssumption DEF DatabasesInOrder
<1>5. GatesInOrder
  <2> DEFINE failed == [Waiting EXCEPT !.is = "failed"]
  <2>1. \A r \in {Waiting, failed} :
          r \in GateRow /\ r.is # "running" /\ r.at = 1 /\ r.host = None /\ r.open = None
            /\ r.asserted = None /\ r.held = FALSE
    <3>1. Waiting \in GateRow
      BY DEF Waiting, GateRow
    <3>2. failed \in GateRow
      BY <3>1 DEF GateRow
    <3>3. /\ Waiting.is = "waiting" /\ Waiting.at = 1 /\ Waiting.host = None
          /\ Waiting.open = None /\ Waiting.asserted = None /\ Waiting.held = FALSE
      BY DEF Waiting
    <3>4. /\ failed.is = "failed" /\ failed.at = 1 /\ failed.host = None
          /\ failed.open = None /\ failed.asserted = None /\ failed.held = FALSE
      BY DEF Waiting
    <3> HIDE DEF failed
    <3> QED
      BY <3>1, <3>2, <3>3, <3>4
  <2>2. \A g \in Gates : gate[g] \in {Waiting, failed}
    BY DEF Waiting
  <2> HIDE DEF failed
  <2>3. gate \in [Gates -> GateRow]
    <3>1. \E f : gate = [g \in Gates |-> f[g]]
      <4> WITNESS [g \in Gates |-> IF g \in w.gates THEN Waiting
                                    ELSE [Waiting EXCEPT !.is = "failed"]]
      <4> QED
        OBVIOUS
    <3> QED
      BY <2>1, <2>2, <3>1
  <2>4. ASSUME NEW g \in Gates PROVE 1 \in DOMAIN Plan(g)
    <3>1. Len(Plan(g)) \in Nat \ {0} /\ DOMAIN Plan(g) = 1 .. Len(Plan(g))
      BY PlanFacts
    <3> HIDE DEF Plan
    <3> QED
      BY <3>1
  <2>5. \A g \in Gates : GateOK(db, g, gate[g])
    BY <2>1, <2>2, <2>4 DEF GateOK
  <2> QED
    BY <2>1, <2>2, <2>3, <2>5 DEF GatesInOrder
<1> QED
  BY <1>1, <1>2, <1>3, <1>4, <1>5 DEF Inv

(* Every step keeps the inductive invariant.                               *)
LEMMA InvStep == Inv /\ [Next]_vars => Inv'
<1> SUFFICES ASSUME Inv, [Next]_vars PROVE Inv'
  OBVIOUS
<1>1. ASSUME NEW g \in Gates, Child(g) \/ LoseChallenge(g) \/ Kill(g) PROVE Inv'
  BY <1>1, ChildKeeps, LoseOrKillKeeps
<1>2. ASSUME NEW g \in Releases, AcceptCandidate(g) PROVE Inv'
  BY <1>2, AcceptKeeps
<1>3. CASE Inventory \/ Rewrite
  BY <1>3, InventoryKeeps, RewriteKeeps
<1>4. ASSUME NEW p \in Persons, SignIn(p) PROVE Inv'
  BY <1>4, SignInKeeps
<1>5. ASSUME NEW i \in Instances,
             \/ Restart(i)
             \/ \E c \in Credentials : Reroute(c, i)
             \/ \E x \in Drifts : Drift(i, x)
             \/ \E j \in Instances : Copy(i, j)
      PROVE  Inv'
  BY <1>5, RestartKeeps, RerouteKeeps, DriftKeeps, CopyKeeps
<1>6. CASE UNCHANGED vars
  BY <1>6, DatabasesStay DEF vars, Inv, GatesInOrder, ScriptInOrder, ServedInOrder,
     ServedIsReleased, SurroundingsInOrder
<1> QED
  BY <1>1, <1>2, <1>3, <1>4, <1>5, <1>6 DEF Next

(* The inductive invariant holds for ever.                                 *)
LEMMA AlwaysInOrder == Spec => []Inv
BY InitInv, InvStep, PTL DEF Spec

-----------------------------------------------------------------------------
(* The promises.                                                           *)

LEMMA InvSound == Inv => ReleaseIsSound
<1> SUFFICES ASSUME Inv PROVE ReleaseIsSound
  OBVIOUS
<1>1. TypeOK
  <2>1. \A g \in Gates : gate[g].at \in DOMAIN Plan(g)
    BY DEF Inv, GatesInOrder, GateOK
  <2> QED
    BY <2>1 DEF TypeOK, Inv, GatesInOrder, GateRow, DatabasesInOrder, ScriptInOrder,
       ServedInOrder, SurroundingsInOrder
<1>2. ReceiptsHold
  BY DEF ReceiptsHold, Inv, DatabasesInOrder, RecordOK, OneKeyEach, Legacy
<1>3. ServedIsReleased
  BY DEF Inv, ServedInOrder
<1> QED
  BY <1>1, <1>2, <1>3 DEF ReleaseIsSound

LEMMA InvOneAccount == Inv => OneAccountEach
BY DEF Inv, OneAccountEach, DatabasesInOrder, RecordOK, OneKeyEach, Legacy

(* What marks a release in a database is left alone.                       *)
Untouched(i) ==
  /\ db'[i].history = db[i].history /\ db'[i].receipts = db[i].receipts
  /\ db'[i].moved = db[i].moved
Unanchored(i) == db'[i].anchored = db[i].anchored

(* One record is written and its marks are left alone.                     *)
LEMMA UntouchedByWrite ==
  ASSUME Inv, NEW k \in Instances, NEW d, db' = [db EXCEPT ![k] = d],
         d.history = db[k].history, d.receipts = db[k].receipts, d.moved = db[k].moved
  PROVE  /\ \A i \in Instances : Untouched(i)
         /\ \A i \in Instances \ {k} : Unanchored(i)
         /\ d.anchored = db[k].anchored => Unanchored(k)
BY DEF Untouched, Unanchored, Inv, DatabasesInOrder

(* What passed the last assertion is the instance the gate stands on, and  *)
(* it has not restarted since.                                             *)
LEMMA AssertedIsProven ==
  ASSUME Inv, NEW g \in Gates, gate[g].asserted # None
  PROVE  ProvenBy(g, gate[g].asserted)
BY DEF Inv, GatesInOrder, GateOK, ProvenBy

(* A writing child touches the marks only of the instance it has open and  *)
(* that passed its last assertion: migrations that are all applied, where  *)
(* no last assertion is made, leave them as they are.                      *)
LEMMA WriterIsProven ==
  ASSUME Inv, NEW g \in Gates, NEW i \in Instances,
         MigrateApp(g) \/ MigrateAuth(g) \/ Establish(g)
  PROVE  /\ \/ Untouched(i)
            \/ /\ g \in Releases
               /\ gate[g].open = i /\ gate[g].asserted = i
               /\ ProvenBy(g, i) /\ db[i].anchored
         /\ Unanchored(i)
<1> DEFINE k == gate[g].open
<1>1. Step(g) \in Writes /\ k # None
  BY DEF MigrateApp, MigrateAuth, Establish, Commit, Writes
<1>2. /\ g \in Releases /\ k \in Instances /\ k = gate[g].host
      /\ RecordOK(db[k]) /\ db[k].anchored
  BY <1>1, TransactionFacts
<1>3. db \in [Instances -> Databases]
  BY DEF Inv, DatabasesInOrder
<1>4. CASE db' = db
  BY <1>4 DEF Untouched, Unanchored
<1>5. CASE /\ db' # db /\ gate[g].asserted # k
  <2>1. MigrateApp(g) /\ ExactFor(g, k)
    BY <1>5 DEF MigrateApp, MigrateAuth, Establish, Commit, NothingToApply
  <2> DEFINE identity == IF Pristine(k) THEN k ELSE db[k].identity
             d == [db[k] EXCEPT !.history = Length[g], !.identity = identity]
  <2>2. db' = [db EXCEPT ![k] = d]
    BY <1>5, <2>1 DEF MigrateApp, Commit
  <2>3. /\ d.history = db[k].history /\ d.receipts = db[k].receipts
        /\ d.moved = db[k].moved /\ d.anchored = db[k].anchored
    BY <1>2, <2>1 DEF ExactFor, RecordOK, Databases
  <2> HIDE DEF d
  <2> QED
    BY <1>2, <2>2, <2>3, UntouchedByWrite
<1>6. CASE /\ db' # db /\ gate[g].asserted = k
  <2>1. \E d : db' = [db EXCEPT ![k] = d] /\ d.anchored = db[k].anchored
    <3> DEFINE app == [db[k] EXCEPT !.history = Length[g],
                                    !.identity = IF Pristine(k) THEN k ELSE @]
               auth == [db[k] EXCEPT !.key = Planned(k), !.moved = TRUE]
               receipt == [db[k] EXCEPT !.receipts = @ \cup {g},
                                        !.drift = @ \ {"receipt grant"}]
    <3>1. /\ app.anchored = db[k].anchored /\ auth.anchored = db[k].anchored
          /\ receipt.anchored = db[k].anchored
      BY <1>2 DEF RecordOK, Databases
    <3>2. \/ db' = [db EXCEPT ![k] = app] \/ db' = [db EXCEPT ![k] = auth]
          \/ db' = [db EXCEPT ![k] = receipt]
      BY <1>6 DEF MigrateApp, MigrateAuth, Establish, Commit
    <3> HIDE DEF app, auth, receipt
    <3> QED
      BY <3>1, <3>2
  <2>2. /\ i # k => db'[i] = db[i]
        /\ db'[k].anchored = db[k].anchored
    BY <1>2, <1>3, <2>1
  <2>3. CASE i = k
    BY <1>1, <1>2, <1>6, <2>2, <2>3, AssertedIsProven DEF Unanchored
  <2>4. CASE i # k
    BY <2>2, <2>4 DEF Untouched, Unanchored
  <2> QED
    BY <2>3, <2>4
<1> QED
  BY <1>4, <1>5, <1>6

(* The anchor is placed where the bootstrap passed its assertion.          *)
LEMMA AnchorIsProven ==
  ASSUME Inv, NEW g \in Gates, NEW i \in Instances, PlaceAnchor(g)
  PROVE  /\ Untouched(i)
         /\ \/ Unanchored(i)
            \/ gate[Bootstrap].asserted = i /\ ProvenBy(Bootstrap, i)
<1> DEFINE k == gate[g].asserted
           d == [db[k] EXCEPT !.anchored = TRUE]
<1>1. Step(g) = "anchor" /\ k # None
  BY DEF PlaceAnchor
<1>2. g = Bootstrap
  <2>1. Step(g) # None
    BY <1>1 DEF None
  <2> QED
    BY <1>1, <2>1, StepFacts, PlanFacts DEF Gates
<1>3. k \in Instances /\ db[k] \in Databases
  BY <1>1 DEF Inv, GatesInOrder, GateRow, DatabasesInOrder
<1>4. CASE db' = db
  BY <1>4 DEF Untouched, Unanchored
<1>5. CASE db' # db
  <2>1. db' = [db EXCEPT ![k] = d]
    BY <1>5 DEF PlaceAnchor
  <2>2. d.history = db[k].history /\ d.receipts = db[k].receipts /\ d.moved = db[k].moved
    BY <1>3 DEF Databases
  <2>3. ProvenBy(g, k)
    BY <1>1, AssertedIsProven
  <2> HIDE DEF d, k
  <2>4. Untouched(i) /\ (i # k => Unanchored(i))
    BY <1>3, <2>1, <2>2, UntouchedByWrite
  <2> QED
    BY <1>2, <2>3, <2>4 DEF k
<1> QED
  BY <1>4, <1>5

(* Every other step uses up a fault or leaves the marks alone.             *)
LEMMA OthersLeaveMarks ==
  ASSUME Inv, [Next]_vars, faults' = faults,
         ~ \E g \in Gates : \/ MigrateApp(g) \/ MigrateAuth(g) \/ Establish(g)
                            \/ PlaceAnchor(g)
  PROVE  \A i \in Instances : Untouched(i) /\ Unanchored(i)
<1>1. ~Faulty
  BY DEF Faulty, Inv, SurroundingsInOrder
<1>2. CASE db' = db
  BY <1>2 DEF Untouched, Unanchored
<1>3. ASSUME NEW g \in Gates, Child(g) PROVE db' = db
  BY <1>3 DEF Child, Bind, Preflight, VerifyTarget, VerifyPrincipal, VerifyReaders, Open,
     AssertAgain, AssertAnchor, ReadBack
<1>4. ASSUME Rewrite, db' # db
      PROVE  \A i \in Instances : Untouched(i) /\ Unanchored(i)
  <2> DEFINE k == script.on
             changed == {p \in Persons : script.to[p] # script.from[p]}
             d == [db[k] EXCEPT !.key = [p \in Persons |->
                                          IF p \in changed THEN script.to[p] ELSE db[k].key[p]]]
  <2>1. k \in Instances
    BY <1>4 DEF Rewrite, Inv, ScriptInOrder
  <2>2. db[k] \in Databases
    BY <2>1 DEF Inv, DatabasesInOrder
  <2>3. db' = [db EXCEPT ![k] = d]
    BY <1>4 DEF Rewrite
  <2>4. /\ d.history = db[k].history /\ d.receipts = db[k].receipts
        /\ d.moved = db[k].moved /\ d.anchored = db[k].anchored
    BY <2>2 DEF Databases
  <2> HIDE DEF d, k
  <2> QED
    BY <2>1, <2>3, <2>4, UntouchedByWrite
<1>5. ASSUME NEW p \in Persons, SignIn(p)
      PROVE  \A i \in Instances : Untouched(i) /\ Unanchored(i)
  <2> DEFINE k == route["runtime"]
             d == [db[k] EXCEPT !.key = [db[k].key EXCEPT ![p] = p]]
  <2>1. k \in Instances /\ db[k] \in Databases
    BY DEF Inv, SurroundingsInOrder, Credentials, DatabasesInOrder
  <2>2. db' = [db EXCEPT ![k] = d]
    BY <1>5 DEF SignIn
  <2>3. /\ d.history = db[k].history /\ d.receipts = db[k].receipts
        /\ d.moved = db[k].moved /\ d.anchored = db[k].anchored
    BY <2>1 DEF Databases
  <2> HIDE DEF d, k
  <2> QED
    BY <2>1, <2>2, <2>3, UntouchedByWrite
<1>6. CASE UNCHANGED vars
  BY <1>2, <1>6 DEF vars
<1>7. CASE Next
  <2>1. ASSUME NEW g \in Gates, LoseChallenge(g) \/ Kill(g) PROVE FALSE
    BY <1>1, <2>1 DEF LoseChallenge, Kill
  <2>2. ASSUME NEW g \in Releases, AcceptCandidate(g) PROVE db' = db
    BY <2>2 DEF AcceptCandidate
  <2>3. ASSUME Inventory PROVE db' = db
    BY <2>3 DEF Inventory
  <2>4. ASSUME NEW i \in Instances,
               \/ Restart(i)
               \/ \E c \in Credentials : Reroute(c, i)
               \/ \E x \in Drifts : Drift(i, x)
               \/ \E j \in Instances : Copy(i, j)
        PROVE  FALSE
    BY <1>1, <2>4 DEF Restart, Reroute, Drift, Copy
  <2> QED
    BY <1>2, <1>3, <1>4, <1>5, <1>7, <2>1, <2>2, <2>3, <2>4 DEF Next
<1> QED
  BY <1>6, <1>7

(* An instance becomes the asserted one of a gate only while the gate holds *)
(* the challenge there.                                                    *)
LEMMA AssertsWhatItHolds ==
  ASSUME Inv, [Next]_vars, NEW g \in Gates, NEW i \in Instances,
         gate[g].asserted # i, gate'[g].asserted = i
  PROVE  gate[g].held /\ ProvenBy(g, i)
<1>1. gate \in [Gates -> GateRow] /\ i # None
  BY NameAssumption DEF Inv, GatesInOrder
<1>2. ASSUME NEW h \in Gates, NEW j,
             Challenged(h, j) /\ gate' = [gate EXCEPT ![h].asserted = j]
      PROVE  gate[g].held /\ ProvenBy(g, i)
  <2>1. gate'[g].asserted = IF g = h THEN j ELSE gate[g].asserted
    BY <1>1, <1>2 DEF GateRow
  <2>2. g = h /\ i = j
    BY <2>1
  <2> QED
    BY <1>2, <2>2 DEF Challenged, Fingerprint, ProvenBy
<1>3. ASSUME NEW h \in Gates, Fails(h) \/ Proceeds(h) PROVE FALSE
  <2>1. gate'[g].asserted \in {None, gate[g].asserted}
    <3>1. Waiting.asserted = None /\ Waiting \in GateRow
      BY DEF Waiting, GateRow
    <3>2. CASE Fails(h)
      BY <1>1, <3>1, <3>2 DEF Fails, GateRow
    <3>3. CASE Proceeds(h)
      BY <1>1, <3>1, <3>3 DEF Proceeds, GateRow
    <3> QED
      BY <1>3, <3>2, <3>3
  <2> QED
    BY <1>1, <2>1
<1>4. ASSUME NEW h \in Gates, NEW r, gate' = [gate EXCEPT ![h] = r],
             r.asserted = gate[h].asserted
      PROVE  FALSE
  BY <1>1, <1>4
<1>5. ASSUME NEW h \in Gates, Bind(h) PROVE FALSE
  <2> DEFINE r == [gate[h] EXCEPT !.is = "running", !.host = route["migrator"],
                                  !.boot = Fingerprint(route["migrator"]), !.held = TRUE]
  <2>1. r.asserted = gate[h].asserted
    BY <1>1 DEF GateRow
  <2>2. gate' = [gate EXCEPT ![h] = r] \/ Fails(h)
    BY <1>5 DEF Bind
  <2> HIDE DEF r
  <2> QED
    BY <1>3, <1>4, <2>1, <2>2
<1>6. ASSUME NEW h \in Gates, Open(h) PROVE FALSE
  <2> DEFINE r == [gate[h] EXCEPT !.open = route["migrator"]]
  <2>1. r.asserted = gate[h].asserted
    BY <1>1 DEF GateRow
  <2>2. gate' = [gate EXCEPT ![h] = r] \/ Fails(h)
    BY <1>1, <1>6 DEF Open
  <2> HIDE DEF r
  <2> QED
    BY <1>3, <1>4, <2>1, <2>2
<1>7. ASSUME NEW h \in Gates, LoseChallenge(h) PROVE FALSE
  <2> DEFINE r == [gate[h] EXCEPT !.held = FALSE]
  <2>1. r.asserted = gate[h].asserted
    BY <1>1 DEF GateRow
  <2>2. gate' = [gate EXCEPT ![h] = r]
    BY <1>1, <1>7 DEF LoseChallenge
  <2> HIDE DEF r
  <2> QED
    BY <1>4, <2>1, <2>2
<1>8. ASSUME NEW j \in Instances, Restart(j) PROVE FALSE
  <2>1. gate'[g] \in {[Waiting EXCEPT !.is = "failed"], [gate[g] EXCEPT !.held = FALSE],
                      gate[g]}
    BY <1>8 DEF Restart
  <2>2. /\ [Waiting EXCEPT !.is = "failed"].asserted = None
        /\ [gate[g] EXCEPT !.held = FALSE].asserted = gate[g].asserted
    BY <1>1 DEF Waiting, GateRow
  <2> QED
    BY <1>1, <2>1, <2>2
<1>9. CASE gate' = gate
  BY <1>9
<1>10. ASSUME NEW h \in Gates, Child(h) PROVE gate[g].held /\ ProvenBy(g, i)
  <2>1. \/ Bind(h) \/ Open(h) \/ Fails(h) \/ Proceeds(h)
        \/ \E j : Challenged(h, j) /\ gate' = [gate EXCEPT ![h].asserted = j]
    BY <1>10 DEF Child, Preflight, VerifyTarget, VerifyPrincipal, VerifyReaders, Settles,
       AssertAgain, AssertAnchor, PlaceAnchor, MigrateApp, MigrateAuth, Establish, Commit,
       ReadBack
  <2> QED
    BY <1>2, <1>3, <1>5, <1>6, <2>1
<1>11. ASSUME NEW h \in Gates, Kill(h) PROVE FALSE
  BY <1>3, <1>11 DEF Kill
<1>12. ASSUME NEW h \in Releases, AcceptCandidate(h) PROVE gate' = gate
  BY <1>12 DEF AcceptCandidate
<1>13. ASSUME Inventory \/ Rewrite \/ UNCHANGED vars PROVE gate' = gate
  BY <1>13 DEF Inventory, Rewrite, vars
<1>14. ASSUME NEW p \in Persons, SignIn(p) PROVE gate' = gate
  BY <1>14 DEF SignIn
<1>15. ASSUME NEW j \in Instances,
              \/ \E c \in Credentials : Reroute(c, j)
              \/ \E x \in Drifts : Drift(j, x)
              \/ \E k \in Instances : Copy(j, k)
       PROVE  gate' = gate
  BY <1>15 DEF Reroute, Drift, Copy
<1> QED
  BY <1>7, <1>8, <1>9, <1>10, <1>11, <1>12, <1>13, <1>14, <1>15 DEF Next

(* A release leaves behind what it says: a receipt is only ever found in an *)
(* anchored database with an identity, the migrations of its release and   *)
(* every account moved, and a candidate is accepted only where its own     *)
(* gate left the receipt.                                                  *)
THEOREM ReleaseIsSoundHolds == Spec => []ReleaseIsSound
BY AlwaysInOrder, InvSound, PTL

(* Once the move of the accounts is recorded, no two people share a key,   *)
(* no old subject is left and an account whose token verifies has the key  *)
(* of that person.                                                         *)
THEOREM OneAccountEachHolds == Spec => []OneAccountEach
BY AlwaysInOrder, InvOneAccount, PTL

(* Whatever is routed elsewhere, restarted or copied, a transaction passes *)
(* its last assertion only on the instance that the parent of the gate     *)
(* proved and while the parent holds it; migrations, receipts and the move *)
(* of the accounts are then committed on that anchored instance alone, in  *)
(* the same life of it, and the anchor is placed on that instance alone.   *)
(* The challenge itself may be lost before the commit.                     *)
THEOREM OnlyProvenHolds == Spec => OnlyProven
<1>1. ASSUME Inv, [Next]_vars, NEW i \in Instances
      PROVE  (\A g \in Gates : AssertsProven(g, i)) /\ MarksProven(i) /\ AnchorProven(i)
  <2>1. \A g \in Gates : AssertsProven(g, i)
    BY <1>1, AssertsWhatItHolds DEF AssertsProven
  <2>2. CASE \E g \in Gates : MigrateApp(g) \/ MigrateAuth(g) \/ Establish(g)
    <3>1. PICK g \in Gates : MigrateApp(g) \/ MigrateAuth(g) \/ Establish(g)
      BY <2>2
    <3>2. /\ \/ Untouched(i)
             \/ /\ g \in Releases
                /\ gate[g].open = i /\ gate[g].asserted = i
                /\ ProvenBy(g, i) /\ db[i].anchored
          /\ Unanchored(i)
      BY <1>1, <3>1, WriterIsProven
    <3> QED
      BY <2>1, <3>2 DEF Untouched, Unanchored, MarksProven, AnchorProven
  <2>3. CASE \E g \in Gates : PlaceAnchor(g)
    BY <1>1, <2>1, <2>3, AnchorIsProven DEF Untouched, Unanchored, MarksProven, AnchorProven
  <2>4. CASE /\ faults' = faults
             /\ ~ \E g \in Gates : \/ MigrateApp(g) \/ MigrateAuth(g) \/ Establish(g)
                                   \/ PlaceAnchor(g)
    BY <1>1, <2>1, <2>4, OthersLeaveMarks DEF Untouched, Unanchored, MarksProven, AnchorProven
  <2>5. CASE faults' # faults
    BY <2>1, <2>5 DEF MarksProven, AnchorProven
  <2> QED
    BY <2>2, <2>3, <2>4, <2>5
<1>2. ASSUME Inv, [Next]_vars
      PROVE  [\A i \in Instances : /\ \A g \in Gates : AssertsProven(g, i)
                                   /\ MarksProven(i) /\ AnchorProven(i)]_vars
  BY <1>1, <1>2
<1> QED
  BY <1>2, AlwaysInOrder, PTL DEF Spec, OnlyProven

=============================================================================
