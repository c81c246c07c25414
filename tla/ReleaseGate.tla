---------------------------- MODULE ReleaseGate ----------------------------
(***************************************************************************)
(* The production release gate of the cockpit: the scripts that anchor a   *)
(* database, migrate it, move the Microsoft accounts to directory ids and  *)
(* write the receipt of a release, and the attestation by which a          *)
(* candidate deployment is accepted.                                       *)
(*                                                                         *)
(* A gate is a parent process that holds two sessions with two advisory    *)
(* locks, the challenge, and starts child scripts one after the other.     *)
(* Every child opens connections of its own, and where a connection        *)
(* arrives is decided by the network at that moment (route): a pooler or a *)
(* provider may send it to another database instance, a copy with the same *)
(* catalog values.  Several gates, the account script that an operator     *)
(* runs by hand, and sign-ins interleave with faults of the environment.   *)
(***************************************************************************)
EXTENDS Naturals, Sequences, TLC

CONSTANTS
  Releases,   \* the gates, one per release that is attempted
  Bootstrap,  \* the run that only places the anchor
  Length,     \* Length[g]: how many migrations the manifest of release g lists
  Instances,  \* the database instances a connection may reach
  Persons,    \* the people with a Microsoft account
  Blockers,   \* the blockers that the evidence-kernel policy of the release names
  Worlds      \* the initial databases, tokens and exports that are considered,
              \* each with a bound on the faults of the environment

Gates == Releases \cup {Bootstrap}

ASSUME GateAssumption ==
  /\ Bootstrap \notin Releases
  /\ Length \in [Releases -> Nat \ {0}]
  /\ \A w \in Worlds : w.faults \in Nat

VARIABLES
  db,       \* what each instance stores
  route,    \* the instance that a new connection of a credential reaches
  gate,     \* the gates
  script,   \* the account script an operator runs by hand
  served,   \* the instance a candidate of the release was accepted on
  proof,    \* whether the stored id token of a person's account verifies
  export,   \* the directory id that the export names for a person's account
  faults    \* how many faults may still happen

vars == <<db, route, gate, script, served, proof, export, faults>>

None == "none"
Credentials == {"migrator", "runtime", "bootstrap"}

(* What may differ from the control manifest or the approved grants.       *)
Drifts == {"owner", "control", "table", "grant", "receipt grant"}
(* An account is keyed by the old subject, or by a directory id.           *)
Keys == {None, "sub"} \cup Persons

Databases ==
  [boot: Nat, anchored: BOOLEAN, history: Nat, identity: Instances \cup {None},
   receipts: SUBSET Releases, drift: SUBSET Drifts,
   moved: BOOLEAN, key: [Persons -> Keys]]

(* The children of a gate, in order: db:migrate is a preflight, the        *)
(* migrations and the account move, and runs twice.                        *)
Plan_AppOnly(g) ==
  IF g = Bootstrap THEN <<"anchor", "readers">>
  ELSE <<"preflight", "app", "verify", "establish", "read back", "principal">>
Plan(g) ==
  IF g = Bootstrap THEN <<"anchor", "readers">>
  ELSE <<"preflight", "preflight", "app", "auth", "preflight", "app", "auth",
         "verify", "establish", "read back", "principal">>

(* The names stand apart.  A release that is attempted has no receipt yet; a *)
(* database whose accounts have moved already has one key for every account. *)
ASSUME NameAssumption ==
  /\ None \notin Instances
  /\ {None, "sub", "refused"} \cap Persons = {}
ASSUME WorldAssumption == \A w \in Worlds :
  /\ w.db \in [Instances -> Databases] /\ w.home \in Instances
  /\ w.proof \in [Persons -> {None, "verified", "unverifiable"}]
  /\ w.export \in [Persons -> Persons \cup {None}]
  /\ \A i \in Instances :
       /\ w.db[i].receipts = {}
       /\ w.db[i].moved => \A p \in Persons :
            /\ w.db[i].key[p] # "sub"
            /\ w.proof[p] = "verified" => w.db[i].key[p] \in {None, p}
            /\ \A q \in Persons \ {p} :
                 w.db[i].key[p] = w.db[i].key[q] => w.db[i].key[p] = None

Waiting == [is |-> "waiting", at |-> 1, host |-> None, boot |-> 0, held |-> FALSE,
            open |-> None, asserted |-> None]
Ended(g) == gate[g].is \in {"failed", "accepted"}
Step(g) == IF gate[g].is = "running" /\ gate[g].at \in DOMAIN Plan(g) THEN Plan(g)[gate[g].at] ELSE None

Idle == [at |-> "idle", on |-> None, from |-> [p \in Persons |-> None], to |-> [p \in Persons |-> None]]

Init ==
  \E w \in Worlds :
    /\ db = w.db /\ proof = w.proof /\ export = w.export
    /\ route = [c \in Credentials |-> w.home]
    /\ gate = [g \in Gates |-> IF g \in w.gates THEN Waiting ELSE [Waiting EXCEPT !.is = "failed"]]
    /\ script = IF w.script THEN Idle ELSE [Idle EXCEPT !.at = "ended"]
    /\ served = [g \in Releases |-> None]
    /\ faults = w.faults

-----------------------------------------------------------------------------
(* The challenge.  A connection reaches the proven database when the live  *)
(* fingerprint is the expected one and both challenge locks are refused    *)
(* there, because the parent still holds them.                             *)

Fingerprint(i) == db[i].boot
(* (A challenge by catalog values alone would be Challenged_ByCatalog.)      *)
Challenged_ByCatalog(g, i) == Fingerprint(i) = gate[g].boot
Challenged(g, i) ==
  /\ Fingerprint(i) = gate[g].boot
  /\ gate[g].held /\ i = gate[g].host

(* What the scripts ask of a database: the anchor of production, owned by a  *)
(* role of its own and readable by the two routine credentials; a migrator   *)
(* that owns every object; the tables, columns, triggers, functions and      *)
(* indexes of the manifest; a runtime role without authority over them.  The *)
(* application has a copy of the last two checks of its own.                 *)
Anchored(i) == db[i].anchored
Trusted(i) == "owner" \notin db[i].drift
TablesListed(i) == "table" \notin db[i].drift
ControlsListed(i) == "control" \notin db[i].drift
PrincipalRestricted(i) == db[i].drift \cap {"grant", "receipt grant"} = {}
ControlsAttested(i) == "control" \notin db[i].drift
PrincipalAttested(i) == db[i].drift \cap {"grant", "receipt grant"} = {}

Pristine(i) == db[i].history = 0 /\ db[i].identity = None
LockFree(i) == \A g \in Gates : gate[g].open # i
(* Receipts are a prefix of the manifest, or all of it.                    *)
PrefixOf(g, i) == db[i].history <= Length[g]
ExactFor(g, i) == db[i].history = Length[g]

(* A child ends well when its checks pass; otherwise the parent stops and  *)
(* releases the challenge.                                                 *)
Fails_KeepsTransaction(g) == gate' = [gate EXCEPT ![g].is = "failed"]
Fails(g) == gate' = [gate EXCEPT ![g] = [Waiting EXCEPT !.is = "failed"]]
Proceeds_PastTheEnd(g) ==
  gate' = [gate EXCEPT ![g].at = @ + 1, ![g].open = None, ![g].asserted = None]
Proceeds(g) ==
  gate' = [gate EXCEPT ![g] =
             IF gate[g].at = Len(Plan(g)) THEN [Waiting EXCEPT !.is = "accepted"]
             ELSE [gate[g] EXCEPT !.at = @ + 1, !.open = None, !.asserted = None]]
Settles(g, passes) == IF passes THEN Proceeds(g) ELSE Fails(g)
Unchanged == UNCHANGED <<route, script, served, proof, export, faults>>

(* The parent proves, before any change, that the migration and the runtime *)
(* credential reach one database, and a release that it is the anchored one. *)
Bind(g) ==
  LET i == route["migrator"] IN
  /\ gate[g].is = "waiting"
  /\ IF /\ route["runtime"] = i
        /\ Trusted(i)
        /\ g \in Releases => Anchored(i)
     THEN gate' = [gate EXCEPT ![g] =
                     [@ EXCEPT !.is = "running", !.host = i, !.boot = Fingerprint(i), !.held = TRUE]]
     ELSE Fails(g)
  /\ Unchanged /\ UNCHANGED db

(* The read-only children.  The verifiers of the schema and of the runtime  *)
(* principal are not given the challenge.                                   *)
Preflight(g) ==
  LET i == route["migrator"] IN
  /\ Step(g) = "preflight" /\ LockFree(i)
  /\ Settles(g, /\ Challenged(g, i) /\ PrefixOf(g, i)
                /\ (db[i].history = 0 => Pristine(i) /\ Anchored(i)) /\ Trusted(i))
  /\ Unchanged /\ UNCHANGED db

VerifyTarget(g) ==
  LET i == route["migrator"] IN
  /\ Step(g) = "verify"
  /\ Settles(g, ExactFor(g, i) /\ TablesListed(i) /\ ControlsListed(i))
  /\ Unchanged /\ UNCHANGED db

VerifyPrincipal(g) ==
  /\ Step(g) = "principal"
  /\ Settles(g, PrincipalRestricted(route["runtime"]))
  /\ Unchanged /\ UNCHANGED db

VerifyReaders(g) ==
  /\ Step(g) = "readers"
  /\ Settles(g, \A c \in {"migrator", "runtime"} :
                  Challenged(g, route[c]) /\ Anchored(route[c]))
  /\ Unchanged /\ UNCHANGED db

-----------------------------------------------------------------------------
(* The writing children work in one transaction under the migration lock    *)
(* (the bootstrap takes none).  They assert the challenge when it opens and  *)
(* for the last time before they end it; statements and the COMMIT follow,   *)
(* so a challenge that is lost after the last assertion stops no COMMIT.     *)
(* Which instance passed that assertion is asserted, until the transaction   *)
(* ends; a restart of the instance ends the transaction.                     *)

Writes == {"app", "auth", "establish"}
Opens(g, i) ==
  /\ Challenged(g, i) /\ Trusted(i)
  /\ Step(g) \in {"app", "auth"} => PrefixOf(g, i)
  /\ Step(g) = "establish" => Challenged(g, route["runtime"]) /\ Anchored(i)

Open(g) ==
  LET i == route["migrator"] IN
  /\ Step(g) \in Writes /\ gate[g].open = None /\ LockFree(i)
  /\ IF Opens(g, i) THEN gate' = [gate EXCEPT ![g].open = i] ELSE Fails(g)
  /\ Unchanged /\ UNCHANGED db

(* The last assertion.  Migrations that are all applied already write        *)
(* nothing, and are not asserted again.                                     *)
NothingToApply(g) == Step(g) = "app" /\ ExactFor(g, gate[g].open)
AssertAgain(g) ==
  LET i == gate[g].open IN
  /\ i # None /\ gate[g].asserted = None /\ ~NothingToApply(g)
  /\ IF Challenged(g, i) THEN gate' = [gate EXCEPT ![g].asserted = i] ELSE Fails(g)
  /\ Unchanged /\ UNCHANGED db

(* What follows it, without the challenge: the ownership is read again, and  *)
(* the transaction commits what it wrote.                                   *)
Commit(g, passes, after) ==
  /\ gate[g].open # None
  /\ gate[g].asserted = gate[g].open \/ NothingToApply(g)
  /\ IF Trusted(gate[g].open) /\ passes
     THEN Proceeds(g) /\ db' = [db EXCEPT ![gate[g].open] = after]
     ELSE Fails(g) /\ UNCHANGED db
  /\ Unchanged

(* The missing migrations; the first ones create the identity of the        *)
(* database and map it to the approved external one.                        *)
MigrateApp(g) ==
  LET i == gate[g].open IN
  /\ Step(g) = "app"
  /\ Commit(g, TRUE,
       [db[i] EXCEPT !.history = Length[g],
                     !.identity = IF Pristine(i) THEN i ELSE @])

-----------------------------------------------------------------------------
(* The move of the accounts to directory ids.                               *)

Legacy(i) == {p \in Persons : db[i].key[p] = "sub"}
Shared(key) ==
  \E p, q \in Persons : p # q /\ key[p] = key[q] /\ key[p] \notin {None, "sub"}
(* Where the plan takes the account of p: "refused" without a proof, or      *)
(* when the proof and the export disagree.                                  *)
Verified(p) == proof[p] = "verified"
Mapped(i, p) == export[p] # None /\ db[i].key[p] \in {"sub", export[p]}
Destination_TrustsExport(i, p) ==
  LET key == db[i].key[p] IN
  IF key = None THEN None
  ELSE IF Mapped(i, p) THEN export[p]
  ELSE IF Verified(p) /\ key \in {"sub", p} THEN p
  ELSE IF db[i].moved THEN key ELSE "refused"
Destination(i, p) ==
  LET key == db[i].key[p] IN
  IF key = None THEN None
  ELSE IF Verified(p) THEN
    IF Mapped(i, p) /\ export[p] # p THEN "refused"
    ELSE IF key \in {"sub", p} THEN p ELSE "refused"
  ELSE IF Mapped(i, p) THEN export[p]
  ELSE IF db[i].moved THEN key ELSE "refused"
Planned(i) == [p \in Persons |-> Destination(i, p)]
Acceptable(i) ==
  /\ ~Shared(db[i].key) /\ ~Shared(Planned(i))
  /\ \A p \in Persons : Planned(i)[p] # "refused"
  /\ db[i].moved => Planned(i) = db[i].key

(* The table of the accounts is locked before the plan is made and before    *)
(* the last assertion, and stays locked until the transaction ends.         *)
AccountsFree(i) == \A g \in Gates : gate[g].asserted = i => Step(g) # "auth"
MigrateAuth(g) ==
  LET i == gate[g].open IN
  /\ Step(g) = "auth" /\ i # None
  /\ Commit(g, PrefixOf(g, i) /\ Acceptable(i),
       [db[i] EXCEPT !.key = Planned(i), !.moved = TRUE])

(* The older script, run by hand: it reads the accounts without a lock and   *)
(* decodes the token without verifying it, and later rewrites the rows that  *)
(* still have the key it read, in one transaction without a receipt.         *)
Guess(p) == IF export[p] # None THEN export[p] ELSE IF proof[p] # None THEN p ELSE None
Inventory ==
  LET key == db[route["migrator"]].key
      new == [p \in Persons |-> IF key[p] = "sub" THEN Guess(p)
                                ELSE IF key[p] # None /\ proof[p] # None THEN p ELSE None]
  IN
  /\ script.at = "idle"
  /\ \A p \in Persons : key[p] # None => new[p] # None
  /\ script' = [at |-> "planned", on |-> route["migrator"], from |-> key, to |-> new]
  /\ UNCHANGED <<db, route, gate, served, proof, export, faults>>

Rewrite ==
  LET i == script.on
      changed == {p \in Persons : script.to[p] # script.from[p]}
  IN
  /\ script.at = "planned" /\ AccountsFree(i)
  /\ script' = [Idle EXCEPT !.at = "ended"]
  /\ db' = IF \A p \in changed : db[i].key[p] = script.from[p]
           THEN [db EXCEPT ![i].key = [p \in Persons |-> IF p \in changed THEN script.to[p] ELSE @[p]]]
           ELSE db
  /\ UNCHANGED <<route, gate, served, proof, export, faults>>

(* The first sign-in of a person on this version creates the account, once   *)
(* the move is recorded.                                                     *)
SignIn(p) ==
  LET i == route["runtime"] IN
  /\ db[i].moved /\ db[i].key[p] = None /\ AccountsFree(i)
  /\ \A q \in Persons : db[i].key[q] # p
  /\ db' = [db EXCEPT ![i].key[p] = p]
  /\ UNCHANGED <<route, gate, script, served, proof, export, faults>>

-----------------------------------------------------------------------------
(* The receipt, the hand-over of its nonce, and the attestation.            *)

Establish(g) ==
  LET i == gate[g].open IN
  /\ Step(g) = "establish" /\ i # None
  /\ Commit(g, db[i].identity # None /\ ExactFor(g, i),
       [db[i] EXCEPT !.receipts = @ \cup {g}, !.drift = @ \ {"receipt grant"}])

(* The runtime session, open since before the commit, reads the receipt; a   *)
(* failure from here on leaves a receipt whose nonce nobody is given.        *)
ReadBack(g) ==
  /\ Step(g) = "read back"
  /\ Settles(g, /\ Challenged(g, gate[g].host) /\ ExactFor(g, gate[g].host)
                /\ g \in db[gate[g].host].receipts)
  /\ Unchanged /\ UNCHANGED db

HandedOver(g) == gate[g].is = "accepted"
Attested_ByIdentity(g, i) ==
  /\ ExactFor(g, i)
  /\ db[i].identity # None /\ Anchored(i)
  /\ ControlsAttested(i) /\ PrincipalAttested(i)
Attested(g, i) ==
  /\ ExactFor(g, i)
  /\ g \in db[i].receipts /\ db[i].identity # None /\ Anchored(i)
  /\ ControlsAttested(i) /\ PrincipalAttested(i)
AcceptCandidate(g) ==
  /\ HandedOver(g) /\ served[g] = None /\ Attested(g, route["runtime"])
  /\ Blockers = {}
  /\ served' = [served EXCEPT ![g] = route["runtime"]]
  /\ UNCHANGED <<db, route, gate, script, proof, export, faults>>

(* The anchor is placed once, by a credential of its own, on an empty        *)
(* database; where it is already, the database must still be empty.  The     *)
(* transaction asserts the challenge once, before it looks and writes.       *)
AssertAnchor(g) ==
  LET i == route["bootstrap"] IN
  /\ Step(g) = "anchor" /\ gate[g].asserted = None
  /\ IF Challenged(g, i) THEN gate' = [gate EXCEPT ![g].asserted = i] ELSE Fails(g)
  /\ Unchanged /\ UNCHANGED db

PlaceAnchor(g) ==
  LET i == gate[g].asserted IN
  /\ Step(g) = "anchor" /\ i # None
  /\ IF Pristine(i)
     THEN Proceeds(g) /\ db' = [db EXCEPT ![i].anchored = TRUE]
     ELSE Fails(g) /\ UNCHANGED db
  /\ Unchanged

-----------------------------------------------------------------------------
(* Faults: connections are routed elsewhere, an instance restarts, the       *)
(* sessions of a challenge are lost, a gate is killed, a database is copied  *)
(* over another that nobody uses, controls or grants drift.                  *)

Faulty == faults > 0 /\ faults' = faults - 1 /\ UNCHANGED <<proof, export>>

Reroute(c, i) ==
  /\ Faulty /\ route[c] # i
  /\ route' = [route EXCEPT ![c] = i]
  /\ UNCHANGED <<db, gate, script, served>>

Restart(i) ==
  /\ Faulty
  /\ db' = [db EXCEPT ![i].boot = @ + 1]
  /\ gate' = [g \in Gates |->
       IF i \in {gate[g].open, gate[g].asserted} \/ (Step(g) = "read back" /\ gate[g].host = i)
       THEN [Waiting EXCEPT !.is = "failed"]
       ELSE IF gate[g].host = i THEN [gate[g] EXCEPT !.held = FALSE] ELSE gate[g]]
  /\ UNCHANGED <<route, script, served>>

LoseChallenge(g) ==
  /\ Faulty /\ gate[g].held
  /\ gate' = [gate EXCEPT ![g].held = FALSE]
  /\ UNCHANGED <<db, route, script, served>>

Kill(g) ==
  /\ Faulty /\ gate[g].is = "running"
  /\ Fails(g)
  /\ UNCHANGED <<db, route, script, served>>

InUse(i) ==
  \/ \E g \in Gates : gate[g].host = i
  \/ \E g \in Releases : served[g] = i
  \/ script.on = i
Copy(i, j) ==
  /\ Faulty /\ i # j /\ ~InUse(j)
  /\ db' = [db EXCEPT ![j] = [db[i] EXCEPT !.boot = db[j].boot]]
  /\ UNCHANGED <<route, gate, script, served>>

Drift(i, d) ==
  /\ Faulty
  /\ db' = [db EXCEPT ![i].drift = @ \cup {d}]
  /\ UNCHANGED <<route, gate, script, served>>

Child(g) ==
  \/ Bind(g) \/ Preflight(g) \/ VerifyTarget(g) \/ VerifyPrincipal(g) \/ VerifyReaders(g)
  \/ Open(g) \/ AssertAgain(g) \/ MigrateApp(g) \/ MigrateAuth(g) \/ Establish(g) \/ ReadBack(g)
  \/ AssertAnchor(g) \/ PlaceAnchor(g)

Next ==
  \/ \E g \in Gates : Child(g) \/ LoseChallenge(g) \/ Kill(g)
  \/ \E g \in Releases : AcceptCandidate(g)
  \/ Inventory \/ Rewrite
  \/ \E p \in Persons : SignIn(p)
  \/ \E i \in Instances : \/ Restart(i)
                          \/ \E c \in Credentials : Reroute(c, i)
                          \/ \E d \in Drifts : Drift(i, d)
                          \/ \E j \in Instances : Copy(i, j)

(* A gate is a running process: it starts and it goes on.                   *)
Fairness == \A g \in Gates : WF_vars(Child(g))
Spec == Init /\ [][Next]_vars /\ Fairness

-----------------------------------------------------------------------------
TypeOK ==
  /\ db \in [Instances -> Databases]
  /\ route \in [Credentials -> Instances]
  /\ gate \in [Gates -> [is: {"waiting", "running", "failed", "accepted"}, at: Nat,
                        host: Instances \cup {None}, boot: Nat, held: BOOLEAN,
                        open: Instances \cup {None}, asserted: Instances \cup {None}]]
  /\ \A g \in Gates : gate[g].at \in DOMAIN Plan(g)
  /\ script \in [at: {"idle", "planned", "ended"}, on: Instances \cup {None},
                 from: [Persons -> Keys], to: [Persons -> Keys]]
  /\ served \in [Releases -> Instances \cup {None}]
  /\ proof \in [Persons -> {None, "verified", "unverifiable"}]
  /\ export \in [Persons -> Persons \cup {None}]
  /\ faults \in Nat

(* Whatever is routed elsewhere, restarted or copied while a gate is under   *)
(* way, its children write only to the instance that the parent proved, and  *)
(* that has not restarted since: a transaction passes its last assertion     *)
(* only where and while the parent holds the challenge, and what commits     *)
(* later, after statements during which the challenge may be lost, commits   *)
(* on the instance that passed it.  So a lost challenge lets at most the     *)
(* transaction through that had passed already.  Releases write to anchored  *)
(* instances alone.  (release-target-binding.mjs:157, README.md:161)         *)
ProvenBy(g, i) == gate[g].host = i /\ db[i].boot = gate[g].boot
AssertsProven(g, i) ==
  gate[g].asserted # i /\ gate'[g].asserted = i => gate[g].held /\ ProvenBy(g, i)
MarksProven(i) ==
  /\ faults' = faults
  /\ \/ db'[i].history # db[i].history
     \/ db'[i].receipts # db[i].receipts
     \/ db'[i].moved # db[i].moved
  => \E g \in Releases : /\ gate[g].open = i /\ gate[g].asserted = i
                         /\ ProvenBy(g, i) /\ db[i].anchored
AnchorProven(i) ==
  faults' = faults /\ db'[i].anchored # db[i].anchored =>
    gate[Bootstrap].asserted = i /\ ProvenBy(Bootstrap, i)
OnlyProven ==
  [][\A i \in Instances : /\ \A g \in Gates : AssertsProven(g, i)
                          /\ MarksProven(i) /\ AnchorProven(i)]_vars

(* A receipt is only ever found in an anchored database with an identity     *)
(* that has at least the migrations of its release and no account left under *)
(* an old subject, although the receipt, the migrations and the accounts are *)
(* written by different processes and several releases are under way.        *)
(* (release-target-binding.mjs:395-410)                                      *)
ReceiptsHold ==
  \A i \in Instances : \A g \in db[i].receipts :
    /\ db[i].anchored /\ db[i].identity # None
    /\ db[i].history >= Length[g]
    /\ db[i].moved /\ Legacy(i) = {}

(* A candidate is accepted only on a database that its own gate released, or *)
(* on a copy made after that: a copy with the same identity made before is   *)
(* told apart by the receipt.  (010_release_target_binding.sql:1-4)          *)
ServedIsReleased ==
  \A g \in Releases :
    served[g] # None => g \in db[served[g]].receipts /\ gate[g].is = "accepted"

(* What a release leaves behind and what it is accepted for.                  *)
ReleaseIsSound == TypeOK /\ ReceiptsHold /\ ServedIsReleased

(* Once the move of the accounts is recorded, no two people share an account *)
(* key, no old subject is left, and an account whose token verifies is keyed *)
(* by the person of that token, also when the script that is run by hand and *)
(* sign-ins work on the same rows.  (OPERATIONS_RUNBOOK.md:194-196)          *)
OneAccountEach ==
  \A i \in Instances : db[i].moved =>
    /\ Legacy(i) = {} /\ ~Shared(db[i].key)
    /\ \A p \in Persons : Verified(p) => db[i].key[p] \in {None, p}

(* Every gate ends and releases what it holds: none waits for ever for the   *)
(* migration lock of another, or for a challenge that is lost.               *)
GatesEnd == \A g \in Gates : <>Ended(g)

=============================================================================
