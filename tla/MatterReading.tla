---------------------------- MODULE MatterReading ----------------------------
(* A reading of the documents of a matter: the route that checks and reads the *)
(* sources (app/api/matters/[id]/reading/route.ts, lib/matterDocumentReading),  *)
(* and the service that keeps readings in SQLite with an audit log             *)
(* (contracttwin/api.py, repository.py), while the base document may be purged *)
(* (SourcePurge) and the amendments and the access change.                     *)
(*                                                                             *)
(* Nothing here is one transaction: the route reads the rows, then the files   *)
(* one after the other, then the rows again, and after the service answered    *)
(* once more.  The service runs its calls in threads; sqlite3 opens a          *)
(* transaction at an INSERT only, so what it read before may be stale.         *)
EXTENDS SourcePurge, Amendments

CONSTANTS
  Reader,       \* requests for a reading, of the matter or of another client
  Base,         \* the base agreement, the document of SourcePurge
  Amendment,    \* the amendments of the matter
  Selection,    \* orders of amendments that a user may confirm
  Sections,     \* the sections of the base agreement
  Ops,          \* the replacements of each amendment
  Direct,       \* agreements that other clients of the service send
  Nowhere,      \* no selection, no agreement, no row
  MaxLog        \* bound: audit events about stored readings

ASSUME ReadingAssumption ==
  /\ Base \notin Amendment /\ MaxLog \in Nat
  /\ IsFiniteSet(Reader) /\ Nowhere \notin Selection
  /\ \A sel \in Selection : ToSet(sel) \subseteq Amendment

VARIABLES
  row,        \* what a reading compares of the rows of the amendments
  file,       \* the blob of an amendment still has the verified hash
  access,     \* the user may view the matter
  reader,
  readings,   \* the readings table of the service, in the order of insertion
  log,        \* its audit log, the rows about single readings
  died        \* a call of the service ended without its audit event

readingVars == <<row, file, access, reader, readings, log, died>>
serviceVars == <<readings, log, died>>

Readables == {"DRAFT", "CURRENT"}
Steps == {"new", "files", "access before", "rows before", "prior", "find", "number", "insert",
          "record", "access after", "rows after", "answered", "refused"}
NewReader(step) == [step |-> step, sel |-> Nowhere, rows |-> Nowhere, todo |-> {},
                asked |-> Nowhere, known |-> FALSE, version |-> 0]

\* A reading is found again by its agreement key and its content.
Id(key, agreement) == [key |-> key, agreement |-> agreement]
KeyOf(r) == IF reader[r].sel = Nowhere THEN "client" ELSE "matter"
IdOf(r) == Id(KeyOf(r), reader[r].asked)
Stored == {Id(readings[k].key, readings[k].agreement) : k \in DOMAIN readings}

Rows(sel) == [d \in {Base} \cup ToSet(sel) |-> IF d = Base THEN deletion ELSE row[d]]
Intact(d) == IF d = Base THEN stored ELSE file[d]

\* assertReadable: active, clean, verified, extracted as plain text.
Readable(d, r) == IF d = Base THEN r = "ACTIVE" ELSE r \in Readables

\* The cockpit sends no dates: the confirmed order decides.
MatterAgreement(sel) ==
  [base |-> Sections, amendments |-> [i \in DOMAIN sel |-> AmendmentOf(sel[i], Undated, Ops[sel[i]])]]

ASSUME AgreementAssumption ==
  \A agreement \in Direct \cup {MatterAgreement(sel) : sel \in Selection} : IsAgreement(agreement)

ReadingInit ==
  /\ row \in [Amendment -> {"CURRENT"}] /\ file = [d \in Amendment |-> TRUE]
  /\ access = TRUE
  /\ reader = [r \in Reader |-> NewReader("new")]
  /\ readings = <<>> /\ log = <<>> /\ died = FALSE

-----------------------------------------------------------------------------
(* The route.                                                                  *)

At(r, step) == reader[r].step = step
Advance(r, step) == reader' = [reader EXCEPT ![r].step = step]
Refuse(r) == reader' = [reader EXCEPT ![r] = NewReader("refused")]

\* requireMatterAccess and the first read of the rows; every selected document
\* has to be in the matter.
LoadSources(r) ==
  /\ At(r, "new") /\ access
  /\ \E sel \in Selection :
       reader' = [reader EXCEPT ![r] = [NewReader("files") EXCEPT !.sel = sel, !.rows = Rows(sel),
                                          !.todo = {Base} \cup ToSet(sel)]]
  /\ UNCHANGED <<row, file, access, serviceVars>>

\* One document after the other: the loaded row is readable, the blob is there
\* and has the hash of the row.
ReadSource(r) ==
  /\ At(r, "files")
  /\ \E d \in reader[r].todo :
       IF Readable(d, reader[r].rows[d]) /\ Intact(d)
         THEN reader' = [reader EXCEPT ![r].todo = @ \ {d},
                            ![r].step = IF reader[r].todo = {d} THEN "access before" ELSE @]
         ELSE Refuse(r)
  /\ UNCHANGED <<row, file, access, serviceVars>>

\* assertSourcesUnchanged, before and after the service.
CheckAccess(r) ==
  /\ At(r, "access before") \/ At(r, "access after")
  /\ IF ~access THEN Refuse(r)
     ELSE Advance(r, IF At(r, "access before") THEN "rows before" ELSE "rows after")
  /\ UNCHANGED <<row, file, access, serviceVars>>

\* A bug: the rows are not compared again.
SourcesUnchanged_Trusted(r) == TRUE

SourcesUnchanged(r) == Rows(reader[r].sel) = reader[r].rows

SendText(r) ==
  /\ At(r, "rows before")
  /\ IF SourcesUnchanged(r)
       THEN reader' = [reader EXCEPT ![r].step = "prior", ![r].asked = MatterAgreement(reader[r].sel)]
       ELSE Refuse(r)
  /\ UNCHANGED <<row, file, access, serviceVars>>

Answer(r) ==
  /\ At(r, "rows after")
  /\ IF SourcesUnchanged(r) THEN Advance(r, "answered") ELSE Refuse(r)
  /\ UNCHANGED <<row, file, access, serviceVars>>

-----------------------------------------------------------------------------
(* The service.                                                                *)

\* POST /v1/agreements of another client, with dates.
Send(r) ==
  /\ At(r, "new")
  /\ \E agreement \in Direct :
       reader' = [reader EXCEPT ![r] = [NewReader("prior") EXCEPT !.asked = agreement]]
  /\ UNCHANGED <<row, file, access, serviceVars>>

\* _read looks up the versions before it saves, to tell created from reused.
ReadPrior(r) ==
  /\ At(r, "prior")
  /\ reader' = [reader EXCEPT ![r].step = "find", ![r].known = IdOf(r) \in Stored]
  /\ UNCHANGED <<row, file, access, serviceVars>>

\* save: the reading is there, ...
FindReading(r) ==
  /\ At(r, "find")
  /\ Advance(r, IF IdOf(r) \in Stored THEN "record" ELSE "number")
  /\ UNCHANGED <<row, file, access, serviceVars>>

VersionsOf(key) == {readings[k].version : k \in {n \in DOMAIN readings : readings[n].key = key}}

\* ... or it gets the next version number, ...
NumberReading(r) ==
  /\ At(r, "number")
  /\ reader' = [reader EXCEPT ![r].step = "insert", ![r].version = Max(VersionsOf(KeyOf(r)) \cup {0}) + 1]
  /\ UNCHANGED <<row, file, access, serviceVars>>

\* A bug: the table has no constraint.
Unique_Unconstrained(r) == TRUE

\* The primary key and UNIQUE (agreement_key, version).
Unique(r) == IdOf(r) \notin Stored /\ reader[r].version \notin VersionsOf(KeyOf(r))

\* ... and is inserted, unless somebody else was faster: then the call fails.
InsertReading(r) ==
  /\ At(r, "insert")
  /\ IF Unique(r)
       THEN /\ readings' = Append(readings,
                 [key |-> KeyOf(r), agreement |-> reader[r].asked, version |-> reader[r].version,
                  ledger |-> BuildLedger(reader[r].asked)])
            /\ Advance(r, "record")
       ELSE Refuse(r) /\ UNCHANGED readings
  /\ UNCHANGED <<row, file, access, log, died>>

Event(action, id) == [action |-> action, id |-> id]

\* append_audit, a transaction of its own.
RecordReading(r) ==
  /\ At(r, "record")
  /\ log' = Append(log, Event(IF reader[r].known THEN "reading.reused" ELSE "reading.created", IdOf(r)))
  /\ Advance(r, IF reader[r].sel = Nowhere THEN "answered" ELSE "access after")
  /\ UNCHANGED <<row, file, access, readings, died>>

\* The process ends, or SQLite stays locked for its timeout.
LoseCall(r) ==
  /\ reader[r].step \in {"find", "number", "insert", "record"}
  /\ Refuse(r)
  /\ died' = (died \/ At(r, "record"))
  /\ UNCHANGED <<row, file, access, readings, log>>

\* GET and looked-at: the reading, then an event of its own.
LookAt ==
  /\ Len(log) < MaxLog
  /\ \E k \in DOMAIN readings, action \in {"reading.read", "reading.looked_at"} :
       log' = Append(log, Event(action, Id(readings[k].key, readings[k].agreement)))
  /\ UNCHANGED <<row, file, access, reader, readings, died>>

-----------------------------------------------------------------------------
(* What others change meanwhile.                                               *)

\* A scan, an extraction, an edit of the record, there and back again.
ChangeRow(d) ==
  /\ row' \in {[row EXCEPT ![d] = to] : to \in Readables \cup {"UNREADABLE"}} \ {row}
  /\ UNCHANGED <<file, access, reader, serviceVars>>

AlterFile(d) ==
  /\ file[d] /\ file' = [file EXCEPT ![d] = FALSE]
  /\ UNCHANGED <<row, access, reader, serviceVars>>

ChangeAccess == access' = ~access /\ UNCHANGED <<row, file, reader, serviceVars>>

Route(r) == LoadSources(r) \/ ReadSource(r) \/ CheckAccess(r) \/ SendText(r) \/ Answer(r)
Service(r) ==
  ReadPrior(r) \/ FindReading(r) \/ NumberReading(r) \/ InsertReading(r) \/ RecordReading(r)
    \/ LoseCall(r)
Disturb == \E d \in Amendment : ChangeRow(d) \/ AlterFile(d)
ReadingNext ==
  (\E r \in Reader : Route(r) \/ Send(r) \/ Service(r)) \/ LookAt \/ Disturb \/ ChangeAccess

\* The matter and its sources: readings and the purge of the base document.
MatterInit == Init /\ ReadingInit
MatterNext == (Next /\ UNCHANGED readingVars) \/ (ReadingNext /\ UNCHANGED vars)
MatterSpec == MatterInit /\ [][MatterNext]_<<vars, readingVars>>

-----------------------------------------------------------------------------
(* Properties of the readings.                                                 *)

ReadingTypeOK ==
  /\ row \in [Amendment -> Readables \cup {"UNREADABLE", Nowhere}]
  /\ file \in [Amendment -> BOOLEAN] /\ access \in BOOLEAN /\ died \in BOOLEAN
  /\ \A r \in Reader :
       /\ reader[r].step \in Steps
       /\ reader[r].todo \subseteq {Base} \cup Amendment
       /\ reader[r].version \in 0 .. Cardinality(Reader)

\* However calls of the service overlap, the readings of an agreement are its
\* versions 1, 2, ... with one content each, the log names stored readings only,
\* and a stored reading is in it as created unless its call is about to say so
\* or ended before (repository.py:96-135, api.py:174-182).
StoreIsSound ==
  /\ ReadingTypeOK
  /\ \A key \in {"matter", "client"} :
       LET of == {k \in DOMAIN readings : readings[k].key = key}
       IN VersionsOf(key) = 1 .. Cardinality(of)
  /\ Cardinality(Stored) = Len(readings)
  /\ \A i \in DOMAIN log : log[i].id \in Stored
  /\ died \/ \A id \in Stored :
       \/ \E i \in DOMAIN log : log[i] = Event("reading.created", id)
       \/ \E r \in Reader : At(r, "record") /\ ~reader[r].known /\ IdOf(r) = id

\* Every stored reading has the text in force that its amendments make, whatever
\* their number, dates and order (precedence.py:55-102): "Amendments are applied
\* from earliest date you type in to the latest" (contracttwin/README.md:103).
LaterAmendmentWins ==
  \A k \in DOMAIN readings : Resolves(readings[k].agreement, readings[k].ledger)

\* A user is shown a reading only while each of its sources is active, readable
\* and as it was when it was read, and after the service has stored and logged
\* exactly this selection (reading/route.ts:103-111, 139-149).
AnsweredAsRead ==
  [][\A r \in Reader :
       (At(r, "rows after") /\ reader'[r].step = "answered") =>
          /\ deletion = "ACTIVE"
          /\ \A d \in ToSet(reader[r].sel) : row[d] \in Readables /\ row[d] = reader[r].rows[d]
          /\ Id("matter", MatterAgreement(reader[r].sel)) \in Stored
          /\ \E i \in DOMAIN log : log[i].id = Id("matter", MatterAgreement(reader[r].sel))]_readingVars
=============================================================================
