-------------------------- MODULE MatterReadingProofs --------------------------
(* What holds of the readings of a matter for any number of requests, documents *)
(* and selections (MatterReading): the store of the service is sound however    *)
(* its calls overlap, a user is shown a reading of sources that are as they     *)
(* were, and the ledger of a reading has the latest text of every section in    *)
(* force.                                                                       *)
(*                                                                              *)
(* The invariant says, of every request, what its step entitles it to: behind   *)
(* the files each loaded row was readable; a request that is about to number or *)
(* insert found no such reading when it started, and its number was at most one *)
(* too high; behind the insertion its reading is stored, behind the log it is   *)
(* logged.  The readings are counted against the requests that are through the  *)
(* store, which bounds the version numbers.                                     *)
(*                                                                              *)
(* The ledger has an invariant of its own, Keeps, over the set of texts that    *)
(* were applied so far: each replacement adds one text and Keeps holds with it. *)
(* It goes through the recursive functions of Amendments by induction over the  *)
(* set of numbers up to which it holds (UpTo).                                  *)
EXTENDS MatterReading, FiniteSetTheorems, WellFoundedInduction, TLAPS

Keys == {"matter", "client"}
Deletions == {"ACTIVE", "PENDING_PURGE", "PURGED"}
Documents == {Base} \cup Amendment
MatterAgreements == {MatterAgreement(sel) : sel \in Selection}
Asked == Direct \cup MatterAgreements

RowStates == Deletions \cup Readables \cup {"UNREADABLE"}
RowsSeen == UNION {[D -> RowStates] : D \in SUBSET Documents}
ReaderRow == [step : Steps, sel : Selection \cup {Nowhere}, rows : RowsSeen \cup {Nowhere},
              todo : SUBSET Documents, asked : Asked \cup {Nowhere}, known : BOOLEAN,
              version : 0 .. Cardinality(Reader)]
ReadingRow ==
  {x \in [key : Keys, agreement : Asked, version : Nat,
          ledger : {BuildLedger(agreement) : agreement \in Asked}] :
     /\ x.ledger = BuildLedger(x.agreement)
     /\ x.key = "matter" => x.agreement \in MatterAgreements}
ReadingId == [key : Keys, agreement : Asked]
Actions == {"reading.created", "reading.reused", "reading.read", "reading.looked_at"}
LogRow == [action : Actions, id : ReadingId]

\* The readings of one key, the requests through the store, and what is logged.
Of(key) == {k \in DOMAIN readings : readings[k].key = key}
PastSteps == {"record", "access after", "rows after", "answered", "refused"}
Past == {r \in Reader : reader[r].step \in PastSteps}
Logged(id) == \E i \in DOMAIN log : log[i].id = id
Created(id) == \E i \in DOMAIN log : log[i] = Event("reading.created", id)

KeyFor(q) == IF q.sel = Nowhere THEN "client" ELSE "matter"
IdFor(q) == Id(KeyFor(q), q.asked)

AllRead(q) == \A d \in {Base} \cup ToSet(q.sel) : Readable(d, q.rows[d])

ReaderInOrder(q) ==
  /\ q.step = "files" =>
       /\ q.sel \in Selection
       /\ \A d \in {Base} \cup ToSet(q.sel) : d \notin q.todo => Readable(d, q.rows[d])
  /\ q.step \in {"access before", "rows before"} => q.sel \in Selection /\ AllRead(q)
  /\ q.step \in {"prior", "find", "number", "insert", "record", "access after", "rows after"} =>
       /\ q.asked \in Asked
       /\ q.sel # Nowhere => AllRead(q) /\ q.asked = MatterAgreement(q.sel)
  /\ q.step = "find" /\ q.known => IdFor(q) \in Stored
  /\ q.step \in {"number", "insert"} => ~q.known
  /\ q.step = "insert" => q.version \in 1 .. Cardinality(Of(KeyFor(q))) + 1
  /\ q.step \in {"record", "access after", "rows after"} => IdFor(q) \in Stored
  /\ q.step \in {"access after", "rows after"} => q.sel # Nowhere /\ Logged(IdFor(q))

ReadersInOrder ==
  /\ reader \in [Reader -> ReaderRow]
  /\ \A r \in Reader : ReaderInOrder(reader[r])

StoreInOrder ==
  /\ readings \in Seq(ReadingRow)
  /\ \A key \in Keys : VersionsOf(key) = 1 .. Cardinality(Of(key))
  /\ IsFiniteSet(Stored) /\ Cardinality(Stored) = Len(readings)
  /\ Len(readings) <= Cardinality(Past)

LogInOrder ==
  /\ log \in Seq(LogRow)
  /\ \A i \in DOMAIN log : log[i].id \in Stored
  /\ died \/ \A id \in Stored :
       Created(id) \/ \E r \in Reader : At(r, "record") /\ ~reader[r].known /\ IdOf(r) = id

SurroundingsInOrder ==
  /\ deletion \in Deletions
  /\ row \in [Amendment -> Readables \cup {"UNREADABLE"}]
  /\ file \in [Amendment -> BOOLEAN] /\ access \in BOOLEAN /\ died \in BOOLEAN

Inv == ReadersInOrder /\ StoreInOrder /\ LogInOrder /\ SurroundingsInOrder

mvars == <<vars, readingVars>>

-----------------------------------------------------------------------------
(* Finite sets of readings.                                                    *)

\* Rows are compared by their fields.
LEMMA Ids ==
  /\ \A k, a, l, b : Id(k, a) = Id(l, b) <=> k = l /\ a = b
  /\ \A k \in Keys, a \in Asked : Id(k, a) \in ReadingId
BY DEF Id, ReadingId

LEMMA IdOfReader == \A r : IdOf(r) = IdFor(reader[r]) /\ KeyOf(r) = KeyFor(reader[r])
BY DEF IdOf, IdFor, KeyOf, KeyFor

LEMMA ReaderBound == IsFiniteSet(Reader) /\ Cardinality(Reader) \in Nat
BY ReadingAssumption, FS_CardinalityType

\* The store counts in natural numbers.
LEMMA StoreCounts ==
  ASSUME readings \in Seq(ReadingRow)
  PROVE  /\ DOMAIN readings = 1 .. Len(readings) /\ Len(readings) \in Nat
         /\ \A k \in DOMAIN readings : readings[k] \in ReadingRow
         /\ \A key : /\ IsFiniteSet(Of(key)) /\ Cardinality(Of(key)) \in Nat
                     /\ Cardinality(Of(key)) <= Len(readings)
<1>1. DOMAIN readings = 1 .. Len(readings) /\ Len(readings) \in Nat
  OBVIOUS
<1>2. \A k \in DOMAIN readings : readings[k] \in ReadingRow
  <2> HIDE DEF ReadingRow
  <2> QED
    OBVIOUS
<1>3. ASSUME NEW key
      PROVE  /\ IsFiniteSet(Of(key)) /\ Cardinality(Of(key)) \in Nat
             /\ Cardinality(Of(key)) <= Len(readings)
  <2>1. Of(key) \in SUBSET (1 .. Len(readings))
    BY <1>1 DEF Of
  <2>2. IsFiniteSet(1 .. Len(readings)) /\ Cardinality(1 .. Len(readings)) = Len(readings)
    BY <1>1, FS_Interval
  <2> QED
    BY <2>1, <2>2, FS_Subset, FS_CardinalityType
<1> QED
  BY <1>1, <1>2, <1>3

\* No more readings than requests.
LEMMA PastCounts ==
  /\ IsFiniteSet(Past) /\ Cardinality(Past) \in Nat /\ Cardinality(Past) <= Cardinality(Reader)
  /\ \A r \in Reader : r \notin Past => Cardinality(Past) + 1 <= Cardinality(Reader)
<1>1. Past \in SUBSET Reader
  BY DEF Past
<1>2. /\ IsFiniteSet(Past) /\ Cardinality(Past) \in Nat
      /\ Cardinality(Past) <= Cardinality(Reader)
  BY <1>1, ReaderBound, FS_Subset, FS_CardinalityType
<1>3. ASSUME NEW r \in Reader, r \notin Past
      PROVE  Cardinality(Past) + 1 <= Cardinality(Reader)
  <2>1. Cardinality(Past \cup {r}) = Cardinality(Past) + 1
    BY <1>2, <1>3, FS_AddElement
  <2>2. Past \cup {r} \in SUBSET Reader
    BY <1>1
  <2> QED
    BY <2>1, <2>2, ReaderBound, FS_Subset
<1> QED
  BY <1>2, <1>3

\* The next number is one more than the readings of the key.
LEMMA NextNumber ==
  ASSUME NEW n \in Nat, NEW S, S = 1 .. n
  PROVE  Max(S \cup {0}) + 1 = n + 1
<1>1. n \in S \cup {0} /\ \A y \in S \cup {0} : n >= y
  OBVIOUS
<1>2. \A x \in S \cup {0} : (\A y \in S \cup {0} : x >= y) => x = n
  BY <1>1
<1>3. Max(S \cup {0}) = n
  BY <1>1, <1>2 DEF Max
<1> QED
  BY <1>3

\* The store only gains readings, and the log only events.
Grows ==
  /\ Stored \subseteq Stored'
  /\ \A key \in Keys : /\ Cardinality(Of(key)) \in Nat /\ Cardinality(Of(key))' \in Nat
                       /\ Cardinality(Of(key)) <= Cardinality(Of(key))'
  /\ \A id : Logged(id) => Logged(id)'

\* A request that does not move keeps what its step entitles it to.
LEMMA ReaderStays ==
  ASSUME NEW q \in ReaderRow, ReaderInOrder(q), Grows
  PROVE  ReaderInOrder(q)'
<1>1. KeyFor(q) \in Keys
  BY DEF KeyFor, Keys
<1>2. q.version \in 1 .. Cardinality(Of(KeyFor(q))) + 1
        => q.version \in 1 .. Cardinality(Of(KeyFor(q)))' + 1
  <2>1. PICK m \in Nat, n \in Nat :
          m = Cardinality(Of(KeyFor(q))) /\ n = Cardinality(Of(KeyFor(q)))' /\ m <= n
    BY <1>1 DEF Grows
  <2>2. q.version \in 1 .. m + 1 => q.version \in 1 .. n + 1
    BY <2>1
  <2> QED
    BY <2>1, <2>2
<1>3. /\ IdFor(q) \in Stored => IdFor(q) \in Stored'
      /\ Logged(IdFor(q)) => Logged(IdFor(q))'
  BY DEF Grows
<1> QED
  BY <1>2, <1>3 DEF ReaderInOrder, AllRead, Readable, IdFor, KeyFor

LEMMA OthersStay ==
  ASSUME ReadersInOrder, Grows, NEW r \in Reader, NEW q \in ReaderRow,
         reader' = [reader EXCEPT ![r] = q], ReaderInOrder(q)'
  PROVE  ReadersInOrder'
<1>1. /\ reader' \in [Reader -> ReaderRow] /\ reader'[r] = q
      /\ \A s \in Reader \ {r} : reader'[s] = reader[s] /\ reader[s] \in ReaderRow
  <2> HIDE DEF ReaderRow
  <2> QED
    BY DEF ReadersInOrder
<1>2. ASSUME NEW s \in Reader
      PROVE  ReaderInOrder(reader[s])'
  <2>1. CASE s = r
    BY <2>1, <1>1 DEF ReaderInOrder, AllRead, IdFor, KeyFor
  <2>2. CASE s # r
    <3> DEFINE p == reader[s]
    <3>1. p \in ReaderRow /\ ReaderInOrder(p) /\ reader'[s] = p
      BY <1>1, <2>2 DEF ReadersInOrder
    <3>2. \A o \in ReaderRow : ReaderInOrder(o) => ReaderInOrder(o)'
      BY ReaderStays
    <3> QED
      BY <3>1, <3>2
  <2> QED
    BY <2>1, <2>2
<1> QED
  BY <1>1, <1>2 DEF ReadersInOrder

-----------------------------------------------------------------------------
(* Steps that leave the store alone.                                           *)

LEMMA StoreUnchanged ==
  ASSUME StoreInOrder, UNCHANGED <<readings, log>>
  PROVE  /\ Grows /\ Stored' = Stored
         /\ \A key : VersionsOf(key)' = VersionsOf(key) /\ Of(key)' = Of(key)
         /\ \A id : Logged(id)' = Logged(id) /\ Created(id)' = Created(id)
<1>1. /\ Stored' = Stored
      /\ \A key : VersionsOf(key)' = VersionsOf(key) /\ Of(key)' = Of(key)
      /\ \A id : Logged(id)' = Logged(id) /\ Created(id)' = Created(id)
  BY DEF Stored, VersionsOf, Of, Logged, Created
<1>2. \A key : Cardinality(Of(key)) \in Nat
  BY StoreCounts DEF StoreInOrder
<1>3. Grows
  BY <1>1, <1>2 DEF Grows
<1> QED
  BY <1>1, <1>3

\* A request takes a step of its own: those before the store stay counted, and
\* only the one that is to record its reading may not give up unnoticed.
LEMMA ReaderMoves ==
  ASSUME ReadersInOrder, StoreInOrder, LogInOrder, NEW r \in Reader, NEW q \in ReaderRow,
         reader' = [reader EXCEPT ![r] = q], UNCHANGED <<readings, log>>,
         died => died', At(r, "record") => died',
         reader[r].step \in PastSteps => q.step \in PastSteps, ReaderInOrder(q)
  PROVE  ReadersInOrder' /\ StoreInOrder' /\ LogInOrder'
<1>1. /\ Grows /\ Stored' = Stored
      /\ \A key : VersionsOf(key)' = VersionsOf(key) /\ Of(key)' = Of(key)
      /\ \A id : Logged(id)' = Logged(id) /\ Created(id)' = Created(id)
  BY StoreUnchanged
<1>2. /\ reader'[r] = q
      /\ \A s \in Reader \ {r} : reader'[s] = reader[s]
  BY DEF ReadersInOrder
<1>3. ReaderInOrder(q)'
  BY <1>1, ReaderStays
<1>4. ReadersInOrder'
  BY <1>1, <1>3, OthersStay
<1>5. Past \in SUBSET Past'
  BY <1>2 DEF Past
<1>6. Cardinality(Past) <= Cardinality(Past')
  <2>1. IsFiniteSet(Past')
    BY ReaderBound, FS_Subset DEF Past
  <2> QED
    BY <1>5, <2>1, FS_Subset
<1>7. StoreInOrder'
  <2>1. Cardinality(Past) \in Nat /\ Len(readings) \in Nat /\ Cardinality(Past') \in Nat
    <3>1. IsFiniteSet(Past')
      BY ReaderBound, FS_Subset DEF Past
    <3> QED
      BY <3>1, PastCounts, StoreCounts, FS_CardinalityType DEF StoreInOrder
  <2>2. Len(readings) <= Cardinality(Past)'
    BY <2>1, <1>6 DEF StoreInOrder
  <2> QED
    BY <1>1, <2>2 DEF StoreInOrder
<1>8. LogInOrder'
  <2>1. ASSUME ~died', NEW id \in Stored
        PROVE  Created(id) \/ \E s \in Reader : (At(s, "record") /\ ~reader[s].known /\ IdOf(s) = id)'
    <3>1. CASE Created(id)
      BY <3>1
    <3>2. ASSUME NEW s \in Reader, At(s, "record"), ~reader[s].known, IdOf(s) = id
          PROVE  (At(s, "record") /\ ~reader[s].known /\ IdOf(s) = id)'
      <4>1. s # r
        BY <2>1, <3>2
      <4> QED
        BY <4>1, <3>2, <1>2 DEF At, IdOf, KeyOf
    <3> QED
      BY <2>1, <3>1, <3>2 DEF LogInOrder
  <2>2. \A i \in DOMAIN log' : log'[i].id \in Stored'
    BY <1>1 DEF LogInOrder
  <2>3. died' \/ \A id \in Stored' :
          Created(id)' \/ \E s \in Reader : (At(s, "record") /\ ~reader[s].known /\ IdOf(s) = id)'
    BY <1>1, <2>1
  <2> QED
    BY <2>2, <2>3 DEF LogInOrder
<1> QED
  BY <1>4, <1>7, <1>8

\* A new or a refused request is entitled to nothing.
LEMMA NewReaderRow ==
  ASSUME NEW step \in {"new", "refused", "files", "prior"}
  PROVE  NewReader(step) \in ReaderRow
<1>1. 0 \in 0 .. Cardinality(Reader)
  BY ReaderBound
<1> QED
  BY <1>1 DEF NewReader, ReaderRow, Steps

LEMMA RefusedInOrder == ReaderInOrder(NewReader("refused")) /\ ReaderInOrder(NewReader("new"))
BY DEF ReaderInOrder, NewReader

LEMMA RefuseKeeps ==
  ASSUME ReadersInOrder, StoreInOrder, LogInOrder, NEW r \in Reader, Refuse(r),
         UNCHANGED <<readings, log>>, died => died', At(r, "record") => died'
  PROVE  ReadersInOrder' /\ StoreInOrder' /\ LogInOrder'
<1> DEFINE q == NewReader("refused")
<1>1. q \in ReaderRow /\ ReaderInOrder(q)
  BY NewReaderRow, RefusedInOrder
<1>2. q.step \in PastSteps /\ reader' = [reader EXCEPT ![r] = q]
  BY DEF NewReader, PastSteps, Refuse
<1> HIDE DEF q
<1> QED
  BY <1>1, <1>2, ReaderMoves

-----------------------------------------------------------------------------
(* The route.                                                                  *)

LEMMA RowsType ==
  ASSUME SurroundingsInOrder, NEW sel \in Selection
  PROVE  Rows(sel) \in RowsSeen /\ {Base} \cup ToSet(sel) \in SUBSET Documents
<1>1. {Base} \cup ToSet(sel) \in SUBSET Documents
  BY ReadingAssumption DEF Documents
<1>2. \A d \in {Base} \cup ToSet(sel) : (IF d = Base THEN deletion ELSE row[d]) \in RowStates
  BY <1>1 DEF SurroundingsInOrder, RowStates, Documents
<1>3. Rows(sel) \in [{Base} \cup ToSet(sel) -> RowStates]
  BY <1>2 DEF Rows
<1> QED
  BY <1>1, <1>3 DEF RowsSeen

\* The rows are loaded once the user may view the matter (route.ts:47-83).
LEMMA LoadStep ==
  ASSUME Inv, NEW r \in Reader, LoadSources(r)
  PROVE  ReadersInOrder' /\ StoreInOrder' /\ LogInOrder'
<1>1. PICK sel \in Selection :
        reader' = [reader EXCEPT ![r] = [NewReader("files") EXCEPT !.sel = sel, !.rows = Rows(sel),
                                           !.todo = {Base} \cup ToSet(sel)]]
  BY DEF LoadSources
<1> DEFINE q == [NewReader("files") EXCEPT !.sel = sel, !.rows = Rows(sel),
                                           !.todo = {Base} \cup ToSet(sel)]
<1>2. Rows(sel) \in RowsSeen /\ {Base} \cup ToSet(sel) \in SUBSET Documents
  BY RowsType DEF Inv
<1>3. q \in ReaderRow
  <2>1. NewReader("files") \in ReaderRow
    BY NewReaderRow
  <2> QED
    BY <1>2, <2>1 DEF ReaderRow
<1>4. ReaderInOrder(q)
  BY DEF ReaderInOrder, NewReader
<1>5. /\ reader[r].step = "new" /\ ~At(r, "record") /\ reader[r].step \notin PastSteps
      /\ UNCHANGED <<readings, log, died>>
  BY DEF LoadSources, At, serviceVars, PastSteps
<1>6. reader' = [reader EXCEPT ![r] = q]
  BY <1>1
<1> HIDE DEF q
<1> QED
  BY <1>3, <1>4, <1>5, <1>6, ReaderMoves DEF Inv

\* A file is behind the request once its loaded row was found readable.
LEMMA ReadStep ==
  ASSUME Inv, NEW r \in Reader, ReadSource(r)
  PROVE  ReadersInOrder' /\ StoreInOrder' /\ LogInOrder'
<1>1. /\ reader[r].step = "files" /\ ~At(r, "record") /\ reader[r].step \notin PastSteps
      /\ UNCHANGED <<readings, log, died>>
  BY DEF ReadSource, At, serviceVars, PastSteps
<1>2. /\ reader[r] \in ReaderRow /\ ReaderInOrder(reader[r])
      /\ reader \in [Reader -> ReaderRow]
  BY DEF Inv, ReadersInOrder
<1>3. PICK d \in reader[r].todo :
        IF Readable(d, reader[r].rows[d]) /\ Intact(d)
          THEN reader' = [reader EXCEPT ![r].todo = @ \ {d},
                            ![r].step = IF reader[r].todo = {d} THEN "access before" ELSE @]
          ELSE Refuse(r)
  BY DEF ReadSource
<1>4. CASE Refuse(r)
  BY <1>1, <1>4, RefuseKeeps DEF Inv
<1>5. CASE Readable(d, reader[r].rows[d]) /\ Intact(d)
  <2> DEFINE q == [reader[r] EXCEPT !.todo = @ \ {d},
                     !.step = IF reader[r].todo = {d} THEN "access before" ELSE "files"]
  <2>1. q \in ReaderRow
    BY <1>2 DEF ReaderRow, Steps
  <2>2. reader' = [reader EXCEPT ![r] = q]
    <3>1. reader' = [reader EXCEPT ![r].todo = @ \ {d},
                       ![r].step = IF reader[r].todo = {d} THEN "access before" ELSE @]
      BY <1>3, <1>5
    <3> QED
      BY <3>1, <1>1, <1>2
  <2>3. /\ q.sel = reader[r].sel /\ q.rows = reader[r].rows /\ q.todo = reader[r].todo \ {d}
        /\ q.step = IF reader[r].todo = {d} THEN "access before" ELSE "files"
    BY <1>2 DEF ReaderRow
  <2>4. /\ reader[r].sel \in Selection
        /\ \A e \in {Base} \cup ToSet(reader[r].sel) :
             e \notin reader[r].todo => Readable(e, reader[r].rows[e])
    BY <1>1, <1>2 DEF ReaderInOrder
  <2> HIDE DEF q
  <2>5. \A e \in {Base} \cup ToSet(q.sel) : e \notin q.todo => Readable(e, q.rows[e])
    BY <1>5, <2>3, <2>4
  <2>6. q.step = "access before" => AllRead(q)
    BY <2>3, <2>5 DEF AllRead
  <2>7. ReaderInOrder(q)
    BY <2>3, <2>4, <2>5, <2>6 DEF ReaderInOrder
  <2> QED
    BY <1>1, <2>1, <2>2, <2>7, ReaderMoves DEF Inv
<1> QED
  BY <1>3, <1>4, <1>5

\* Only the step of the request changes, and what it is entitled to follows.
LEMMA AdvanceKeeps ==
  ASSUME Inv, NEW r \in Reader, NEW step \in Steps, Advance(r, step),
         UNCHANGED <<readings, log, died>>, ~At(r, "record"),
         reader[r].step \in PastSteps => step \in PastSteps,
         ReaderInOrder([reader[r] EXCEPT !.step = step])
  PROVE  ReadersInOrder' /\ StoreInOrder' /\ LogInOrder'
<1> DEFINE q == [reader[r] EXCEPT !.step = step]
<1>1. reader[r] \in ReaderRow /\ reader \in [Reader -> ReaderRow]
  BY DEF Inv, ReadersInOrder
<1>2. q \in ReaderRow /\ q.step = step
  BY <1>1 DEF ReaderRow
<1>3. reader' = [reader EXCEPT ![r] = q]
  BY <1>1 DEF Advance
<1>4. ReaderInOrder(q)
  OBVIOUS
<1> HIDE DEF q
<1> QED
  BY <1>2, <1>3, <1>4, ReaderMoves DEF Inv

\* What is said of a request in terms of its fields alone.
LEMMA StepOnly ==
  ASSUME NEW p \in ReaderRow, NEW step \in Steps
  PROVE  LET q == [p EXCEPT !.step = step]
         IN /\ q.step = step /\ q.sel = p.sel /\ q.rows = p.rows /\ q.todo = p.todo
            /\ q.asked = p.asked /\ q.known = p.known /\ q.version = p.version
            /\ KeyFor(q) = KeyFor(p) /\ IdFor(q) = IdFor(p) /\ (AllRead(q) <=> AllRead(p))
  BY DEF ReaderRow, KeyFor, IdFor, AllRead

\* The access is asked for again on both sides of the service.
LEMMA AccessStep ==
  ASSUME Inv, NEW r \in Reader, CheckAccess(r)
  PROVE  ReadersInOrder' /\ StoreInOrder' /\ LogInOrder'
<1>1. /\ At(r, "access before") \/ At(r, "access after")
      /\ ~At(r, "record") /\ UNCHANGED <<readings, log, died>>
  BY DEF CheckAccess, At, serviceVars
<1>2. CASE Refuse(r)
  BY <1>1, <1>2, RefuseKeeps DEF Inv
<1>3. CASE ~Refuse(r)
  <2> DEFINE step == IF At(r, "access before") THEN "rows before" ELSE "rows after"
             q == [reader[r] EXCEPT !.step = step]
  <2>1. Advance(r, step)
    BY <1>3 DEF CheckAccess
  <2>2. step \in Steps /\ (reader[r].step \in PastSteps => step \in PastSteps)
    BY <1>1 DEF Steps, PastSteps, At
  <2>3. reader[r] \in ReaderRow /\ ReaderInOrder(reader[r])
    BY DEF Inv, ReadersInOrder
  <2>4. /\ q.step = step /\ q.sel = reader[r].sel /\ q.asked = reader[r].asked
        /\ IdFor(q) = IdFor(reader[r]) /\ (AllRead(q) <=> AllRead(reader[r]))
    BY <2>2, <2>3, StepOnly
  <2>5. step = IF reader[r].step = "access before" THEN "rows before" ELSE "rows after"
    BY DEF At
  <2>6. reader[r].step \in {"access before", "access after"}
    BY <1>1 DEF At
  <2> HIDE DEF q, step
  <2>7. ReaderInOrder(q)
    BY <2>3, <2>4, <2>5, <2>6 DEF ReaderInOrder
  <2> QED
    BY <1>1, <2>1, <2>2, <2>7, AdvanceKeeps DEF q
<1> QED
  BY <1>2, <1>3

\* The text of the selection is sent: its sources are those that were read.
LEMMA SendStep ==
  ASSUME Inv, NEW r \in Reader, SendText(r)
  PROVE  ReadersInOrder' /\ StoreInOrder' /\ LogInOrder'
<1>1. /\ reader[r].step = "rows before" /\ ~At(r, "record") /\ reader[r].step \notin PastSteps
      /\ UNCHANGED <<readings, log, died>>
  BY DEF SendText, At, serviceVars, PastSteps
<1>2. CASE Refuse(r)
  BY <1>1, <1>2, RefuseKeeps DEF Inv
<1>3. CASE ~Refuse(r)
  <2> DEFINE q == [reader[r] EXCEPT !.step = "prior", !.asked = MatterAgreement(reader[r].sel)]
  <2>1. /\ reader[r] \in ReaderRow /\ reader \in [Reader -> ReaderRow]
        /\ reader[r].sel \in Selection /\ AllRead(reader[r])
    BY <1>1 DEF Inv, ReadersInOrder, ReaderInOrder
  <2>2. MatterAgreement(reader[r].sel) \in Asked
    BY <2>1 DEF Asked, MatterAgreements
  <2>3. q \in ReaderRow
    BY <2>1, <2>2 DEF ReaderRow, Steps
  <2>4. reader' = [reader EXCEPT ![r] = q]
    BY <1>3, <2>1 DEF SendText
  <2>5. /\ q.step = "prior" /\ q.sel = reader[r].sel /\ q.rows = reader[r].rows
        /\ q.asked = MatterAgreement(reader[r].sel)
    BY <2>1 DEF ReaderRow
  <2>6. AllRead(q)
    BY <2>1, <2>5 DEF AllRead
  <2> HIDE DEF q
  <2>7. ReaderInOrder(q)
    BY <2>2, <2>5, <2>6 DEF ReaderInOrder
  <2> QED
    BY <1>1, <2>3, <2>4, <2>7, ReaderMoves DEF Inv
<1> QED
  BY <1>2, <1>3

LEMMA AnswerStep ==
  ASSUME Inv, NEW r \in Reader, Answer(r)
  PROVE  ReadersInOrder' /\ StoreInOrder' /\ LogInOrder'
<1>1. /\ reader[r].step = "rows after" /\ ~At(r, "record") /\ UNCHANGED <<readings, log, died>>
  BY DEF Answer, At, serviceVars
<1>2. CASE Refuse(r)
  BY <1>1, <1>2, RefuseKeeps DEF Inv
<1>3. CASE ~Refuse(r)
  <2> DEFINE q == [reader[r] EXCEPT !.step = "answered"]
  <2>1. Advance(r, "answered")
    BY <1>3 DEF Answer
  <2>2. reader[r] \in ReaderRow
    BY DEF Inv, ReadersInOrder
  <2>3. q.step = "answered"
    BY <2>2 DEF ReaderRow
  <2> HIDE DEF q
  <2>4. ReaderInOrder(q)
    BY <2>3 DEF ReaderInOrder
  <2> QED
    BY <1>1, <2>1, <2>4, AdvanceKeeps DEF q, Steps, PastSteps
<1> QED
  BY <1>2, <1>3

\* Another client of the service sends an agreement of its own.
LEMMA ClientStep ==
  ASSUME Inv, NEW r \in Reader, Send(r)
  PROVE  ReadersInOrder' /\ StoreInOrder' /\ LogInOrder'
<1>1. /\ reader[r].step = "new" /\ ~At(r, "record") /\ reader[r].step \notin PastSteps
      /\ UNCHANGED <<readings, log, died>>
  BY DEF Send, At, serviceVars, PastSteps
<1>2. PICK agreement \in Direct :
        reader' = [reader EXCEPT ![r] = [NewReader("prior") EXCEPT !.asked = agreement]]
  BY DEF Send
<1> DEFINE q == [NewReader("prior") EXCEPT !.asked = agreement]
<1>3. agreement \in Asked
  BY DEF Asked
<1>4. q \in ReaderRow
  <2>1. NewReader("prior") \in ReaderRow
    BY NewReaderRow
  <2> QED
    BY <1>3, <2>1 DEF ReaderRow
<1>5. q.step = "prior" /\ q.sel = Nowhere /\ q.asked = agreement
  BY DEF NewReader
<1>6. reader' = [reader EXCEPT ![r] = q]
  BY <1>2
<1> HIDE DEF q
<1>7. ReaderInOrder(q)
  BY <1>3, <1>5 DEF ReaderInOrder
<1> QED
  BY <1>1, <1>4, <1>6, <1>7, ReaderMoves DEF Inv

-----------------------------------------------------------------------------
(* The service.                                                                *)

LEMMA PriorStep ==
  ASSUME Inv, NEW r \in Reader, ReadPrior(r)
  PROVE  ReadersInOrder' /\ StoreInOrder' /\ LogInOrder'
<1>1. /\ reader[r].step = "prior" /\ ~At(r, "record") /\ reader[r].step \notin PastSteps
      /\ UNCHANGED <<readings, log, died>>
  BY DEF ReadPrior, At, serviceVars, PastSteps
<1> DEFINE known == IdOf(r) \in Stored
           q == [reader[r] EXCEPT !.step = "find", !.known = known]
<1>2. reader[r] \in ReaderRow /\ ReaderInOrder(reader[r]) /\ reader \in [Reader -> ReaderRow]
  BY DEF Inv, ReadersInOrder
<1>3. q \in ReaderRow
  <2>1. known \in BOOLEAN
    OBVIOUS
  <2> HIDE DEF known
  <2> QED
    BY <1>2, <2>1 DEF ReaderRow, Steps
<1>4. reader' = [reader EXCEPT ![r] = q]
  <2>1. reader' = [reader EXCEPT ![r].step = "find", ![r].known = known]
    BY DEF ReadPrior
  <2> HIDE DEF known
  <2> QED
    BY <1>2, <2>1
<1>5. /\ q.step = "find" /\ q.sel = reader[r].sel /\ q.rows = reader[r].rows
      /\ q.asked = reader[r].asked /\ q.known = known
  <2> HIDE DEF known
  <2> QED
    BY <1>2 DEF ReaderRow
<1> HIDE DEF q
<1>6. known => IdFor(q) \in Stored
  BY <1>5, IdOfReader DEF IdFor, KeyFor
<1> HIDE DEF known
<1>7. ReaderInOrder(q)
  BY <1>1, <1>2, <1>5, <1>6 DEF ReaderInOrder, AllRead
<1> QED
  BY <1>1, <1>3, <1>4, <1>7, ReaderMoves DEF Inv

\* A reading that was there at the start is found again.
LEMMA FindStep ==
  ASSUME Inv, NEW r \in Reader, FindReading(r)
  PROVE  ReadersInOrder' /\ StoreInOrder' /\ LogInOrder'
<1>1. /\ reader[r].step = "find" /\ ~At(r, "record") /\ reader[r].step \notin PastSteps
      /\ UNCHANGED <<readings, log, died>>
  BY DEF FindReading, At, serviceVars, PastSteps
<1> DEFINE step == IF IdOf(r) \in Stored THEN "record" ELSE "number"
           q == [reader[r] EXCEPT !.step = step]
<1>2. Advance(r, step) /\ step \in Steps
  BY DEF FindReading, Steps
<1>3. reader[r] \in ReaderRow /\ ReaderInOrder(reader[r])
  BY DEF Inv, ReadersInOrder
<1>4. /\ q.step = step /\ q.sel = reader[r].sel /\ q.asked = reader[r].asked
      /\ q.known = reader[r].known
      /\ IdFor(q) = IdFor(reader[r]) /\ (AllRead(q) <=> AllRead(reader[r]))
  BY <1>2, <1>3, StepOnly
<1>5. step = IF IdFor(reader[r]) \in Stored THEN "record" ELSE "number"
  BY IdOfReader
<1> HIDE DEF q, step
<1>6. ReaderInOrder(q)
  BY <1>1, <1>3, <1>4, <1>5 DEF ReaderInOrder
<1> QED
  BY <1>1, <1>2, <1>6, AdvanceKeeps DEF q

\* The number is the next one of the key, and there is room for it.
LEMMA NumberStep ==
  ASSUME Inv, NEW r \in Reader, NumberReading(r)
  PROVE  ReadersInOrder' /\ StoreInOrder' /\ LogInOrder'
<1>1. /\ reader[r].step = "number" /\ ~At(r, "record") /\ reader[r].step \notin PastSteps
      /\ UNCHANGED <<readings, log, died>>
  BY DEF NumberReading, At, serviceVars, PastSteps
<1>2. /\ reader[r] \in ReaderRow /\ ReaderInOrder(reader[r]) /\ reader \in [Reader -> ReaderRow]
      /\ readings \in Seq(ReadingRow)
  BY DEF Inv, ReadersInOrder, StoreInOrder
<1> DEFINE key == KeyFor(reader[r])  n == Cardinality(Of(key))
           v == Max(VersionsOf(key) \cup {0}) + 1
           q == [reader[r] EXCEPT !.step = "insert", !.version = v]
<1>3. key \in Keys /\ n \in Nat /\ n <= Len(readings) /\ Len(readings) \in Nat
  BY <1>2, StoreCounts DEF KeyFor, Keys
<1>4. VersionsOf(key) = 1 .. n
  BY <1>3 DEF Inv, StoreInOrder
<1> HIDE DEF n
<1>5. v = n + 1
  BY <1>3, <1>4, NextNumber
<1>6. v \in 0 .. Cardinality(Reader)
  <2>1. r \notin Past /\ Len(readings) <= Cardinality(Past)
    BY <1>1 DEF Past, Inv, StoreInOrder
  <2> QED
    BY <1>3, <1>5, <2>1, PastCounts, ReaderBound
<1>7. reader' = [reader EXCEPT ![r].step = "insert", ![r].version = v]
  BY IdOfReader DEF NumberReading
<1> HIDE DEF v
<1>8. q \in ReaderRow /\ reader' = [reader EXCEPT ![r] = q]
  BY <1>2, <1>6, <1>7 DEF ReaderRow, Steps
<1>9. /\ q.step = "insert" /\ q.sel = reader[r].sel /\ q.rows = reader[r].rows
      /\ q.asked = reader[r].asked /\ q.known = reader[r].known /\ q.version = v
  BY <1>2 DEF ReaderRow
<1> HIDE DEF q
<1>10. q.version \in 1 .. Cardinality(Of(KeyFor(q))) + 1
  <2>1. KeyFor(q) = key
    BY <1>9 DEF KeyFor
  <2> QED
    BY <2>1, <1>3, <1>5, <1>9 DEF n
<1>11. ReaderInOrder(q)
  BY <1>1, <1>2, <1>9, <1>10 DEF ReaderInOrder, AllRead
<1> QED
  BY <1>1, <1>8, <1>11, ReaderMoves DEF Inv

-----------------------------------------------------------------------------
(* The insertion.                                                              *)

\* What the table is after it took a reading that it did not have and whose
\* number was free.
LEMMA Inserted ==
  ASSUME StoreInOrder, NEW new \in ReadingRow, readings' = Append(readings, new),
         Id(new.key, new.agreement) \notin Stored,
         new.version \notin VersionsOf(new.key),
         new.version \in 1 .. Cardinality(Of(new.key)) + 1
  PROVE  /\ readings' \in Seq(ReadingRow) /\ Len(readings') = Len(readings) + 1
         /\ Stored' = Stored \cup {Id(new.key, new.agreement)}
         /\ IsFiniteSet(Stored') /\ Cardinality(Stored') = Len(readings) + 1
         /\ \A key \in Keys :
              /\ Cardinality(Of(key)) \in Nat /\ Cardinality(Of(key))' \in Nat
              /\ Cardinality(Of(key)) <= Cardinality(Of(key))'
              /\ VersionsOf(key)' = 1 .. Cardinality(Of(key))'
<1> DEFINE n == Len(readings)
<1>1. /\ readings \in Seq(ReadingRow) /\ n \in Nat /\ DOMAIN readings = 1 .. n
      /\ \A key : IsFiniteSet(Of(key)) /\ Cardinality(Of(key)) \in Nat
  BY StoreCounts DEF StoreInOrder
<1>2. /\ readings' \in Seq(ReadingRow) /\ Len(readings') = n + 1 /\ DOMAIN readings' = 1 .. n + 1
      /\ readings'[n + 1] = new /\ \A k \in 1 .. n : readings'[k] = readings[k]
  <2> HIDE DEF ReadingRow
  <2> QED
    BY <1>1
<1> HIDE DEF n
<1>3. 1 .. n + 1 = (1 .. n) \cup {n + 1} /\ n + 1 \notin 1 .. n
  BY <1>1
<1>4. Stored' = Stored \cup {Id(new.key, new.agreement)}
  BY <1>1, <1>2, <1>3 DEF Stored
<1>5. IsFiniteSet(Stored') /\ Cardinality(Stored') = n + 1
  BY <1>4, FS_AddElement DEF StoreInOrder, n
<1>6. ASSUME NEW key \in Keys
      PROVE  /\ Cardinality(Of(key)) \in Nat /\ Cardinality(Of(key))' \in Nat
             /\ Cardinality(Of(key)) <= Cardinality(Of(key))'
             /\ VersionsOf(key)' = 1 .. Cardinality(Of(key))'
  <2>1. /\ IsFiniteSet(Of(key)) /\ Cardinality(Of(key)) \in Nat
        /\ VersionsOf(key) = 1 .. Cardinality(Of(key))
    BY <1>1 DEF StoreInOrder
  <2>2. CASE key = new.key
    <3>1. Of(key)' = Of(key) \cup {n + 1} /\ n + 1 \notin Of(key)
      BY <1>1, <1>2, <1>3, <2>2 DEF Of
    <3>2. VersionsOf(key)' = VersionsOf(key) \cup {new.version}
      BY <1>1, <1>2, <1>3, <2>2 DEF VersionsOf
    <3>3. Cardinality(Of(key))' = Cardinality(Of(key)) + 1
      BY <2>1, <3>1, FS_AddElement
    <3> DEFINE m == Cardinality(Of(key))
    <3>4. new.version \in 1 .. m + 1 /\ new.version \notin 1 .. m /\ m \in Nat
      BY <2>1, <2>2
    <3> HIDE DEF m
    <3>5. new.version = m + 1
      BY <3>4
    <3>6. (1 .. m) \cup {new.version} = 1 .. m + 1
      BY <3>4, <3>5
    <3> QED
      BY <2>1, <3>2, <3>3, <3>4, <3>6 DEF m
  <2>3. CASE key # new.key
    <3>1. Of(key)' = Of(key)
      BY <1>1, <1>2, <1>3, <2>3 DEF Of
    <3>2. VersionsOf(key)' = VersionsOf(key)
      BY <1>1, <1>2, <1>3, <2>3 DEF VersionsOf
    <3> QED
      BY <2>1, <3>1, <3>2
  <2> QED
    BY <2>2, <2>3
<1> QED
  BY <1>2, <1>4, <1>5, <1>6 DEF n

LEMMA InsertStep ==
  ASSUME Inv, NEW r \in Reader, InsertReading(r)
  PROVE  ReadersInOrder' /\ StoreInOrder' /\ LogInOrder'
<1>1. /\ reader[r].step = "insert" /\ ~At(r, "record") /\ r \notin Past
      /\ UNCHANGED <<log, died>>
  BY DEF InsertReading, At, Past, PastSteps
<1>2. CASE Refuse(r) /\ UNCHANGED readings
  BY <1>1, <1>2, RefuseKeeps DEF Inv
<1>3. CASE Unique(r)
  <2> DEFINE key == KeyOf(r)  v == reader[r].version  asked == reader[r].asked
             new == [key |-> key, agreement |-> asked, version |-> v, ledger |-> BuildLedger(asked)]
  <2>1. /\ reader[r] \in ReaderRow /\ ReaderInOrder(reader[r]) /\ reader \in [Reader -> ReaderRow]
    BY DEF Inv, ReadersInOrder
  <2>2. readings' = Append(readings, new) /\ Advance(r, "record")
    BY <1>3 DEF InsertReading
  <2>3. /\ asked \in Asked /\ key \in Keys /\ key = KeyFor(reader[r])
        /\ v \in 0 .. Cardinality(Reader) /\ v \in 1 .. Cardinality(Of(key)) + 1
    BY <1>1, <2>1, IdOfReader DEF ReaderInOrder, ReaderRow, KeyFor, Keys
  <2>4. /\ new \in ReadingRow /\ new.key = key /\ new.agreement = asked /\ new.version = v
    <3>1. key = "matter" => asked \in MatterAgreements
      BY <1>1, <2>1, <2>3 DEF ReaderInOrder, ReaderRow, KeyFor, MatterAgreements
    <3> QED
      BY <2>3, <3>1, ReaderBound DEF ReadingRow
  <2>5. Id(key, asked) = IdOf(r) /\ IdOf(r) \notin Stored /\ v \notin VersionsOf(key)
    BY <1>3 DEF Unique, IdOf
  <2> HIDE DEF new, key, v, asked
  <2>6. /\ readings' \in Seq(ReadingRow) /\ Len(readings') = Len(readings) + 1
        /\ Stored' = Stored \cup {IdOf(r)}
        /\ IsFiniteSet(Stored') /\ Cardinality(Stored') = Len(readings) + 1
        /\ \A k \in Keys :
             /\ Cardinality(Of(k)) \in Nat /\ Cardinality(Of(k))' \in Nat
             /\ Cardinality(Of(k)) <= Cardinality(Of(k))'
             /\ VersionsOf(k)' = 1 .. Cardinality(Of(k))'
    BY <2>2, <2>3, <2>4, <2>5, Inserted DEF Inv
  <2>7. \A id : Logged(id)' = Logged(id) /\ Created(id)' = Created(id)
    BY <1>1 DEF Logged, Created
  <2>8. Grows
    BY <2>6, <2>7 DEF Grows
  <2>a. [reader[r] EXCEPT !.step = "record"] \in ReaderRow /\ "record" \in Steps
    BY <2>1 DEF Steps, ReaderRow
  <2>b. PICK q \in ReaderRow : q = [reader[r] EXCEPT !.step = "record"]
    BY <2>a
  <2>9. /\ q.step = "record" /\ q.sel = reader[r].sel /\ q.asked = reader[r].asked
        /\ q.known = reader[r].known /\ IdFor(q) = IdFor(reader[r])
        /\ (AllRead(q) <=> AllRead(reader[r]))
    BY <2>1, <2>a, <2>b, StepOnly
  <2>10. reader' = [reader EXCEPT ![r] = q]
    BY <2>1, <2>2, <2>b DEF Advance
  <2>11. ReaderInOrder(q)'
    <3>1. IdFor(q) \in Stored'
      BY <2>6, <2>9, IdOfReader
    <3> QED
      BY <1>1, <2>1, <2>9, <3>1 DEF ReaderInOrder, AllRead, Readable, IdFor, KeyFor
  <2>12. ReadersInOrder'
    BY <2>8, <2>10, <2>11, OthersStay DEF Inv
  <2>13. reader'[r] = q /\ \A s \in Reader \ {r} : reader'[s] = reader[s]
    BY <2>1, <2>10
  <2>14. StoreInOrder'
    <3>1. Past' = Past \cup {r}
      BY <2>9, <2>13 DEF Past, PastSteps
    <3>2. Cardinality(Past)' = Cardinality(Past) + 1
      BY <3>1, <1>1, PastCounts, FS_AddElement
    <3>3. Len(readings) <= Cardinality(Past) /\ Len(readings) \in Nat /\ Cardinality(Past) \in Nat
      BY PastCounts, StoreCounts DEF Inv, StoreInOrder
    <3>4. Len(readings') <= Cardinality(Past)'
      BY <2>6, <3>2, <3>3
    <3> QED
      BY <2>6, <3>4 DEF StoreInOrder
  <2>15. LogInOrder'
    <3>1. \A i \in DOMAIN log' : log'[i].id \in Stored'
      BY <1>1, <2>6 DEF Inv, LogInOrder
    <3>2. ASSUME ~died', NEW id \in Stored'
          PROVE  Created(id)' \/ \E s \in Reader : (At(s, "record") /\ ~reader[s].known /\ IdOf(s) = id)'
      <4>1. CASE id = IdOf(r)
        <5>1. ~reader[r].known
          BY <1>1, <2>1 DEF ReaderInOrder
        <5>2. (At(r, "record") /\ ~reader[r].known /\ IdOf(r) = id)'
          BY <4>1, <5>1, <2>9, <2>13 DEF At, IdOf, KeyOf
        <5> QED
          BY <5>2
      <4>2. CASE id \in Stored /\ Created(id)
        BY <2>7, <4>2
      <4>3. ASSUME NEW s \in Reader, At(s, "record"), ~reader[s].known, IdOf(s) = id
            PROVE  (At(s, "record") /\ ~reader[s].known /\ IdOf(s) = id)'
        <5>1. s # r
          BY <1>1, <4>3
        <5> QED
          BY <4>3, <5>1, <2>13 DEF At, IdOf, KeyOf
      <4>4. id = IdOf(r) \/ id \in Stored
        BY <2>6
      <4>5. ~died
        BY <1>1, <3>2
      <4> QED
        BY <4>1, <4>2, <4>3, <4>4, <4>5 DEF Inv, LogInOrder
    <3>3. log' \in Seq(LogRow)
      BY <1>1 DEF Inv, LogInOrder
    <3> QED
      BY <3>1, <3>2, <3>3 DEF LogInOrder
  <2> QED
    BY <2>12, <2>14, <2>15
<1> QED
  BY <1>2, <1>3 DEF InsertReading

-----------------------------------------------------------------------------
(* The log.                                                                    *)

LEMMA Logs ==
  ASSUME StoreInOrder, log \in Seq(LogRow), UNCHANGED readings,
         NEW e \in LogRow, log' = Append(log, e)
  PROVE  /\ log' \in Seq(LogRow) /\ Grows /\ Stored' = Stored
         /\ \A key : VersionsOf(key)' = VersionsOf(key) /\ Of(key)' = Of(key)
         /\ \A id : Created(id) => Created(id)'
         /\ \A i \in DOMAIN log' : (i \in DOMAIN log /\ log'[i] = log[i]) \/ log'[i] = e
         /\ \E i \in DOMAIN log' : log'[i] = e
<1>1. /\ log' \in Seq(LogRow) /\ Len(log) \in Nat
      /\ DOMAIN log = 1 .. Len(log) /\ DOMAIN log' = 1 .. Len(log) + 1
      /\ log'[Len(log) + 1] = e /\ \A i \in DOMAIN log : log'[i] = log[i]
  <2> HIDE DEF LogRow
  <2> QED
    OBVIOUS
<1>2. /\ \A i \in DOMAIN log' : (i \in DOMAIN log /\ log'[i] = log[i]) \/ log'[i] = e
      /\ \E i \in DOMAIN log' : log'[i] = e
      /\ DOMAIN log \subseteq DOMAIN log'
  BY <1>1
<1>3. \A id : (Logged(id) => Logged(id)') /\ (Created(id) => Created(id)')
  BY <1>1, <1>2 DEF Logged, Created
<1>4. /\ Stored' = Stored
      /\ \A key : VersionsOf(key)' = VersionsOf(key) /\ Of(key)' = Of(key)
  BY DEF Stored, VersionsOf, Of
<1>5. \A key : Cardinality(Of(key)) \in Nat
  BY StoreCounts DEF StoreInOrder
<1>6. Grows
  BY <1>3, <1>4, <1>5 DEF Grows
<1> QED
  BY <1>1, <1>2, <1>3, <1>4, <1>6

\* The event of a call that stored its reading says so; that of one which found
\* it does not matter to any other.
LEMMA RecordStep ==
  ASSUME Inv, NEW r \in Reader, RecordReading(r)
  PROVE  ReadersInOrder' /\ StoreInOrder' /\ LogInOrder'
<1>1. /\ reader[r].step = "record" /\ UNCHANGED <<readings, died>>
      /\ reader[r] \in ReaderRow /\ ReaderInOrder(reader[r]) /\ reader \in [Reader -> ReaderRow]
  BY DEF RecordReading, At, Inv, ReadersInOrder
<1> DEFINE id == IdOf(r)
           e == Event(IF reader[r].known THEN "reading.reused" ELSE "reading.created", id)
           step == IF reader[r].sel = Nowhere THEN "answered" ELSE "access after"
<1>2. id \in Stored /\ id = IdFor(reader[r]) /\ id \in ReadingId
  <2>1. KeyFor(reader[r]) \in Keys /\ reader[r].asked \in Asked
    BY <1>1 DEF KeyFor, Keys, ReaderInOrder
  <2> QED
    BY <1>1, <2>1, IdOfReader, Ids DEF ReaderInOrder, IdFor
<1>3. log' = Append(log, e) /\ Advance(r, step)
  BY DEF RecordReading
<1>4. e \in LogRow /\ e.id = id /\ (~reader[r].known => e = Event("reading.created", id))
  BY <1>2 DEF Event, LogRow, Actions
<1> HIDE DEF e, id
<1>5. /\ log' \in Seq(LogRow) /\ Grows /\ Stored' = Stored
      /\ \A key : VersionsOf(key)' = VersionsOf(key) /\ Of(key)' = Of(key)
      /\ \A i : Created(i) => Created(i)'
      /\ \A i \in DOMAIN log' : (i \in DOMAIN log /\ log'[i] = log[i]) \/ log'[i] = e
      /\ \E i \in DOMAIN log' : log'[i] = e
  BY <1>1, <1>3, <1>4, Logs DEF Inv, LogInOrder
<1>a. step \in Steps /\ [reader[r] EXCEPT !.step = step] \in ReaderRow
  BY <1>1 DEF Steps, ReaderRow
<1>b. PICK q \in ReaderRow : q = [reader[r] EXCEPT !.step = step]
  BY <1>a
<1>6. /\ q.step = step /\ q.sel = reader[r].sel /\ q.asked = reader[r].asked
      /\ IdFor(q) = id /\ (AllRead(q) <=> AllRead(reader[r]))
  BY <1>1, <1>2, <1>a, <1>b, StepOnly
<1>7. reader' = [reader EXCEPT ![r] = q]
  BY <1>1, <1>3, <1>b DEF Advance
<1>8. /\ reader'[r] = q /\ \A s \in Reader \ {r} : reader'[s] = reader[s]
  BY <1>1, <1>7
<1>9. ReaderInOrder(q)'
  <2>1. Logged(IdFor(q))'
    BY <1>4, <1>5, <1>6 DEF Logged
  <2>2. IdFor(q) \in Stored'
    BY <1>2, <1>5, <1>6
  <2>3. q.step = "answered" \/ (q.step = "access after" /\ q.sel # Nowhere)
    BY <1>6
  <2>4. q.asked \in Asked /\ (q.sel # Nowhere => AllRead(q) /\ q.asked = MatterAgreement(q.sel))
    BY <1>1, <1>6 DEF ReaderInOrder
  <2> QED
    BY <2>1, <2>2, <2>3, <2>4 DEF ReaderInOrder, AllRead, Readable, IdFor, KeyFor
<1>10. ReadersInOrder'
  BY <1>5, <1>7, <1>9, OthersStay DEF Inv
<1>11. StoreInOrder'
  <2>1. Past' = Past
    BY <1>1, <1>6, <1>8 DEF Past, PastSteps
  <2> QED
    BY <1>1, <1>5, <2>1 DEF Inv, StoreInOrder
<1>12. LogInOrder'
  <2>1. \A i \in DOMAIN log' : log'[i].id \in Stored'
    BY <1>2, <1>4, <1>5 DEF Inv, LogInOrder
  <2>2. ASSUME ~died', NEW i \in Stored'
        PROVE  Created(i)' \/ \E s \in Reader : (At(s, "record") /\ ~reader[s].known /\ IdOf(s) = i)'
    <3>1. CASE Created(i)
      BY <1>5, <3>1
    <3>2. ASSUME NEW s \in Reader, At(s, "record"), ~reader[s].known, IdOf(s) = i
          PROVE  Created(i)' \/ (At(s, "record") /\ ~reader[s].known /\ IdOf(s) = i)'
      <4>1. CASE s = r
        <5>1. e = Event("reading.created", i)
          BY <1>4, <3>2, <4>1 DEF id
        <5> QED
          BY <1>5, <5>1 DEF Created
      <4>2. CASE s # r
        BY <3>2, <4>2, <1>8 DEF At, IdOf, KeyOf
      <4> QED
        BY <4>1, <4>2
    <3>3. ~died /\ i \in Stored
      BY <1>1, <1>5, <2>2
    <3> QED
      BY <3>1, <3>2, <3>3 DEF Inv, LogInOrder
  <2> QED
    BY <1>5, <2>1, <2>2 DEF LogInOrder
<1> QED
  BY <1>10, <1>11, <1>12

\* A call that ends between its reading and its event leaves a trace.
LEMMA LoseStep ==
  ASSUME Inv, NEW r \in Reader, LoseCall(r)
  PROVE  ReadersInOrder' /\ StoreInOrder' /\ LogInOrder' /\ died' \in BOOLEAN
<1>1. Refuse(r) /\ UNCHANGED <<readings, log>> /\ died' = (died \/ At(r, "record"))
  BY DEF LoseCall
<1>2. (died => died') /\ (At(r, "record") => died') /\ died' \in BOOLEAN
  BY <1>1, Zenon
<1> QED
  BY <1>1, <1>2, RefuseKeeps DEF Inv

\* GET and looked-at name a reading that is stored.
LEMMA LookStep ==
  ASSUME Inv, LookAt
  PROVE  ReadersInOrder' /\ StoreInOrder' /\ LogInOrder'
<1>1. PICK k \in DOMAIN readings, action \in {"reading.read", "reading.looked_at"} :
        log' = Append(log, Event(action, Id(readings[k].key, readings[k].agreement)))
  BY DEF LookAt
<1>2. UNCHANGED <<reader, readings, died>>
  BY DEF LookAt
<1> DEFINE id == Id(readings[k].key, readings[k].agreement)
           e == Event(action, id)
<1>3. id \in Stored /\ id \in ReadingId
  <2>1. readings[k] \in ReadingRow
    BY StoreCounts DEF Inv, StoreInOrder
  <2>2. readings[k].key \in Keys /\ readings[k].agreement \in Asked
    BY <2>1 DEF ReadingRow
  <2> QED
    BY <2>2, Ids DEF Stored
<1>4. e \in LogRow /\ e.id = id
  BY <1>3 DEF Event, LogRow, Actions
<1>5. log' = Append(log, e)
  BY <1>1
<1> HIDE DEF e, id
<1>6. /\ log' \in Seq(LogRow) /\ Grows /\ Stored' = Stored
      /\ \A key : VersionsOf(key)' = VersionsOf(key) /\ Of(key)' = Of(key)
      /\ \A i : Created(i) => Created(i)'
      /\ \A i \in DOMAIN log' : (i \in DOMAIN log /\ log'[i] = log[i]) \/ log'[i] = e
  BY <1>2, <1>4, <1>5, Logs DEF Inv, LogInOrder
<1>7. ReadersInOrder'
  <2>1. ASSUME NEW r \in Reader
        PROVE  ReaderInOrder(reader[r])'
    <3>1. \A q \in ReaderRow : ReaderInOrder(q) => ReaderInOrder(q)'
      BY <1>6, ReaderStays
    <3> QED
      BY <1>2, <3>1 DEF Inv, ReadersInOrder
  <2> QED
    BY <1>2, <2>1 DEF Inv, ReadersInOrder
<1>8. StoreInOrder'
  <2>1. Past' = Past
    BY <1>2 DEF Past
  <2> QED
    BY <1>2, <1>6, <2>1 DEF Inv, StoreInOrder
<1>9. LogInOrder'
  <2>1. \A i \in DOMAIN log' : log'[i].id \in Stored'
    BY <1>3, <1>4, <1>6 DEF Inv, LogInOrder
  <2>2. \A s : /\ At(s, "record")' <=> At(s, "record")
               /\ IdOf(s)' = IdOf(s)
    BY <1>2 DEF At, IdOf, KeyOf
  <2>3. died' \/ \A i \in Stored' :
          Created(i)' \/ \E s \in Reader : (At(s, "record") /\ ~reader[s].known /\ IdOf(s) = i)'
    BY <1>2, <1>6, <2>2 DEF Inv, LogInOrder
  <2> QED
    BY <1>6, <2>1, <2>3 DEF LogInOrder
<1> QED
  BY <1>7, <1>8, <1>9

-----------------------------------------------------------------------------
(* The invariant.                                                              *)

LEMMA RequestStep ==
  ASSUME Inv, NEW r \in Reader, Route(r) \/ Send(r) \/ Service(r)
  PROVE  ReadersInOrder' /\ StoreInOrder' /\ LogInOrder' /\ UNCHANGED <<row, file, access>>
<1>1. UNCHANGED <<row, file, access>>
  BY DEF Route, Service, LoadSources, ReadSource, CheckAccess, SendText, Answer, Send, ReadPrior,
         FindReading, NumberReading, InsertReading, RecordReading, LoseCall
<1> QED
  BY <1>1, LoadStep, ReadStep, AccessStep, SendStep, AnswerStep, ClientStep, PriorStep, FindStep,
     NumberStep, InsertStep, RecordStep, LoseStep DEF Route, Service

LEMMA DiedStep ==
  ASSUME Inv, NEW r \in Reader, Route(r) \/ Send(r) \/ Service(r)
  PROVE  died' \in BOOLEAN
<1>1. died \in BOOLEAN
  BY DEF Inv, SurroundingsInOrder
<1>2. CASE LoseCall(r)
  BY <1>2, LoseStep
<1>3. CASE ~LoseCall(r)
  BY <1>1, <1>3 DEF Route, Service, LoadSources, ReadSource, CheckAccess, SendText, Answer, Send,
       ReadPrior, FindReading, NumberReading, InsertReading, RecordReading, serviceVars
<1> QED
  BY <1>2, <1>3

\* What is read again later may change at any time.
LEMMA DisturbStep ==
  ASSUME SurroundingsInOrder, Disturb \/ ChangeAccess
  PROVE  /\ row' \in [Amendment -> Readables \cup {"UNREADABLE"}]
         /\ file' \in [Amendment -> BOOLEAN] /\ access' \in BOOLEAN
         /\ UNCHANGED <<reader, readings, log, died>>
<1>1. CASE ChangeAccess
  <2>1. access' = ~access /\ UNCHANGED <<row, file, reader, readings, log, died>>
    BY <1>1 DEF ChangeAccess, serviceVars
  <2>2. access' \in BOOLEAN
    BY <2>1, Zenon
  <2>3. /\ row \in [Amendment -> Readables \cup {"UNREADABLE"}] /\ file \in [Amendment -> BOOLEAN]
    BY DEF SurroundingsInOrder
  <2> QED
    BY <2>1, <2>2, <2>3
<1>2. ASSUME NEW d \in Amendment, ChangeRow(d) \/ AlterFile(d)
      PROVE  /\ row' \in [Amendment -> Readables \cup {"UNREADABLE"}]
             /\ file' \in [Amendment -> BOOLEAN] /\ access' \in BOOLEAN
             /\ UNCHANGED <<reader, readings, log, died>>
  BY <1>2 DEF ChangeRow, AlterFile, SurroundingsInOrder, serviceVars
<1> QED
  BY <1>1, <1>2 DEF Disturb

\* The marker of the base document takes its three values only.
LEMMA PurgeStep ==
  ASSUME deletion \in Deletions, Next
  PROVE  deletion' \in Deletions
BY DEF Next, Execute, Proceed, RequestPurge, Approve, Reject, Cancel, ChangeGovernance,
       RetentionExpires, ChangeRole, Prepare, LockAndCheck, FindBlob, DeleteBlob, RecordPurged,
       FailCall, LoseSession, Marked, Deletions

LEMMA ReadersUnchanged ==
  ASSUME ReadersInOrder, StoreInOrder, LogInOrder, UNCHANGED <<reader, readings, log, died>>
  PROVE  ReadersInOrder' /\ StoreInOrder' /\ LogInOrder'
<1>1. /\ Grows /\ Stored' = Stored
      /\ \A key : VersionsOf(key)' = VersionsOf(key) /\ Of(key)' = Of(key)
      /\ \A id : Logged(id)' = Logged(id) /\ Created(id)' = Created(id)
  BY StoreUnchanged
<1>2. \A q \in ReaderRow : ReaderInOrder(q) => ReaderInOrder(q)'
  BY <1>1, ReaderStays
<1>3. ReadersInOrder'
  BY <1>2 DEF ReadersInOrder
<1>4. Past' = Past /\ \A s : (At(s, "record")' <=> At(s, "record")) /\ IdOf(s)' = IdOf(s)
  BY DEF Past, At, IdOf, KeyOf
<1>5. StoreInOrder'
  BY <1>1, <1>4 DEF StoreInOrder
<1>6. LogInOrder'
  BY <1>1, <1>4 DEF LogInOrder
<1> QED
  BY <1>3, <1>5, <1>6

LEMMA InvStep == Inv /\ [MatterNext]_mvars => Inv'
<1> SUFFICES ASSUME Inv, [MatterNext]_mvars PROVE Inv'
  OBVIOUS
<1>0. /\ ReadersInOrder /\ StoreInOrder /\ LogInOrder /\ SurroundingsInOrder
      /\ deletion \in Deletions
  BY DEF Inv, SurroundingsInOrder
<1>1. CASE UNCHANGED readingVars /\ (Next \/ UNCHANGED vars)
  <2>1. UNCHANGED <<row, file, access, reader, readings, log, died>>
    BY <1>1 DEF readingVars
  <2>2. deletion' \in Deletions
    BY <1>0, <1>1, PurgeStep DEF vars
  <2>3. SurroundingsInOrder'
    BY <1>0, <2>1, <2>2 DEF SurroundingsInOrder
  <2> QED
    BY <1>0, <2>1, <2>3, ReadersUnchanged DEF Inv
<1>2. ASSUME UNCHANGED vars, NEW r \in Reader, Route(r) \/ Send(r) \/ Service(r)
      PROVE  Inv'
  <2>1. deletion' = deletion
    BY <1>2 DEF vars
  <2>2. died' \in BOOLEAN
    BY <1>2, DiedStep
  <2>3. ReadersInOrder' /\ StoreInOrder' /\ LogInOrder' /\ UNCHANGED <<row, file, access>>
    BY <1>2, RequestStep
  <2>4. SurroundingsInOrder'
    BY <1>0, <2>1, <2>2, <2>3 DEF SurroundingsInOrder
  <2> QED
    BY <2>3, <2>4 DEF Inv
<1>3. CASE UNCHANGED vars /\ LookAt
  <2>1. UNCHANGED <<deletion, row, file, access, died>>
    BY <1>3 DEF vars, LookAt
  <2>2. SurroundingsInOrder'
    BY <1>0, <2>1 DEF SurroundingsInOrder
  <2> QED
    BY <1>3, <2>2, LookStep DEF Inv
<1>4. CASE UNCHANGED vars /\ (Disturb \/ ChangeAccess)
  <2>1. /\ row' \in [Amendment -> Readables \cup {"UNREADABLE"}]
        /\ file' \in [Amendment -> BOOLEAN] /\ access' \in BOOLEAN
        /\ UNCHANGED <<reader, readings, log, died>>
    BY <1>0, <1>4, DisturbStep
  <2>2. deletion' = deletion
    BY <1>4 DEF vars
  <2>3. SurroundingsInOrder'
    BY <1>0, <2>1, <2>2 DEF SurroundingsInOrder
  <2> QED
    BY <1>0, <2>1, <2>3, ReadersUnchanged DEF Inv
<1> QED
  BY <1>1, <1>2, <1>3, <1>4 DEF MatterNext, ReadingNext, mvars

LEMMA InitInv == MatterInit => Inv
<1> SUFFICES ASSUME MatterInit PROVE Inv
  OBVIOUS
<1>1. /\ deletion = "ACTIVE" /\ row \in [Amendment -> {"CURRENT"}] /\ access = TRUE
      /\ file = [d \in Amendment |-> TRUE] /\ died = FALSE
      /\ reader = [r \in Reader |-> NewReader("new")] /\ readings = <<>> /\ log = <<>>
  BY DEF MatterInit, Init, ReadingInit
<1>2. SurroundingsInOrder
  BY <1>1 DEF SurroundingsInOrder, Deletions, Readables
<1>3. Stored = {} /\ \A key : Of(key) = {} /\ VersionsOf(key) = {}
  BY <1>1 DEF Stored, Of, VersionsOf
<1>4. ReadersInOrder
  <2>1. NewReader("new") \in ReaderRow /\ ReaderInOrder(NewReader("new"))
    BY NewReaderRow, RefusedInOrder
  <2> QED
    BY <1>1, <2>1 DEF ReadersInOrder
<1>5. StoreInOrder
  <2>1. readings \in Seq(ReadingRow) /\ Len(readings) = 0
    <3> HIDE DEF ReadingRow
    <3> QED
      BY <1>1
  <2>2. \A key \in Keys : VersionsOf(key) = 1 .. Cardinality(Of(key))
    BY <1>3, FS_EmptySet
  <2>3. IsFiniteSet(Stored) /\ Cardinality(Stored) = 0
    BY <1>3, FS_EmptySet
  <2>4. 0 <= Cardinality(Past)
    BY PastCounts
  <2> QED
    BY <2>1, <2>2, <2>3, <2>4 DEF StoreInOrder
<1>6. LogInOrder
  <2>1. log \in Seq(LogRow) /\ DOMAIN log = {}
    <3> HIDE DEF LogRow
    <3> QED
      BY <1>1
  <2> QED
    BY <1>3, <2>1 DEF LogInOrder
<1> QED
  BY <1>2, <1>4, <1>5, <1>6 DEF Inv

\* What every request is entitled to, and what the store is meanwhile.
THEOREM InvHolds == MatterSpec => []Inv
<1> USE DEF mvars
<1> QED
  BY InitInv, InvStep, PTL DEF MatterSpec

-----------------------------------------------------------------------------
(* Induction and iteration.  A fact about numbers is given as the set of those  *)
(* it holds of, so that no operator has to be instantiated.                     *)

\* A set of numbers has a least one: initial segments are well founded.
LEMMA NatMin ==
  ASSUME NEW T \in SUBSET Nat, T # {}
  PROVE  \E n \in T : \A m \in T : n <= m
<1> DEFINE R == StrictSubsetOrdering(Nat)
           Segments == {1 .. n : n \in T}
<1>1. IsWellFoundedOn(R, FiniteSubsetsOf(Nat))
  BY FS_StrictSubsetOrderingWellFounded
<1>2. \A n \in T : 1 .. n \in FiniteSubsetsOf(Nat)
  BY FS_Interval DEF FiniteSubsetsOf
<1>3. Segments \subseteq FiniteSubsetsOf(Nat) /\ Segments # {}
  BY <1>2
<1>4. PICK s \in Segments : \A t \in Segments : ~ (<<t, s>> \in R)
  <2> HIDE DEF R, Segments
  <2> QED
    BY <1>1, <1>3, WFMin
<1>5. PICK n \in T : s = 1 .. n
  BY DEF Segments
<1>6. ASSUME NEW m \in T, m < n
      PROVE  FALSE
  <2>1. <<1 .. m, 1 .. n>> \in (SUBSET Nat) \X (SUBSET Nat) /\ 1 .. m \subseteq 1 .. n
    BY <1>6
  <2>2. n \in 1 .. n /\ n \notin 1 .. m
    BY <1>6
  <2>3. <<1 .. m, 1 .. n>> \in R
    BY <2>1, <2>2 DEF StrictSubsetOrdering
  <2> QED
    BY <2>3, <1>4, <1>5
<1> QED
  BY <1>6

\* Induction up to k, over the set of the places where a fact holds.
LEMMA UpTo ==
  ASSUME NEW k \in Nat, NEW J, 0 \in J, \A n \in 1 .. k : n - 1 \in J => n \in J
  PROVE  0 .. k \subseteq J
<1> DEFINE T == {n \in 0 .. k : n \notin J}
<1>1. SUFFICES ASSUME T # {}
               PROVE  FALSE
  OBVIOUS
<1>2. T \in SUBSET Nat
  OBVIOUS
<1>3. PICK n \in T : \A m \in T : n <= m
  <2> HIDE DEF T
  <2> QED
    BY <1>1, <1>2, NatMin
<1>4. n \in 1 .. k /\ n - 1 \in 0 .. k /\ n - 1 \notin T
  BY <1>3
<1> QED
  BY <1>4

\* A step can be iterated: there is a function from 0 .. k that starts with b and
\* takes the step G from each place to the next.
Iterated(S, b, k, G) ==
  \E f \in [0 .. k -> S] : f[0] = b /\ \A n \in 1 .. k : f[n] = G[<<f[n - 1], n>>]

LEMMA Iterates ==
  ASSUME NEW S, NEW b \in S, NEW k \in Nat, NEW G \in [S \X (1 .. k) -> S]
  PROVE  Iterated(S, b, k, G)
<1> DEFINE Run(m) == {f \in [0 .. m -> S] : f[0] = b /\ \A n \in 1 .. m : f[n] = G[<<f[n - 1], n>>]}
           J == {m \in 0 .. k : Run(m) # {}}
<1>1. Run(0) # {}
  <2>1. [x \in 0 .. 0 |-> b] \in Run(0)
    OBVIOUS
  <2> QED
    BY <2>1
<1>2. ASSUME NEW m \in 1 .. k, Run(m - 1) # {}
      PROVE  Run(m) # {}
  <2>1. PICK f \in [0 .. m - 1 -> S] : f[0] = b /\ \A n \in 1 .. m - 1 : f[n] = G[<<f[n - 1], n>>]
    BY <1>2
  <2> DEFINE g == [n \in 0 .. m |-> IF n = m THEN G[<<f[m - 1], m>>] ELSE f[n]]
  <2>2. f[m - 1] \in S /\ G[<<f[m - 1], m>>] \in S
    <3>1. f[m - 1] \in S
      BY <2>1
    <3> QED
      BY <3>1
  <2>3. g \in [0 .. m -> S]
    <3>1. ASSUME NEW n \in 0 .. m, n # m
          PROVE  f[n] \in S
      BY <2>1, <3>1
    <3> QED
      BY <2>2, <3>1
  <2>4. g[0] = b /\ g[m] = G[<<f[m - 1], m>>] /\ g[m - 1] = f[m - 1]
    BY <2>1
  <2>5. ASSUME NEW n \in 1 .. m - 1
        PROVE  g[n] = f[n] /\ g[n - 1] = f[n - 1] /\ f[n] = G[<<f[n - 1], n>>]
    BY <2>1
  <2> HIDE DEF g
  <2>6. ASSUME NEW n \in 1 .. m
        PROVE  g[n] = G[<<g[n - 1], n>>]
    <3>1. n = m \/ n \in 1 .. m - 1
      OBVIOUS
    <3> QED
      BY <3>1, <2>4, <2>5
  <2>7. g \in Run(m)
    BY <2>3, <2>4, <2>6
  <2> QED
    BY <2>7
<1> HIDE DEF Run
<1>3. 0 \in J /\ \A n \in 1 .. k : n - 1 \in J => n \in J
  BY <1>1, <1>2
<1>4. 0 .. k \subseteq J
  <2> HIDE DEF J
  <2> QED
    BY <1>3, UpTo
<1> QED
  <2>1. Run(k) # {}
    BY <1>4
  <2> QED
    BY <2>1 DEF Run, Iterated

\* The elements of a sequence.
LEMMA Elements ==
  \A S : \A s \in Seq(S) : DOMAIN s = 1 .. Len(s) /\ Len(s) \in Nat /\ \A v \in 1 .. Len(s) : s[v] \in S
OBVIOUS

\* A function on 1 .. n is a sequence, and one element can be added at its end.
LEMMA Listed ==
  ASSUME NEW S, NEW n \in Nat, NEW s, s = [v \in 1 .. n |-> s[v]], \A v \in 1 .. n : s[v] \in S
  PROVE  s \in Seq(S) /\ Len(s) = n
OBVIOUS

LEMMA Extended ==
  ASSUME NEW S, NEW s \in Seq(S), NEW x \in S
  PROVE  /\ s \o <<x>> \in Seq(S) /\ DOMAIN (s \o <<x>>) = 1 .. Len(s) + 1
         /\ (s \o <<x>>)[Len(s) + 1] = x /\ \A v \in 1 .. Len(s) : (s \o <<x>>)[v] = s[v]
OBVIOUS

-----------------------------------------------------------------------------
(* A ledger under construction.  It keeps a set P of the texts of an agreement  *)
(* when it has each of them once, and what is in force is settled within P.     *)

TextsOf(i, ops) == {<<i, k>> : k \in {n \in DOMAIN ops : ~ops[n].empty}}
AllTexts(a) ==
  {<<0, k>> : k \in DOMAIN a.base}
    \cup UNION {TextsOf(i, a.amendments[i].ops) : i \in DOMAIN a.amendments}
SectionOf(a, t) ==
  IF t[1] = 0 THEN a.base[t[2]] ELSE a.amendments[t[1]].ops[t[2]].section

LedgerRow(a) == [section : {SectionOf(a, t) : t \in AllTexts(a)}, doc : Nat, text : Nat,
                 operative : BOOLEAN, by : Nat]
TextOf(v) == <<v.doc, v.text>>
Rivals(a, P, t) == {u \in P : SectionOf(a, u) = SectionOf(a, t) /\ Later(a, u, t)}

\* A row is in force unless a later text of P has its section, and then it names one.
InForce(a, P, v) ==
  /\ TextOf(v) \in P /\ v.section = SectionOf(a, TextOf(v))
  /\ v.operative <=> Rivals(a, P, TextOf(v)) = {}
  /\ ~v.operative => v.by \in {u[1] : u \in Rivals(a, P, TextOf(v))}

Keeps(a, P, ledger) ==
  /\ ledger \in Seq(LedgerRow(a))
  /\ \A v, w \in DOMAIN ledger : TextOf(ledger[v]) = TextOf(ledger[w]) => v = w
  /\ \A t \in P : \E v \in DOMAIN ledger : TextOf(ledger[v]) = t
  /\ \A v \in DOMAIN ledger : InForce(a, P, ledger[v])

\* A text is a pair of numbers.
LEMMA TextPairs == \A a : IsAgreement(a) => AllTexts(a) \subseteq Nat \X Nat
<1>1. ASSUME NEW s, IsList(s)
      PROVE  DOMAIN s = 1 .. Len(s) /\ Len(s) \in Nat
  BY <1>1 DEF IsList
<1>2. ASSUME NEW a, IsAgreement(a), NEW t \in AllTexts(a)
      PROVE  t \in Nat \X Nat
  <2>1. CASE \E k \in DOMAIN a.base : t = <<0, k>>
    BY <1>1, <1>2, <2>1 DEF IsAgreement
  <2>2. ASSUME NEW i \in DOMAIN a.amendments, t \in TextsOf(i, a.amendments[i].ops)
        PROVE  t \in Nat \X Nat
    <3>1. i \in Nat /\ IsList(a.amendments[i].ops)
      BY <1>1, <1>2, <2>2 DEF IsAgreement
    <3>2. PICK k \in DOMAIN a.amendments[i].ops : t = <<i, k>>
      BY <2>2 DEF TextsOf
    <3> QED
      BY <1>1, <3>1, <3>2
  <2> QED
    BY <1>2, <2>1, <2>2 DEF AllTexts
<1> QED
  BY <1>2

\* A later text takes the place of the one in force, and nothing else changes.
LEMMA ReplaceKeeps ==
  ASSUME NEW a, NEW P, P \subseteq AllTexts(a), AllTexts(a) \subseteq Nat \X Nat,
         NEW ledger, Keeps(a, P, ledger),
         NEW doc \in Nat, NEW k \in Nat, <<doc, k>> \in AllTexts(a), <<doc, k>> \notin P,
         NEW section, section = SectionOf(a, <<doc, k>>),
         \A u \in P : SectionOf(a, u) = section =>
                        Later(a, <<doc, k>>, u) /\ ~Later(a, u, <<doc, k>>),
         ~Later(a, <<doc, k>>, <<doc, k>>)
  PROVE  Keeps(a, P \cup {<<doc, k>>}, Replace(ledger, section, doc, k))
<1> DEFINE p == <<doc, k>>
           Q == P \cup {p}
           new == Version(section, doc, k)
           n == Len(ledger)
           Old(v) == IF ledger[v].section = section /\ ledger[v].operative
                       THEN [ledger[v] EXCEPT !.operative = FALSE, !.by = doc]
                       ELSE ledger[v]
           after == Replace(ledger, section, doc, k)
<1>1. DOMAIN ledger = 1 .. n /\ n \in Nat /\ \A v \in 1 .. n : ledger[v] \in LedgerRow(a)
  <2> HIDE DEF LedgerRow
  <2> QED
    BY DEF Keeps
<1>2. new \in LedgerRow(a) /\ TextOf(new) = p /\ new.section = section /\ new.operative
  BY DEF Version, LedgerRow, TextOf
<1>3. ASSUME NEW v \in 1 .. n
      PROVE  /\ Old(v) \in LedgerRow(a) /\ TextOf(Old(v)) = TextOf(ledger[v])
             /\ Old(v).section = ledger[v].section
             /\ Old(v).operative <=> ledger[v].operative /\ ledger[v].section # section
             /\ Old(v).by = IF ledger[v].section = section /\ ledger[v].operative
                              THEN doc ELSE ledger[v].by
  BY <1>1 DEF LedgerRow, TextOf
<1>4. /\ after \in Seq(LedgerRow(a)) /\ DOMAIN after = 1 .. n + 1
      /\ after[n + 1] = new /\ \A v \in 1 .. n : after[v] = Old(v)
  <2> DEFINE old == [v \in 1 .. n |-> Old(v)]
  <2>1. after = old \o <<new>>
    BY <1>1 DEF Replace
  <2>2. \A v \in 1 .. n : old[v] = Old(v) /\ old[v] \in LedgerRow(a)
    <3>1. \A v \in 1 .. n : Old(v) \in LedgerRow(a)
      BY <1>3
    <3> HIDE DEF LedgerRow, Old, n
    <3> QED
      BY <3>1
  <2>3. old = [v \in 1 .. n |-> old[v]]
    OBVIOUS
  <2> HIDE DEF LedgerRow, old, new, Old, after
  <2>4. old \in Seq(LedgerRow(a)) /\ Len(old) = n
    <3> HIDE DEF n
    <3> QED
      BY <1>1, <2>2, <2>3, Listed
  <2>5. /\ old \o <<new>> \in Seq(LedgerRow(a)) /\ DOMAIN (old \o <<new>>) = 1 .. Len(old) + 1
        /\ (old \o <<new>>)[Len(old) + 1] = new
        /\ \A v \in 1 .. Len(old) : (old \o <<new>>)[v] = old[v]
    BY <1>2, <2>4, Extended
  <2> QED
    BY <2>1, <2>2, <2>4, <2>5
<1>5. Rivals(a, Q, p) = {}
  BY DEF Rivals
<1>6. ASSUME NEW t \in P
      PROVE  Rivals(a, Q, t) = IF SectionOf(a, t) = section THEN Rivals(a, P, t) \cup {p}
                                                            ELSE Rivals(a, P, t)
  BY DEF Rivals
<1>7. ASSUME NEW v \in 1 .. n
      PROVE  InForce(a, Q, Old(v))
  <2>1. InForce(a, P, ledger[v])
    BY <1>1 DEF Keeps
  <2> DEFINE t == TextOf(ledger[v])
  <2>2. /\ t \in P /\ ledger[v].section = SectionOf(a, t)
        /\ ledger[v].operative <=> Rivals(a, P, t) = {}
        /\ ~ledger[v].operative => ledger[v].by \in {u[1] : u \in Rivals(a, P, t)}
    BY <2>1 DEF InForce
  <2>3. TextOf(Old(v)) = t /\ Old(v).section = SectionOf(a, t) /\ t \in Q
    BY <1>3, <2>2
  <2>4. Old(v).operative <=> Rivals(a, Q, t) = {}
    BY <1>3, <1>6, <2>2
  <2>5. ASSUME ~Old(v).operative
        PROVE  Old(v).by \in {u[1] : u \in Rivals(a, Q, t)}
    <3>1. CASE ledger[v].section = section /\ ledger[v].operative
      <4>1. Old(v).by = p[1] /\ p \in Rivals(a, Q, t)
        BY <1>3, <1>6, <2>2, <3>1
      <4> QED
        BY <4>1
    <3>2. CASE ~ledger[v].operative
      <4>1. Old(v).by = ledger[v].by /\ Rivals(a, P, t) \subseteq Rivals(a, Q, t)
        BY <1>3, <1>6, <2>2, <3>2
      <4> QED
        BY <4>1, <2>2, <3>2
    <3> QED
      BY <2>5, <3>1, <3>2, <1>3
  <2> HIDE DEF Old, t, Q
  <2> QED
    BY <2>3, <2>4, <2>5 DEF InForce
<1>8. InForce(a, Q, new)
  BY <1>2, <1>5 DEF InForce
<1>9. \A v \in 1 .. n : TextOf(after[v]) = TextOf(ledger[v]) /\ TextOf(ledger[v]) \in P
  <2>1. \A v \in 1 .. n : TextOf(ledger[v]) \in P
    BY <1>1 DEF Keeps, InForce
  <2> QED
    BY <1>3, <1>4, <2>1
<1>10. TextOf(after[n + 1]) = p
  BY <1>2, <1>4
<1> HIDE DEF after, new, Old
<1>11. \A v, w \in 1 .. n + 1 : TextOf(after[v]) = TextOf(after[w]) => v = w
  <2>1. \A v, w \in 1 .. n : TextOf(ledger[v]) = TextOf(ledger[w]) => v = w
    BY <1>1 DEF Keeps
  <2>2. \A v \in 1 .. n + 1 : v \in 1 .. n \/ v = n + 1
    BY <1>1
  <2> QED
    BY <2>1, <2>2, <1>9, <1>10
<1>12. \A t \in Q : \E v \in 1 .. n + 1 : TextOf(after[v]) = t
  <2>1. \A t \in P : \E v \in 1 .. n : TextOf(ledger[v]) = t
    BY <1>1 DEF Keeps
  <2>2. 1 .. n \subseteq 1 .. n + 1 /\ n + 1 \in 1 .. n + 1
    BY <1>1
  <2> QED
    BY <2>1, <2>2, <1>9, <1>10
<1>13. \A v \in 1 .. n + 1 : InForce(a, Q, after[v])
  <2>1. \A v \in 1 .. n + 1 : v \in 1 .. n \/ v = n + 1
    BY <1>1
  <2> QED
    BY <2>1, <1>4, <1>7, <1>8
<1> QED
  <2>1. DOMAIN after = 1 .. n + 1 /\ after \in Seq(LedgerRow(a))
    BY <1>4
  <2> HIDE DEF LedgerRow, Q
  <2>2. Keeps(a, Q, after)
    BY <2>1, <1>11, <1>12, <1>13 DEF Keeps
  <2> QED
    BY <2>2 DEF Q, p, after

-----------------------------------------------------------------------------
(* The order of the amendments: by the number of earlier ones, which is another *)
(* one for each, so that every place is taken.                                  *)

Keyed(amendments) == \A i \in DOMAIN amendments : SortKey(amendments[i]) \in Nat

\* Every amendment has its place, after all that are earlier.
LEMMA OrderSorts ==
  ASSUME NEW s, IsList(s), Keyed(s)
  PROVE  /\ DOMAIN s = 1 .. Len(s) /\ Len(s) \in Nat
         /\ Order(s) \in Seq(1 .. Len(s)) /\ Len(Order(s)) = Len(s)
         /\ \A n \in 1 .. Len(s) : Order(s)[n] \in 1 .. Len(s)
         /\ \A i \in 1 .. Len(s) : \E n \in 1 .. Len(s) : Order(s)[n] = i
         /\ \A m, n \in 1 .. Len(s) : m < n =>
              /\ Order(s)[m] # Order(s)[n]
              /\ Earlier(s, Order(s)[m], Order(s)[n]) /\ ~Earlier(s, Order(s)[n], Order(s)[m])
<1> DEFINE N == Len(s)
           D == 1 .. N
           E(i) == {j \in D : Earlier(s, j, i)}
           Place(i) == Cardinality(E(i)) + 1
<1>1. DOMAIN s = D /\ N \in Nat
  BY DEF IsList
<1>2. /\ \A i \in D : ~Earlier(s, i, i)
      /\ \A i, j \in D : i # j => Earlier(s, i, j) \/ Earlier(s, j, i)
      /\ \A i, j, k \in D : Earlier(s, i, j) /\ Earlier(s, j, k) => Earlier(s, i, k)
  <2>1. \A i \in D : SortKey(s[i]) \in Nat
    BY <1>1 DEF Keyed
  <2> QED
    BY <1>1, <2>1 DEF Earlier
<1>3. IsFiniteSet(D) /\ Cardinality(D) = N
  <2> HIDE DEF N
  <2>1. N \in Int /\ 1 \in Int /\ (1 > N => N = 0)
    BY <1>1
  <2> QED
    BY <2>1, FS_Interval
<1>4. ASSUME NEW i \in D
      PROVE  IsFiniteSet(E(i)) /\ Cardinality(E(i)) \in Nat /\ Cardinality(E(i)) + 1 <= N
  <2>1. E(i) \in SUBSET D /\ E(i) \cup {i} \in SUBSET D /\ i \notin E(i)
    BY <1>2
  <2>2. IsFiniteSet(E(i)) /\ Cardinality(E(i)) \in Nat
    BY <2>1, <1>3, FS_Subset, FS_CardinalityType
  <2>3. Cardinality(E(i) \cup {i}) = Cardinality(E(i)) + 1
    BY <2>1, <2>2, FS_AddElement
  <2> QED
    BY <2>1, <2>2, <2>3, <1>3, FS_Subset
<1>5. ASSUME NEW i \in D, NEW j \in D, Earlier(s, i, j)
      PROVE  Place(i) < Place(j)
  <2>1. E(i) \cup {i} \in SUBSET E(j) /\ i \notin E(i)
    BY <1>2, <1>5
  <2>2. Cardinality(E(i) \cup {i}) = Cardinality(E(i)) + 1
    BY <2>1, <1>4, FS_AddElement
  <2>3. Cardinality(E(i) \cup {i}) <= Cardinality(E(j))
    BY <2>1, <1>4, FS_Subset
  <2> HIDE DEF E
  <2> QED
    BY <2>2, <2>3, <1>4
<1>6. /\ \A i \in D : Place(i) \in D
      /\ \A i, j \in D : Place(i) = Place(j) => i = j
  <2>1. \A i \in D : Place(i) \in D
    BY <1>1, <1>4
  <2>2. ASSUME NEW i \in D, NEW j \in D, Place(i) = Place(j), i # j
        PROVE  FALSE
    <3> HIDE DEF Place
    <3>1. Place(i) < Place(j) \/ Place(j) < Place(i)
      BY <1>2, <1>5, <2>2
    <3> QED
      BY <2>1, <2>2, <3>1
  <2> QED
    BY <2>1, <2>2
<1> DEFINE place == [i \in D |-> Place(i)]
<1> HIDE DEF E
<1>7. place \in Surjection(D, D)
  <2>1. place \in Injection(D, D)
    BY <1>6 DEF Injection, IsInjective
  <2> HIDE DEF place
  <2> QED
    BY <2>1, <1>3, FS_Injection
<1>8. \A n \in D : \E i \in D : Place(i) = n
  BY <1>7 DEF Surjection
<1>9. Order(s) = [n \in D |-> CHOOSE i \in D : Place(i) = n]
  BY <1>1 DEF Order, E
<1>10. \A n \in D : Order(s)[n] \in D /\ Place(Order(s)[n]) = n
  <2> HIDE DEF Place
  <2> QED
    BY <1>8, <1>9
<1>11. \A i \in D : Order(s)[Place(i)] = i
  <2> HIDE DEF Place
  <2> QED
    BY <1>6, <1>10
<1>12. \A m, n \in D : m < n =>
         /\ Order(s)[m] # Order(s)[n]
         /\ Earlier(s, Order(s)[m], Order(s)[n]) /\ ~Earlier(s, Order(s)[n], Order(s)[m])
  <2>1. ASSUME NEW m \in D, NEW n \in D, m < n
        PROVE  /\ Order(s)[m] # Order(s)[n]
               /\ Earlier(s, Order(s)[m], Order(s)[n]) /\ ~Earlier(s, Order(s)[n], Order(s)[m])
    <3>1. Order(s)[m] # Order(s)[n]
      BY <2>1, <1>10
    <3>2. ~Earlier(s, Order(s)[n], Order(s)[m])
      <4>1. SUFFICES ASSUME Earlier(s, Order(s)[n], Order(s)[m])
                     PROVE  FALSE
        OBVIOUS
      <4>2. Place(Order(s)[n]) < Place(Order(s)[m])
        BY <4>1, <1>5, <1>10
      <4> QED
        BY <4>2, <2>1, <1>10
    <3> QED
      BY <3>1, <3>2, <1>2, <1>10
  <2> QED
    BY <2>1
<1>13. Order(s) \in Seq(D) /\ Len(Order(s)) = N
  <2>1. Order(s) = [n \in 1 .. N |-> Order(s)[n]]
    <3>1. \A f : [n \in D |-> f[n]] = [n \in D |-> [m \in D |-> f[m]][n]]
      OBVIOUS
    <3> HIDE DEF Place
    <3> QED
      BY <1>9
  <2> HIDE DEF N, Place
  <2> QED
    BY <1>1, <1>10, <2>1
<1> QED
  BY <1>1, <1>6, <1>10, <1>11, <1>12, <1>13

\* Dates that are typed alike put the amendments in the order they are meant in.
LEMMA DatesDecide ==
  ASSUME NEW a, WellDated(a)
  PROVE  /\ Keyed(a.amendments)
         /\ \A i, j \in DOMAIN a.amendments \cap Nat :
              i # j => (Before(a.amendments, i, j) <=> Earlier(a.amendments, i, j))
<1> DEFINE s == a.amendments
           dates == {s[i].date : i \in DOMAIN s} \ {Undated}
<1>1. \A d, e \in dates :
        /\ d.key \in 0 .. LastKey - 1 /\ d.day \in Nat
        /\ d.day < e.day <=> d.key < e.key
  BY DEF WellDated
<1>2. LastKey \in Nat
  BY DatesAssumption
<1>3. \A i \in DOMAIN s : s[i].date # Undated => s[i].date \in dates
  OBVIOUS
<1>4. Keyed(s)
  BY <1>1, <1>2, <1>3 DEF Keyed, SortKey
<1>5. ASSUME NEW i \in DOMAIN s \cap Nat, NEW j \in DOMAIN s \cap Nat, i # j
      PROVE  Before(s, i, j) <=> Earlier(s, i, j)
  <2>1. CASE s[i].date = Undated \/ s[j].date = Undated
    BY <1>1, <1>2, <1>3, <2>1, <1>5 DEF Before, Earlier, SortKey
  <2>2. CASE s[i].date \in dates /\ s[j].date \in dates
    <3> DEFINE d == s[i].date  e == s[j].date
    <3>1. /\ d.key \in Nat /\ e.key \in Nat /\ d.day \in Nat /\ e.day \in Nat
          /\ d.day < e.day <=> d.key < e.key
          /\ e.day < d.day <=> e.key < d.key
      BY <1>1, <1>2, <2>2
    <3>2. d # Undated /\ e # Undated
      BY <2>2
    <3>3. Before(s, i, j) <=> d.day < e.day \/ (d.day = e.day /\ i < j)
      BY <3>2 DEF Before
    <3>4. Earlier(s, i, j) <=> d.key < e.key \/ (d.key = e.key /\ i < j)
      BY <3>2 DEF Earlier, SortKey
    <3> HIDE DEF d, e
    <3> QED
      BY <3>1, <3>3, <3>4
  <2> QED
    BY <1>3, <2>1, <2>2
<1> QED
  BY <1>4, <1>5

-----------------------------------------------------------------------------
(* The two loops of build_ledger.  Each satisfies its equation because an       *)
(* iterated function exists, and keeps what its step keeps.                     *)

\* The places of a list.
LEMMA Lists == \A s : IsList(s) => DOMAIN s = 1 .. Len(s) /\ Len(s) \in Nat
BY DEF IsList

\* The texts of an amendment are its replacements that are not empty.
LEMMA AmendmentTexts ==
  ASSUME NEW a, IsAgreement(a), NEW i \in DOMAIN a.amendments
  PROVE  LET ops == a.amendments[i].ops
         IN /\ DOMAIN ops = 1 .. Len(ops) /\ Len(ops) \in Nat
            /\ i \in Nat /\ i # 0
            /\ \A k \in DOMAIN ops : ~ops[k].empty =>
                 <<i, k>> \in AllTexts(a) /\ SectionOf(a, <<i, k>>) = ops[k].section
<1> DEFINE ops == a.amendments[i].ops
<1>1. DOMAIN ops = 1 .. Len(ops) /\ Len(ops) \in Nat /\ i \in Nat /\ i # 0
  BY Lists DEF IsAgreement
<1>2. ASSUME NEW k \in DOMAIN ops, ~ops[k].empty
      PROVE  <<i, k>> \in AllTexts(a) /\ SectionOf(a, <<i, k>>) = ops[k].section
  <2>1. <<i, k>> \in TextsOf(i, ops)
    BY <1>2 DEF TextsOf
  <2> QED
    BY <1>1, <2>1 DEF AllTexts, SectionOf
<1> QED
  BY <1>1, <1>2

\* A replacement makes a ledger of a ledger.
LEMMA ReplaceType ==
  ASSUME NEW S, NEW Row, Row = [section : S, doc : Nat, text : Nat, operative : BOOLEAN, by : Nat],
         NEW ledger \in Seq(Row), NEW doc \in Nat, NEW k \in Nat, NEW section \in S
  PROVE  Replace(ledger, section, doc, k) \in Seq(Row)
<1> DEFINE n == Len(ledger)
           old == [v \in 1 .. n |->
                     IF ledger[v].section = section /\ ledger[v].operative
                       THEN [ledger[v] EXCEPT !.operative = FALSE, !.by = doc]
                       ELSE ledger[v]]
           new == Version(section, doc, k)
<1>1. DOMAIN ledger = 1 .. n /\ n \in Nat /\ \A v \in 1 .. n : ledger[v] \in Row
  BY Elements
<1>2. \A v \in 1 .. n : old[v] \in Row
  BY <1>1
<1>3. new \in Row
  BY DEF Version
<1>4. Replace(ledger, section, doc, k) = old \o <<new>>
  BY <1>1 DEF Replace
<1>5. old \in Seq(Row)
  <2>1. old = [v \in 1 .. n |-> old[v]]
    OBVIOUS
  <2> HIDE DEF old, n
  <2> QED
    BY <1>1, <1>2, <2>1, Listed
<1> HIDE DEF old, new
<1>6. old \o <<new>> \in Seq(Row)
  BY <1>3, <1>5, Extended
<1> QED
  BY <1>4, <1>6

\* The replacements are applied one after the other.
LEMMA ApplyRuns ==
  ASSUME NEW a, IsAgreement(a), NEW i \in DOMAIN a.amendments,
         NEW ledger \in Seq(LedgerRow(a))
  PROVE  LET ops == a.amendments[i].ops
         IN \E f \in [0 .. Len(ops) -> Seq(LedgerRow(a))] :
              /\ f[0] = ledger /\ Apply(ledger, i, ops) = f[Len(ops)]
              /\ \A k \in 1 .. Len(ops) :
                   f[k] = IF ops[k].empty THEN f[k - 1]
                          ELSE Replace(f[k - 1], ops[k].section, i, k)
<1> DEFINE ops == a.amendments[i].ops
           N == Len(ops)
           S == Seq(LedgerRow(a))
           Step(l, k) == IF ops[k].empty THEN l ELSE Replace(l, ops[k].section, i, k)
           G == [x \in S \X (1 .. N) |-> Step(x[1], x[2])]
           Ledgers(f) == [k \in 0 .. N |-> IF k = 0 THEN ledger
                                          ELSE IF ops[k].empty THEN f[k - 1]
                                          ELSE Replace(f[k - 1], ops[k].section, i, k)]
           applied == CHOOSE f : f = Ledgers(f)
<1>1. DOMAIN ops = 1 .. N /\ N \in Nat /\ i \in Nat
  BY AmendmentTexts
<1>2. ASSUME NEW l \in S, NEW k \in 1 .. N
      PROVE  Step(l, k) \in S
  <2>1. CASE ops[k].empty
    BY <2>1
  <2>2. CASE ~ops[k].empty
    <3>1. ops[k].section \in {SectionOf(a, t) : t \in AllTexts(a)}
      <4>1. <<i, k>> \in AllTexts(a) /\ SectionOf(a, <<i, k>>) = ops[k].section
        BY <1>1, <2>2, AmendmentTexts
      <4> QED
        BY <4>1
    <3>2. k \in Nat
      BY <1>1
    <3> QED
      BY <1>1, <2>2, <3>1, <3>2, ReplaceType DEF LedgerRow
  <2> QED
    BY <2>1, <2>2
<1>3. G \in [S \X (1 .. N) -> S]
  <2> HIDE DEF Step, S
  <2> QED
    BY <1>2
<1>4. PICK g \in [0 .. N -> S] : g[0] = ledger /\ \A k \in 1 .. N : g[k] = G[<<g[k - 1], k>>]
  <2>1. ledger \in S /\ N \in Nat
    BY <1>1
  <2> HIDE DEF G, S, N
  <2>2. Iterated(S, ledger, N, G)
    BY <1>3, <2>1, Iterates
  <2> QED
    BY <2>2 DEF Iterated
<1>5. ASSUME NEW k \in 1 .. N
      PROVE  g[k] = Step(g[k - 1], k)
  <2>1. g[k - 1] \in S
    <3> HIDE DEF S
    <3>1. k - 1 \in 0 .. N
      BY <1>1
    <3> QED
      BY <1>4, <3>1
  <2> HIDE DEF S, Step
  <2>2. \A l \in S : G[<<l, k>>] = Step(l, k)
    OBVIOUS
  <2> HIDE DEF G
  <2> QED
    BY <2>1, <2>2, <1>4
<1>6. g = Ledgers(g)
  <2>1. \A k \in 0 .. N : k # 0 => k \in 1 .. N
    BY <1>1
  <2>2. g = [k \in 0 .. N |-> g[k]]
    BY <1>4
  <2>3. \A k \in 0 .. N : g[k] = Ledgers(g)[k]
    BY <2>1, <1>4, <1>5
  <2> QED
    BY <2>2, <2>3
<1>7. applied = Ledgers(applied)
  <2> HIDE DEF Ledgers
  <2> QED
    BY <1>6
<1>8. Apply(ledger, i, ops) = applied[N]
  BY DEF Apply
<1> HIDE DEF applied
<1>9. applied[0] = ledger
  BY <1>1, <1>7
<1>10. ASSUME NEW k \in 1 .. N
       PROVE  applied[k] = Step(applied[k - 1], k)
  <2>1. k # 0 /\ k \in 0 .. N
    BY <1>1
  <2>2. \A f : Ledgers(f)[k] = Step(f[k - 1], k)
    BY <2>1
  <2> HIDE DEF Ledgers, Step
  <2> QED
    BY <1>7, <2>2
<1>11. 0 .. N \subseteq {k \in 0 .. N : applied[k] \in S}
  <2> DEFINE J == {k \in 0 .. N : applied[k] \in S}
  <2>1. 0 \in J
    BY <1>1, <1>9
  <2>2. ASSUME NEW k \in 1 .. N, k - 1 \in J
        PROVE  k \in J
    <3> HIDE DEF S, Step
    <3> QED
      BY <1>1, <1>2, <1>10, <2>2
  <2> HIDE DEF J
  <2> QED
    BY <1>1, <2>1, <2>2, UpTo DEF J
<1>12. applied \in [0 .. N -> S]
  <2> HIDE DEF S
  <2>1. \A f : DOMAIN Ledgers(f) = 0 .. N /\ Ledgers(f) = [k \in 0 .. N |-> Ledgers(f)[k]]
    OBVIOUS
  <2> HIDE DEF Ledgers
  <2>2. DOMAIN applied = 0 .. N /\ applied = [k \in 0 .. N |-> applied[k]]
    BY <1>7, <2>1
  <2> QED
    BY <2>2, <1>11
<1> QED
  BY <1>8, <1>9, <1>10, <1>12

\* An amendment that is later than all before brings its texts in force.
LEMMA ApplyKeeps ==
  ASSUME NEW a, IsAgreement(a), NEW i \in DOMAIN a.amendments,
         NEW P, P \subseteq AllTexts(a), NEW ledger, Keeps(a, P, ledger),
         \A u \in P : /\ u[1] # i
                      /\ u[1] # 0 => /\ Before(a.amendments, u[1], i)
                                     /\ ~Before(a.amendments, i, u[1])
  PROVE  Keeps(a, P \cup TextsOf(i, a.amendments[i].ops),
               Apply(ledger, i, a.amendments[i].ops))
<1> DEFINE ops == a.amendments[i].ops
           N == Len(ops)
           Q(m) == P \cup {<<i, k>> : k \in {n \in 1 .. m : ~ops[n].empty}}
<1>1. /\ DOMAIN ops = 1 .. N /\ N \in Nat /\ i \in Nat /\ i # 0
      /\ \A k \in 1 .. N : ~ops[k].empty =>
           <<i, k>> \in AllTexts(a) /\ SectionOf(a, <<i, k>>) = ops[k].section
  BY AmendmentTexts
<1>2. ledger \in Seq(LedgerRow(a))
  BY DEF Keeps
<1>3. PICK f \in [0 .. N -> Seq(LedgerRow(a))] :
        /\ f[0] = ledger /\ Apply(ledger, i, ops) = f[N]
        /\ \A k \in 1 .. N : f[k] = IF ops[k].empty THEN f[k - 1]
                                    ELSE Replace(f[k - 1], ops[k].section, i, k)
  BY <1>2, ApplyRuns
<1>4. Keeps(a, Q(0), f[0])
  <2>1. Q(0) = P
    OBVIOUS
  <2> QED
    BY <1>3, <2>1
<1>5. ASSUME NEW k \in 1 .. N, Keeps(a, Q(k - 1), f[k - 1])
      PROVE  Keeps(a, Q(k), f[k])
  <2>1. \A n \in 1 .. k : n \in 1 .. k - 1 \/ n = k
    BY <1>1
  <2>2. k \in Nat /\ k \in 1 .. k /\ \A n \in 1 .. k - 1 : n \in 1 .. k /\ n < k /\ n \in 1 .. N
    BY <1>1
  <2>3. CASE ops[k].empty
    <3>1. Q(k) = Q(k - 1)
      BY <2>1, <2>2, <2>3
    <3> QED
      BY <1>3, <1>5, <2>3, <3>1
  <2>4. CASE ~ops[k].empty
    <3> DEFINE p == <<i, k>>
    <3>1. Q(k) = Q(k - 1) \cup {p}
      BY <2>1, <2>2, <2>4
    <3>2. Q(k - 1) \subseteq AllTexts(a) /\ p \in AllTexts(a) /\ p \notin Q(k - 1)
      BY <1>1, <2>2, <2>4
    <3>3. \A u \in Q(k - 1) : Later(a, p, u) /\ ~Later(a, u, p)
      <4>1. ASSUME NEW u \in P
            PROVE  Later(a, p, u) /\ ~Later(a, u, p)
        BY <1>1, <4>1 DEF Later
      <4>2. ASSUME NEW n \in 1 .. k - 1
            PROVE  Later(a, p, <<i, n>>) /\ ~Later(a, <<i, n>>, p)
        BY <1>1, <2>2 DEF Later
      <4> QED
        BY <4>1, <4>2
    <3>4. ~Later(a, p, p)
      BY <1>1, <2>2 DEF Later
    <3>5. Keeps(a, Q(k - 1) \cup {p}, Replace(f[k - 1], ops[k].section, i, k))
      <4>1. ops[k].section = SectionOf(a, p)
        BY <1>1, <2>4
      <4>2. AllTexts(a) \subseteq Nat \X Nat
        BY TextPairs
      <4> HIDE DEF Q
      <4> QED
        BY <1>1, <1>5, <2>2, <3>2, <3>3, <3>4, <4>1, <4>2, ReplaceKeeps
    <3> QED
      BY <1>3, <2>4, <3>1, <3>5
  <2> QED
    BY <2>3, <2>4
<1>6. Keeps(a, Q(N), f[N])
  <2> DEFINE J == {m \in 0 .. N : Keeps(a, Q(m), f[m])}
  <2>1. 0 \in J
    BY <1>1, <1>4
  <2>2. \A k \in 1 .. N : k - 1 \in J => k \in J
    <3> HIDE DEF Q
    <3> QED
      BY <1>1, <1>5
  <2>3. N \in 0 .. N
    BY <1>1
  <2>4. 0 .. N \subseteq J
    <3> HIDE DEF J
    <3> QED
      BY <1>1, <2>1, <2>2, UpTo
  <2> QED
    BY <2>3, <2>4
<1>7. Q(N) = P \cup TextsOf(i, ops)
  BY <1>1 DEF TextsOf
<1> QED
  BY <1>3, <1>6, <1>7

\* The base: every section is in force.
LEMMA BaseKeeps ==
  ASSUME NEW a, IsAgreement(a)
  PROVE  Keeps(a, {<<0, k>> : k \in DOMAIN a.base}, BaseLedger(a.base))
<1> DEFINE base == a.base
           n == Len(base)
           P == {<<0, k>> : k \in DOMAIN base}
           ledger == BaseLedger(base)
<1>1. DOMAIN base = 1 .. n /\ n \in Nat
  BY Lists DEF IsAgreement
<1>2. ASSUME NEW k \in 1 .. n
      PROVE  /\ ledger[k] = Version(base[k], 0, k) /\ ledger[k] \in LedgerRow(a)
             /\ TextOf(ledger[k]) = <<0, k>> /\ InForce(a, P, ledger[k])
  <2>1. ledger[k] = Version(base[k], 0, k)
    BY <1>1 DEF BaseLedger
  <2>2. <<0, k>> \in P /\ <<0, k>> \in AllTexts(a) /\ SectionOf(a, <<0, k>>) = base[k]
    BY <1>1 DEF AllTexts, SectionOf
  <2>3. Version(base[k], 0, k) \in LedgerRow(a)
    BY <1>1, <2>2 DEF LedgerRow, Version
  <2>4. TextOf(Version(base[k], 0, k)) = <<0, k>>
    BY DEF Version, TextOf
  <2>5. Rivals(a, P, <<0, k>>) = {}
    BY DEF Rivals, Later
  <2>6. InForce(a, P, Version(base[k], 0, k))
    <3>1. Version(base[k], 0, k).section = base[k] /\ Version(base[k], 0, k).operative
      BY DEF Version
    <3> QED
      BY <2>2, <2>4, <2>5, <3>1 DEF InForce
  <2> QED
    BY <2>1, <2>3, <2>4, <2>6
<1>3. DOMAIN ledger = 1 .. n /\ ledger = [k \in 1 .. n |-> ledger[k]]
  BY <1>1 DEF BaseLedger
<1> HIDE DEF ledger
<1>4. ledger \in Seq(LedgerRow(a))
  <2>1. \A k \in 1 .. n : ledger[k] \in LedgerRow(a)
    BY <1>2
  <2> HIDE DEF n
  <2> QED
    BY <1>1, <1>3, <2>1, Listed
<1>5. \A v, w \in 1 .. n : TextOf(ledger[v]) = TextOf(ledger[w]) => v = w
  <2>1. \A v \in 1 .. n : TextOf(ledger[v]) = <<0, v>>
    BY <1>2
  <2> QED
    BY <2>1
<1>6. \A t \in P : \E v \in 1 .. n : TextOf(ledger[v]) = t
  BY <1>1, <1>2
<1>7. Keeps(a, P, ledger)
  <2> HIDE DEF P
  <2> QED
    BY <1>2, <1>3, <1>4, <1>5, <1>6 DEF Keeps
<1> QED
  BY <1>7 DEF ledger

\* The amendments are applied one after the other, each to what the earlier made.
LEMMA BuildKeeps ==
  ASSUME NEW a, IsAgreement(a), WellDated(a)
  PROVE  Keeps(a, AllTexts(a), BuildLedger(a))
<1> DEFINE s == a.amendments
           order == Order(s)
           N == Len(s)
           S == Seq(LedgerRow(a))
           base == BaseLedger(a.base)
           P0 == {<<0, k>> : k \in DOMAIN a.base}
           Done(n) == P0 \cup UNION {TextsOf(order[m], s[order[m]].ops) : m \in 1 .. n}
           Step(l, n) == Apply(l, order[n], s[order[n]].ops)
           G == [x \in S \X (1 .. N) |-> Step(x[1], x[2])]
           Ledgers(f) == [n \in 0 .. Len(order) |->
                            IF n = 0 THEN base ELSE Apply(f[n - 1], order[n], s[order[n]].ops)]
           built == CHOOSE f : f = Ledgers(f)
<1>1. IsList(s) /\ Keyed(s)
  BY DatesDecide DEF IsAgreement
<1>2. /\ DOMAIN s = 1 .. N /\ N \in Nat
      /\ \A n \in 1 .. N : order[n] \in 1 .. N
      /\ \A i \in 1 .. N : \E n \in 1 .. N : order[n] = i
      /\ \A m, n \in 1 .. N : m < n =>
           /\ order[m] # order[n]
           /\ Earlier(s, order[m], order[n]) /\ ~Earlier(s, order[n], order[m])
  <2> HIDE DEF order
  <2> QED
    BY <1>1, OrderSorts DEF order
<1>3. Len(order) = N
  BY <1>1, OrderSorts
<1>4. base \in S
  BY BaseKeeps DEF Keeps
<1>5. ASSUME NEW l \in S, NEW n \in 1 .. N
      PROVE  Step(l, n) \in S
  <2>1. order[n] \in DOMAIN s
    BY <1>2
  <2>2. PICK f \in [0 .. Len(s[order[n]].ops) -> S] : Step(l, n) = f[Len(s[order[n]].ops)]
    BY <2>1, ApplyRuns
  <2>3. Len(s[order[n]].ops) \in Nat
    BY <2>1, AmendmentTexts
  <2> HIDE DEF S, Step
  <2> QED
    BY <2>2, <2>3
<1>6. G \in [S \X (1 .. N) -> S]
  <2> HIDE DEF Step, S
  <2> QED
    BY <1>5
<1>7. PICK g \in [0 .. N -> S] : g[0] = base /\ \A n \in 1 .. N : g[n] = G[<<g[n - 1], n>>]
  <2> HIDE DEF G, S, N, base
  <2>1. Iterated(S, base, N, G)
    BY <1>2, <1>4, <1>6, Iterates
  <2> QED
    BY <2>1 DEF Iterated
<1>8. ASSUME NEW n \in 1 .. N
      PROVE  g[n] = Step(g[n - 1], n)
  <2>1. g[n - 1] \in S
    <3> HIDE DEF S
    <3>1. n - 1 \in 0 .. N
      BY <1>2
    <3> QED
      BY <1>7, <3>1
  <2> HIDE DEF S, Step
  <2>2. \A l \in S : G[<<l, n>>] = Step(l, n)
    OBVIOUS
  <2> HIDE DEF G
  <2> QED
    BY <2>1, <2>2, <1>7
<1>9. g = Ledgers(g)
  <2> HIDE DEF order, base
  <2>1. \A n \in 0 .. N : n # 0 => n \in 1 .. N
    BY <1>2
  <2>2. g = [n \in 0 .. N |-> g[n]]
    BY <1>7
  <2>3. \A n \in 0 .. N : g[n] = Ledgers(g)[n]
    BY <2>1, <1>3, <1>7, <1>8
  <2> QED
    BY <2>2, <2>3, <1>3
<1>10. built = Ledgers(built)
  <2> HIDE DEF Ledgers
  <2> QED
    BY <1>9
<1>11. BuildLedger(a) = built[N]
  BY <1>3 DEF BuildLedger
<1> HIDE DEF built
<1>12. built[0] = base
  <2> HIDE DEF order, base
  <2> QED
    BY <1>2, <1>3, <1>10
<1>13. ASSUME NEW n \in 1 .. N
       PROVE  built[n] = Step(built[n - 1], n)
  <2>1. n # 0 /\ n \in 0 .. Len(order)
    BY <1>2, <1>3
  <2>2. \A f : Ledgers(f)[n] = Step(f[n - 1], n)
    BY <2>1
  <2> HIDE DEF Ledgers, Step
  <2> QED
    BY <1>10, <2>2
<1>14. \A n \in 0 .. N : Done(n) \subseteq AllTexts(a)
  <2> HIDE DEF order
  <2>1. \A n \in 0 .. N : \A m \in 1 .. n : order[m] \in DOMAIN s
    BY <1>2
  <2> QED
    BY <2>1 DEF AllTexts
<1>15. Keeps(a, Done(0), built[0])
  <2>1. Done(0) = P0
    OBVIOUS
  <2> QED
    BY <1>12, <2>1, BaseKeeps
<1>16. ASSUME NEW n \in 1 .. N, Keeps(a, Done(n - 1), built[n - 1])
       PROVE  Keeps(a, Done(n), built[n])
  <2> DEFINE i == order[n]
  <2>1. i \in DOMAIN s /\ i \in Nat /\ i # 0
    BY <1>2
  <2>2. ASSUME NEW m \in 1 .. n - 1, NEW u \in TextsOf(order[m], s[order[m]].ops)
        PROVE  u[1] # i /\ u[1] # 0 /\ Before(s, u[1], i) /\ ~Before(s, i, u[1])
    <3>1. u[1] = order[m]
      BY DEF TextsOf
    <3>2. m \in 1 .. N /\ m < n
      BY <1>2
    <3>3. order[m] \in DOMAIN s \cap Nat /\ i \in DOMAIN s \cap Nat /\ order[m] # 0
      <4>1. order[m] \in 1 .. N /\ i \in 1 .. N
        BY <1>2, <3>2
      <4>2. DOMAIN s = 1 .. N /\ N \in Nat
        BY <1>2
      <4>3. \A x \in 1 .. N : x \in DOMAIN s \cap Nat /\ x # 0
        <5> HIDE DEF N, s
        <5> QED
          BY <4>2
      <4> HIDE DEF order, i, N, s
      <4> QED
        BY <4>1, <4>3
    <3> HIDE DEF order
    <3> QED
      BY <1>2, <3>1, <3>2, <3>3, DatesDecide
  <2>3. \A u \in Done(n - 1) :
          /\ u[1] # i
          /\ u[1] # 0 => Before(s, u[1], i) /\ ~Before(s, i, u[1])
    <3> HIDE DEF i, order
    <3> QED
      BY <2>1, <2>2
  <2>4. Done(n) = Done(n - 1) \cup TextsOf(i, s[i].ops)
    <3>1. 1 .. n = (1 .. n - 1) \cup {n}
      BY <1>2
    <3> QED
      BY <3>1
  <2>5. Done(n - 1) \subseteq AllTexts(a)
    BY <1>2, <1>14
  <2>6. Keeps(a, Done(n - 1) \cup TextsOf(i, s[i].ops), Apply(built[n - 1], i, s[i].ops))
    <3> HIDE DEF Done, i
    <3> QED
      BY <1>16, <2>1, <2>3, <2>5, ApplyKeeps
  <2> QED
    BY <1>13, <2>4, <2>6
<1>17. Keeps(a, Done(N), built[N])
  <2> DEFINE J == {m \in 0 .. N : Keeps(a, Done(m), built[m])}
  <2> HIDE DEF Done
  <2>1. 0 \in J
    BY <1>2, <1>15
  <2>2. \A n \in 1 .. N : n - 1 \in J => n \in J
    BY <1>2, <1>16
  <2>3. N \in 0 .. N
    BY <1>2
  <2>4. 0 .. N \subseteq J
    <3> HIDE DEF J
    <3> QED
      BY <1>2, <2>1, <2>2, UpTo
  <2> QED
    BY <2>3, <2>4
<1>18. Done(N) = AllTexts(a)
  <2>1. ASSUME NEW i \in 1 .. N, NEW t \in TextsOf(i, s[i].ops)
        PROVE  t \in Done(N)
    <3>1. PICK m \in 1 .. N : order[m] = i
      BY <1>2
    <3>2. t \in TextsOf(order[m], s[order[m]].ops)
      BY <2>1, <3>1
    <3> HIDE DEF order
    <3> QED
      BY <3>2
  <2>2. AllTexts(a) \subseteq Done(N)
    <3> HIDE DEF Done
    <3>1. P0 \subseteq Done(N)
      BY DEF Done
    <3> QED
      BY <1>2, <2>1, <3>1 DEF AllTexts
  <2>3. Done(N) \subseteq AllTexts(a)
    <3> HIDE DEF Done, N
    <3>1. N \in 0 .. N
      BY <1>2
    <3> QED
      BY <1>14, <3>1
  <2> HIDE DEF Done
  <2> QED
    BY <2>2, <2>3
<1> QED
  BY <1>11, <1>17, <1>18

\* A ledger that keeps every text resolves the agreement.
LEMMA KeepsResolves ==
  ASSUME NEW a, IsAgreement(a), NEW ledger, Keeps(a, AllTexts(a), ledger)
  PROVE  Resolves(a, ledger)
<1> DEFINE all == AllTexts(a)
<1>1. \A v \in DOMAIN ledger : InForce(a, all, ledger[v])
  BY DEF Keeps
<1>2. ASSUME NEW v \in DOMAIN ledger, NEW w \in DOMAIN ledger,
             ledger[v].doc = ledger[w].doc, ledger[v].text = ledger[w].text
      PROVE  v = w
  BY <1>2 DEF Keeps, TextOf
<1>3. ASSUME NEW section
      PROVE  Texts(a, section) = {t \in all : SectionOf(a, t) = section}
  <2> DEFINE s == a.amendments
  <2>1. \A i \in DOMAIN s : i # 0
    BY AmendmentTexts
  <2>2. ASSUME NEW t \in Texts(a, section)
        PROVE  t \in all /\ SectionOf(a, t) = section
    <3>1. CASE \E k \in DOMAIN a.base : a.base[k] = section /\ t = <<0, k>>
      BY <3>1 DEF AllTexts, SectionOf
    <3>2. CASE \E i \in DOMAIN s : \E k \in DOMAIN s[i].ops :
                 s[i].ops[k].section = section /\ ~s[i].ops[k].empty /\ t = <<i, k>>
      BY <2>1, <3>2 DEF AllTexts, TextsOf, SectionOf
    <3> QED
      BY <2>2, <3>1, <3>2 DEF Texts
  <2>3. ASSUME NEW t \in all, SectionOf(a, t) = section
        PROVE  t \in Texts(a, section)
    <3>1. CASE \E k \in DOMAIN a.base : t = <<0, k>>
      BY <2>3, <3>1 DEF Texts, SectionOf
    <3>2. CASE \E i \in DOMAIN s : \E k \in DOMAIN s[i].ops : ~s[i].ops[k].empty /\ t = <<i, k>>
      BY <2>1, <2>3, <3>2 DEF Texts, SectionOf
    <3> QED
      BY <3>1, <3>2 DEF AllTexts, TextsOf
  <2> QED
    BY <2>2, <2>3
<1>4. ASSUME NEW section
      PROVE  LET texts == Texts(a, section)
                 of == {v \in DOMAIN ledger : ledger[v].section = section}
             IN /\ {<<ledger[v].doc, ledger[v].text>> : v \in of} = texts
                /\ \A v \in of :
                     LET later == {u \in texts :
                                     Later(a, u, <<ledger[v].doc, ledger[v].text>>)}
                     IN /\ ledger[v].operative <=> later = {}
                        /\ ~ledger[v].operative => ledger[v].by \in {u[1] : u \in later}
  <2> DEFINE texts == {t \in all : SectionOf(a, t) = section}
             of == {v \in DOMAIN ledger : ledger[v].section = section}
  <2>1. {TextOf(ledger[v]) : v \in of} = texts
    <3>1. \A t \in all : \E v \in DOMAIN ledger : TextOf(ledger[v]) = t
      BY DEF Keeps
    <3> HIDE DEF all
    <3> QED
      BY <1>1, <3>1 DEF InForce
  <2>2. ASSUME NEW v \in of
        PROVE  {u \in texts : Later(a, u, TextOf(ledger[v]))} = Rivals(a, all, TextOf(ledger[v]))
    <3> HIDE DEF all
    <3> QED
      BY <1>1 DEF InForce, Rivals
  <2>3. \A v \in of : InForce(a, all, ledger[v])
    BY <1>1
  <2>4. \A v \in of : TextOf(ledger[v]) = <<ledger[v].doc, ledger[v].text>>
    BY DEF TextOf
  <2> HIDE DEF all
  <2> QED
    BY <1>3, <2>1, <2>2, <2>3, <2>4 DEF InForce
<1> QED
  BY <1>2, <1>4 DEF Resolves

\* Every text of an agreement has its place, and the later one is in force.
LEMMA LedgerResolves ==
  ASSUME NEW a, IsAgreement(a), WellDated(a)
  PROVE  Resolves(a, BuildLedger(a))
BY BuildKeeps, KeepsResolves

\* The agreements of a matter have no dates that could be typed otherwise.
LEMMA MatterDates ==
  \A a \in MatterAgreements : IsAgreement(a) /\ WellDated(a)
<1>1. ASSUME NEW sel \in Selection
      PROVE  WellDated(MatterAgreement(sel))
  <2>1. \A i \in DOMAIN MatterAgreement(sel).amendments :
          MatterAgreement(sel).amendments[i].date = Undated
    BY DEF MatterAgreement, AmendmentOf
  <2> QED
    BY <2>1 DEF WellDated
<1> QED
  BY <1>1, AgreementAssumption DEF MatterAgreements

-----------------------------------------------------------------------------
(* Theorems.                                                                   *)

LEMMA InvSound == Inv => StoreIsSound
<1> SUFFICES ASSUME Inv PROVE StoreIsSound
  OBVIOUS
<1>1. ReadingTypeOK
  <2>1. ASSUME NEW r \in Reader
        PROVE  /\ reader[r].step \in Steps /\ reader[r].todo \subseteq {Base} \cup Amendment
               /\ reader[r].version \in 0 .. Cardinality(Reader)
    <3>1. reader[r] \in ReaderRow
      BY DEF Inv, ReadersInOrder
    <3> QED
      BY <3>1 DEF ReaderRow, Documents
  <2> QED
    BY <2>1 DEF Inv, SurroundingsInOrder, ReadingTypeOK
<1>2. \A key \in Keys :
        LET of == {k \in DOMAIN readings : readings[k].key = key}
        IN VersionsOf(key) = 1 .. Cardinality(of)
  BY DEF Inv, StoreInOrder, Of
<1>3. Cardinality(Stored) = Len(readings) /\ \A i \in DOMAIN log : log[i].id \in Stored
  BY DEF Inv, StoreInOrder, LogInOrder
<1>4. died \/ \A id \in Stored :
        \/ \E i \in DOMAIN log : log[i] = Event("reading.created", id)
        \/ \E r \in Reader : At(r, "record") /\ ~reader[r].known /\ IdOf(r) = id
  BY DEF Inv, LogInOrder, Created
<1> QED
  BY <1>1, <1>2, <1>3, <1>4 DEF StoreIsSound, Keys

\* However many calls of the service overlap, and wherever they end, the
\* readings of an agreement are its versions 1, 2, ... with one content each,
\* and the log names each stored one and no other (repository.py:96-135,
\* api.py:174-182).
THEOREM StoreIsSoundHolds == MatterSpec => []StoreIsSound
BY InvSound, InvHolds, PTL

\* The sources of a request that is answered are as they were when they were
\* found readable, and its reading is stored and logged.
LEMMA AnswerTells ==
  ASSUME Inv, NEW r \in Reader, At(r, "rows after"), MatterNext, reader'[r].step = "answered"
  PROVE  /\ deletion = "ACTIVE"
         /\ \A d \in ToSet(reader[r].sel) : row[d] \in Readables /\ row[d] = reader[r].rows[d]
         /\ Id("matter", MatterAgreement(reader[r].sel)) \in Stored
         /\ \E i \in DOMAIN log : log[i].id = Id("matter", MatterAgreement(reader[r].sel))
<1>1. /\ reader \in [Reader -> ReaderRow] /\ reader[r] \in ReaderRow /\ ReaderInOrder(reader[r])
      /\ reader[r].step = "rows after"
  BY DEF Inv, ReadersInOrder, At
<1>2. reader' # reader
  BY <1>1
<1>3. PICK s \in Reader : Route(s) \/ Send(s) \/ Service(s)
  BY <1>2 DEF MatterNext, ReadingNext, readingVars, LookAt, Disturb, ChangeRow, AlterFile, ChangeAccess
<1>4. s = r
  <2>1. \A t \in Reader \ {s} : reader'[t] = reader[t]
    BY <1>1, <1>3 DEF Route, Service, LoadSources, ReadSource, CheckAccess, SendText, Answer, Send,
       ReadPrior, FindReading, NumberReading, InsertReading, RecordReading, LoseCall, Refuse, Advance
  <2> QED
    BY <1>1, <2>1
<1>5. Answer(r)
  BY <1>1, <1>3, <1>4 DEF Route, Service, LoadSources, ReadSource, CheckAccess, SendText, Send,
     ReadPrior, FindReading, NumberReading, InsertReading, RecordReading, LoseCall, At
<1>6. SourcesUnchanged(r)
  <2>1. CASE Refuse(r)
    <3>1. reader'[r].step = "refused"
      BY <1>1, <2>1 DEF Refuse, NewReader
    <3> QED
      BY <3>1
  <2> QED
    BY <1>5, <2>1 DEF Answer
<1>7. /\ reader[r].sel \in Selection /\ AllRead(reader[r])
      /\ reader[r].asked = MatterAgreement(reader[r].sel)
      /\ IdFor(reader[r]) \in Stored /\ Logged(IdFor(reader[r]))
      /\ IdFor(reader[r]) = Id("matter", MatterAgreement(reader[r].sel))
  BY <1>1 DEF ReaderInOrder, ReaderRow, IdFor, KeyFor
<1>8. ToSet(reader[r].sel) \subseteq Amendment /\ Base \notin Amendment
  BY <1>7, ReadingAssumption
<1>9. Rows(reader[r].sel) = reader[r].rows
  BY <1>6 DEF SourcesUnchanged
<1>10. deletion = reader[r].rows[Base] /\ Readable(Base, reader[r].rows[Base])
  BY <1>7, <1>9 DEF Rows, AllRead
<1>11. \A d \in ToSet(reader[r].sel) :
         /\ d # Base /\ row[d] = reader[r].rows[d] /\ Readable(d, reader[r].rows[d])
  BY <1>7, <1>8, <1>9 DEF Rows, AllRead
<1> QED
  BY <1>7, <1>10, <1>11 DEF Readable, Logged

\* A user is shown a reading only while each of its sources is active, readable
\* and as it was when it was read, with its reading stored and logged
\* (reading/route.ts:103-111, 139-149).
THEOREM AnsweredAsReadHolds == MatterSpec => AnsweredAsRead
<1>1. Inv /\ [MatterNext]_mvars =>
        [\A r \in Reader :
          (At(r, "rows after") /\ reader'[r].step = "answered") =>
             /\ deletion = "ACTIVE"
             /\ \A d \in ToSet(reader[r].sel) : row[d] \in Readables /\ row[d] = reader[r].rows[d]
             /\ Id("matter", MatterAgreement(reader[r].sel)) \in Stored
             /\ \E i \in DOMAIN log :
                  log[i].id = Id("matter", MatterAgreement(reader[r].sel))]_readingVars
  <2> SUFFICES ASSUME Inv, [MatterNext]_mvars, readingVars' # readingVars,
                      NEW r \in Reader, At(r, "rows after"), reader'[r].step = "answered"
               PROVE  /\ deletion = "ACTIVE"
                      /\ \A d \in ToSet(reader[r].sel) :
                           row[d] \in Readables /\ row[d] = reader[r].rows[d]
                      /\ Id("matter", MatterAgreement(reader[r].sel)) \in Stored
                      /\ \E i \in DOMAIN log :
                           log[i].id = Id("matter", MatterAgreement(reader[r].sel))
    OBVIOUS
  <2>1. MatterNext
    BY DEF mvars
  <2> QED
    BY <2>1, AnswerTells
<1> USE DEF mvars
<1> QED
  BY <1>1, InvHolds, PTL DEF MatterSpec, AnsweredAsRead

\* Readings leave the purge alone: what is proved of it (SourcePurgeProofs) holds
\* while its document is read (reading/route.ts, purge-requests/[id]/route.ts).
THEOREM PurgeUnderReadings == MatterSpec => Spec
<1>1. MatterInit => Init
  BY DEF MatterInit
<1>2. [MatterNext]_mvars => [Next]_vars
  BY DEF MatterNext, mvars
<1> USE DEF mvars
<1> QED
  BY <1>1, <1>2, PTL DEF MatterSpec, Spec

\* The stored ledger of a reading is the one its agreement gives.
LEMMA StoredLedgers ==
  ASSUME Inv, NEW k \in DOMAIN readings
  PROVE  /\ readings[k].ledger = BuildLedger(readings[k].agreement)
         /\ readings[k].agreement \in Asked
         /\ readings[k].key = "matter" => readings[k].agreement \in MatterAgreements
<1>1. readings[k] \in ReadingRow
  BY StoreCounts DEF Inv, StoreInOrder
<1> QED
  BY <1>1 DEF ReadingRow

\* A stored reading keeps each text of its agreement once, and has in force those
\* with no later one, provided the dates of this agreement sort as the days they
\* mean; whatever else clients send (precedence.py:55-102).
ResolvesWhereDated ==
  \A k \in DOMAIN readings :
    WellDated(readings[k].agreement) => Resolves(readings[k].agreement, readings[k].ledger)

\* That holds for any number of amendments and replacements in whatever order they
\* were given.
THEOREM ResolvesWhereDatedHolds == MatterSpec => []ResolvesWhereDated
<1>1. Inv => ResolvesWhereDated
  <2> SUFFICES ASSUME Inv, NEW k \in DOMAIN readings, WellDated(readings[k].agreement)
               PROVE  Resolves(readings[k].agreement, readings[k].ledger)
    BY DEF ResolvesWhereDated
  <2>1. IsAgreement(readings[k].agreement)
    BY StoredLedgers, AgreementAssumption DEF Asked, MatterAgreements
  <2> QED
    BY <2>1, StoredLedgers, LedgerResolves
<1> QED
  BY <1>1, InvHolds, PTL

\* Where all the dates that other clients type sort as the days they mean, every
\* stored reading has the latest texts in force (precedence.py:55-102).
THEOREM LaterAmendmentWinsHolds ==
  ASSUME \A agreement \in Direct : WellDated(agreement)
  PROVE  MatterSpec => []LaterAmendmentWins
<1>1. Inv /\ ResolvesWhereDated => LaterAmendmentWins
  <2> SUFFICES ASSUME Inv, ResolvesWhereDated, NEW k \in DOMAIN readings
               PROVE  Resolves(readings[k].agreement, readings[k].ledger)
    BY DEF LaterAmendmentWins
  <2>1. WellDated(readings[k].agreement)
    BY StoredLedgers, MatterDates DEF Asked
  <2> QED
    BY <2>1 DEF ResolvesWhereDated
<1> QED
  BY <1>1, InvHolds, ResolvesWhereDatedHolds, PTL

\* The readings of the matter itself, whose amendments have no typed date
\* (lib/matterDocumentReading.mjs:80-116), have the latest texts in force.
MatterResolves ==
  \A k \in DOMAIN readings :
    readings[k].key = "matter" => Resolves(readings[k].agreement, readings[k].ledger)

\* That holds of them whatever other clients of the service send and type.
THEOREM MatterResolvesHolds == MatterSpec => []MatterResolves
<1>1. Inv /\ ResolvesWhereDated => MatterResolves
  <2> SUFFICES ASSUME Inv, ResolvesWhereDated,
                      NEW k \in DOMAIN readings, readings[k].key = "matter"
               PROVE  Resolves(readings[k].agreement, readings[k].ledger)
    BY DEF MatterResolves
  <2>1. WellDated(readings[k].agreement)
    BY StoredLedgers, MatterDates
  <2> QED
    BY <2>1 DEF ResolvesWhereDated
<1> QED
  BY <1>1, InvHolds, ResolvesWhereDatedHolds, PTL

=============================================================================
