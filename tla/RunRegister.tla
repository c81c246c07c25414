----------------------------- MODULE RunRegister -----------------------------
(* The record of the analysis runs of some documents as everybody else knows   *)
(* it: what a run is of, how it ended and what became of its findings.  The    *)
(* pipeline writes it in many small steps (DerivedEvidence), the agreement     *)
(* versions take it as it stands (AgreementLifecycle).                         *)
EXTENDS Naturals

CONSTANTS Document, MaxRuns

VARIABLES
  record,    \* document, status and finding of each run
  frozen     \* the documents an executed version rests on

Run == 1 .. MaxRuns
Entry == [doc : SUBSET Document, status : {"ABSENT", "RUNNING", "SUCCEEDED", "FAILED"},
          finding : {"none", "UNREVIEWED", "DISPOSED", "SUPERSEDED"}]
Seen(doc, status, finding) == [doc |-> doc, status |-> status, finding |-> finding]

Init == record = [r \in Run |-> Seen({}, "ABSENT", "none")] /\ frozen = {}

IsFrozen(r) == record[r].doc \cap frozen # {}

\* The runs are opened one after the other, each over one document.
Open(r) ==
  /\ record[r].status = "ABSENT" /\ \A s \in 1 .. r - 1 : record[s].status # "ABSENT"
  /\ \E d \in Document : record' = [record EXCEPT ![r] = Seen({d}, "RUNNING", "none")]
  /\ UNCHANGED frozen

Fail(r) ==
  /\ record[r].status = "RUNNING"
  /\ record' = [record EXCEPT ![r] = Seen(@.doc, "FAILED", @.finding)]
  /\ UNCHANGED frozen

\* What is unreviewed of the same document when a run publishes.
Overtaken(r) ==
  {s \in Run \ {r} : record[s].doc = record[r].doc /\ record[s].finding = "UNREVIEWED"}

\* A run ends with a finding or none and overtakes what nobody has disposed of;
\* over a frozen document it may do neither.
Publish(r) ==
  /\ record[r].status = "RUNNING"
  /\ \E finding \in {"none", "UNREVIEWED"} :
       /\ IsFrozen(r) => finding = "none" /\ Overtaken(r) = {}
       /\ record' = [s \in Run |->
            IF s = r THEN Seen(record[r].doc, "SUCCEEDED", finding)
            ELSE IF s \in Overtaken(r) THEN Seen(record[s].doc, record[s].status, "SUPERSEDED")
            ELSE record[s]]
  /\ UNCHANGED frozen

Dispose(r) ==
  /\ record[r].finding = "UNREVIEWED" /\ ~IsFrozen(r)
  /\ record' = [record EXCEPT ![r] = Seen(@.doc, @.status, "DISPOSED")]
  /\ UNCHANGED frozen

\* Versions come into force and go.
Refreeze == frozen' \in SUBSET Document /\ UNCHANGED record

Next ==
  \/ \E r \in Run : Open(r) \/ Fail(r) \/ Publish(r) \/ Dispose(r)
  \/ Refreeze

Spec == Init /\ [][Next]_<<record, frozen>>

\* The unreviewed findings of a document are those of one run, which ended well.
OneCurrent ==
  \A r \in Run : record[r].finding = "UNREVIEWED" =>
    /\ record[r].status = "SUCCEEDED"
    /\ \A s \in Run : (record[s].finding = "UNREVIEWED" /\ record[s].doc = record[r].doc) => r = s

=============================================================================
