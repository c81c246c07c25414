----------------------------- MODULE JobContract -----------------------------
(* What a job promises to whoever waits for it: it is queued, run and ended    *)
(* within a budget of attempts, a success is final, and a failed job starts    *)
(* over with its whole budget.  The stages of a pipeline (SourceIntake,        *)
(* DerivedEvidence) count on it, and the queue (JobLease) keeps it.            *)
EXTENDS Naturals

CONSTANTS Job, MaxAttempts

VARIABLE state     \* status and attempts of each job

Life == [status : {"ABSENT", "QUEUED", "RUNNING", "WAITING_EXTERNAL",
                   "SUCCEEDED", "FAILED"},
         attempts : Nat]
Seen(status, attempts) == [status |-> status, attempts |-> attempts]

Init == state = [j \in Job |-> Seen("ABSENT", 0)]

\* What may become of one job.

Enqueue(old, new) == old.status \in {"ABSENT", "FAILED"} /\ new = Seen("QUEUED", 0)

\* A queued job that is claimed and a running one that is taken over pay with an
\* attempt; a job that waited goes on for free.
Run(old, new) ==
  \/ /\ old.status \in {"QUEUED", "RUNNING"} /\ old.attempts < MaxAttempts
     /\ new = Seen("RUNNING", old.attempts + 1)
  \/ old.status = "WAITING_EXTERNAL" /\ new = Seen("RUNNING", old.attempts)

\* Only a job with budget left is queued again.
Retry(old, new) ==
  /\ old.status = "RUNNING" /\ old.attempts < MaxAttempts
  /\ new = Seen("QUEUED", old.attempts)

EndOrWait(old, new) ==
  /\ old.status = "RUNNING"
  /\ new.status \in {"WAITING_EXTERNAL", "SUCCEEDED", "FAILED"}
  /\ new = Seen(new.status, old.attempts)

Moves(old, new) ==
  Enqueue(old, new) \/ Run(old, new) \/ Retry(old, new) \/ EndOrWait(old, new)

\* A transaction may move several jobs: an extraction ends and hands over to OCR.
Next ==
  /\ state' \in [Job -> Life]
  /\ \A j \in Job : state'[j] = state[j] \/ Moves(state[j], state'[j])

Spec == Init /\ [][Next]_state

=============================================================================
