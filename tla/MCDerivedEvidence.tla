-------------------------- MODULE MCDerivedEvidence --------------------------
(* Small instances of DerivedEvidence, and with it of SourceIntake, for TLC.   *)
EXTENDS DerivedEvidence, TLC

CONSTANTS f1, f2, v1, v2, t1, t2, b1, b2, b3, b4

OneFlow == {f1}
OneRelease == f1 :> v1
TwoFlows == {f1, f2}
TwoReleases == f1 :> v1 @@ f2 :> v2
AllSources == {"text", "image", "unsupported"}
JustText == {"text"}
AllVerdicts == {"clean", "threat"}

\* Bounds of the safety run, kept apart to keep it small: an intake with every
\* kind of file, verdict and fault before anything is derived, ...
IntakeAlone ==
  (\A f \in Flow : stage[f] = "off") /\ (\A k \in Job : at[k].text # t2)

\* ... or two analyses of a text, extracted twice, without faults.
AnalysesTogether ==
  /\ doc.source = "text" /\ blob # "altered" /\ faults = 0
  /\ doc.security # "QUARANTINED"
  /\ \A k \in Job : at[k].step \notin {"threat", "retry"}
  /\ \A v \in Version : work[v].step # "retry"

Focus == IntakeAlone \/ AnalysesTogether

=============================================================================
