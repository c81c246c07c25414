--------------------------- MODULE MCSourceIntake ---------------------------
(* Small instances of SourceIntake for TLC.                                    *)
EXTENDS SourceIntake, TLC

CONSTANTS f1, f2, v1, v2, t1, t2, b1, b2

OneFlow == {f1}
TwoFlows == {f1, f2}
OneRelease == f1 :> v1
TwoReleases == f1 :> v1 @@ f2 :> v2

AllSources == {"text", "image", "unsupported"}
JustText == {"text"}
JustImage == {"image"}
AllVerdicts == {"clean", "threat"}

=============================================================================
