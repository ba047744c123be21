---------------------------- MODULE MCMissionRun ----------------------------
(* Instances of MissionRun for TLC. *)
EXTENDS MissionRun, TLC

CONSTANTS a, b, c, m1, m2

OneFeature == <<a>>
TwoFeatures == <<a, b>>
SameMilestone == [f \in Features |-> m1]
OwnMilestone == [f \in Features |-> IF f = a THEN m1 ELSE m2]

\* Worker sessions are interchangeable.
WorkerSymmetry == Permutations(Workers)
=============================================================================
