------------------------ MODULE MCCalibrationTrust ------------------------
(* The constants of CalibrationTrust for TLC: one package, whose second    *)
(* signature expires while it runs, one key and a reviewer in each role.   *)
EXTENDS CalibrationTrust, TLC

CONSTANTS p1, e1, e2, k1, tech, gov

Never == MaxTime + 1

MCRights == p1 :> [until |-> Never, final |-> TRUE]
MCRegistry == k1 :> [environments |-> {"validation", "production"},
                     until |-> Never]
MCSigned == [e \in Envelopes |->
    [package |-> p1, key |-> k1, until |-> IF e = e2 THEN MaxTime ELSE Never]]
MCRoleOf == (tech :> "technical_reviewer") @@ (gov :> "data_governance_reviewer")
MCMaxReviews == (tech :> 2) @@ (gov :> 1)

SessionSymmetry == Permutations(Sessions)
===========================================================================
