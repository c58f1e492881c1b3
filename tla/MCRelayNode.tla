---------------------------- MODULE MCRelayNode ----------------------------
(* Values for model checking RelayNode.                                    *)
EXTENDS RelayNodeInv, TLC

CONSTANTS c1, c2, w1, w2

TwoClients == {c1, c2}
OneClient == {c1}
OneWorker == {w1}
TwoWorkers == {w1, w2}

BothSides == {"client", "dest"}
ClientSide == {"client"}
NoSide == {}
AllOutcomes == {"connects", "badKey", "refused", "badAddress", "malformed"}
ReachableOnly == {"connects"}

ClientSymmetry == Permutations(TwoClients)
=============================================================================
