---------------------------- MODULE MCCallWorker ----------------------------
(* Instances of CallWorker for TLC. *)
EXTENDS CallWorker, TLC

CONSTANTS p1, p2

BothPeers == {p1, p2}
Symmetry == Permutations(Peers)
=============================================================================
