--------------------------- MODULE MCTermination ---------------------------
(***************************************************************************)
(* The instance of the liveness run: no symmetry, timers that may expire   *)
(* for ever, and one node named as the leader, which loses no generality   *)
(* because all nodes are alike.                                            *)
(***************************************************************************)
EXTENDS EngineProperties

CONSTANT FirstLeader

NoLimit == Unbounded

OneLeaderInit == Init /\ leader = FirstLeader
OneLeaderSpec == OneLeaderInit /\ [][Next]_vars /\ Fairness
=============================================================================
