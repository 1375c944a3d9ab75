---------------------------- MODULE MCElections ----------------------------
(* A small instance of the engine whose leadership moves; the log is bounded. *)
EXTENDS EngineProperties, TLC

CONSTANT MaxLog  \* bound: entries of the log

BoundedLog == Len(log) <= MaxLog
NodeSymmetry == Permutations(Node)
=============================================================================
