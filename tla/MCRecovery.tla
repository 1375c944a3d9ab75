----------------------------- MODULE MCRecovery -----------------------------
(***************************************************************************)
(* A small instance of agents that restart.  Elections of their own, which *)
(* MCElections has, are left out here.                                     *)
(***************************************************************************)
EXTENDS Recovery, TLC

CONSTANT MaxLog  \* bound: entries of the log

BoundedLog == Len(log) <= MaxLog

NodeSymmetry == Permutations(Node)
=============================================================================
