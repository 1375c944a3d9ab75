------------------------------ MODULE MCEngine ------------------------------
(***************************************************************************)
(* Small instances of the engine for TLC's safety runs.  Until one of them *)
(* leads all nodes are alike, so their permutations are symmetries.        *)
(***************************************************************************)
EXTENDS Reign, TLC

NodeSymmetry == Permutations(Node)
=============================================================================
