--------------------------- MODULE MCAccessConfig ---------------------------
(***************************************************************************)
(* Instances of AccessConfig for TLC.                                      *)
(***************************************************************************)
EXTENDS AccessConfig, TLC

Symmetry == Permutations(Token) \cup Permutations(Replica) \cup Permutations(Process)
=============================================================================
