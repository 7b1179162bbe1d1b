---------------------- MODULE MCUpstreamArtifactCache ----------------------
(***************************************************************************)
(* Instances of UpstreamArtifactCache for TLC: two replicas, of which the  *)
(* second runs one task, or a single one.                                  *)
(***************************************************************************)
EXTENDS UpstreamArtifactCache, TLC

CONSTANTS r1, r2, t2

OnTwoReplicas == [t \in Task |-> IF t = t2 THEN r2 ELSE r1]
OnOneReplica  == [t \in Task |-> r1]

Symmetry == Permutations(Content)
=============================================================================
