------------------------ MODULE MCArtifactLifecycle ------------------------
(***************************************************************************)
(* Instances of ArtifactLifecycle for TLC.  Processes and archives are     *)
(* interchangeable, so safety runs use their permutations as symmetry.     *)
(***************************************************************************)
EXTENDS ArtifactLifecycle, TLC

Symmetry == Permutations(Proc) \cup Permutations(Content)

OneVersion  == {1}
TwoVersions == {1, 2}

Serialized == {"lockError", "sqlError", "storageError", "crash"}
=============================================================================
