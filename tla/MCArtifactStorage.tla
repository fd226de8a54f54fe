--------------------------- MODULE MCArtifactStorage ---------------------------
(* Model values of ArtifactStorage: formats and worker slots are interchangeable. *)
EXTENDS ArtifactStorage, TLC

Symmetry == Permutations(Formats) \cup Permutations(Workers)
=============================================================================
