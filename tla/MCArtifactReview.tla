-------------------------- MODULE MCArtifactReview --------------------------
(***************************************************************************)
(* Model checking of ArtifactReview: artifacts and requests are            *)
(* interchangeable.                                                        *)
(***************************************************************************)
EXTENDS ArtifactReview, TLC

Symmetry == Permutations(Artifacts) \cup Permutations(Requests)
=============================================================================
