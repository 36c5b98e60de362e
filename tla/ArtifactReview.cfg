SPECIFICATION Spec
CONSTANTS
  Artifacts = {a1, a2}
  Requests = {r1, r2, r3}
  NoArtifact = NoArtifact
  Nobody = Nobody
  MaxRev = 3
SYMMETRY Symmetry
INVARIANTS
  CanonMatchesStatus
