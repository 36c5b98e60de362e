SPECIFICATION Spec
CONSTANTS
  Grants = {g1, g2}
  Writers = {g1}
  Keys = {k1}
  Proposals = {p1}
  Nodes = {n1}
  Requests = {r1, r2}
  None = None
  Nobody = Nobody
  MaxRev = 2
SYMMETRY Symmetry
INVARIANTS
  ReceiptTellsWrites
  OneWriterPerRevision
  VerdictTellsWrites
PROPERTIES
  NodeBumpedOnce
