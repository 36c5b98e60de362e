SPECIFICATION CeremonySpec
CONSTANTS
  Documents = {a, b}
  MaxGeneration = 3
SYMMETRY Interchangeable
INVARIANT DatabaseFollowsAnchor
PROPERTY SignaturesAdvance
