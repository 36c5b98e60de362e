CONSTANTS
  Root = r
  Nodes = {r, a, b, c}
  Branches = {x}
  Main = main
  NoParent = none
  Imports <- ImportedGraphs
SYMMETRY Symmetry
CONSTRAINT FewEdges
SPECIFICATION Spec
INVARIANT OneMainline
INVARIANT ClosedBranchIsEmpty
PROPERTY DeletionIsContained
PROPERTY ForestIsKept
PROPERTY WalksStayFinite
PROPERTY GrantsStayReadable
