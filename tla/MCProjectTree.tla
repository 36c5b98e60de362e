--------------------------- MODULE MCProjectTree ---------------------------
(***************************************************************************)
(* Model checking of ProjectTree: nodes other than the root are            *)
(* interchangeable, and so are branches.                                   *)
(***************************************************************************)
EXTENDS ProjectTree, FiniteSets, Naturals, TLC

Others == Nodes \ {Root}

\* Project files with a cycle through the root and with a second parent.
ImportedGraphs ==
  {{<<Root, n>>, <<n, Root>>} : n \in Others}
    \cup {{<<Root, n>>, <<Root, m>>, <<m, n>>} : n, m \in Others}

\* Graphs with more child_of rows than this are checked but not extended: four
\* are enough for a diamond, a cycle below the root and a second parent.
MaxEdges == 4

FewEdges == Cardinality(child) + Cardinality(doubled) <= MaxEdges

Symmetry == Permutations(Others) \cup Permutations(Branches)
=============================================================================
