---------------------------- MODULE MCAgentPort ----------------------------
(***************************************************************************)
(* Model checking of AgentPort: keys, nodes and requests are               *)
(* interchangeable.                                                        *)
(***************************************************************************)
EXTENDS AgentPort, TLC

Symmetry == Permutations(Keys) \cup Permutations(Nodes) \cup Permutations(Requests)
=============================================================================
