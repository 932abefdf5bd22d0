------------------------------ MODULE MCAgents ------------------------------
(* Model-checking instance of Agents: the agents are interchangeable, since *)
(* Init gives each of them every start and path.                            *)
EXTENDS Agents, TLC

Symmetry == Permutations(Agents)

=============================================================================
