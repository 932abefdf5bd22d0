----------------------------- MODULE MCPipeline -----------------------------
(* Model-checking instance of Pipeline: the products are model values, and  *)
(* any two of them are interchangeable.                                     *)
EXTENDS Pipeline, TLC

Symmetry == Permutations(Products)

=============================================================================
