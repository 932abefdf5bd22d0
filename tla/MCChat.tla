------------------------------- MODULE MCChat -------------------------------
(* Model-checking instance of Chat: clients are interchangeable in a run    *)
(* that treats them alike (Interrupted and Killable empty or all).          *)
EXTENDS Chat, TLC

Symmetry == Permutations(Clients)

=============================================================================
