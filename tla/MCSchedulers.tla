---------------------------- MODULE MCSchedulers ----------------------------
(***************************************************************************)
(* Model-checking instance of Simulators.                                  *)
(***************************************************************************)
EXTENDS Simulators

=============================================================================
