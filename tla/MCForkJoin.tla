----------------------------- MODULE MCForkJoin -----------------------------
(***************************************************************************)
(* Model-checking instance of Programs.  The tree for CpDir has three      *)
(* levels, with a file in each.                                            *)
(***************************************************************************)
EXTENDS Programs, TLC

CONSTANTS src, sub, deep, file1, file2, file3

MCEntries == src :> <<file1, sub>> @@ sub :> <<deep, file2>> @@ deep :> <<file3>>

=============================================================================
