------------------------------- MODULE MCCpDir -------------------------------
(* Model-checking instance of CpDir alone: three levels, a file in each.    *)
EXTENDS TLC

CONSTANTS src, sub, deep, file1, file2, file3
VARIABLES main, i, at, made, content

C == INSTANCE CpDir WITH
       Dirs <- {src, sub, deep}, Files <- {file1, file2, file3}, Root <- src,
       Entries <- src :> <<file1, sub>> @@ sub :> <<deep, file2>> @@ deep :> <<file3>>

Spec == C!Spec

(* What the report of the program says of the directories, stated in CpDir. *)
DocStructureFirst == C!DocStructureFirst

=============================================================================
