------------------------------ MODULE ForkJoin ------------------------------
(***************************************************************************)
(* What the programs of hw2, hw4 and hw5 that start threads or processes   *)
(* promise: main() starts workers, which end by themselves, and it goes on *)
(* to use their results only when none of them is left.  A main() that     *)
(* gives up, because it cannot start a worker, leaves the workers to       *)
(* themselves.                                                             *)
(***************************************************************************)
EXTENDS FiniteSets

CONSTANT Workers

VARIABLES
  phase,   \* what main() does: "works", "joined" (uses the results), "left"
  round,   \* which set of workers it starts
  alive    \* the workers that have started and not ended

forkJoinVars == <<phase, round, alive>>

ForkJoinTypeOK == phase \in {"works", "joined", "left"} /\ alive \subseteq Workers

ForkJoinInit == phase = "works" /\ round = 0 /\ alive = {}

StartWorker(w) ==
  /\ phase = "works" /\ w \notin alive
  /\ alive' = alive \union {w}
  /\ UNCHANGED <<phase, round>>

EndWorker(w) ==
  /\ w \in alive
  /\ alive' = alive \ {w}
  /\ UNCHANGED <<phase, round>>

(* On to the next round of workers, or to the results. *)
Join ==
  /\ phase = "works" /\ alive = {}
  /\ phase' \in {"works", "joined"}
  /\ UNCHANGED alive

GiveUp ==
  /\ phase = "works"
  /\ phase' = "left"
  /\ UNCHANGED <<round, alive>>

ForkJoinNext == (\E w \in Workers : StartWorker(w) \/ EndWorker(w)) \/ Join \/ GiveUp

ForkJoinSpec == ForkJoinInit /\ [][ForkJoinNext]_forkJoinVars

=============================================================================
