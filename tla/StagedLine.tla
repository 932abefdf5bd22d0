----------------------------- MODULE StagedLine -----------------------------
(***************************************************************************)
(* What the product pipeline of hw4/Q1 promises, without semaphores or     *)
(* locks: every item walks through places 1 .. Places in order, place k    *)
(* never holds more than Capacity[k] items, and an item is handed over     *)
(* from hand to hand: it enters the next place before it gives up the one  *)
(* it stands on, so that it is never between two places.                   *)
(***************************************************************************)
EXTENDS Naturals, FiniteSets

CONSTANTS
  Items,     \* the items on the line
  Places,    \* the number of places
  Capacity   \* Capacity[k] is the number of items place k may hold

VARIABLES
  at,        \* at[i]: the last place item i entered; 0 outside, Places + 1 shipped
  straddles  \* straddles[i]: i still occupies the place before at[i]

lineVars == <<at, straddles>>

LineTypeOK ==
  /\ at \in [Items -> 0 .. Places + 1]
  /\ straddles \in [Items -> BOOLEAN]

Occupants(k) == {i \in Items : at[i] = k \/ (straddles[i] /\ at[i] = k + 1)}

LineInit ==
  /\ at = [i \in Items |-> 0]
  /\ straddles = [i \in Items |-> FALSE]

Enter(i) ==
  /\ at[i] < Places
  /\ ~straddles[i]
  /\ Cardinality(Occupants(at[i] + 1)) < Capacity[at[i] + 1]
  /\ at' = [at EXCEPT ![i] = @ + 1]
  /\ straddles' = [straddles EXCEPT ![i] = at[i] > 0]

GiveUpPrevious(i) ==
  /\ straddles[i]
  /\ straddles' = [straddles EXCEPT ![i] = FALSE]
  /\ UNCHANGED at

Ship(i) ==
  /\ at[i] = Places
  /\ ~straddles[i]
  /\ at' = [at EXCEPT ![i] = Places + 1]
  /\ UNCHANGED straddles

LineNext == \E i \in Items : Enter(i) \/ GiveUpPrevious(i) \/ Ship(i)

LineSafety == LineInit /\ [][LineNext]_lineVars

LineSpec ==
  /\ LineSafety
  /\ \A i \in Items : WF_lineVars(Enter(i) \/ GiveUpPrevious(i) \/ Ship(i))

=============================================================================
