----------------------------- MODULE LossyQueue -----------------------------
(***************************************************************************)
(* What the circular buffer of hw4/Q2 promises: a bounded first-in         *)
(* first-out queue that loses a packet only when it is full, loses none it *)
(* has accepted and hands each one out once.                               *)
(***************************************************************************)
EXTENDS Naturals, Sequences

CONSTANTS
  Producers,  \* the senders
  Capacity    \* how many packets the queue holds

VARIABLES
  made,   \* made[s]: how many packets s has offered
  queue,  \* the packets accepted and not yet taken
  taken,  \* the packets taken, in order
  lost    \* the packets refused

queueVars == <<made, queue, taken, lost>>

Offered(s) == [pid |-> s, id |-> made[s] + 1]

QueueInit ==
  /\ made = [s \in Producers |-> 0]
  /\ queue = <<>> /\ taken = <<>> /\ lost = {}

Accept(s) ==
  /\ Len(queue) < Capacity
  /\ queue' = Append(queue, Offered(s))
  /\ made' = [made EXCEPT ![s] = @ + 1]
  /\ UNCHANGED <<taken, lost>>

Refuse(s) ==
  /\ Len(queue) = Capacity
  /\ lost' = lost \union {Offered(s)}
  /\ made' = [made EXCEPT ![s] = @ + 1]
  /\ UNCHANGED <<queue, taken>>

Take ==
  /\ queue # <<>>
  /\ taken' = Append(taken, Head(queue))
  /\ queue' = Tail(queue)
  /\ UNCHANGED <<made, lost>>

QueueNext == Take \/ \E s \in Producers : Accept(s) \/ Refuse(s)

QueueSpec == QueueInit /\ [][QueueNext]_queueVars

=============================================================================
