------------------------------- MODULE Packets -------------------------------
(***************************************************************************)
(* hw4/Q2/Q2.c: senders put packets into a circular buffer and wait on a   *)
(* condition variable of their own, with a timeout, for the consumer's     *)
(* acknowledgement.  cb.lock guards the buffer, lock_conds[s] the wait of  *)
(* sender s.  A packet's random id plays no part in the control flow: here *)
(* it is the number of the sender's round, so that two packets differ.     *)
(* The 5 seconds of ACK_TIMEOUT may run out at any moment of a wait.       *)
(***************************************************************************)
EXTENDS Naturals, Sequences, FiniteSets

CONSTANTS
  Senders, Consumers,  \* the threads; NUM_SENDERS and NUM_CONSUMERS of them
  BUFFER_SIZE,
  MaxPackets,          \* bound: how many packets the senders make together
  Restless,            \* the senders whose waits may return unsignalled
  None                 \* no thread, no packet

ASSUME PacketsAssumption ==
  /\ IsFiniteSet(Senders)
  /\ Senders \intersect Consumers = {} /\ None \notin Senders \union Consumers
  /\ None \notin [pid : Senders, id : Nat]
  /\ BUFFER_SIZE \in Nat \ {0}
  /\ MaxPackets \in Nat
  /\ Restless \subseteq Senders

VARIABLES
  buffer, head, tail, count,  \* the fields of cb
  lock,                       \* owner of cb.lock
  lock_conds,                 \* lock_conds[s]: owner of that mutex
  spc, cpc,                   \* where each sender and each consumer stands
  round,                      \* round[s]: number of the packet s is busy with
  pkt,                        \* pkt[c]: the packet consumer c works on
  ack_received,               \* ack_received[s]: how s's last wait ended
  consumed, dropped,          \* history: packets dequeued in order, and dropped
  acked                       \* history: acked[s] counts s's waits that report an ACK

cb    == <<buffer, head, tail, count>>
hist  == <<consumed, dropped, acked>>
vars  == <<cb, lock, lock_conds, spc, cpc, round, pkt, ack_received, hist>>

Threads == Senders \union Consumers
Slots   == 0 .. BUFFER_SIZE - 1
Packet  == [pid : Senders, id : 1 .. MaxPackets]

SenderLabels ==
  {"uncreated", "ready", "deposit", "movetail", "countup", "unlockcb", "tolock", "towait",
   "waiting", "woken", "report"}
ConsumerLabels ==
  {"uncreated", "ready", "fetch", "movehead", "countdown", "unlockempty", "unlockcb",
   "tolock", "signal", "unlockcond"}

TypeOK ==
  /\ buffer \in [Slots -> Packet \union {None}]
  /\ head \in Slots /\ tail \in Slots /\ count \in 0 .. BUFFER_SIZE
  /\ lock \in Threads \union {None}
  /\ lock_conds \in [Senders -> Threads \union {None}]
  /\ spc \in [Senders -> SenderLabels]
  /\ cpc \in [Consumers -> ConsumerLabels]
  /\ round \in [Senders -> 0 .. MaxPackets]
  /\ pkt \in [Consumers -> Packet \union {None}]
  /\ ack_received \in [Senders -> {"none", "0", "ETIMEDOUT"}]
  /\ consumed \in Seq(Packet) /\ dropped \subseteq Packet
  /\ acked \in [Senders -> 0 .. MaxPackets]

Init ==
  /\ buffer = [i \in Slots |-> None] /\ head = 0 /\ tail = 0 /\ count = 0
  /\ lock = None /\ lock_conds = [s \in Senders |-> None]
  /\ spc = [s \in Senders |-> "uncreated"] /\ cpc = [c \in Consumers |-> "uncreated"]
  /\ round = [s \in Senders |-> 0] /\ pkt = [c \in Consumers |-> None]
  /\ ack_received = [s \in Senders |-> "none"]
  /\ consumed = <<>> /\ dropped = {} /\ acked = [s \in Senders |-> 0]

-----------------------------------------------------------------------------
(* Steps of a thread and the two kinds of mutex.                            *)
SenderGoes(s, from, to) ==
  spc[s] = from /\ spc' = [spc EXCEPT ![s] = to] /\ UNCHANGED cpc

ConsumerGoes(c, from, to) ==
  cpc[c] = from /\ cpc' = [cpc EXCEPT ![c] = to] /\ UNCHANGED spc

LockCb(t)        == lock = None /\ lock' = t /\ UNCHANGED lock_conds
UnlockCb         == lock' = None /\ UNCHANGED lock_conds
LockCond(s, t)   == /\ lock_conds[s] = None
                    /\ lock_conds' = [lock_conds EXCEPT ![s] = t]
                    /\ UNCHANGED lock
UnlockCond(s)    == lock_conds' = [lock_conds EXCEPT ![s] = None] /\ UNCHANGED lock
locks            == <<lock, lock_conds>>

-----------------------------------------------------------------------------
(* sender(): one round is a packet, an attempt to deposit it, and a wait.   *)

Sent(s) == [pid |-> s, id |-> round[s]]

(* The bound. *)
Made == {m \in Senders \X (1 .. MaxPackets) : m[2] <= round[m[1]]}

WithinBound == Cardinality(Made) < MaxPackets

SenderLock(s) ==
  /\ WithinBound
  /\ SenderGoes(s, "ready", "deposit")
  /\ LockCb(s)
  /\ round' = [round EXCEPT ![s] = @ + 1]
  /\ UNCHANGED <<cb, pkt, ack_received, hist>>

DropPacket(s) ==
  /\ SenderGoes(s, "deposit", "unlockcb")
  /\ count = BUFFER_SIZE
  /\ dropped' = dropped \union {Sent(s)}
  /\ UNCHANGED <<cb, locks, round, pkt, ack_received, consumed, acked>>

(* Mutant: stores into a full buffer.                                       *)
StorePacket_Unchecked(s) ==
  /\ SenderGoes(s, "deposit", "movetail")
  /\ buffer' = [buffer EXCEPT ![tail] = Sent(s)]
  /\ UNCHANGED <<head, tail, count, locks, round, pkt, ack_received, hist>>

StorePacket(s) ==
  /\ SenderGoes(s, "deposit", "movetail")
  /\ count # BUFFER_SIZE
  /\ buffer' = [buffer EXCEPT ![tail] = Sent(s)]
  /\ UNCHANGED <<head, tail, count, locks, round, pkt, ack_received, hist>>

MoveTail(s) ==
  /\ SenderGoes(s, "movetail", "countup")
  /\ tail' = (tail + 1) % BUFFER_SIZE
  /\ UNCHANGED <<buffer, head, count, locks, round, pkt, ack_received, hist>>

CountUp(s) ==
  /\ SenderGoes(s, "countup", "unlockcb")
  /\ count' = count + 1
  /\ UNCHANGED <<buffer, head, tail, locks, round, pkt, ack_received, hist>>

SenderUnlock(s) ==
  /\ SenderGoes(s, "unlockcb", "tolock")
  /\ UnlockCb
  /\ UNCHANGED <<cb, round, pkt, ack_received, hist>>

SenderLockCond(s) ==
  /\ SenderGoes(s, "tolock", "towait")
  /\ LockCond(s, s)
  /\ UNCHANGED <<cb, round, pkt, ack_received, hist>>

(* pthread_cond_timedwait: gives up the mutex and goes to sleep in one step, *)
BeginWait(s) ==
  /\ SenderGoes(s, "towait", "waiting")
  /\ UnlockCond(s)
  /\ UNCHANGED <<cb, round, pkt, ack_received, hist>>

(* is woken by a signal (SignalSender below), by the clock, or for no reason, *)
(* Mutant: the result ETIMEDOUT is not looked at.                           *)
Timeout_AsAck(s) ==
  /\ SenderGoes(s, "waiting", "woken")
  /\ ack_received' = [ack_received EXCEPT ![s] = "0"]
  /\ UNCHANGED <<cb, locks, round, pkt, hist>>

Timeout(s) ==
  /\ SenderGoes(s, "waiting", "woken")
  /\ ack_received' = [ack_received EXCEPT ![s] = "ETIMEDOUT"]
  /\ UNCHANGED <<cb, locks, round, pkt, hist>>

SpuriousWakeup(s) ==
  /\ s \in Restless
  /\ SenderGoes(s, "waiting", "woken")
  /\ ack_received' = [ack_received EXCEPT ![s] = "0"]
  /\ UNCHANGED <<cb, locks, round, pkt, hist>>

(* and returns when it owns the mutex again.                                 *)
EndWait(s) ==
  /\ SenderGoes(s, "woken", "report")
  /\ LockCond(s, s)
  /\ UNCHANGED <<cb, round, pkt, ack_received, hist>>

ReportAndUnlock(s) ==
  /\ SenderGoes(s, "report", "ready")
  /\ UnlockCond(s)
  /\ acked' = IF ack_received[s] = "ETIMEDOUT" THEN acked
                                               ELSE [acked EXCEPT ![s] = @ + 1]
  /\ UNCHANGED <<cb, round, pkt, ack_received, consumed, dropped>>

Wait(s) ==
  BeginWait(s) \/ Timeout(s) \/ SpuriousWakeup(s) \/ EndWait(s) \/ ReportAndUnlock(s)

sender(s) ==
  \/ SenderLock(s) \/ DropPacket(s) \/ StorePacket(s) \/ MoveTail(s)
  \/ CountUp(s) \/ SenderUnlock(s) \/ SenderLockCond(s) \/ Wait(s)

-----------------------------------------------------------------------------
(* consumer(): poll the buffer, take the oldest packet, acknowledge it.     *)

ConsumerLock(c) ==
  /\ ConsumerGoes(c, "ready", "fetch")
  /\ LockCb(c)
  /\ UNCHANGED <<cb, round, pkt, ack_received, hist>>

FindEmpty(c) ==
  /\ ConsumerGoes(c, "fetch", "unlockempty")
  /\ count = 0
  /\ UNCHANGED <<cb, locks, round, pkt, ack_received, hist>>

UnlockEmpty(c) ==
  /\ ConsumerGoes(c, "unlockempty", "ready")
  /\ UnlockCb
  /\ UNCHANGED <<cb, round, pkt, ack_received, hist>>

(* Mutant: takes the newest packet.                                         *)
FetchPacket_Newest(c) ==
  /\ ConsumerGoes(c, "fetch", "movehead")
  /\ count # 0
  /\ pkt' = [pkt EXCEPT ![c] = buffer[(head + count - 1) % BUFFER_SIZE]]
  /\ UNCHANGED <<cb, locks, round, ack_received, hist>>

FetchPacket(c) ==
  /\ ConsumerGoes(c, "fetch", "movehead")
  /\ count # 0
  /\ pkt' = [pkt EXCEPT ![c] = buffer[head]]
  /\ UNCHANGED <<cb, locks, round, ack_received, hist>>

MoveHead(c) ==
  /\ ConsumerGoes(c, "movehead", "countdown")
  /\ head' = (head + 1) % BUFFER_SIZE
  /\ consumed' = Append(consumed, pkt[c])
  /\ UNCHANGED <<buffer, tail, count, locks, round, pkt, ack_received, dropped, acked>>

(* Mutant: forgets to count down.                                           *)
CountDown_Not(c) ==
  /\ ConsumerGoes(c, "countdown", "unlockcb")
  /\ UNCHANGED <<cb, locks, round, pkt, ack_received, hist>>

CountDown(c) ==
  /\ ConsumerGoes(c, "countdown", "unlockcb")
  /\ count' = count - 1
  /\ UNCHANGED <<buffer, head, tail, locks, round, pkt, ack_received, hist>>

ConsumerUnlock(c) ==
  /\ ConsumerGoes(c, "unlockcb", "tolock")
  /\ UnlockCb
  /\ UNCHANGED <<cb, round, pkt, ack_received, hist>>

ConsumerLockCond(c) ==
  /\ ConsumerGoes(c, "tolock", "signal")
  /\ LockCond(pkt[c].pid, c)
  /\ UNCHANGED <<cb, round, pkt, ack_received, hist>>

(* pthread_cond_signal wakes the sender if it waits and is lost otherwise.   *)
SignalSender(c) ==
  /\ cpc[c] = "signal"
  /\ cpc' = [cpc EXCEPT ![c] = "unlockcond"]
  /\ IF spc[pkt[c].pid] = "waiting"
     THEN /\ spc' = [spc EXCEPT ![pkt[c].pid] = "woken"]
          /\ ack_received' = [ack_received EXCEPT ![pkt[c].pid] = "0"]
     ELSE UNCHANGED <<spc, ack_received>>
  /\ UNCHANGED <<cb, locks, round, pkt, hist>>

(* Mutant: keeps the sender's mutex.                                        *)
ConsumerUnlockCond_Forgets(c) ==
  /\ ConsumerGoes(c, "unlockcond", "ready")
  /\ UNCHANGED <<cb, locks, round, pkt, ack_received, hist>>

ConsumerUnlockCond(c) ==
  /\ ConsumerGoes(c, "unlockcond", "ready")
  /\ UnlockCond(pkt[c].pid)
  /\ UNCHANGED <<cb, round, pkt, ack_received, hist>>

consumer(c) ==
  \/ ConsumerLock(c) \/ FindEmpty(c) \/ UnlockEmpty(c) \/ FetchPacket(c)
  \/ MoveHead(c) \/ CountDown(c) \/ ConsumerUnlock(c) \/ ConsumerLockCond(c)
  \/ SignalSender(c) \/ ConsumerUnlockCond(c)

-----------------------------------------------------------------------------
(* main(): creates the senders, then the consumers, and joins them for ever. *)

CreateSender(s) ==
  /\ SenderGoes(s, "uncreated", "ready")
  /\ UNCHANGED <<cb, locks, round, pkt, ack_received, hist>>

CreateConsumer(c) ==
  /\ \A s \in Senders : spc[s] # "uncreated"
  /\ ConsumerGoes(c, "uncreated", "ready")
  /\ UNCHANGED <<cb, locks, round, pkt, ack_received, hist>>

Next ==
  \/ \E s \in Senders : CreateSender(s) \/ sender(s)
  \/ \E c \in Consumers : CreateConsumer(c) \/ consumer(c)

Spec == Init /\ [][Next]_vars

(* Each thread that can take a step for ever takes one.  No mutex is        *)
(* assumed to be handed out fairly.                                         *)
Fairness ==
  /\ \A s \in Senders : WF_vars(CreateSender(s)) /\ WF_vars(sender(s))
  /\ \A c \in Consumers : WF_vars(CreateConsumer(c)) /\ WF_vars(consumer(c))

FairSpec == Spec /\ Fairness

-----------------------------------------------------------------------------
(***************************************************************************)
(* Safety.                                                                 *)
(***************************************************************************)

(* No two threads are ever between the lock and the unlock of one mutex:    *)
(* not of cb.lock, and not of the mutex of one sender's wait, where a       *)
(* signal may never fall between the sender's lock and its sleep.           *)
InCb(t) ==
  IF t \in Senders THEN spc[t] \in {"deposit", "movetail", "countup", "unlockcb"}
                   ELSE cpc[t] \in {"fetch", "movehead", "countdown", "unlockempty", "unlockcb"}

InCond(s, t) ==
  IF t \in Senders THEN t = s /\ spc[t] \in {"towait", "report"}
                   ELSE cpc[t] \in {"signal", "unlockcond"} /\ pkt[t].pid = s

Exclusion ==
  \A t, u \in Threads :
    t # u => /\ ~(InCb(t) /\ InCb(u))
             /\ \A s \in Senders : ~(InCond(s, t) /\ InCond(s, u))

(* Whenever cb.lock is free, and so for whoever takes it next, the indices  *)
(* agree with the count and every slot from head up to tail holds a packet  *)
(* some sender stored and no consumer removed yet.  Inside the sections     *)
(* they do not: each index and the count are stored one after the other.    *)
RingConsistent ==
  lock = None =>
    /\ tail = (head + count) % BUFFER_SIZE
    /\ \A k \in 0 .. count - 1 : buffer[(head + k) % BUFFER_SIZE] # None

(* A sender cannot count more acknowledgements than consumers have taken    *)
(* packets of its own: one signal ends at most one wait, and a timeout none *)
(* as acknowledged.  (Of waits that only a signal or the clock can end.)    *)
AcksEarned ==
  \A s \in Senders \ Restless :
    acked[s] <= Cardinality({k \in DOMAIN consumed : consumed[k].pid = s})

(* The buffer, its lock and its indices implement a lossy bounded queue: a  *)
(* packet is in it from the store of count on, and out of it from that of   *)
(* head on, when count has still to follow.                                 *)
inQueue ==
  IF \E c \in Consumers : cpc[c] = "countdown" THEN count - 1 ELSE count

queueBar == [k \in 1 .. inQueue |-> buffer[(head + k - 1) % BUFFER_SIZE]]

madeBar ==
  [s \in Senders |->
     IF spc[s] \in {"deposit", "movetail", "countup"} THEN round[s] - 1 ELSE round[s]]

Queue == INSTANCE LossyQueue
  WITH Producers <- Senders, Capacity <- BUFFER_SIZE,
       made <- madeBar, queue <- queueBar, taken <- consumed, lost <- dropped

ImplementsQueue == Queue!QueueSpec

(* A sender that has gone to sleep is back at the top of its loop in the    *)
(* end, whatever the consumers do with its mutex meanwhile: only finitely   *)
(* many of its packets are still on their way to be acknowledged.           *)
WaitEnds ==
  \A s \in Senders : spc[s] = "waiting" ~> spc[s] = "ready"

(***************************************************************************)
(* What the text of the program says of the acknowledgement.               *)
(***************************************************************************)

(* Q2.c:69, "Sender 5received ACK for packet with id 312": the packet whose *)
(* ACK is reported has been taken from the buffer by a consumer.            *)
DocAckForThisPacket ==
  [][\A s \in Senders :
       ReportAndUnlock(s) /\ ack_received[s] = "0"
         => Sent(s) \in {consumed[k] : k \in DOMAIN consumed}]_vars

=============================================================================
