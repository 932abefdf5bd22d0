---------------------------- MODULE PacketsProofs ----------------------------
(***************************************************************************)
(* Proofs about the packet buffer of hw4/Q2, for any number of senders and *)
(* consumers, any BUFFER_SIZE and any number of packets: its locks exclude, *)
(* the ring is consistent whenever anybody can look, acknowledgements are  *)
(* earned by packets taken, and the buffer implements the lossy queue.     *)
(***************************************************************************)
EXTENDS Packets, FiniteSetTheorems, TLAPS

(***************************************************************************)
(* Indices that wrap.                                                      *)
(***************************************************************************)
(* x % B for an index not yet wrapped, and for one wrapped once.            *)
LEMMA ModSmall ==
  ASSUME NEW B \in Nat \ {0}, NEW x \in 0 .. B - 1 PROVE x % B = x
  BY SMT

LEMMA ModLarge ==
  ASSUME NEW B \in Nat \ {0}, NEW x \in B .. 2 * B - 1 PROVE x % B = x - B
  BY SMT

(* The slot k places behind slot h of the ring. *)
Wrap(h, k) == IF h + k < BUFFER_SIZE THEN h + k ELSE h + k - BUFFER_SIZE

LEMMA ModIsWrap ==
  ASSUME BUFFER_SIZE \in Nat \ {0}, NEW h \in Slots, NEW k \in 0 .. BUFFER_SIZE
  PROVE  (h + k) % BUFFER_SIZE = Wrap(h, k) /\ Wrap(h, k) \in Slots
<1>1. CASE h + k < BUFFER_SIZE
  BY <1>1, ModSmall DEF Wrap, Slots
<1>2. CASE h + k >= BUFFER_SIZE
  BY <1>2, ModLarge DEF Wrap, Slots
<1> QED BY <1>1, <1>2 DEF Slots

(* One step on, at either end of the packets. *)
LEMMA WrapOneMore ==
  ASSUME BUFFER_SIZE \in Nat \ {0}, NEW h \in Slots, NEW k \in 0 .. BUFFER_SIZE - 1
  PROVE  /\ Wrap(Wrap(h, k), 1) = Wrap(h, k + 1)
         /\ Wrap(Wrap(h, 1), k) = Wrap(h, k + 1)
  BY DEF Wrap, Slots

LEMMA NextSlot ==
  ASSUME BUFFER_SIZE \in Nat \ {0}, NEW h \in Slots
  PROVE  (h + 1) % BUFFER_SIZE = Wrap(h, 1) /\ Wrap(h, 1) \in Slots
  BY ModIsWrap

-----------------------------------------------------------------------------
(***************************************************************************)
(* The inductive invariant.                                                *)
(***************************************************************************)
Stored == [pid : Senders, id : Nat]

(* The part of TypeOK the proofs need (the ids are not bounded).            *)
Typed ==
  /\ buffer \in [Slots -> Stored \union {None}]
  /\ head \in Slots /\ tail \in Slots /\ count \in 0 .. BUFFER_SIZE
  /\ lock \in Threads \union {None}
  /\ lock_conds \in [Senders -> Threads \union {None}]
  /\ spc \in [Senders -> SenderLabels]
  /\ cpc \in [Consumers -> ConsumerLabels]
  /\ round \in [Senders -> Nat]
  /\ pkt \in [Consumers -> Stored \union {None}]

(* A mutex is owned by the thread between its lock and its unlock. *)
LockInv == \A t \in Threads : InCb(t) <=> lock = t
CondInv == \A s \in Senders, t \in Threads : InCond(s, t) <=> lock_conds[s] = t

(* What a thread has found out about the ring stays true in its section.    *)
SectionInv ==
  /\ \A s \in Senders :
       /\ spc[s] = "movetail" => count < BUFFER_SIZE /\ buffer[tail] = Sent(s)
       /\ spc[s] = "countup" => count < BUFFER_SIZE /\ buffer[Wrap(head, count)] = Sent(s)
  /\ \A c \in Consumers :
       /\ cpc[c] = "movehead" => count > 0 /\ pkt[c] = buffer[head]
       /\ cpc[c] = "countdown" => count > 0
       /\ cpc[c] \in {"movehead", "countdown", "unlockcb", "tolock", "signal", "unlockcond"}
            => pkt[c] \in Stored

(* Between the store of an index and that of the count the two differ by    *)
(* one: the slots in use are inQueue many from head on, and the tail is     *)
(* behind them, or one further while a sender has still to count up.        *)
CountingUp == \E s \in Senders : spc[s] = "countup"

RingInv ==
  /\ tail = Wrap(head, IF CountingUp THEN inQueue + 1 ELSE inQueue)
  /\ \A k \in 0 .. inQueue - 1 : buffer[Wrap(head, k)] # None

PacketsInv == Typed /\ LockInv /\ CondInv /\ SectionInv /\ RingInv

USE PacketsAssumption

LEMMA InitInv == Init => PacketsInv
  BY DEF Init, PacketsInv, Typed, LockInv, CondInv, SectionInv, RingInv, CountingUp, inQueue, Wrap,
         InCb, InCond, Threads, Slots, SenderLabels, ConsumerLabels

LEMMA InvStutters ==
  PacketsInv /\ UNCHANGED vars => PacketsInv'
  BY DEF vars, cb, hist, PacketsInv, Typed, LockInv, CondInv, SectionInv, RingInv, CountingUp,
         inQueue, Wrap, InCb, InCond, Sent

(* The steps at cb.lock that leave the ring alone. *)
SenderElsewhere(s) ==
  CreateSender(s) \/ SenderLock(s) \/ DropPacket(s) \/ SenderUnlock(s) \/ SenderLockCond(s) \/ Wait(s)

ConsumerElsewhere(c) ==
  CreateConsumer(c) \/ ConsumerLock(c) \/ FindEmpty(c) \/ UnlockEmpty(c) \/ ConsumerUnlock(c)
    \/ ConsumerLockCond(c) \/ SignalSender(c) \/ ConsumerUnlockCond(c)

LEMMA SenderElsewhereStep ==
  ASSUME PacketsInv, NEW s \in Senders, SenderElsewhere(s)
  PROVE  PacketsInv'
<1> USE DEF SenderElsewhere, CreateSender, SenderLock, DropPacket, SenderUnlock, SenderLockCond,
            Wait, BeginWait, Timeout, SpuriousWakeup, EndWait, ReportAndUnlock,
            SenderGoes, LockCb, UnlockCb, LockCond, UnlockCond, locks, cb, hist, PacketsInv
<1>1. Typed'
  BY DEF Typed, SenderLabels, Threads
<1>2. LockInv'
  BY DEF Typed, LockInv, InCb, Threads
<1>3. CondInv'
  BY DEF Typed, CondInv, InCond, Threads
<1>4. SectionInv'
  BY DEF Typed, SectionInv, Sent, Wrap
<1>5. RingInv'
  BY DEF Typed, RingInv, CountingUp, inQueue, Wrap
<1> QED BY <1>1, <1>2, <1>3, <1>4, <1>5

LEMMA ConsumerElsewhereStep ==
  ASSUME PacketsInv, NEW c \in Consumers, ConsumerElsewhere(c)
  PROVE  PacketsInv'
<1> USE DEF ConsumerElsewhere, CreateConsumer, ConsumerLock, FindEmpty, UnlockEmpty, ConsumerUnlock,
            ConsumerLockCond, SignalSender, ConsumerUnlockCond,
            ConsumerGoes, LockCb, UnlockCb, LockCond, UnlockCond, locks, cb, hist, PacketsInv
<1>1. Typed'
  BY DEF Typed, SenderLabels, ConsumerLabels, Threads, SectionInv, Stored
<1>2. LockInv'
  BY DEF Typed, LockInv, InCb, Threads
<1>3. CondInv'
  BY DEF Typed, CondInv, InCond, Threads, SectionInv, Stored
<1>4. SectionInv'
  BY DEF Typed, SectionInv, Sent, Wrap
<1>5. RingInv'
  BY DEF Typed, RingInv, CountingUp, inQueue, Wrap
<1> QED BY <1>1, <1>2, <1>3, <1>4, <1>5

(* Who is in a section of cb.lock is there alone. *)
LEMMA AloneInCb ==
  ASSUME LockInv, NEW t \in Threads, NEW u \in Threads, InCb(t), InCb(u)
  PROVE  t = u
  BY DEF LockInv

LEMMA SenderAlone ==
  ASSUME LockInv, NEW s \in Senders,
         spc[s] \in {"deposit", "movetail", "countup", "unlockcb"}
  PROVE  /\ \A r \in Senders : spc[r] \in {"deposit", "movetail", "countup", "unlockcb"} => r = s
         /\ \A c \in Consumers : cpc[c] \notin {"fetch", "movehead", "countdown", "unlockcb"}
         /\ inQueue = count
         /\ CountingUp <=> spc[s] = "countup"
  BY AloneInCb DEF InCb, Threads, inQueue, CountingUp

LEMMA ConsumerAlone ==
  ASSUME LockInv, NEW c \in Consumers, cpc[c] \in {"fetch", "movehead", "countdown", "unlockcb"}
  PROVE  /\ \A d \in Consumers : cpc[d] \in {"fetch", "movehead", "countdown", "unlockcb"} => d = c
         /\ \A s \in Senders : spc[s] \notin {"deposit", "movetail", "countup", "unlockcb"}
         /\ inQueue = IF cpc[c] = "countdown" THEN count - 1 ELSE count
         /\ ~CountingUp
  BY AloneInCb DEF InCb, Threads, inQueue, CountingUp

(* A packet stored at the tail is in no slot that counts yet, nor at the head. *)
LEMMA TailIsFree ==
  ASSUME Typed, tail = Wrap(head, count), count < BUFFER_SIZE, NEW k \in 0 .. count - 1
  PROVE  Wrap(head, k) # tail
  BY DEF Typed, Wrap, Slots

LEMMA StorePacketStep ==
  ASSUME PacketsInv, NEW s \in Senders, StorePacket(s)
  PROVE  PacketsInv'
<1> USE DEF StorePacket, SenderGoes, locks, hist, PacketsInv
<1>0. count < BUFFER_SIZE /\ Sent(s) \in Stored /\ Sent(s) # None
  BY DEF Typed, Sent, Stored
<1>00. /\ inQueue = count /\ inQueue' = count /\ ~CountingUp /\ ~CountingUp'
       /\ tail = Wrap(head, count)
  <2>1. inQueue = count /\ ~CountingUp
    BY SenderAlone
  <2>2. inQueue' = inQueue
    BY DEF inQueue
  <2>3. ~CountingUp'
    BY <2>1 DEF CountingUp, Typed
  <2> QED BY <2>1, <2>2, <2>3 DEF RingInv
<1>1. Typed'
  BY <1>0 DEF Typed, SenderLabels
<1>2. LockInv'
  BY DEF Typed, LockInv, InCb, Threads
<1>3. CondInv'
  BY DEF Typed, CondInv, InCond, Threads
<1>4. SectionInv'
  <2>1. ASSUME NEW r \in Senders
        PROVE  /\ spc'[r] = "movetail" => r = s
               /\ spc'[r] # "countup"
    BY SenderAlone DEF Typed
  <2>2. count' < BUFFER_SIZE /\ buffer'[tail'] = Sent(s)'
    BY <1>0 DEF Typed, Sent
  <2>3. ASSUME NEW c \in Consumers
        PROVE  cpc[c] # "movehead" /\ cpc[c] # "countdown"
    BY SenderAlone
  <2> QED BY <2>1, <2>2, <2>3 DEF SectionInv
<1>5. RingInv'
  <2>1. ASSUME NEW k \in 0 .. count - 1
        PROVE  Wrap(head, k) # tail /\ buffer'[Wrap(head, k)] = buffer[Wrap(head, k)]
    BY <1>0, <1>00, TailIsFree DEF Typed
  <2> QED BY <1>00, <2>1 DEF RingInv, Wrap
<1> QED BY <1>1, <1>2, <1>3, <1>4, <1>5

LEMMA MoveTailStep ==
  ASSUME PacketsInv, NEW s \in Senders, MoveTail(s)
  PROVE  PacketsInv'
<1> USE DEF MoveTail, SenderGoes, locks, hist, PacketsInv
<1>0. /\ count < BUFFER_SIZE /\ buffer[tail] = Sent(s) /\ inQueue = count /\ inQueue' = count
      /\ tail = Wrap(head, count) /\ CountingUp'
  <2>1. inQueue = count /\ ~CountingUp
    BY SenderAlone
  <2>2. inQueue' = inQueue
    BY DEF inQueue
  <2>3. CountingUp'
    BY DEF CountingUp, Typed
  <2> QED BY <2>1, <2>2, <2>3 DEF SectionInv, RingInv
<1>00. tail' = Wrap(head, count + 1) /\ tail' \in Slots
  BY <1>0, NextSlot, WrapOneMore DEF Typed
<1>1. Typed'
  BY <1>00 DEF Typed, SenderLabels
<1>2. LockInv'
  BY DEF Typed, LockInv, InCb, Threads
<1>3. CondInv'
  BY DEF Typed, CondInv, InCond, Threads
<1>4. SectionInv'
  <2>1. ASSUME NEW r \in Senders
        PROVE  /\ spc'[r] # "movetail"
               /\ spc'[r] = "countup" => r = s
    BY SenderAlone DEF Typed
  <2>2. count' < BUFFER_SIZE /\ buffer'[Wrap(head, count)'] = Sent(s)'
    BY <1>0 DEF Sent, Wrap
  <2> QED BY <2>1, <2>2 DEF SectionInv
<1>5. RingInv'
  BY <1>0, <1>00 DEF RingInv, Wrap
<1> QED BY <1>1, <1>2, <1>3, <1>4, <1>5

LEMMA CountUpStep ==
  ASSUME PacketsInv, NEW s \in Senders, CountUp(s)
  PROVE  PacketsInv'
<1> USE DEF CountUp, SenderGoes, locks, hist, PacketsInv
<1>0. /\ count < BUFFER_SIZE /\ buffer[Wrap(head, count)] = Sent(s) /\ Sent(s) # None
      /\ inQueue = count /\ tail = Wrap(head, count + 1)
  <2>1. inQueue = count /\ CountingUp
    BY SenderAlone
  <2> QED BY <2>1 DEF Typed, SectionInv, RingInv, Sent, Stored
<1>00. inQueue' = count + 1 /\ ~CountingUp'
  <2>1. \A c \in Consumers : cpc'[c] # "countdown"
    BY SenderAlone
  <2>2. \A r \in Senders : spc'[r] # "countup"
    BY SenderAlone DEF Typed
  <2> QED BY <2>1, <2>2 DEF inQueue, CountingUp
<1>1. Typed'
  BY <1>0 DEF Typed, SenderLabels
<1>2. LockInv'
  BY DEF Typed, LockInv, InCb, Threads
<1>3. CondInv'
  BY DEF Typed, CondInv, InCond, Threads
<1>4. SectionInv'
  <2>1. ASSUME NEW r \in Senders PROVE spc'[r] # "movetail" /\ spc'[r] # "countup"
    BY SenderAlone DEF Typed
  <2>2. ASSUME NEW c \in Consumers PROVE cpc[c] # "movehead" /\ cpc[c] # "countdown"
    BY SenderAlone
  <2> QED BY <2>1, <2>2 DEF SectionInv
<1>5. RingInv'
  <2>1. ASSUME NEW k \in 0 .. count PROVE buffer[Wrap(head, k)] # None
    BY <1>0 DEF RingInv, Typed
  <2> QED BY <1>0, <1>00, <2>1 DEF RingInv, Wrap, Typed
<1> QED BY <1>1, <1>2, <1>3, <1>4, <1>5

LEMMA FetchPacketStep ==
  ASSUME PacketsInv, NEW c \in Consumers, FetchPacket(c)
  PROVE  PacketsInv'
<1> USE DEF FetchPacket, ConsumerGoes, locks, hist, cb, PacketsInv
<1>0. count > 0 /\ buffer[head] \in Stored
  <2>1. Wrap(head, 0) = head /\ count > 0 /\ 0 \in 0 .. count - 1
    BY DEF Typed, Wrap, Slots
  <2>2. inQueue = count
    BY ConsumerAlone
  <2> QED BY <2>1, <2>2 DEF Typed, RingInv
<1>00. inQueue' = inQueue /\ (CountingUp' <=> CountingUp)
  BY DEF Typed, inQueue, CountingUp
<1>1. Typed'
  BY <1>0 DEF Typed, ConsumerLabels
<1>2. LockInv'
  BY DEF Typed, LockInv, InCb, Threads
<1>3. CondInv'
  BY DEF Typed, CondInv, InCond, Threads
<1>4. SectionInv'
  BY <1>0 DEF Typed, SectionInv, Sent, Wrap
<1>5. RingInv'
  BY <1>00 DEF RingInv, Wrap
<1> QED BY <1>1, <1>2, <1>3, <1>4, <1>5

LEMMA MoveHeadStep ==
  ASSUME PacketsInv, NEW c \in Consumers, MoveHead(c)
  PROVE  PacketsInv'
<1> USE DEF MoveHead, ConsumerGoes, locks, PacketsInv
<1>0. /\ count > 0 /\ pkt[c] \in Stored /\ inQueue = count /\ inQueue' = count - 1
      /\ tail = Wrap(head, count) /\ ~CountingUp'
  <2>1. inQueue = count /\ ~CountingUp
    BY ConsumerAlone
  <2>2. inQueue' = count - 1 /\ ~CountingUp'
    BY <2>1 DEF inQueue, CountingUp, Typed
  <2> QED BY <2>1, <2>2 DEF SectionInv, RingInv
<1>00. head' = Wrap(head, 1) /\ head' \in Slots
  BY NextSlot DEF Typed
<1>1. Typed'
  BY <1>00 DEF Typed, ConsumerLabels
<1>2. LockInv'
  BY DEF Typed, LockInv, InCb, Threads
<1>3. CondInv'
  BY DEF Typed, CondInv, InCond, Threads
<1>4. SectionInv'
  <2>1. ASSUME NEW s \in Senders PROVE spc'[s] # "movetail" /\ spc'[s] # "countup"
    BY ConsumerAlone
  <2>2. ASSUME NEW d \in Consumers
        PROVE  cpc'[d] # "movehead" /\ (cpc'[d] = "countdown" => d = c)
    BY ConsumerAlone DEF Typed
  <2> QED BY <2>1, <2>2, <1>0 DEF SectionInv, Typed
<1>5. RingInv'
  <2>1. ASSUME NEW k \in 0 .. count - 1
        PROVE  Wrap(Wrap(head, 1), k) = Wrap(head, k + 1)
    BY WrapOneMore DEF Typed
  <2>2. count - 1 \in 0 .. count - 1
    BY <1>0 DEF Typed
  <2>3. tail' = Wrap(head', inQueue')
    BY <1>0, <1>00, <2>1, <2>2 DEF Typed
  <2>4. ASSUME NEW k \in 0 .. inQueue' - 1 PROVE buffer'[Wrap(head', k)] # None
    <3>1. k \in 0 .. count - 1 /\ k + 1 \in 0 .. count - 1
      BY <1>0, <2>2 DEF Typed
    <3> QED BY <1>0, <1>00, <2>1, <3>1 DEF RingInv
  <2> QED BY <1>0, <2>3, <2>4 DEF RingInv, Wrap
<1> QED BY <1>1, <1>2, <1>3, <1>4, <1>5

LEMMA CountDownStep ==
  ASSUME PacketsInv, NEW c \in Consumers, CountDown(c)
  PROVE  PacketsInv' /\ inQueue' = inQueue
<1> USE DEF CountDown, ConsumerGoes, locks, hist, PacketsInv
<1>0. count > 0 /\ inQueue = count - 1 /\ ~CountingUp
  BY ConsumerAlone DEF SectionInv
<1>00. inQueue' = count - 1 /\ ~CountingUp'
  <2>1. \A d \in Consumers : cpc'[d] # "countdown"
    BY ConsumerAlone DEF Typed
  <2> QED BY <1>0, <2>1 DEF inQueue, CountingUp
<1>1. Typed'
  BY <1>0 DEF Typed, ConsumerLabels
<1>2. LockInv'
  BY DEF Typed, LockInv, InCb, Threads
<1>3. CondInv'
  BY DEF Typed, CondInv, InCond, Threads
<1>4. SectionInv'
  <2>1. ASSUME NEW s \in Senders PROVE spc'[s] # "movetail" /\ spc'[s] # "countup"
    BY ConsumerAlone
  <2>2. ASSUME NEW d \in Consumers PROVE cpc'[d] # "movehead" /\ cpc'[d] # "countdown"
    BY ConsumerAlone DEF Typed
  <2> QED BY <2>1, <2>2 DEF SectionInv, Typed
<1>5. RingInv'
  BY <1>0, <1>00 DEF RingInv, Wrap
<1> QED BY <1>0, <1>00, <1>1, <1>2, <1>3, <1>4, <1>5

-----------------------------------------------------------------------------
(* The steps, by what they do with the ring. *)
SenderStep(s) == SenderElsewhere(s) \/ StorePacket(s) \/ MoveTail(s) \/ CountUp(s)
ConsumerStep(c) == ConsumerElsewhere(c) \/ FetchPacket(c) \/ MoveHead(c) \/ CountDown(c)

LEMMA NextCases ==
  ASSUME Next
  PROVE  (\E s \in Senders : SenderStep(s)) \/ (\E c \in Consumers : ConsumerStep(c))
  BY DEF Next, sender, consumer, SenderElsewhere, ConsumerElsewhere, SenderStep, ConsumerStep

(* Types, the owners of both kinds of mutex, what the threads inside cb.lock *)
(* rely on, and the ring itself are an inductive invariant.                  *)
THEOREM PacketsInvariant == Spec => []PacketsInv
<1>1. PacketsInv /\ [Next]_vars => PacketsInv'
  BY InvStutters, NextCases, SenderElsewhereStep, ConsumerElsewhereStep, StorePacketStep,
     MoveTailStep, CountUpStep, FetchPacketStep, MoveHeadStep, CountDownStep
     DEF SenderStep, ConsumerStep
<1> QED BY <1>1, InitInv, PTL DEF Spec

(* No two threads are between the lock and the unlock of one mutex, be it   *)
(* cb.lock (lines 72-89, 127-150) or that of a sender's wait.               *)
THEOREM PacketsExclude == Spec => []Exclusion
<1>1. PacketsInv => Exclusion
  BY DEF PacketsInv, LockInv, CondInv, Exclusion
<1> QED BY <1>1, PacketsInvariant, PTL

(* Whenever cb.lock is free, whatever the threads did between locking and   *)
(* unlocking it (lines 72-89, 127-150), head, tail and count agree, and     *)
(* every slot that counts holds a packet.                                   *)
THEOREM PacketsRingConsistent == Spec => []RingConsistent
<1>1. PacketsInv => RingConsistent
  <2> SUFFICES ASSUME PacketsInv, lock = None
               PROVE  /\ tail = (head + count) % BUFFER_SIZE
                      /\ \A k \in 0 .. count - 1 : buffer[(head + k) % BUFFER_SIZE] # None
    BY DEF RingConsistent
  <2>1. \A t \in Threads : ~InCb(t)
    BY DEF PacketsInv, LockInv, Threads
  <2>2. inQueue = count /\ ~CountingUp
    BY <2>1 DEF inQueue, CountingUp, InCb, Threads
  <2>3. tail = (head + count) % BUFFER_SIZE
    BY <2>2, ModIsWrap DEF PacketsInv, Typed, RingInv
  <2>4. ASSUME NEW k \in 0 .. count - 1 PROVE buffer[(head + k) % BUFFER_SIZE] # None
    BY <2>2, ModIsWrap DEF PacketsInv, Typed, RingInv
  <2> QED BY <2>3, <2>4
<1> QED BY <1>1, PacketsInvariant, PTL

-----------------------------------------------------------------------------
(***************************************************************************)
(* Acknowledgements.  A packet a consumer has taken is worth one signal.    *)
(* The consumer owes it until it has signalled, and the signal, if it       *)
(* finds the sender asleep, is pending until the sender reports it.         *)
(***************************************************************************)
Owes == {"countdown", "unlockcb", "tolock", "signal"}

TakenOf(q, s)      == {k \in DOMAIN q : q[k].pid = s}
OwingTo(pc, p, s)  == {c \in Consumers : pc[c] \in Owes /\ p[c].pid = s}
PendingAt(pc, a, s) == IF pc[s] \in {"woken", "report"} /\ a[s] # "ETIMEDOUT" THEN 1 ELSE 0

HistTyped ==
  /\ consumed \in Seq(Stored)
  /\ acked \in [Senders -> Nat]
  /\ ack_received \in [Senders -> {"none", "0", "ETIMEDOUT"}]

AcksInv ==
  /\ HistTyped
  /\ \A s \in Senders \ Restless :
       /\ IsFiniteSet(OwingTo(cpc, pkt, s))
       /\ acked[s] + PendingAt(spc, ack_received, s) + Cardinality(OwingTo(cpc, pkt, s))
            <= Cardinality(TakenOf(consumed, s))

(* One element more, and one less. *)
LEMMA OneMore ==
  ASSUME NEW S, IsFiniteSet(S), NEW x, x \notin S, NEW T, T = S \union {x}
  PROVE  IsFiniteSet(T) /\ Cardinality(T) = Cardinality(S) + 1
  BY FS_AddElement

LEMMA OneLess ==
  ASSUME NEW S, IsFiniteSet(S), NEW x \in S, NEW T, T = S \ {x}
  PROVE  IsFiniteSet(T) /\ Cardinality(T) = Cardinality(S) - 1
  BY FS_RemoveElement

LEMMA TakenFinite ==
  ASSUME NEW q \in Seq(Stored), NEW s
  PROVE  IsFiniteSet(TakenOf(q, s)) /\ Cardinality(TakenOf(q, s)) \in Nat
<1>1. IsFiniteSet(1 .. Len(q))
  BY FS_Interval
<1>2. TakenOf(q, s) \subseteq 1 .. Len(q)
  BY DEF TakenOf
<1> QED BY <1>1, <1>2, FS_Subset, FS_CardinalityType

(* One packet more. *)
LEMMA TakenMore ==
  ASSUME NEW q \in Seq(Stored), NEW e \in Stored, NEW s
  PROVE  Cardinality(TakenOf(Append(q, e), s))
           = Cardinality(TakenOf(q, s)) + (IF e.pid = s THEN 1 ELSE 0)
<1>1. /\ DOMAIN Append(q, e) = 1 .. Len(q) + 1 /\ DOMAIN q = 1 .. Len(q) /\ Len(q) \in Nat
      /\ Append(q, e)[Len(q) + 1] = e
      /\ \A k \in 1 .. Len(q) : Append(q, e)[k] = q[k]
  OBVIOUS
<1>2. CASE e.pid = s
  <2>1. TakenOf(Append(q, e), s) = TakenOf(q, s) \union {Len(q) + 1}
    BY <1>1, <1>2 DEF TakenOf
  <2>2. Len(q) + 1 \notin TakenOf(q, s)
    BY <1>1 DEF TakenOf
  <2> QED BY <1>2, <2>1, <2>2, TakenFinite, OneMore
<1>3. CASE e.pid # s
  <2>1. TakenOf(Append(q, e), s) = TakenOf(q, s)
    BY <1>1, <1>3 DEF TakenOf
  <2> QED BY <1>3, <2>1, TakenFinite
<1> QED BY <1>2, <1>3

LEMMA AcksInit == Init => AcksInv
<1> SUFFICES ASSUME Init PROVE AcksInv
  OBVIOUS
<1>1. HistTyped
  BY DEF Init, HistTyped
<1>2. ASSUME NEW s \in Senders
      PROVE  /\ OwingTo(cpc, pkt, s) = {} /\ TakenOf(consumed, s) = {}
             /\ PendingAt(spc, ack_received, s) = 0 /\ acked[s] = 0
  BY DEF Init, OwingTo, Owes, TakenOf, PendingAt
<1>3. IsFiniteSet({}) /\ Cardinality({}) = 0
  BY FS_EmptySet
<1>4. ASSUME NEW s \in Senders \ Restless
      PROVE  /\ IsFiniteSet(OwingTo(cpc, pkt, s))
             /\ acked[s] + PendingAt(spc, ack_received, s) + Cardinality(OwingTo(cpc, pkt, s))
                  <= Cardinality(TakenOf(consumed, s))
  <2>1. acked[s] = 0 /\ PendingAt(spc, ack_received, s) = 0
    BY <1>2
  <2>2. OwingTo(cpc, pkt, s) = {} /\ TakenOf(consumed, s) = {}
    BY <1>2
  <2> QED BY <1>3, <2>1, <2>2
<1> QED BY <1>1, <1>4 DEF AcksInv

(* A step of a sender, for one sender s that may be another: the consumers   *)
(* owe it what they owed, and what it reports was pending.                   *)
LEMMA SenderKeepsAcks ==
  ASSUME Typed, AcksInv, NEW r \in Senders, SenderStep(r)
  PROVE  AcksInv'
<1> USE DEF SenderStep, SenderElsewhere, CreateSender, SenderLock, DropPacket, SenderUnlock,
            SenderLockCond, StorePacket, MoveTail, CountUp, Wait, BeginWait, Timeout,
            SpuriousWakeup, EndWait, ReportAndUnlock, SenderGoes, locks, cb, hist, AcksInv
<1>1. consumed' = consumed /\ cpc' = cpc /\ pkt' = pkt
  OBVIOUS
<1>2. HistTyped'
  BY <1>1 DEF HistTyped
<1>3. ASSUME NEW s \in Senders \ Restless
      PROVE  /\ acked'[s] \in Nat /\ PendingAt(spc', ack_received', s) \in {0, 1}
             /\ acked'[s] + PendingAt(spc', ack_received', s)
                  <= acked[s] + PendingAt(spc, ack_received, s)
  <2>1. CASE r # s
    <3>1. acked'[s] = acked[s] /\ spc'[s] = spc[s] /\ ack_received'[s] = ack_received[s]
      BY <2>1 DEF Typed, HistTyped
    <3> QED BY <3>1 DEF PendingAt, HistTyped
  <2>2. CASE r = s /\ ReportAndUnlock(r)
    BY <2>2 DEF PendingAt, HistTyped, Typed
  <2>3. CASE r = s /\ ~ReportAndUnlock(r)
    <3>1. acked'[s] = acked[s]
      BY <2>3
    <3>2. PendingAt(spc', ack_received', s) <= PendingAt(spc, ack_received, s)
      BY <2>3 DEF PendingAt, HistTyped, Typed
    <3> QED BY <3>1, <3>2 DEF PendingAt, HistTyped
  <2> QED BY <2>1, <2>2, <2>3
<1>4. ASSUME NEW s \in Senders \ Restless
      PROVE  acked'[s] + PendingAt(spc', ack_received', s) + Cardinality(OwingTo(cpc', pkt', s))
               <= Cardinality(TakenOf(consumed', s))
  <2>1. Cardinality(OwingTo(cpc, pkt, s)) \in Nat /\ Cardinality(TakenOf(consumed, s)) \in Nat
    BY FS_CardinalityType, TakenFinite DEF HistTyped
  <2>2. PendingAt(spc, ack_received, s) \in {0, 1} /\ acked[s] \in Nat
    BY DEF PendingAt, HistTyped
  <2> QED BY <1>1, <1>3, <2>1, <2>2
<1> QED BY <1>1, <1>2, <1>4

(* A step of a consumer that neither takes a packet nor signals.             *)
LEMMA ConsumerKeepsAcks ==
  ASSUME Typed, AcksInv, NEW c \in Consumers, ConsumerStep(c),
         ~MoveHead(c), ~SignalSender(c)
  PROVE  AcksInv'
<1> USE DEF ConsumerStep, ConsumerElsewhere, CreateConsumer, ConsumerLock, FindEmpty, UnlockEmpty,
            FetchPacket, CountDown, ConsumerUnlock, ConsumerLockCond, ConsumerUnlockCond, ConsumerGoes, locks, cb, hist
<1>1. UNCHANGED <<spc, ack_received, acked, consumed>>
  OBVIOUS
<1>2. ASSUME NEW s PROVE OwingTo(cpc', pkt', s) = OwingTo(cpc, pkt, s)
  <2>1. ASSUME NEW d \in Consumers
        PROVE  /\ cpc'[d] \in Owes <=> cpc[d] \in Owes
               /\ cpc[d] \in Owes => pkt'[d] = pkt[d]
    BY DEF Typed, Owes
  <2> QED BY <2>1 DEF OwingTo
<1> QED BY <1>1, <1>2 DEF AcksInv, HistTyped

(* Who takes a packet owes a signal for it, *)
LEMMA MoveHeadOwes ==
  ASSUME PacketsInv, AcksInv, NEW c \in Consumers, MoveHead(c)
  PROVE  AcksInv'
<1> USE DEF MoveHead, ConsumerGoes, locks, AcksInv
<1>0. pkt[c] \in Stored /\ Typed
  BY DEF PacketsInv, SectionInv
<1>1. HistTyped'
  BY <1>0 DEF HistTyped
<1>2. ASSUME NEW s \in Senders \ Restless
      PROVE  /\ IsFiniteSet(OwingTo(cpc', pkt', s))
             /\ acked'[s] + PendingAt(spc', ack_received', s) + Cardinality(OwingTo(cpc', pkt', s))
                  <= Cardinality(TakenOf(consumed', s))
  <2>1. /\ IsFiniteSet(OwingTo(cpc', pkt', s))
        /\ Cardinality(OwingTo(cpc', pkt', s))
             = Cardinality(OwingTo(cpc, pkt, s)) + (IF pkt[c].pid = s THEN 1 ELSE 0)
    <3>1. c \notin OwingTo(cpc, pkt, s)
      BY DEF OwingTo, Owes
    <3>2. OwingTo(cpc', pkt', s) = IF pkt[c].pid = s THEN OwingTo(cpc, pkt, s) \union {c}
                                                     ELSE OwingTo(cpc, pkt, s)
      BY <1>0 DEF OwingTo, Owes, Typed
    <3>3. IsFiniteSet(OwingTo(cpc, pkt, s)) /\ Cardinality(OwingTo(cpc, pkt, s)) \in Nat
      BY FS_CardinalityType
    <3>4. CASE pkt[c].pid = s
      BY <3>1, <3>2, <3>3, <3>4, OneMore
    <3>5. CASE pkt[c].pid # s
      BY <3>2, <3>3, <3>5
    <3> QED BY <3>4, <3>5
  <2>2. Cardinality(TakenOf(consumed', s))
          = Cardinality(TakenOf(consumed, s)) + (IF pkt[c].pid = s THEN 1 ELSE 0)
    BY <1>0, TakenMore DEF HistTyped
  <2>3. Cardinality(OwingTo(cpc, pkt, s)) \in Nat /\ Cardinality(TakenOf(consumed, s)) \in Nat
    BY FS_CardinalityType, TakenFinite DEF HistTyped
  <2>4. PendingAt(spc, ack_received, s) \in {0, 1} /\ acked[s] \in Nat
    BY DEF PendingAt, HistTyped
  <2> QED BY <2>1, <2>2, <2>3, <2>4
<1> QED BY <1>1, <1>2

(* and a signal pays what was owed, to a sender that sleeps or to nobody.    *)
LEMMA SignalPays ==
  ASSUME PacketsInv, AcksInv, NEW c \in Consumers, SignalSender(c)
  PROVE  AcksInv'
<1> USE DEF SignalSender, locks, cb, hist, AcksInv
<1>0. pkt[c] \in Stored /\ pkt[c].pid \in Senders /\ Typed
  BY DEF PacketsInv, SectionInv, Stored
<1>1. HistTyped'
  BY <1>0 DEF HistTyped
<1>2. ASSUME NEW s \in Senders \ Restless
      PROVE  /\ IsFiniteSet(OwingTo(cpc', pkt', s))
             /\ acked'[s] + PendingAt(spc', ack_received', s) + Cardinality(OwingTo(cpc', pkt', s))
                  <= Cardinality(TakenOf(consumed', s))
  <2>1. IsFiniteSet(OwingTo(cpc, pkt, s)) /\ Cardinality(OwingTo(cpc, pkt, s)) \in Nat
        /\ Cardinality(TakenOf(consumed, s)) \in Nat
    BY FS_CardinalityType, TakenFinite DEF HistTyped
  <2>2. PendingAt(spc, ack_received, s) \in {0, 1} /\ acked[s] \in Nat
    BY DEF PendingAt, HistTyped
  <2>3. CASE pkt[c].pid # s
    <3>1. OwingTo(cpc', pkt', s) = OwingTo(cpc, pkt, s)
      BY <1>0, <2>3 DEF OwingTo, Typed
    <3>2. PendingAt(spc', ack_received', s) = PendingAt(spc, ack_received, s)
      BY <1>0, <2>3 DEF PendingAt, Typed, HistTyped
    <3> QED BY <3>1, <3>2
  <2>4. CASE pkt[c].pid = s
    <3>1. c \in OwingTo(cpc, pkt, s)
      BY <2>4 DEF OwingTo, Owes
    <3>2. OwingTo(cpc', pkt', s) = OwingTo(cpc, pkt, s) \ {c}
      BY <1>0 DEF OwingTo, Owes, Typed
    <3>3. /\ IsFiniteSet(OwingTo(cpc', pkt', s))
          /\ Cardinality(OwingTo(cpc', pkt', s)) = Cardinality(OwingTo(cpc, pkt, s)) - 1
      BY <2>1, <3>1, <3>2, OneLess
    <3>4. PendingAt(spc', ack_received', s) <= PendingAt(spc, ack_received, s) + 1
          /\ PendingAt(spc', ack_received', s) \in {0, 1}
      BY <2>2 DEF PendingAt
    <3> QED BY <2>1, <2>2, <3>3, <3>4
  <2> QED BY <2>3, <2>4
<1> QED BY <1>1, <1>2

(* No sender reports more acknowledgements than consumers have taken        *)
(* packets of its own, among those whose waits end by a signal or the       *)
(* clock only (lines 99-116, 152-155).                                      *)
THEOREM PacketsAcksEarned == Spec => []AcksEarned
<1>1. PacketsInv /\ AcksInv /\ [Next]_vars => AcksInv'
  <2> SUFFICES ASSUME PacketsInv, AcksInv, [Next]_vars PROVE AcksInv'
    OBVIOUS
  <2>0. Typed
    BY DEF PacketsInv
  <2>1. CASE UNCHANGED vars
    BY <2>1 DEF vars, cb, hist, AcksInv, HistTyped
  <2>2. ASSUME NEW s \in Senders, SenderStep(s)
        PROVE  AcksInv'
    BY <2>0, <2>2, SenderKeepsAcks
  <2>3. ASSUME NEW c \in Consumers, ConsumerStep(c)
        PROVE  AcksInv'
    BY <2>0, <2>3, ConsumerKeepsAcks, SignalPays, MoveHeadOwes
  <2> QED BY <2>1, <2>2, <2>3, NextCases
<1>2. AcksInv => AcksEarned
  <2> SUFFICES ASSUME AcksInv, NEW s \in Senders \ Restless
               PROVE  acked[s] <= Cardinality(TakenOf(consumed, s))
    BY DEF AcksEarned, TakenOf
  <2>1. Cardinality(OwingTo(cpc, pkt, s)) \in Nat /\ Cardinality(TakenOf(consumed, s)) \in Nat
    BY FS_CardinalityType, TakenFinite DEF AcksInv, HistTyped
  <2> QED BY <2>1 DEF AcksInv, HistTyped, PendingAt
<1> QED BY <1>1, <1>2, AcksInit, PacketsInvariant, PTL DEF Spec

-----------------------------------------------------------------------------
(***************************************************************************)
(* Types, with the bound.  Round numbers stay within MaxPackets because a   *)
(* sender that has made them all leaves nothing of the bound.               *)
(***************************************************************************)
LEMMA RoundFits ==
  ASSUME round \in [Senders -> 0 .. MaxPackets], WithinBound, NEW s \in Senders
  PROVE  round[s] < MaxPackets
<1> SUFFICES ASSUME round[s] = MaxPackets PROVE FALSE
  OBVIOUS
<1>1. IsFiniteSet(1 .. MaxPackets) /\ Cardinality(1 .. MaxPackets) = MaxPackets
  BY FS_Interval
<1>2. IsFiniteSet(Made)
  <2>1. IsFiniteSet(Senders \X (1 .. MaxPackets))
    BY <1>1, FS_Product
  <2> QED BY <2>1, FS_Subset DEF Made
<1> DEFINE mine == {s} \X (1 .. MaxPackets)
<1>3. mine \subseteq Made
  BY DEF Made
<1>4. Cardinality(mine) = MaxPackets
  <2>1. IsFiniteSet({s}) /\ Cardinality({s}) = 1
    BY FS_Singleton
  <2>2. Cardinality(mine) = Cardinality({s}) * Cardinality(1 .. MaxPackets)
    BY <1>1, <2>1, FS_Product
  <2> QED BY <1>1, <2>1, <2>2
<1>5. Cardinality(mine) <= Cardinality(Made)
  BY <1>2, <1>3, FS_Subset
<1>6. Cardinality(Made) \in Nat
  BY <1>2, FS_CardinalityType
<1> QED BY <1>4, <1>5, <1>6 DEF WithinBound

(* A sender in a round has one packet more than it can have reported.        *)
RoundInv ==
  \A s \in Senders :
    /\ acked[s] <= round[s]
    /\ spc[s] \notin {"uncreated", "ready"} => acked[s] + 1 <= round[s]

TypeInv == TypeOK /\ RoundInv

LEMMA SentIsPacket ==
  ASSUME TypeInv, NEW s \in Senders, spc[s] \notin {"uncreated", "ready"}
  PROVE  Sent(s) \in Packet
<1>1. round[s] \in 1 .. MaxPackets
  BY DEF TypeInv, TypeOK, RoundInv
<1> QED BY <1>1 DEF Sent, Packet

LEMMA SenderKeepsTypes ==
  ASSUME PacketsInv, PacketsInv', TypeInv, NEW s \in Senders, SenderStep(s)
  PROVE  TypeInv'
<1> USE DEF SenderStep, SenderElsewhere, CreateSender, DropPacket, SenderUnlock,
            SenderLockCond, StorePacket, MoveTail, CountUp, Wait, BeginWait, Timeout,
            SpuriousWakeup, EndWait, SenderGoes, locks, cb, hist
<1>1. /\ head' \in Slots /\ tail' \in Slots /\ count' \in 0 .. BUFFER_SIZE
      /\ lock' \in Threads \union {None} /\ lock_conds' \in [Senders -> Threads \union {None}]
      /\ spc' \in [Senders -> SenderLabels] /\ cpc' \in [Consumers -> ConsumerLabels]
  BY DEF PacketsInv, Typed
<1>2. pkt' = pkt /\ consumed' = consumed
  BY DEF SenderLock, ReportAndUnlock
<1>3. ack_received' \in [Senders -> {"none", "0", "ETIMEDOUT"}]
  BY DEF SenderLock, ReportAndUnlock, TypeInv, TypeOK
<1>4. buffer' \in [Slots -> Packet \union {None}] /\ dropped' \subseteq Packet
  <2>1. CASE StorePacket(s)
    BY <2>1, SentIsPacket DEF TypeInv, TypeOK
  <2>2. CASE DropPacket(s)
    BY <2>2, SentIsPacket DEF TypeInv, TypeOK
  <2>3. CASE ~StorePacket(s) /\ ~DropPacket(s)
    BY <2>3 DEF SenderLock, ReportAndUnlock, TypeInv, TypeOK
  <2> QED BY <2>1, <2>2, <2>3
<1>5. /\ round' \in [Senders -> 0 .. MaxPackets] /\ acked' \in [Senders -> 0 .. MaxPackets]
      /\ RoundInv'
  <2>1. CASE SenderLock(s)
    <3>1. round[s] < MaxPackets
      BY <2>1, RoundFits DEF TypeInv, TypeOK, SenderLock
    <3>2. round[s] + 1 \in 0 .. MaxPackets /\ acked' = acked
      BY <2>1, <3>1 DEF TypeInv, TypeOK, SenderLock
    <3> QED BY <2>1, <3>2 DEF SenderLock, TypeInv, TypeOK, RoundInv
  <2>2. CASE ReportAndUnlock(s)
    <3>1. acked[s] + 1 \in 0 .. MaxPackets
      <4>1. acked[s] + 1 <= round[s]
        BY <2>2 DEF ReportAndUnlock, TypeInv, RoundInv
      <4>2. round[s] \in 0 .. MaxPackets /\ acked[s] \in 0 .. MaxPackets
        BY DEF TypeInv, TypeOK
      <4> QED BY <4>1, <4>2
    <3>2. \A r \in Senders : acked'[r] = acked[r] \/ (r = s /\ acked'[r] = acked[r] + 1)
      BY <2>2 DEF ReportAndUnlock, TypeInv, TypeOK
    <3>3. acked' \in [Senders -> 0 .. MaxPackets] /\ round' = round
      BY <2>2, <3>1 DEF ReportAndUnlock, TypeInv, TypeOK
    <3>4. \A r \in Senders : spc'[r] = IF r = s THEN "ready" ELSE spc[r]
      BY <2>2 DEF ReportAndUnlock, TypeInv, TypeOK
    <3> QED BY <2>2, <3>2, <3>3, <3>4 DEF ReportAndUnlock, TypeInv, TypeOK, RoundInv
  <2>3. CASE ~SenderLock(s) /\ ~ReportAndUnlock(s)
    <3>1. round' = round /\ acked' = acked
      BY <2>3
    <3>2. \A r \in Senders : spc'[r] \notin {"uncreated", "ready"} => spc[r] \notin {"uncreated", "ready"}
      BY <2>3 DEF TypeInv, TypeOK
    <3> QED BY <3>1, <3>2 DEF TypeInv, TypeOK, RoundInv
  <2> QED BY <2>1, <2>2, <2>3
<1> QED BY <1>1, <1>2, <1>3, <1>4, <1>5 DEF TypeInv, TypeOK

LEMMA ConsumerKeepsTypes ==
  ASSUME PacketsInv, PacketsInv', TypeInv, NEW c \in Consumers,
         ConsumerStep(c)
  PROVE  TypeInv'
<1> USE DEF ConsumerStep, ConsumerElsewhere, CreateConsumer, ConsumerLock, FindEmpty, UnlockEmpty,
            FetchPacket, MoveHead, CountDown, ConsumerUnlock, ConsumerLockCond, SignalSender, ConsumerUnlockCond,
            ConsumerGoes, locks, cb, hist
<1>1. /\ head' \in Slots /\ tail' \in Slots /\ count' \in 0 .. BUFFER_SIZE
      /\ lock' \in Threads \union {None} /\ lock_conds' \in [Senders -> Threads \union {None}]
      /\ spc' \in [Senders -> SenderLabels] /\ cpc' \in [Consumers -> ConsumerLabels]
  BY DEF PacketsInv, Typed
<1>2. buffer' = buffer /\ round' = round /\ acked' = acked /\ dropped' = dropped
  OBVIOUS
<1>3. pkt' \in [Consumers -> Packet \union {None}]
  BY DEF TypeInv, TypeOK
<1>4. ack_received' \in [Senders -> {"none", "0", "ETIMEDOUT"}]
  <2>1. \/ ack_received' = ack_received
        \/ ack_received' = [ack_received EXCEPT ![pkt[c].pid] = "0"]
    OBVIOUS
  <2> QED BY <2>1 DEF TypeInv, TypeOK
<1>5. consumed' \in Seq(Packet)
  <2>1. CASE MoveHead(c)
    <3>1. pkt[c] \in Packet
      BY <2>1 DEF TypeInv, TypeOK, PacketsInv, SectionInv, Stored
    <3> QED BY <2>1, <3>1 DEF TypeInv, TypeOK
  <2>2. CASE ~MoveHead(c)
    BY <2>2 DEF TypeInv, TypeOK
  <2> QED BY <2>1, <2>2
<1>6. \A r \in Senders : spc'[r] \notin {"uncreated", "ready"} => spc[r] \notin {"uncreated", "ready"}
  BY DEF TypeInv, TypeOK
<1> QED BY <1>1, <1>2, <1>3, <1>4, <1>5, <1>6 DEF TypeInv, TypeOK, RoundInv

(* Every variable has its type; a sender reports at most one                 *)
(* acknowledgement a round.                                                  *)
THEOREM PacketsTypeOK == Spec => []TypeOK
<1>1. Init => TypeInv
  BY DEF Init, TypeInv, TypeOK, RoundInv, Packet, Slots, Threads, SenderLabels, ConsumerLabels
<1>2. PacketsInv /\ PacketsInv' /\ TypeInv /\ [Next]_vars => TypeInv'
  <2> SUFFICES ASSUME PacketsInv, PacketsInv', TypeInv, [Next]_vars PROVE TypeInv'
    OBVIOUS
  <2>1. CASE UNCHANGED vars
    BY <2>1 DEF vars, cb, hist, TypeInv, TypeOK, RoundInv
  <2>2. ASSUME NEW s \in Senders, SenderStep(s)
        PROVE  TypeInv'
    BY <2>2, SenderKeepsTypes
  <2>3. ASSUME NEW c \in Consumers, ConsumerStep(c)
        PROVE  TypeInv'
    BY <2>3, ConsumerKeepsTypes
  <2> QED BY <2>1, <2>2, <2>3, NextCases
<1> QED BY <1>1, <1>2, PacketsInvariant, PTL DEF Spec, TypeInv

-----------------------------------------------------------------------------
(***************************************************************************)
(* The buffer implements the lossy queue.                                  *)
(***************************************************************************)
(* Functions on 1 .. n are sequences, and are told apart by their values.   *)
LEMMA FunctionIsSeq ==
  ASSUME NEW S, NEW n \in Nat, NEW f \in [1 .. n -> S]
  PROVE  f \in Seq(S) /\ Len(f) = n
  OBVIOUS

LEMMA IsAppend ==
  ASSUME NEW S, NEW n \in Nat, NEW g \in [1 .. n -> S], NEW f \in [1 .. n + 1 -> S],
         \A k \in 1 .. n : f[k] = g[k]
  PROVE  f = Append(g, f[n + 1])
  BY FunctionIsSeq

LEMMA IsTail ==
  ASSUME NEW S, NEW n \in Nat \ {0}, NEW g \in [1 .. n -> S], NEW f \in [1 .. n - 1 -> S],
         \A k \in 1 .. n - 1 : f[k] = g[k + 1]
  PROVE  f = Tail(g)
  BY FunctionIsSeq

(* The packets of a ring b from slot h on. *)
Unrolled(b, h, n) == [k \in 1 .. n |-> b[Wrap(h, k - 1)]]

Cell == Stored \union {None}

LEMMA Unroll ==
  ASSUME NEW b \in [Slots -> Cell], NEW h \in Slots, NEW n \in 0 .. BUFFER_SIZE
  PROVE  /\ [k \in 1 .. n |-> b[(h + k - 1) % BUFFER_SIZE]] = Unrolled(b, h, n)
         /\ Unrolled(b, h, n) \in [1 .. n -> Cell]
<1>1. ASSUME NEW k \in 1 .. n
      PROVE  (h + k - 1) % BUFFER_SIZE = Wrap(h, k - 1) /\ Wrap(h, k - 1) \in Slots
  <2>1. k - 1 \in 0 .. BUFFER_SIZE /\ h + k - 1 = h + (k - 1)
    BY DEF Slots
  <2> QED BY <2>1, ModIsWrap
<1> QED BY <1>1 DEF Unrolled

LEMMA InQueueFits == PacketsInv => inQueue \in 0 .. BUFFER_SIZE
  BY DEF PacketsInv, Typed, SectionInv, inQueue

LEMMA QueueBar ==
  ASSUME PacketsInv
  PROVE  /\ queueBar = Unrolled(buffer, head, inQueue)
         /\ queueBar \in [1 .. inQueue -> Cell] /\ inQueue \in Nat
         /\ Len(queueBar) = inQueue
<1>1. queueBar = Unrolled(buffer, head, inQueue) /\ queueBar \in [1 .. inQueue -> Cell]
  BY Unroll, InQueueFits DEF PacketsInv, queueBar, Typed, Cell
<1>2. inQueue \in Nat
  BY InQueueFits
<1> HIDE DEF queueBar
<1> QED BY <1>1, <1>2, FunctionIsSeq

LEMMA QueueBarNext ==
  ASSUME PacketsInv'
  PROVE  /\ queueBar' = Unrolled(buffer', head', inQueue')
         /\ queueBar' \in [1 .. inQueue' -> Cell]
<1>1. inQueue' \in 0 .. BUFFER_SIZE
  BY DEF PacketsInv, Typed, SectionInv, inQueue
<1>2. buffer' \in [Slots -> Cell] /\ head' \in Slots
  BY DEF PacketsInv, Typed, Cell, Stored
<1> QED BY <1>1, <1>2, Unroll DEF queueBar

(* A sender has made its packet when it leaves the section in which it      *)
(* stores or drops it.                                                      *)
LEMMA PacketMade ==
  ASSUME Typed, NEW s \in Senders, round' = round,
         spc[s] \in {"deposit", "movetail", "countup"},
         spc' = [spc EXCEPT ![s] = "unlockcb"]
  PROVE  /\ madeBar' = [madeBar EXCEPT ![s] = @ + 1]
         /\ madeBar[s] + 1 = round[s]
<1>1. \A r \in Senders : round[r] \in Nat /\ spc'[r] = IF r = s THEN "unlockcb" ELSE spc[r]
  BY DEF Typed
<1>2. madeBar[s] = round[s] - 1
  BY DEF madeBar
<1>3. \A r \in Senders : madeBar'[r] = IF r = s THEN round[s] ELSE madeBar[r]
  BY <1>1 DEF madeBar
<1>4. madeBar' = [r \in Senders |-> IF r = s THEN round[s] ELSE madeBar[r]]
  BY <1>3 DEF madeBar
<1>5. [madeBar EXCEPT ![s] = @ + 1] = [r \in Senders |-> IF r = s THEN madeBar[s] + 1 ELSE madeBar[r]]
  BY DEF madeBar
<1> QED BY <1>1, <1>2, <1>4, <1>5

LEMMA RefinesInit == Init => Queue!QueueInit
<1> SUFFICES ASSUME Init PROVE Queue!QueueInit
  OBVIOUS
<1>1. queueBar = <<>>
  BY DEF Init, queueBar, inQueue
<1>2. madeBar = [s \in Senders |-> 0]
  BY DEF Init, madeBar
<1> QED BY <1>1, <1>2 DEF Init, Queue!QueueInit

(* Steps that are no step of the queue. *)
LEMMA SenderStutters ==
  ASSUME PacketsInv, NEW s \in Senders, SenderElsewhere(s), ~DropPacket(s)
  PROVE  UNCHANGED <<madeBar, queueBar, consumed, dropped>>
<1> USE DEF PacketsInv, CreateSender, SenderLock, SenderUnlock, SenderLockCond, Wait, BeginWait,
            Timeout, SpuriousWakeup, EndWait, ReportAndUnlock, SenderGoes, cb, hist
<1>1. UNCHANGED <<cb, consumed, dropped>>
  BY DEF SenderElsewhere
<1>2. queueBar' = queueBar
  BY <1>1 DEF queueBar, inQueue, SenderElsewhere
<1>3. madeBar' = madeBar
  <2>1. CASE SenderLock(s)
    BY <2>1 DEF madeBar, Typed
  <2>2. CASE ~SenderLock(s)
    BY <2>2 DEF SenderElsewhere, madeBar, Typed
  <2> QED BY <2>1, <2>2
<1> QED BY <1>1, <1>2, <1>3

LEMMA ConsumerStutters ==
  ASSUME PacketsInv, NEW c \in Consumers, ConsumerElsewhere(c) \/ FetchPacket(c)
  PROVE  UNCHANGED <<madeBar, queueBar, consumed, dropped>>
<1> USE DEF PacketsInv, CreateConsumer, ConsumerLock, FindEmpty, UnlockEmpty, ConsumerUnlock,
            ConsumerLockCond, SignalSender, ConsumerUnlockCond, FetchPacket, ConsumerGoes, cb, hist
<1>1. UNCHANGED <<cb, consumed, dropped, round>>
  BY DEF ConsumerElsewhere
<1>2. queueBar' = queueBar
  <2>1. \A d \in Consumers : cpc'[d] = "countdown" <=> cpc[d] = "countdown"
    BY DEF ConsumerElsewhere, Typed
  <2> QED BY <1>1, <2>1 DEF queueBar, inQueue
<1>3. \A s \in Senders : spc'[s] \in {"deposit", "movetail", "countup"}
                          <=> spc[s] \in {"deposit", "movetail", "countup"}
  BY DEF ConsumerElsewhere, Typed
<1>4. madeBar' = madeBar
  BY <1>1, <1>3 DEF madeBar
<1> QED BY <1>1, <1>2, <1>4

(* The store into the slot and that of the tail, *)
LEMMA StoreStutters ==
  ASSUME PacketsInv, NEW s \in Senders, StorePacket(s) \/ MoveTail(s)
  PROVE  UNCHANGED <<madeBar, queueBar, consumed, dropped>>
<1> USE DEF StorePacket, MoveTail, SenderGoes, hist
<1>1. madeBar' = madeBar
  BY DEF madeBar, PacketsInv, Typed
<1>2. PacketsInv' /\ inQueue' = inQueue
  BY StorePacketStep, MoveTailStep DEF inQueue
<1>3. ASSUME NEW k \in 1 .. inQueue
      PROVE  buffer'[Wrap(head, k - 1)] = buffer[Wrap(head, k - 1)]
  <2>1. CASE StorePacket(s)
    <3>1. k - 1 \in 0 .. count - 1 /\ count < BUFFER_SIZE /\ tail = Wrap(head, count)
      BY <2>1, SenderAlone DEF PacketsInv, Typed, RingInv
    <3>2. Wrap(head, k - 1) # tail
      BY <3>1, TailIsFree DEF PacketsInv
    <3> QED BY <2>1, <3>2 DEF PacketsInv, Typed
  <2>2. CASE MoveTail(s)
    BY <2>2
  <2> QED BY <2>1, <2>2
<1>4. Unrolled(buffer', head', inQueue') = Unrolled(buffer, head, inQueue)
  BY <1>2, <1>3 DEF Unrolled
<1>5. queueBar' = queueBar
  BY <1>2, <1>4, QueueBar, QueueBarNext
<1> QED BY <1>1, <1>5

(* and that of the count by a consumer, change nothing of the queue.         *)
LEMMA CountDownStutters ==
  ASSUME PacketsInv, NEW c \in Consumers, CountDown(c)
  PROVE  UNCHANGED <<madeBar, queueBar, consumed, dropped>>
<1>1. inQueue' = inQueue
  BY CountDownStep
<1> QED BY <1>1 DEF CountDown, ConsumerGoes, hist, madeBar, queueBar

(* A dropped packet is refused, one that is counted accepted, and one the   *)
(* head has left behind taken.                                              *)
LEMMA DropRefuses ==
  ASSUME PacketsInv, NEW s \in Senders, DropPacket(s)
  PROVE  Queue!Refuse(s)
<1> USE DEF DropPacket, SenderGoes, cb
<1>1. queueBar' = queueBar
  BY DEF queueBar, inQueue
<1>2. madeBar' = [madeBar EXCEPT ![s] = @ + 1] /\ madeBar[s] + 1 = round[s]
  BY PacketMade DEF PacketsInv
<1>3. Len(queueBar) = BUFFER_SIZE
  BY QueueBar, SenderAlone DEF PacketsInv
<1> QED BY <1>1, <1>2, <1>3 DEF Queue!Refuse, Queue!Offered, Sent

LEMMA CountUpAccepts ==
  ASSUME PacketsInv, NEW s \in Senders, CountUp(s)
  PROVE  Queue!Accept(s)
<1> USE DEF CountUp, SenderGoes, hist
<1>1. madeBar' = [madeBar EXCEPT ![s] = @ + 1] /\ madeBar[s] + 1 = round[s]
  BY PacketMade DEF PacketsInv
<1>2. /\ count < BUFFER_SIZE /\ buffer[Wrap(head, count)] = Sent(s)
      /\ inQueue = count /\ inQueue' = count + 1
  <2>1. inQueue = count /\ \A c \in Consumers : cpc'[c] # "countdown"
    BY SenderAlone DEF PacketsInv
  <2> QED BY <2>1 DEF PacketsInv, SectionInv, inQueue
<1>3. PacketsInv'
  BY CountUpStep
<1>4. queueBar' = Unrolled(buffer, head, count + 1) /\ queueBar' \in [1 .. count + 1 -> Cell]
  BY <1>2, <1>3, QueueBarNext
<1>5. /\ queueBar = Unrolled(buffer, head, count) /\ queueBar \in [1 .. count -> Cell]
      /\ count \in Nat /\ Len(queueBar) = count
  BY <1>2, QueueBar
<1> HIDE DEF queueBar
<1>6. queueBar' = Append(queueBar, Sent(s))
  <2>1. queueBar'[count + 1] = Sent(s)
    <3>1. (count + 1) - 1 = count /\ count + 1 \in 1 .. count + 1
      BY <1>5
    <3> QED BY <1>2, <1>4, <3>1 DEF Unrolled
  <2>2. \A k \in 1 .. count : queueBar'[k] = queueBar[k]
    BY <1>4, <1>5 DEF Unrolled
  <2> QED BY <1>4, <1>5, <2>1, <2>2, IsAppend
<1> QED BY <1>1, <1>2, <1>5, <1>6 DEF Queue!Accept, Queue!Offered, Sent

LEMMA MoveHeadTakes ==
  ASSUME PacketsInv, NEW c \in Consumers, MoveHead(c)
  PROVE  Queue!Take
<1> USE DEF MoveHead, ConsumerGoes
<1>1. madeBar' = madeBar
  BY DEF madeBar
<1>2. /\ count > 0 /\ pkt[c] = buffer[head] /\ head' = Wrap(head, 1)
      /\ inQueue = count /\ inQueue' = count - 1
  <2>1. inQueue = count
    BY ConsumerAlone DEF PacketsInv
  <2>2. inQueue' = count - 1
    BY DEF inQueue, PacketsInv, Typed
  <2> QED BY <2>1, <2>2, NextSlot DEF PacketsInv, SectionInv, Typed
<1>3. PacketsInv'
  BY MoveHeadStep
<1>4. queueBar' = Unrolled(buffer, Wrap(head, 1), count - 1) /\ queueBar' \in [1 .. count - 1 -> Cell]
  BY <1>2, <1>3, QueueBarNext
<1>5. /\ queueBar = Unrolled(buffer, head, count) /\ queueBar \in [1 .. count -> Cell]
      /\ count \in Nat \ {0} /\ Len(queueBar) = count
  BY <1>2, QueueBar
<1> HIDE DEF queueBar
<1>6. queueBar # <<>> /\ Head(queueBar) = pkt[c]
  <2>1. Wrap(head, 0) = head
    BY DEF Wrap, PacketsInv, Typed, Slots
  <2>2. 1 - 1 = 0 /\ 1 \in 1 .. count
    BY <1>5
  <2>3. queueBar[1] = buffer[head]
    BY <1>5, <2>1, <2>2 DEF Unrolled
  <2>4. queueBar \in Seq(Cell)
    BY <1>5, FunctionIsSeq
  <2> QED BY <1>2, <1>5, <2>3, <2>4
<1>7. \A k \in 1 .. count - 1 : queueBar'[k] = queueBar[k + 1]
  <2>1. ASSUME NEW k \in 1 .. count - 1 PROVE queueBar'[k] = queueBar[k + 1]
    <3>1. k - 1 \in 0 .. BUFFER_SIZE - 1 /\ (k - 1) + 1 = k /\ (k + 1) - 1 = k /\ k + 1 \in 1 .. count
      BY DEF PacketsInv, Typed
    <3>2. Wrap(Wrap(head, 1), k - 1) = Wrap(head, k)
      BY <3>1, WrapOneMore DEF PacketsInv, Typed
    <3> QED BY <1>4, <1>5, <3>1, <3>2 DEF Unrolled
  <2> QED BY <2>1
<1>8. queueBar' = Tail(queueBar)
  BY <1>4, <1>5, <1>7, IsTail
<1> QED BY <1>1, <1>6, <1>8 DEF Queue!Take

(* Every step at the locks, the slots and the indices is a step of the      *)
(* lossy queue or none: the buffer loses a packet only when it is full,     *)
(* hands out the others in their order, and each one once.                  *)
THEOREM PacketsImplementQueue == Spec => ImplementsQueue
<1>1. PacketsInv /\ [Next]_vars => [Queue!QueueNext]_(Queue!queueVars)
  <2> SUFFICES ASSUME PacketsInv, [Next]_vars PROVE [Queue!QueueNext]_(Queue!queueVars)
    OBVIOUS
  <2>1. CASE UNCHANGED vars
    BY <2>1 DEF vars, cb, hist, Queue!queueVars, madeBar, queueBar, inQueue
  <2>2. ASSUME NEW s \in Senders, SenderStep(s)
        PROVE  [Queue!QueueNext]_(Queue!queueVars)
    BY <2>2, SenderStutters, StoreStutters, DropRefuses, CountUpAccepts
       DEF SenderStep, Queue!QueueNext, Queue!queueVars
  <2>3. ASSUME NEW c \in Consumers, ConsumerStep(c)
        PROVE  [Queue!QueueNext]_(Queue!queueVars)
    BY <2>3, ConsumerStutters, CountDownStutters, MoveHeadTakes
       DEF ConsumerStep, Queue!QueueNext, Queue!queueVars
  <2> QED BY <2>1, <2>2, <2>3, NextCases
<1> QED BY <1>1, RefinesInit, PacketsInvariant, PTL DEF Spec, ImplementsQueue, Queue!QueueSpec

=============================================================================
