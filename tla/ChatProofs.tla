----------------------------- MODULE ChatProofs -----------------------------
(***************************************************************************)
(* Proofs about the chat room of hw5/Q4, for any clients, any size of the  *)
(* FIFOs and any number of lines: what the server sends to each client and *)
(* whom it keeps on its list, while others join, leave or are killed.      *)
(***************************************************************************)
EXTENDS Chat, SequenceTheorems, FiniteSetTheorems, WellFoundedInduction, TLAPS

(***************************************************************************)
(* The sequence operators, element by element.                             *)
(***************************************************************************)
LEMMA SmallestOf ==
  ASSUME NEW T, T \subseteq Nat, T # {}
  PROVE  \E x \in T : \A y \in T : x <= y
<1> DEFINE R == {ss \in Nat \X Nat : ss[1] < ss[2]}
<1>1. IsWellFoundedOn(R, Nat)
  BY NatLessThanWellFounded DEF OpToRel
<1>2. PICK x \in T : \A y \in T : ~(<<y, x>> \in R)
  <2> HIDE DEF R
  <2> QED BY <1>1, WFMin
<1>3. ASSUME NEW y \in T PROVE x <= y
  <2>1. x \in Nat /\ y \in Nat
    OBVIOUS
  <2>2. ~(y < x)
    BY <1>2, <2>1
  <2> QED BY <2>1, <2>2
<1> QED BY <1>3

(* A new last element.                                                     *)
LEMMA AppendIs ==
  ASSUME NEW S, NEW s \in Seq(S), NEW e \in S
  PROVE  /\ Append(s, e) \in Seq(S) /\ Len(Append(s, e)) = Len(s) + 1
         /\ DOMAIN s = 1 .. Len(s) /\ DOMAIN Append(s, e) = 1 .. Len(s) + 1
         /\ \A i \in 1 .. Len(s) : Append(s, e)[i] = s[i]
         /\ Append(s, e)[Len(s) + 1] = e
         /\ Append(s, e) # <<>> /\ Len(s) \in Nat
  BY AppendProperties, LenProperties

(* Without the first element.                                              *)
LEMMA TailIs ==
  ASSUME NEW S, NEW s \in Seq(S), s # <<>>
  PROVE  /\ Tail(s) \in Seq(S) /\ Len(Tail(s)) = Len(s) - 1 /\ Len(s) \in Nat \ {0}
         /\ DOMAIN s = 1 .. Len(s) /\ DOMAIN Tail(s) = 1 .. Len(s) - 1
         /\ Head(s) = s[1] /\ Head(s) \in S
         /\ \A i \in 1 .. Len(s) - 1 : Tail(s)[i] = s[i + 1]
<1>1. Len(s) \in Nat \ {0} /\ DOMAIN s = 1 .. Len(s)
  BY EmptySeq, LenProperties
<1> QED BY <1>1, HeadTailProperties, LenProperties

(* A new head: what was at i is at i + 1.                                  *)
LEMMA ConsIs ==
  ASSUME NEW S, NEW s \in Seq(S), NEW e \in S
  PROVE  /\ <<e>> \o s \in Seq(S) /\ Len(<<e>> \o s) = Len(s) + 1
         /\ DOMAIN s = 1 .. Len(s) /\ DOMAIN (<<e>> \o s) = 1 .. Len(s) + 1 /\ Len(s) \in Nat
         /\ (<<e>> \o s)[1] = e
         /\ \A i \in 1 .. Len(s) : (<<e>> \o s)[i + 1] = s[i]
<1>1. <<e>> \in Seq(S) /\ Len(<<e>>) = 1 /\ <<e>>[1] = e
  OBVIOUS
<1>2. Len(s) \in Nat /\ DOMAIN s = 1 .. Len(s)
  BY LenProperties
<1> QED BY <1>1, <1>2, ConcatProperties, LenProperties

(* The part of a sequence between two places.                              *)
LEMMA SubSeqIs ==
  ASSUME NEW S, NEW s \in Seq(S), NEW n \in Nat, n = Len(s), NEW l \in Int, NEW h \in Int,
         1 <= l, h <= n, l <= h + 1
  PROVE  /\ SubSeq(s, l, h) \in Seq(S) /\ Len(SubSeq(s, l, h)) = h - l + 1
         /\ \A i \in 1 .. h - l + 1 : SubSeq(s, l, h)[i] = s[l + i - 1]
<1>1. SubSeq(s, l, h) \in Seq(S) /\ Len(SubSeq(s, l, h)) = h - l + 1
  OBVIOUS
<1>2. \A i \in 1 .. h - l + 1 : SubSeq(s, l, h)[i] = s[l + i - 1]
  OBVIOUS
<1> QED BY <1>1, <1>2

(* One sequence behind another.                                            *)
LEMMA ConcatIs ==
  ASSUME NEW S, NEW a \in Seq(S), NEW b \in Seq(S), NEW p \in Nat, NEW q \in Nat,
         p = Len(a), q = Len(b)
  PROVE  /\ a \o b \in Seq(S) /\ Len(a \o b) = p + q /\ DOMAIN (a \o b) = 1 .. p + q
         /\ \A i \in 1 .. p : (a \o b)[i] = a[i]
         /\ \A i \in 1 .. q : (a \o b)[p + i] = b[i]
  OBVIOUS

(* Without the element at k: what was behind it moves up.                  *)
Without(s, k) == SubSeq(s, 1, k - 1) \o SubSeq(s, k + 1, Len(s))

LEMMA WithoutIs ==
  ASSUME NEW S, NEW s \in Seq(S), NEW n \in Nat, n = Len(s), NEW k \in Int, 1 <= k, k <= n
  PROVE  /\ Without(s, k) \in Seq(S) /\ DOMAIN s = 1 .. n /\ DOMAIN Without(s, k) = 1 .. n - 1
         /\ \A i \in 1 .. k - 1 : Without(s, k)[i] = s[i]
         /\ \A i \in k .. n - 1 : Without(s, k)[i] = s[i + 1]
<1> DEFINE a == SubSeq(s, 1, k - 1)
           b == SubSeq(s, k + 1, n)
           t == a \o b
<1>1. a \in Seq(S) /\ Len(a) = k - 1 /\ \A i \in 1 .. k - 1 : a[i] = s[i]
  BY SubSeqIs
<1>2. b \in Seq(S) /\ Len(b) = n - k /\ \A i \in 1 .. n - k : b[i] = s[i + k]
  BY SubSeqIs
<1>3. DOMAIN s = 1 .. n
  BY LenProperties
<1> HIDE DEF a, b
<1>4. /\ t \in Seq(S) /\ Len(t) = n - 1 /\ DOMAIN t = 1 .. n - 1
      /\ \A i \in 1 .. k - 1 : t[i] = a[i]
      /\ \A i \in 1 .. n - k : t[k - 1 + i] = b[i]
  <2> DEFINE p == k - 1
             q == n - k
  <2>1. p \in Nat /\ q \in Nat /\ p + q = n - 1 /\ p = Len(a) /\ q = Len(b)
    BY <1>1, <1>2
  <2> HIDE DEF p, q
  <2>2. /\ t \in Seq(S) /\ Len(t) = p + q /\ DOMAIN t = 1 .. p + q
        /\ \A i \in 1 .. p : t[i] = a[i]
        /\ \A i \in 1 .. q : t[p + i] = b[i]
    <3>1. a \in Seq(S) /\ b \in Seq(S)
      BY <1>1, <1>2
    <3> QED BY <2>1, <3>1, ConcatIs
  <2> QED BY <2>1, <2>2 DEF p, q
<1> HIDE DEF t
<1>5. ASSUME NEW i \in k .. n - 1 PROVE t[i] = s[i + 1]
  <2> DEFINE j == i - (k - 1)
  <2>1. j \in 1 .. n - k /\ k - 1 + j = i /\ j + k = i + 1
    OBVIOUS
  <2> HIDE DEF j
  <2>2. t[k - 1 + j] = b[j] /\ b[j] = s[j + k]
    BY <1>2, <1>4, <2>1
  <2> QED BY <2>1, <2>2
<1>6. \A i \in 1 .. k - 1 : t[i] = s[i]
  BY <1>1, <1>4
<1> QED BY <1>3, <1>4, <1>5, <1>6 DEF t, a, b, Without

-----------------------------------------------------------------------------
(***************************************************************************)
(* The inductive invariant.                                                *)
(***************************************************************************)
Asks == [type : {"J", "M", "L"}, internal_id : Clients, n : 0 .. MaxSaid]

IsJoin(m, c)  == m.type = "J" /\ m.internal_id = c
IsLeave(m, c) == m.type = "L" /\ m.internal_id = c

InLoop    == spc \in {"poll", "create", "welcome", "send", "remove"}
Asking(c) == \E k \in DOMAIN srvq : IsJoin(srvq[k], c)
Created(c) == spc = "create" /\ msg.internal_id = c
Joined(c)  == spc \in {"create", "welcome"} /\ msg.internal_id = c

Before  == {"none", "fifo", "half", "open", "join"}
Chats   == {"chat", "write"}
Leaving == {"leave", "closesrv", "closecli", "jointhread"}

(* What the server reads, has read and has still to visit.                 *)
Handling ==
  /\ srvq \in Seq(Asks)
  /\ spc \in {"create", "welcome", "send", "remove"} => msg \in Asks
  /\ spc \in {"create", "welcome"} => msg.type = "J"
  /\ spc = "remove" => msg.type = "L"
  /\ spc \in {"poll", "create", "welcome", "remove"} => current = <<>>
  /\ spc = "close" => current # <<>>
  /\ spc \in {"exited", "killed"} => clients = <<>>
  /\ \A k \in DOMAIN current : \E j \in DOMAIN clients : clients[j] = current[k]

(* What a client's threads have done; it closes nothing while it runs.     *)
Own(c) ==
  /\ (\E t \in Threads : pc[c][t] \in Leaving) => ~crunning[c]
  /\ pc[c]["main"] \in {"open", "join"} \union Chats /\ crunning[c] => client_fd[c]
  /\ pc[c]["recv"] = "read" /\ client_fd[c] => cliq[c] # <<>>
  /\ pc[c]["main"] \in Before \ {"join"} => pc[c]["recv"] = "none"
  /\ pc[c]["main"] = "write" => said[c] > 0

Listening == \A c \in Clients : Own(c)

(***************************************************************************)
(* What a step of a client can do.                                         *)
(***************************************************************************)
ProcessTyped ==
  /\ pc \in [Clients -> [Threads -> ClientLabels]]
  /\ server_fd \in [Clients -> BOOLEAN] /\ client_fd \in [Clients -> BOOLEAN]
  /\ crunning \in [Clients -> BOOLEAN] /\ said \in [Clients -> 0 .. MaxSaid]
  /\ cliq \in [Clients -> Seq(Message)] /\ \A c \in Clients : Len(cliq[c]) <= PIPE

SrvqTyped == srvq \in Seq(Message) /\ Len(srvq) <= PIPE /\ srvq \in Seq(Asks)

(* The types of what the clients hold, step by step of a client.           *)
LEMMA EndsTyped ==
  ASSUME ChatAssumption, ProcessTyped, NEW c \in Clients, ClientEnds(c)
  PROVE  ProcessTyped'
  BY DEF ChatAssumption, ProcessTyped, ClientEnds, Threads, ClientLabels

LEMMA WriteTyped ==
  ASSUME ChatAssumption, ProcessTyped, SrvqTyped, NEW c \in Clients, NEW t \in Threads,
         NEW m \in Asks, NEW to \in ClientLabels, WriteServer(c, t, m, to)
  PROVE  ProcessTyped' /\ SrvqTyped'
<1>1. CASE ServerUp
  <2>0. /\ pc' = [pc EXCEPT ![c][t] = to]
        /\ UNCHANGED <<server_fd, client_fd, crunning, said, cliq>>
    BY <1>1, Zenon DEF WriteServer
  <2>1. ProcessTyped'
    BY <2>0 DEF ProcessTyped
  <2>2. m \in Message
    BY DEF Asks, Message
  <2>3. Append(srvq, m) \in Seq(Message) /\ Append(srvq, m) \in Seq(Asks)
        /\ Len(Append(srvq, m)) = Len(srvq) + 1 /\ Len(srvq) \in Nat
    BY <2>2, AppendIs DEF SrvqTyped
  <2>4. srvq' = Append(srvq, m) /\ Len(srvq) < PIPE
    BY <1>1 DEF WriteServer
  <2> QED BY <2>1, <2>3, <2>4 DEF SrvqTyped, ChatAssumption
<1>2. CASE ~ServerUp
  BY <1>2, EndsTyped DEF WriteServer, SrvqTyped
<1> QED BY <1>1, <1>2

LEMMA ConnectTyped ==
  ASSUME ChatAssumption, ProcessTyped, SrvqTyped, NEW c \in Clients,
         ConnectStep(c)
  PROVE  ProcessTyped' /\ SrvqTyped'
<1> USE DEF ConnectStep, Goto, Threads, ClientLabels
<1>1. CASE MakeFifo(c)
  BY <1>1 DEF MakeFifo, ProcessTyped, SrvqTyped
<1>2. CASE OpenServer(c)
  <2>1. SrvqTyped'
    BY <1>2 DEF OpenServer, SrvqTyped
  <2>2. CASE srvLinked
    <3>1. /\ pc' = [pc EXCEPT ![c]["main"] = "half"]
          /\ server_fd' = [server_fd EXCEPT ![c] = TRUE]
          /\ UNCHANGED <<client_fd, crunning, said, cliq>>
      BY <1>2, <2>2, Zenon DEF OpenServer
    <3> QED BY <2>1, <3>1 DEF ProcessTyped
  <2>3. CASE ~srvLinked
    BY <1>2, <2>1, <2>3, EndsTyped DEF OpenServer
  <2> QED BY <2>2, <2>3
<1>3. CASE OpenClient(c)
  BY <1>3 DEF OpenClient, ProcessTyped, SrvqTyped
<1>4. CASE StartReceiver(c)
  BY <1>4 DEF StartReceiver, ProcessTyped, SrvqTyped
<1>5. CASE SendJoin(c)
  <2>1. [type |-> "J", internal_id |-> c, n |-> 0] \in Asks
    BY DEF Asks, ChatAssumption
  <2> QED BY <1>5, <2>1, WriteTyped DEF SendJoin
<1> QED BY <1>1, <1>2, <1>3, <1>4, <1>5

LEMMA ReadTyped ==
  ASSUME ChatAssumption, ProcessTyped, SrvqTyped, NEW c \in Clients, Own(c), ReadOwn(c)
  PROVE  ProcessTyped' /\ SrvqTyped'
<1>1. SrvqTyped'
  BY DEF ReadOwn, SrvqTyped
<1>2. CASE client_fd[c] = FALSE
  BY <1>1, <1>2, EndsTyped DEF ReadOwn
<1>3. CASE client_fd[c] = TRUE
  <2>1. PICK l \in ClientLabels :
          /\ pc' = [pc EXCEPT ![c]["recv"] = l]
          /\ cliq' = [cliq EXCEPT ![c] = Tail(cliq[c])]
          /\ crunning' = [crunning EXCEPT ![c] = crunning[c] /\ Head(cliq[c]).type # "S"]
          /\ UNCHANGED <<server_fd, client_fd, said>>
    <3> DEFINE l == CASE Head(cliq[c]).type = "S" -> "leave"
                      [] Head(cliq[c]).type # "S" /\ crunning[c] -> "poll"
                      [] OTHER -> "returned"
    <3>1. l \in ClientLabels
      BY DEF ClientLabels
    <3>2. /\ pc' = [pc EXCEPT ![c]["recv"] = l]
          /\ cliq' = [cliq EXCEPT ![c] = Tail(cliq[c])]
          /\ crunning' = [crunning EXCEPT ![c] = crunning[c] /\ Head(cliq[c]).type # "S"]
          /\ UNCHANGED <<server_fd, client_fd, said>>
      BY <1>3, Zenon DEF ReadOwn
    <3> HIDE DEF l
    <3> QED BY <3>1, <3>2
  <2>2. cliq[c] \in Seq(Message) /\ cliq[c] # <<>>
    BY <1>3 DEF Own, ReadOwn, ProcessTyped
  <2>3. Tail(cliq[c]) \in Seq(Message) /\ Len(Tail(cliq[c])) <= PIPE
    BY <2>2, TailIs DEF ProcessTyped, ChatAssumption
  <2>4. cliq' \in [Clients -> Seq(Message)] /\ \A d \in Clients : Len(cliq'[d]) <= PIPE
    BY <2>1, <2>3 DEF ProcessTyped
  <2> QED BY <1>1, <2>1, <2>4 DEF ProcessTyped, Threads
<1> QED BY <1>2, <1>3 DEF ProcessTyped

LEMMA RunTyped ==
  ASSUME ChatAssumption, ProcessTyped, SrvqTyped, NEW c \in Clients, Own(c),
         \/ TypingStep(c) \/ SendLine(c) \/ Kill(c) \/ PollOwn(c) \/ ReadOwn(c)
         \/ ReceiverReturns(c) \/ \E t \in Threads : Interrupt(c, t)
  PROVE  ProcessTyped' /\ SrvqTyped'
<1> USE DEF Goto, Threads, ClientLabels
<1>1. CASE PollServer(c)
  <2>1. said[c] + 1 \in 0 .. MaxSaid
    BY <1>1 DEF PollServer, ProcessTyped, ChatAssumption
  <2>2. PICK r \in BOOLEAN, l \in ClientLabels :
          /\ pc' = [pc EXCEPT ![c]["main"] = l]
          /\ crunning' = [crunning EXCEPT ![c] = r]
    BY <1>1 DEF PollServer, ProcessTyped
  <2> QED BY <1>1, <2>1, <2>2 DEF PollServer, ProcessTyped, SrvqTyped
<1>2. CASE StopChatting(c)
  BY <1>2 DEF StopChatting, ProcessTyped, SrvqTyped
<1>3. CASE SendLine(c)
  <2>1. CASE server_fd[c] = TRUE
    <3>1. [type |-> "M", internal_id |-> c, n |-> said[c]] \in Asks
      BY DEF Asks, ProcessTyped
    <3> QED BY <1>3, <2>1, <3>1, WriteTyped DEF SendLine
  <2>2. CASE server_fd[c] = FALSE
    <3>1. /\ pc' = [pc EXCEPT ![c]["main"] = "leave"]
          /\ crunning' = [crunning EXCEPT ![c] = FALSE]
          /\ UNCHANGED <<server_fd, client_fd, said, srvq, cliq>>
      BY <1>3, <2>2, Zenon DEF SendLine
    <3> QED BY <3>1 DEF ProcessTyped, SrvqTyped
  <2> QED BY <2>1, <2>2 DEF ProcessTyped
<1>4. CASE Kill(c)
  BY <1>4, EndsTyped DEF Kill, SrvqTyped
<1>5. CASE PollOwn(c) \/ ReceiverReturns(c)
  <2>1. PICK l \in {"read", "returned"} :
          /\ pc' = [pc EXCEPT ![c]["recv"] = l]
          /\ UNCHANGED <<server_fd, client_fd, crunning, said, srvq, cliq>>
    BY <1>5, Zenon DEF PollOwn, ReceiverReturns
  <2> QED BY <2>1 DEF ProcessTyped, SrvqTyped
<1>6. CASE ReadOwn(c)
  BY <1>6, ReadTyped
<1>7. CASE \E t \in Threads : Interrupt(c, t)
  BY <1>7 DEF Interrupt, ProcessTyped, SrvqTyped
<1> QED BY <1>1, <1>2, <1>3, <1>4, <1>5, <1>6, <1>7 DEF TypingStep

LEMMA CleanupTyped ==
  ASSUME ChatAssumption, ProcessTyped, SrvqTyped, NEW c \in Clients, NEW t \in Threads,
         cleanup(c, t)
  PROVE  ProcessTyped' /\ SrvqTyped'
<1>1. CASE SendLeave(c, t)
  <2>1. CASE server_fd[c] = TRUE
    <3>1. [type |-> "L", internal_id |-> c, n |-> 0] \in Asks
      BY DEF Asks, ChatAssumption
    <3> QED BY <1>1, <2>1, <3>1, WriteTyped DEF SendLeave, ClientLabels
  <2>2. CASE server_fd[c] = FALSE
    <3>1. /\ pc' = [pc EXCEPT ![c][t] = "closecli"]
          /\ UNCHANGED <<server_fd, client_fd, crunning, said, srvq, cliq>>
      BY <1>1, <2>2, Zenon DEF SendLeave
    <3> QED BY <3>1 DEF ProcessTyped, SrvqTyped, ClientLabels
  <2> QED BY <2>1, <2>2 DEF ProcessTyped
<1>2. CASE CloseServer(c, t)
  BY <1>2 DEF CloseServer, Goto, ProcessTyped, SrvqTyped, ClientLabels
<1>3. CASE CloseClient(c, t)
  BY <1>3 DEF CloseClient, Goto, ProcessTyped, SrvqTyped, ClientLabels, ChatAssumption
<1>4. CASE JoinAndExit(c, t)
  BY <1>4, EndsTyped DEF JoinAndExit, SrvqTyped
<1> QED BY <1>1, <1>2, <1>3, <1>4 DEF cleanup

LEMMA ClientTyped ==
  ASSUME ChatAssumption, ProcessTyped, SrvqTyped, NEW c \in Clients, Own(c), ClientStep(c)
  PROVE  ProcessTyped' /\ SrvqTyped'
  BY ConnectTyped, RunTyped, CleanupTyped DEF ClientStep, get_message, Threads

-----------------------------------------------------------------------------
Writes(c)  == pc[c]["main"] \in Before \union Chats
Written(c) == IF pc[c]["main"] = "write" THEN said[c] - 1 ELSE said[c]

(* The file of a client that runs is there while the server serves.        *)
Filed(c) ==
  pc[c]["main"] \in (Before \ {"none"}) \union Chats /\ crunning[c] /\ InLoop => c \in linked

ServerSame ==
  UNCHANGED <<spc, clients, msg, current, running, handling, srvLinked, delivered, overflow>>

OthersSame(c) ==
  \A d \in Clients \ {c} :
    /\ pc'[d] = pc[d] /\ client_fd'[d] = client_fd[d] /\ crunning'[d] = crunning[d]
    /\ said'[d] = said[d] /\ cliq'[d] = cliq[d] /\ (d \in linked' <=> d \in linked)

(* It asks the server nothing, or writes one Message behind the others.    *)
Quiet(c) ==
  /\ srvq' = srvq
  /\ Writes(c)' => Writes(c) /\ Written(c)' = Written(c)
  /\ pc'[c]["main"] \in Chats => pc[c]["main"] \in Chats

AsksFor(c, m) ==
  /\ m \in Asks /\ m.internal_id = c /\ srvq' = Append(srvq, m)
  /\ said'[c] = said[c]
  /\ \/ m.type = "J" /\ pc[c]["main"] = "join" /\ pc'[c]["main"] = "chat"
     \/ m.type = "M" /\ pc[c]["main"] = "write" /\ pc'[c]["main"] = "chat" /\ m.n = said[c]
     \/ /\ m.type = "L" /\ ~crunning[c]
        /\ pc'[c]["main"] \notin Before \union Chats \/ pc'[c]["main"] = pc[c]["main"]

Moves(c) ==
  /\ Own(c)' /\ Filed(c)' /\ OthersSame(c)
  /\ crunning'[c] => crunning[c]
  /\ Len(cliq'[c]) <= Len(cliq[c])
  /\ pc'[c]["main"] \in Before => pc[c]["main"] \in Before
  /\ Quiet(c) \/ \E m \in Asks : AsksFor(c, m)

(* The steps of a client, one by one.                                      *)
LEMMA ClientCases ==
  ASSUME NEW c \in Clients, ClientStep(c)
  PROVE  \/ MakeFifo(c) \/ OpenServer(c) \/ OpenClient(c) \/ StartReceiver(c) \/ SendJoin(c)
         \/ PollServer(c) \/ StopChatting(c) \/ SendLine(c) \/ PollOwn(c) \/ ReadOwn(c)
         \/ ReceiverReturns(c) \/ Kill(c)
         \/ \E t \in Threads :
              \/ Interrupt(c, t) \/ SendLeave(c, t) \/ CloseServer(c, t) \/ CloseClient(c, t)
              \/ JoinAndExit(c, t)
  BY DEF ClientStep, ConnectStep, TypingStep, get_message, cleanup, Threads

(* No step of a client touches the server or what was sent.                *)
LEMMA ClientLeavesServer ==
  ASSUME NEW c \in Clients, ClientStep(c)
  PROVE  ServerSame
<1> USE DEF ServerSame, server, hist
<1>1. CASE MakeFifo(c) \/ OpenServer(c) \/ OpenClient(c) \/ StartReceiver(c) \/ SendJoin(c)
  BY <1>1 DEF MakeFifo, OpenServer, OpenClient, StartReceiver, SendJoin
<1>2. CASE PollServer(c) \/ StopChatting(c) \/ SendLine(c) \/ Kill(c)
  BY <1>2 DEF PollServer, StopChatting, SendLine, Kill
<1>3. CASE PollOwn(c) \/ ReadOwn(c) \/ ReceiverReturns(c)
  BY <1>3 DEF PollOwn, ReadOwn, ReceiverReturns
<1>4. CASE \E t \in Threads :
              \/ Interrupt(c, t) \/ SendLeave(c, t) \/ CloseServer(c, t) \/ CloseClient(c, t)
              \/ JoinAndExit(c, t)
  BY <1>4 DEF Interrupt, SendLeave, CloseServer, CloseClient, JoinAndExit
<1> QED BY <1>1, <1>2, <1>3, <1>4, ClientCases

(* The process of c ends.                                                  *)
LEMMA EndsMoves ==
  ASSUME ChatAssumption, ProcessTyped, NEW c \in Clients, ClientEnds(c), srvq' = srvq,
         \A d \in Clients \ {c} : d \in linked' <=> d \in linked
  PROVE  Moves(c)
<1>1. /\ \A t \in Threads : pc'[c][t] = "gone"
      /\ OthersSame(c) /\ crunning' = crunning /\ cliq'[c] = <<>>
  BY DEF ClientEnds, ProcessTyped, OthersSame
<1>2. Len(cliq'[c]) <= Len(cliq[c])
  BY <1>1, LenProperties DEF ProcessTyped
<1>3. Own(c)' /\ Filed(c)' /\ Quiet(c)
  BY <1>1 DEF Own, Filed, Quiet, Writes, Before, Chats, Leaving, Threads
<1> QED BY <1>1, <1>2, <1>3 DEF Moves, Before, Threads

(* A client writes to the server, or finds it gone and ends.               *)
LEMMA WriteMoves ==
  ASSUME ChatAssumption, ProcessTyped, SrvqTyped, NEW c \in Clients, Own(c), Filed(c),
         NEW t \in Threads, NEW m \in Asks, NEW to \in ClientLabels,
         WriteServer(c, t, m, to), m.internal_id = c, UNCHANGED <<spc, linked>>,
         \/ t = "main" /\ m.type = "J" /\ pc[c]["main"] = "join" /\ to = "chat"
         \/ /\ t = "main" /\ m.type = "M" /\ pc[c]["main"] = "write" /\ to = "chat"
            /\ m.n = said[c]
         \/ m.type = "L" /\ pc[c][t] = "leave" /\ to = "closesrv"
  PROVE  Moves(c)
<1>1. CASE ~ServerUp
  <2>1. ClientEnds(c) /\ srvq' = srvq
    BY <1>1, Zenon DEF WriteServer
  <2> QED BY <2>1, EndsMoves
<1>2. CASE ServerUp
  <2>1. /\ srvq' = Append(srvq, m)
        /\ pc' = [pc EXCEPT ![c][t] = to]
        /\ UNCHANGED <<server_fd, client_fd, crunning, said, cliq>>
    BY <1>2, Zenon DEF WriteServer
  <2>2. /\ pc'[c][t] = to /\ \A u \in Threads \ {t} : pc'[c][u] = pc[c][u]
        /\ \A d \in Clients \ {c} : pc'[d] = pc[d]
    BY <2>1 DEF ProcessTyped
  <2>3. OthersSame(c)
    BY <2>1, <2>2 DEF OthersSame
  <2>4. Own(c)' /\ Filed(c)'
    BY <2>1, <2>2 DEF Own, Filed, Threads, Leaving, Before, Chats, InLoop
  <2>5. AsksFor(c, m) /\ (pc'[c]["main"] \in Before => pc[c]["main"] \in Before)
    BY <2>1, <2>2 DEF AsksFor, Before, Chats, Own, Leaving, Threads
  <2>6. Len(cliq'[c]) <= Len(cliq[c])
    BY <2>1, LenProperties DEF ProcessTyped
  <2> QED BY <2>1, <2>3, <2>4, <2>5, <2>6 DEF Moves
<1> QED BY <1>1, <1>2

(* The steps up to the request to join.                                    *)
LEMMA ConnectMoves ==
  ASSUME ChatAssumption, ProcessTyped, SrvqTyped, NEW c \in Clients, Own(c), Filed(c), ServerSame,
         \/ MakeFifo(c) \/ OpenServer(c) \/ OpenClient(c) \/ StartReceiver(c) \/ SendJoin(c)
  PROVE  Moves(c)
<1> USE DEF Goto, ServerSame
<1>0. Len(cliq[c]) \in Nat
  BY LenProperties DEF ProcessTyped
<1>1. CASE MakeFifo(c)
  <2>1. \A d \in Clients \ {c} : d \in linked' <=> d \in linked
    BY <1>1 DEF MakeFifo
  <2> QED BY <1>0, <1>1, <2>1 
          DEF MakeFifo, Moves, Own, Filed, OthersSame, Quiet, Writes, Written, Threads, Leaving,
              Before, Chats, InLoop, ProcessTyped
<1>2. CASE OpenServer(c)
  <2>1. CASE srvLinked
    <3>1. /\ pc[c]["main"] = "fifo" /\ pc' = [pc EXCEPT ![c]["main"] = "half"]
          /\ UNCHANGED <<client_fd, crunning, said, cliq, linked, srvq>>
      BY <1>2, <2>1, Zenon DEF OpenServer
    <3> QED BY <1>0, <3>1
            DEF Moves, Own, Filed, OthersSame, Quiet, Writes, Written, Threads, Leaving, Before,
                Chats, InLoop, ProcessTyped
  <2>2. CASE ~srvLinked
    <3>1. ClientEnds(c) /\ linked' = linked \ {c} /\ srvq' = srvq
      BY <1>2, <2>2, Zenon DEF OpenServer
    <3> QED BY <3>1, EndsMoves
  <2> QED BY <2>1, <2>2
<1>3. CASE OpenClient(c)
  BY <1>0, <1>3
     DEF OpenClient, Moves, Own, Filed, OthersSame, Quiet, Writes, Written, Threads, Leaving,
         Before, Chats, InLoop, ProcessTyped
<1>4. CASE StartReceiver(c)
  <2>1. /\ pc[c]["main"] = "open" /\ pc'[c]["main"] = "join" /\ pc'[c]["recv"] = "poll"
        /\ \A d \in Clients \ {c} : pc'[d] = pc[d]
    BY <1>4 DEF StartReceiver, Threads, ProcessTyped
  <2>2. UNCHANGED <<server_fd, client_fd, crunning, said, srvq, cliq, linked>>
    BY <1>4 DEF StartReceiver
  <2>3. Own(c)'
    BY <2>1, <2>2 DEF Own, Threads, Leaving, Before, Chats
  <2>4. Filed(c)' /\ OthersSame(c) /\ Quiet(c)
    BY <2>1, <2>2 DEF Filed, OthersSame, Quiet, Writes, Written, Before, Chats, InLoop
  <2> QED BY <1>0, <2>1, <2>2, <2>3, <2>4 DEF Moves, Before
<1>5. CASE SendJoin(c)
  <2>1. [type |-> "J", internal_id |-> c, n |-> 0] \in Asks
    BY DEF Asks, ChatAssumption
  <2> QED BY <1>5, <2>1, WriteMoves DEF SendJoin, Threads, ClientLabels
<1> QED BY <1>1, <1>2, <1>3, <1>4, <1>5

(* The steps of a running client that end nothing.                         *)
LEMMA RunMoves ==
  ASSUME ChatAssumption, ProcessTyped, SrvqTyped, NEW c \in Clients, Own(c), Filed(c), ServerSame,
         \/ PollServer(c) \/ StopChatting(c) \/ SendLine(c) \/ PollOwn(c) \/ ReadOwn(c)
         \/ ReceiverReturns(c) \/ Kill(c) \/ \E t \in Threads : Interrupt(c, t)
  PROVE  Moves(c)
<1> USE DEF Goto, ServerSame
<1>0. Len(cliq[c]) \in Nat /\ cliq[c] \in Seq(Message) /\ said[c] \in Nat
  BY LenProperties DEF ProcessTyped, ChatAssumption
<1>1. CASE PollServer(c)
  <2>1. PICK r \in BOOLEAN :
          /\ pc[c]["main"] = "chat" /\ crunning[c]
          /\ pc' = [pc EXCEPT ![c]["main"] = IF r THEN "write" ELSE "leave"]
          /\ crunning' = [crunning EXCEPT ![c] = r]
    BY <1>1 DEF PollServer, ProcessTyped
  <2>2. said'[c] = said[c] + 1 /\ \A d \in Clients \ {c} : said'[d] = said[d]
    BY <1>1 DEF PollServer, ProcessTyped
  <2>3. UNCHANGED <<client_fd, srvq, cliq, linked>>
    BY <1>1 DEF PollServer
  <2>4. CASE r = TRUE
    <3>1. /\ pc'[c]["main"] = "write" /\ pc'[c]["recv"] = pc[c]["recv"] /\ crunning' = crunning
          /\ \A d \in Clients \ {c} : pc'[d] = pc[d]
      BY <2>1, <2>4 DEF ProcessTyped, Threads
    <3>2. Own(c)'
      BY <1>0, <2>1, <2>2, <2>3, <3>1 DEF Own, Threads, Leaving, Chats, Before
    <3>3. Filed(c)' /\ OthersSame(c) /\ Quiet(c)
      BY <1>0, <2>1, <2>2, <2>3, <3>1
         DEF Filed, OthersSame, Quiet, Writes, Written, Before, Chats, InLoop
    <3> QED BY <1>0, <2>3, <3>1, <3>2, <3>3 DEF Moves, Before
  <2>5. CASE r = FALSE
    BY <1>0, <2>1, <2>2, <2>3, <2>5
       DEF Moves, Own, Filed, OthersSame, Quiet, Writes, Written, Threads, Leaving, Before,
                Chats, InLoop, ProcessTyped
  <2> QED BY <2>4, <2>5
<1>2. CASE StopChatting(c)
  BY <1>0, <1>2
     DEF Moves, Own, Filed, OthersSame, Quiet, Writes, Written, Threads, Leaving, Before,
                Chats, InLoop, ProcessTyped, StopChatting
<1>3. CASE SendLine(c)
  <2>1. CASE server_fd[c] = TRUE
    <3>1. [type |-> "M", internal_id |-> c, n |-> said[c]] \in Asks
      BY DEF Asks, ProcessTyped
    <3> QED BY <1>3, <2>1, <3>1, WriteMoves DEF SendLine, Threads, ClientLabels
  <2>2. CASE server_fd[c] = FALSE
    <3>1. /\ pc[c]["main"] = "write" /\ pc' = [pc EXCEPT ![c]["main"] = "leave"]
          /\ crunning' = [crunning EXCEPT ![c] = FALSE]
          /\ UNCHANGED <<server_fd, client_fd, said, srvq, cliq, linked>>
      BY <1>3, <2>2, Zenon DEF SendLine
    <3> QED BY <1>0, <3>1
            DEF Moves, Own, Filed, OthersSame, Quiet, Writes, Written, Threads, Leaving, Before,
                Chats, InLoop, ProcessTyped
  <2> QED BY <2>1, <2>2 DEF ProcessTyped
<1>4. CASE Kill(c)
  BY <1>4, EndsMoves DEF Kill
<1>5. CASE PollOwn(c)
  BY <1>0, <1>5
     DEF Moves, Own, Filed, OthersSame, Quiet, Writes, Written, Threads, Leaving, Before,
                Chats, InLoop, ProcessTyped, PollOwn
<1>6. CASE ReceiverReturns(c)
  BY <1>0, <1>6
     DEF Moves, Own, Filed, OthersSame, Quiet, Writes, Written, Threads, Leaving, Before,
                Chats, InLoop, ProcessTyped, ReceiverReturns
<1>7. CASE ReadOwn(c)
  <2>1. CASE client_fd[c] = FALSE
    BY <1>7, <2>1, EndsMoves DEF ReadOwn
  <2>2. CASE client_fd[c] = TRUE
    <3>1. PICK r \in BOOLEAN, l \in {"leave", "poll", "returned"} :
            /\ pc' = [pc EXCEPT ![c]["recv"] = l]
            /\ crunning' = [crunning EXCEPT ![c] = crunning[c] /\ r]
            /\ l = "leave" => ~r
      <4> DEFINE r == Head(cliq[c]).type # "S"
                 l == CASE Head(cliq[c]).type = "S" -> "leave"
                        [] Head(cliq[c]).type # "S" /\ crunning[c] -> "poll"
                        [] OTHER -> "returned"
      <4>1. /\ pc' = [pc EXCEPT ![c]["recv"] = l]
            /\ crunning' = [crunning EXCEPT ![c] = crunning[c] /\ r]
        BY <1>7, <2>2, Zenon DEF ReadOwn
      <4>2. r \in BOOLEAN /\ l \in {"leave", "poll", "returned"} /\ (l = "leave" => ~r)
        OBVIOUS
      <4> HIDE DEF r, l
      <4> QED BY <4>1, <4>2
    <3>2. /\ pc[c]["recv"] = "read" /\ cliq' = [cliq EXCEPT ![c] = Tail(cliq[c])]
          /\ UNCHANGED <<server_fd, client_fd, said, srvq, linked>>
      BY <1>7, <2>2, Zenon DEF ReadOwn
    <3>3. Len(Tail(cliq[c])) = Len(cliq[c]) - 1
      BY <1>0, <2>2, <3>2, TailIs DEF Own
    <3>4. Len(cliq'[c]) <= Len(cliq[c]) /\ \A d \in Clients \ {c} : cliq'[d] = cliq[d]
      BY <1>0, <3>2, <3>3 DEF ProcessTyped
    <3>5. /\ pc'[c]["main"] = pc[c]["main"] /\ pc'[c]["recv"] = l
          /\ \A d \in Clients \ {c} : pc'[d] = pc[d] /\ crunning'[d] = crunning[d]
          /\ (crunning'[c] <=> crunning[c] /\ r)
      <4>1. /\ pc'[c]["main"] = pc[c]["main"] /\ pc'[c]["recv"] = l
            /\ \A d \in Clients \ {c} : pc'[d] = pc[d]
        BY <3>1 DEF ProcessTyped, Threads
      <4>2. \A d \in Clients \ {c} : crunning'[d] = crunning[d]
        BY <3>1 DEF ProcessTyped
      <4>3. crunning'[c] <=> crunning[c] /\ r
        BY <3>1, Zenon DEF ProcessTyped
      <4> QED BY <4>1, <4>2, <4>3
    <3> QED BY <3>1, <3>2, <3>4, <3>5
            DEF Moves, Own, Filed, OthersSame, Quiet, Writes, Written, Threads, Leaving, Before,
                Chats, InLoop, ProcessTyped
  <2> QED BY <2>1, <2>2 DEF ProcessTyped
<1>8. CASE \E t \in Threads : Interrupt(c, t)
  <2>1. PICK t \in Threads : Interrupt(c, t)
    BY <1>8
  <2>2. /\ pc'[c][t] = "leave" /\ \A u \in Threads \ {t} : pc'[c][u] = pc[c][u]
        /\ \A d \in Clients \ {c} : pc'[d] = pc[d]
    BY <2>1 DEF Interrupt, ProcessTyped
  <2> QED BY <1>0, <2>1, <2>2
          DEF Moves, Own, Filed, OthersSame, Quiet, Writes, Written, Threads, Leaving, Before,
                Chats, InLoop, ProcessTyped, Interrupt
<1> QED BY <1>1, <1>2, <1>3, <1>4, <1>5, <1>6, <1>7, <1>8

(* The steps of cleanup(), in either thread.                               *)
LEMMA CleanupMoves ==
  ASSUME ChatAssumption, ProcessTyped, SrvqTyped, NEW c \in Clients, Own(c), Filed(c), ServerSame,
         NEW t \in Threads, cleanup(c, t)
  PROVE  Moves(c)
<1> USE DEF ServerSame
<1>0. Len(cliq[c]) \in Nat
  BY LenProperties DEF ProcessTyped
<1>1. CASE SendLeave(c, t)
  <2>1. CASE server_fd[c] = TRUE
    <3>1. [type |-> "L", internal_id |-> c, n |-> 0] \in Asks
      BY DEF Asks, ChatAssumption
    <3> QED BY <1>1, <2>1, <3>1, WriteMoves DEF SendLeave, ClientLabels
  <2>2. CASE server_fd[c] = FALSE
    <3>1. /\ pc[c][t] = "leave" /\ pc' = [pc EXCEPT ![c][t] = "closecli"]
          /\ UNCHANGED <<client_fd, crunning, said, srvq, cliq, linked>>
      BY <1>1, <2>2, Zenon DEF SendLeave
    <3>2. /\ pc'[c][t] = "closecli" /\ \A u \in Threads \ {t} : pc'[c][u] = pc[c][u]
          /\ \A d \in Clients \ {c} : pc'[d] = pc[d]
      BY <3>1 DEF ProcessTyped
    <3> QED BY <1>0, <3>1, <3>2
            DEF Moves, Own, Filed, OthersSame, Quiet, Writes, Written, Threads, Leaving, Before,
             Chats, InLoop
  <2> QED BY <2>1, <2>2 DEF ProcessTyped
<1>2. CASE CloseServer(c, t) \/ CloseClient(c, t)
  <2>1. /\ pc[c][t] \in Leaving /\ pc'[c][t] \in Leaving
        /\ \A u \in Threads \ {t} : pc'[c][u] = pc[c][u]
        /\ \A d \in Clients \ {c} : pc'[d] = pc[d]
    BY <1>2 DEF CloseServer, CloseClient, Goto, Leaving, ProcessTyped
  <2>2. /\ \/ client_fd'[c] = FALSE /\ cliq'[c] = <<>>
           \/ client_fd'[c] = client_fd[c] /\ cliq'[c] = cliq[c]
        /\ \A d \in Clients \ {c} :
              /\ client_fd'[d] = client_fd[d] /\ cliq'[d] = cliq[d]
              /\ (d \in linked' <=> d \in linked)
        /\ UNCHANGED <<crunning, said, srvq>>
    BY <1>2 DEF CloseServer, CloseClient, ProcessTyped
  <2>3. ~crunning[c]
    BY <2>1 DEF Own
  <2>4. Len(cliq'[c]) <= Len(cliq[c])
    BY <1>0, <2>2
  <2>5. Own(c)'
    BY <2>1, <2>2, <2>3 DEF Own, Threads, Leaving, Before, Chats
  <2>6. Filed(c)' /\ OthersSame(c) /\ Quiet(c) /\ (pc'[c]["main"] \in Before => pc[c]["main"] \in Before)
    BY <2>1, <2>2, <2>3 DEF Filed, OthersSame, Quiet, Writes, Written, Threads, Leaving, Before, Chats
  <2> QED BY <2>2, <2>3, <2>4, <2>5, <2>6 DEF Moves
<1>3. CASE JoinAndExit(c, t)
  BY <1>3, EndsMoves DEF JoinAndExit
<1> QED BY <1>1, <1>2, <1>3 DEF cleanup

(* All that the rest of the proof has to know of a client's step.          *)
LEMMA ClientMoves ==
  ASSUME ChatAssumption, ProcessTyped, SrvqTyped, NEW c \in Clients, Own(c), Filed(c), ClientStep(c)
  PROVE  ServerSame /\ Moves(c)
<1>1. ServerSame
  BY ClientLeavesServer
<1>2. CASE \E t \in Threads : cleanup(c, t)
  BY <1>1, <1>2, CleanupMoves
<1>3. CASE ~\E t \in Threads : cleanup(c, t)
  <2>1. \/ MakeFifo(c) \/ OpenServer(c) \/ OpenClient(c) \/ StartReceiver(c) \/ SendJoin(c)
        \/ PollServer(c) \/ StopChatting(c) \/ SendLine(c) \/ PollOwn(c) \/ ReadOwn(c)
        \/ ReceiverReturns(c) \/ Kill(c) \/ \E t \in Threads : Interrupt(c, t)
    BY <1>3, ClientCases DEF cleanup
  <2> QED BY <1>1, <2>1, ConnectMoves, RunMoves
<1> QED BY <1>1, <1>2, <1>3

-----------------------------------------------------------------------------
(***************************************************************************)
(* What a step of the server can do.                                       *)
(***************************************************************************)
ListTyped ==
  /\ spc \in ServerLabels /\ clients \in Seq(Entry) /\ current \in Seq(Entry)
  /\ msg \in Message \union {NoMsg} /\ running \in BOOLEAN /\ srvLinked \in BOOLEAN
  /\ handling \in 0 .. Signals
  /\ linked \subseteq Clients /\ pressed \subseteq Clients
  /\ delivered \in [Clients -> Seq(Message)] /\ overflow \subseteq Clients

(* The FIFO of c and its history get m, unless the FIFO is full.           *)
Same(c) == cliq'[c] = cliq[c] /\ delivered'[c] = delivered[c]

Gets(c, m) ==
  /\ Len(cliq[c]) < PIPE
  /\ cliq'[c] = Append(cliq[c], m) /\ delivered'[c] = Append(delivered[c], m)

Serves(c, m) ==
  /\ \A d \in Clients \ {c} : Same(d)
  /\ \/ Gets(c, m) /\ overflow' = overflow
     \/ Same(c) /\ overflow' = overflow \union {c} /\ Len(cliq[c]) >= PIPE
  /\ cliq' \in [Clients -> Seq(Message)] /\ delivered' \in [Clients -> Seq(Message)]
  /\ \A d \in Clients : Len(cliq'[d]) <= PIPE

(* The same for the write of a Message to the FIFO of a client.            *)
LEMMA ServesIs ==
  ASSUME ChatAssumption, ProcessTyped, ListTyped, NEW c \in Clients, NEW m \in Message,
         WriteClient(c, m)
  PROVE  Serves(c, m)
<1>1. cliq[c] \in Seq(Message) /\ delivered[c] \in Seq(Message) /\ Len(cliq[c]) \in Nat
  BY LenProperties DEF ProcessTyped, ListTyped
<1>2. CASE Len(cliq[c]) < PIPE
  <2>1. /\ cliq' = [cliq EXCEPT ![c] = Append(cliq[c], m)]
        /\ delivered' = [delivered EXCEPT ![c] = Append(delivered[c], m)]
        /\ overflow' = overflow
    BY <1>2, Zenon DEF WriteClient
  <2>2. /\ Append(cliq[c], m) \in Seq(Message) /\ Append(delivered[c], m) \in Seq(Message)
        /\ Len(Append(cliq[c], m)) <= PIPE
    BY <1>1, <1>2, AppendIs DEF ChatAssumption
  <2>3. Gets(c, m) /\ \A d \in Clients \ {c} : Same(d)
    BY <1>2, <2>1 DEF Gets, Same, ProcessTyped, ListTyped
  <2>4. /\ cliq' \in [Clients -> Seq(Message)] /\ delivered' \in [Clients -> Seq(Message)]
        /\ \A d \in Clients : Len(cliq'[d]) <= PIPE
    BY <2>1, <2>2 DEF ProcessTyped, ListTyped
  <2> QED BY <2>1, <2>3, <2>4 DEF Serves
<1>3. CASE ~(Len(cliq[c]) < PIPE)
  <2>1. overflow' = overflow \union {c} /\ cliq' = cliq /\ delivered' = delivered
    BY <1>3, Zenon DEF WriteClient
  <2> QED BY <1>1, <1>3, <2>1 DEF Serves, Same, ProcessTyped, ListTyped, ChatAssumption
<1> QED BY <1>2, <1>3

(* A run of the signal handler has begun, or none.                         *)
Raised == handling' = handling \/ (handling < Signals /\ handling' = handling + 1)

(* The server has ended, by itself or by a signal.                         *)
Gone ==
  /\ spc' \in {"exited", "killed"} /\ clients' = <<>> /\ current' = <<>>
  /\ srvLinked' \in {srvLinked, FALSE} /\ running' \in {running, FALSE} /\ Raised
  /\ UNCHANGED <<msg, srvq, cliq, linked, delivered, overflow>>

LEMMA SigpipeIs ==
  ASSUME Sigpipe PROVE Gone
  BY DEF Sigpipe, ServerEnds, Gone, Raised, hist

WelcomeStep(c) ==
  /\ spc = "welcome" /\ spc' = "send" /\ current' = clients
  /\ c = msg.internal_id
  /\ \/ Reachable(c) /\ client_fd[c] /\ Serves(c, [msg EXCEPT !.type = "W"])
     \/ ~Reachable(c) /\ UNCHANGED <<cliq, delivered, overflow>>
  /\ UNCHANGED <<clients, msg, running, handling, srvLinked, srvq, linked>>

(* A welcome goes to the newcomer, if its FIFO could be opened.            *)
LEMMA WelcomeIs ==
  ASSUME ChatAssumption, ProcessTyped, SrvqTyped, ListTyped, Handling, SendWelcome
  PROVE  Gone \/ \E c \in Clients : WelcomeStep(c)
<1> DEFINE c == msg.internal_id
<1>1. msg \in Asks /\ c \in Clients /\ spc = "welcome" 
  BY DEF Handling, SendWelcome, Asks
<1>2. [msg EXCEPT !.type = "W"] \in Message
  BY <1>1 DEF Asks, Message
<1>3. CASE Reachable(c) /\ ~client_fd[c]
  BY <1>3, SigpipeIs, Zenon DEF SendWelcome
<1>4. CASE ~(Reachable(c) /\ ~client_fd[c])
  <2>1. /\ IF Reachable(c) THEN WriteClient(c, [msg EXCEPT !.type = "W"])
                            ELSE UNCHANGED <<cliq, delivered, overflow>>
        /\ spc' = "send" /\ current' = clients
        /\ UNCHANGED <<clients, msg, running, handling, srvLinked, client, srvq, linked>>
    BY <1>4, Zenon DEF SendWelcome
  <2>2. CASE Reachable(c)
    <3>1. Serves(c, [msg EXCEPT !.type = "W"])
      BY <1>1, <1>2, <2>1, <2>2, ServesIs
    <3> QED BY <1>1, <1>4, <2>1, <2>2, <3>1 DEF WelcomeStep
  <2>3. CASE ~Reachable(c)
    BY <1>1, <2>1, <2>3 DEF WelcomeStep
  <2> QED BY <2>2, <2>3
<1> QED BY <1>3, <1>4

PassStep ==
  /\ spc = "send" /\ current # <<>> /\ current' = Tail(current)
  /\ LET e == Head(current)
     IN  \/ /\ e.internal_id = msg.internal_id \/ ~e.fd
            /\ UNCHANGED <<cliq, delivered, overflow>>
         \/ /\ e.internal_id # msg.internal_id /\ e.fd
            /\ Serves(e.internal_id, msg)
  /\ UNCHANGED <<spc, clients, msg, running, handling, srvLinked, srvq, linked>>

(* One entry of the list is visited, and skipped or served.                *)
LEMMA PassIs ==
  ASSUME ChatAssumption, ProcessTyped, SrvqTyped, ListTyped, Handling, SendNext
  PROVE  Gone \/ PassStep
<1> DEFINE e == Head(current)
           skip == e.internal_id = msg.internal_id \/ ~e.fd
<1>1. spc = "send" /\ current # <<>> /\ msg \in Asks
  BY DEF SendNext, Handling
<1>2. msg \in Message
  BY <1>1 DEF Asks, Message
<1>3. e \in Entry
  BY <1>1, TailIs DEF ListTyped
<1>4. CASE ~skip /\ ~client_fd[e.internal_id]
  BY <1>4, SigpipeIs, Zenon DEF SendNext
<1>5. CASE ~(~skip /\ ~client_fd[e.internal_id])
  <2>1. /\ IF skip THEN UNCHANGED <<cliq, hist>> ELSE WriteClient(e.internal_id, msg)
        /\ current' = Tail(current)
        /\ UNCHANGED <<spc, clients, msg, running, handling, srvLinked, client, srvq, linked>>
    BY <1>5, Zenon DEF SendNext
  <2>2. CASE skip
    BY <1>1, <2>1, <2>2 DEF PassStep, hist
  <2>3. CASE ~skip
    <3>1. Serves(e.internal_id, msg)
      BY <1>2, <1>3, <2>1, <2>3, ServesIs DEF Entry
    <3> QED BY <1>1, <2>1, <2>3, <3>1 DEF PassStep
  <2> QED BY <2>2, <2>3
<1> QED BY <1>4, <1>5

ByeStep ==
  /\ spc = "cleanup" /\ current # <<>> /\ spc' = "close"
  /\ LET e == Head(current)
     IN  \/ ~e.fd /\ UNCHANGED <<cliq, delivered, overflow>>
         \/ e.fd /\ Serves(e.internal_id, [type |-> "S"])
  /\ UNCHANGED <<clients, msg, current, running, handling, srvLinked, srvq, linked>>

(* One entry of the list gets the notice ...                               *)
LEMMA ByeIs ==
  ASSUME ChatAssumption, ProcessTyped, SrvqTyped, ListTyped, CleanupNext
  PROVE  Gone \/ ByeStep
<1> DEFINE e == Head(current)
<1>1. spc = "cleanup" /\ current # <<>>
  BY DEF CleanupNext
<1>2. [type |-> "S"] \in Message
  BY DEF Message
<1>3. e \in Entry
  BY <1>1, TailIs DEF ListTyped
<1>4. CASE e.fd /\ ~client_fd[e.internal_id]
  BY <1>4, SigpipeIs, Zenon DEF CleanupNext
<1>5. CASE ~(e.fd /\ ~client_fd[e.internal_id])
  <2>1. /\ IF e.fd THEN WriteClient(e.internal_id, [type |-> "S"]) ELSE UNCHANGED <<cliq, hist>>
        /\ spc' = "close"
        /\ UNCHANGED <<clients, msg, current, running, handling, srvLinked, client, srvq, linked>>
    BY <1>5, Zenon DEF CleanupNext
  <2>2. CASE ~e.fd
    <3>1. UNCHANGED <<cliq, hist>>
      BY <2>1, <2>2, Zenon
    <3> QED BY <1>1, <2>1, <2>2, <3>1 DEF ByeStep, hist
  <2>3. CASE e.fd
    <3>1. WriteClient(e.internal_id, [type |-> "S"])
      BY <2>1, <2>3, Zenon
    <3>2. Serves(e.internal_id, [type |-> "S"])
      BY <1>2, <1>3, <3>1, ServesIs DEF Entry
    <3> QED BY <1>1, <2>1, <2>3, <3>2 DEF ByeStep
  <2> QED BY <2>2, <2>3
<1> QED BY <1>4, <1>5

(* ... and is closed and freed.                                            *)
FreeStep ==
  /\ spc = "close" /\ spc' = "cleanup" /\ current' = Tail(current)
  /\ linked' = linked \ {Head(current).internal_id}
  /\ UNCHANGED <<clients, msg, running, handling, srvLinked, srvq, cliq, delivered, overflow>>

(* remove_user takes the first entry of that id off the list.              *)
RemoveStep ==
  /\ spc = "remove" /\ spc' = "poll"
  /\ \/ Listed(msg.internal_id) = {} /\ clients' = clients
     \/ \E k \in Listed(msg.internal_id) :
          clients' = Without(clients, k)
  /\ UNCHANGED <<msg, current, running, handling, srvLinked, srvq, cliq, linked, delivered, overflow>>

LEMMA RemoveIs ==
  ASSUME ListTyped, remove_user
  PROVE  RemoveStep
<1> DEFINE found == {k \in DOMAIN clients : clients[k].internal_id = msg.internal_id}
           k == CHOOSE j \in found : \A l \in found : j <= l
<1>1. CASE found = {}
  BY <1>1 DEF remove_user, RemoveStep, Listed, hist
<1>2. CASE found # {}
  <2>1. found \subseteq Nat
    BY LenProperties DEF ListTyped
  <2>2. \E j \in found : \A l \in found : j <= l
    BY <1>2, <2>1, SmallestOf
  <2>3. k \in found
    BY <2>2
  <2>4. clients' = Without(clients, k)
    BY <1>2 DEF remove_user, Without
  <2> HIDE DEF k
  <2> QED BY <2>3, <2>4 DEF remove_user, RemoveStep, Listed, hist
<1> QED BY <1>1, <1>2

(* It stops serving: its loop has ended, or a signal has come ...          *)
ShutStep ==
  /\ InLoop /\ spc' = "cleanup" /\ current' = clients /\ running' \in {running, FALSE} /\ Raised
  /\ UNCHANGED <<clients, msg, srvLinked, srvq, cliq, linked, delivered, overflow>>

(* ... and one that comes while it shuts down starts cleanup() again.      *)
AgainStep ==
  /\ CleaningUp /\ spc' = "cleanup" /\ running' = FALSE
  /\ handling < Signals /\ handling' = handling + 1
  /\ UNCHANGED <<clients, msg, current, srvLinked, srvq, cliq, linked, delivered, overflow>>

ServerStep == ServerMain \/ Close \/ handle_signal

LEMMA SignalIs ==
  ASSUME ListTyped, handle_signal
  PROVE  Gone \/ ShutStep \/ AgainStep
<1>1. CASE ServerEnds("killed")
  BY <1>1 DEF handle_signal, ServerEnds, Gone, Raised, hist
<1>2. CASE ~ServerEnds("killed")
  <2>1. /\ handling < Signals /\ handling' = handling + 1 /\ running' = FALSE /\ ServerUp
        /\ spc' = "cleanup" /\ current' = IF CleaningUp THEN current ELSE clients
        /\ UNCHANGED <<clients, msg, srvLinked, srvq, cliq, linked, delivered, overflow>>
    BY <1>2 DEF handle_signal, hist
  <2>2. CASE CleaningUp
    BY <2>1, <2>2 DEF AgainStep
  <2>3. CASE ~CleaningUp
    <3>1. InLoop
      BY <2>1, <2>3 DEF ListTyped, ServerLabels, ServerUp, CleaningUp, InLoop
    <3> QED BY <2>1, <2>3, <3>1 DEF ShutStep, Raised
  <2> QED BY <2>2, <2>3
<1> QED BY <1>1, <1>2

(* All that the rest of the proof has to know of a server's step.          *)
LEMMA ServerCases ==
  ASSUME ChatAssumption, ProcessTyped, SrvqTyped, ListTyped, Handling, ServerStep
  PROVE  \/ Gone \/ ReadMessage \/ create_user \/ (\E c \in Clients : WelcomeStep(c)) \/ PassStep
         \/ SendDone \/ RemoveStep \/ Close \/ ShutStep \/ AgainStep \/ ByeStep \/ FreeStep
<1>1. CASE LeaveLoop
  BY <1>1 DEF LeaveLoop, ShutStep, Raised, InLoop, hist
<1>2. CASE CleanupDone
  BY <1>2 DEF CleanupDone, ServerEnds, Gone, Raised, hist
<1>3. CASE CleanupFree
  BY <1>3 DEF CleanupFree, FreeStep, hist
<1> QED BY <1>1, <1>2, <1>3, WelcomeIs, PassIs, RemoveIs, ByeIs, SignalIs DEF ServerStep, ServerMain

LEMMA ServerLeavesClients ==
  ASSUME ServerStep PROVE UNCHANGED client
<1>1. CASE SendNext \/ SendWelcome \/ CleanupNext
  BY <1>1 DEF SendNext, SendWelcome, CleanupNext, Sigpipe
<1>2. CASE ~(SendNext \/ SendWelcome \/ CleanupNext)
  BY <1>2 DEF ServerStep, ServerMain, ReadMessage, create_user, SendDone, remove_user, LeaveLoop,
              CleanupFree, CleanupDone, Close, handle_signal
<1> QED BY <1>1, <1>2

(* The types of what the server holds.                                     *)
LEMMA ServerTyped ==
  ASSUME ChatAssumption, ProcessTyped, SrvqTyped, ListTyped, Handling, ServerStep
  PROVE  ProcessTyped' /\ SrvqTyped' /\ ListTyped'
<1> USE DEF ServerLabels
<1>0. UNCHANGED <<pc, server_fd, client_fd, crunning, said, pressed>>
  BY ServerLeavesClients DEF client
<1>1. CASE Gone
  <2>1. srvLinked' \in BOOLEAN /\ running' \in BOOLEAN
    BY <1>1 DEF Gone, ListTyped
  <2>4. handling' \in 0 .. Signals
    BY <1>1 DEF Gone, Raised, ListTyped, ChatAssumption
  <2>2. clients' \in Seq(Entry) /\ current' \in Seq(Entry) /\ spc' \in ServerLabels
    BY <1>1 DEF Gone
  <2>3. UNCHANGED <<msg, srvq, cliq, linked, delivered, overflow>>
    BY <1>1 DEF Gone
  <2> QED BY <1>0, <2>1, <2>2, <2>3, <2>4 DEF ProcessTyped, SrvqTyped, ListTyped
<1>2. CASE ReadMessage
  <2>1. srvq # <<>>
    BY <1>2 DEF ReadMessage
  <2>2. /\ Tail(srvq) \in Seq(Message) /\ Tail(srvq) \in Seq(Asks) /\ Head(srvq) \in Message
        /\ Len(Tail(srvq)) <= PIPE
    BY <2>1, TailIs DEF SrvqTyped, ChatAssumption
  <2> QED BY <1>0, <1>2, <2>2 DEF ReadMessage, ProcessTyped, SrvqTyped, ListTyped, hist
<1>3. CASE create_user
  <2>1. msg.internal_id \in Clients
    BY <1>3 DEF create_user, Handling, Asks
  <2> DEFINE e == [internal_id |-> msg.internal_id,
                   fd |-> msg.internal_id \in linked /\ client_fd[msg.internal_id]]
  <2>2. e \in Entry
    BY <2>1 DEF Entry, ProcessTyped
  <2>3. clients' = <<e>> \o clients
    BY <1>3 DEF create_user
  <2> HIDE DEF e
  <2>4. clients' \in Seq(Entry)
    BY <2>2, <2>3, ConsIs DEF ListTyped
  <2> QED BY <1>0, <1>3, <2>4 DEF create_user, ProcessTyped, SrvqTyped, ListTyped, hist
<1>4. CASE \E c \in Clients : WelcomeStep(c)
  <2>1. PICK c \in Clients : WelcomeStep(c)
    BY <1>4
  <2> QED BY <1>0, <2>1 DEF WelcomeStep, Serves, ProcessTyped, SrvqTyped, ListTyped
<1>5. CASE PassStep
  <2>1. Head(current) \in Entry /\ Tail(current) \in Seq(Entry)
    BY <1>5, TailIs DEF PassStep, ListTyped
  <2> QED BY <1>0, <1>5, <2>1 DEF PassStep, Serves, ProcessTyped, SrvqTyped, ListTyped, Entry
<1>6. CASE SendDone \/ Close \/ ShutStep \/ AgainStep
  <2>1. UNCHANGED <<clients, msg, srvLinked, srvq, cliq, linked, delivered, overflow>>
    BY <1>6 DEF SendDone, Close, ShutStep, AgainStep, hist
  <2>2. spc' \in ServerLabels
    BY <1>6 DEF SendDone, Close, ShutStep, AgainStep, ListTyped
  <2>3. current' \in Seq(Entry)
    BY <1>6 DEF SendDone, Close, ShutStep, AgainStep, ListTyped
  <2>4. running' \in BOOLEAN
    BY <1>6 DEF SendDone, Close, ShutStep, AgainStep, ListTyped
  <2>5. handling' \in 0 .. Signals
    <3>1. Raised
      BY <1>6 DEF SendDone, Close, ShutStep, AgainStep, Raised
    <3> QED BY <3>1 DEF Raised, ListTyped, ChatAssumption
  <2> QED BY <1>0, <2>1, <2>2, <2>3, <2>4, <2>5 DEF ProcessTyped, SrvqTyped, ListTyped
<1>7. CASE RemoveStep
  <2>1. clients' \in Seq(Entry)
    <3>1. CASE Listed(msg.internal_id) = {}
      BY <1>7, <3>1 DEF RemoveStep, ListTyped
    <3>2. CASE Listed(msg.internal_id) # {}
      <4>1. PICK k \in Listed(msg.internal_id) :
              clients' = Without(clients, k)
        BY <1>7, <3>2 DEF RemoveStep
      <4>2. Len(clients) \in Nat /\ k \in Int /\ 1 <= k /\ k <= Len(clients)
        BY LenProperties DEF ListTyped, Listed
      <4>3. clients \in Seq(Entry)
        BY DEF ListTyped
      <4>4. Without(clients, k) \in Seq(Entry)
        BY <4>2, <4>3, WithoutIs
      <4> QED BY <4>1, <4>4
    <3> QED BY <3>1, <3>2
  <2> QED BY <1>0, <1>7, <2>1 DEF RemoveStep, ProcessTyped, SrvqTyped, ListTyped
<1>8. CASE ByeStep
  <2>1. Head(current) \in Entry
    BY <1>8, TailIs DEF ByeStep, ListTyped
  <2> QED BY <1>0, <1>8, <2>1 DEF ByeStep, Serves, ProcessTyped, SrvqTyped, ListTyped, Entry
<1>9. CASE FreeStep
  <2>1. Tail(current) \in Seq(Entry)
    BY <1>9, TailIs DEF FreeStep, Handling, ListTyped
  <2> QED BY <1>0, <1>9, <2>1 DEF FreeStep, ProcessTyped, SrvqTyped, ListTyped
<1> QED BY <1>1, <1>2, <1>3, <1>4, <1>5, <1>6, <1>7, <1>8, <1>9, ServerCases

(* What the server has in hand fits where it stands.                       *)
LEMMA ServerHandling ==
  ASSUME ChatAssumption, ProcessTyped, SrvqTyped, ListTyped, Handling, ServerStep
  PROVE  Handling'
<1>0. srvq' \in Seq(Asks)
  BY ServerTyped DEF SrvqTyped
<1>1. CASE Gone \/ Close \/ ShutStep \/ AgainStep
  BY <1>0, <1>1 DEF Gone, Close, ShutStep, AgainStep, hist, Handling
<1>2. CASE ReadMessage
  <2>1. Head(srvq) \in Asks
    BY <1>2, TailIs DEF ReadMessage, SrvqTyped
  <2> QED BY <1>0, <1>2, <2>1 DEF ReadMessage, Handling, Asks
<1>3. CASE create_user
  BY <1>0, <1>3 DEF create_user, Handling
<1>4. CASE \E c \in Clients : WelcomeStep(c)
  BY <1>0, <1>4 DEF WelcomeStep, Handling
<1>5. CASE PassStep
  <2>1. \A k \in DOMAIN current' : k + 1 \in DOMAIN current /\ current'[k] = current[k + 1]
    BY <1>5, TailIs DEF PassStep, ListTyped
  <2> QED BY <1>0, <1>5, <2>1 DEF PassStep, Handling
<1>6. CASE SendDone
  BY <1>0, <1>6 DEF SendDone, Handling, Asks
<1>7. CASE RemoveStep
  BY <1>0, <1>7 DEF RemoveStep, Handling
<1>8. CASE ByeStep
  BY <1>0, <1>8 DEF ByeStep, Handling
<1>9. CASE FreeStep
  <2>1. \A k \in DOMAIN current' : k + 1 \in DOMAIN current /\ current'[k] = current[k + 1]
    BY <1>9, TailIs DEF FreeStep, Handling, ListTyped
  <2> QED BY <1>0, <1>9, <2>1 DEF FreeStep, Handling
<1> QED BY <1>1, <1>2, <1>3, <1>4, <1>5, <1>6, <1>7, <1>8, <1>9, ServerCases

(* The server sends at most one Message to a client at a time.             *)
LEMMA ServerSends ==
  ASSUME ChatAssumption, ProcessTyped, SrvqTyped, ListTyped, Handling, ServerStep, NEW c \in Clients
  PROVE  Same(c) \/ \E m \in Message : Gets(c, m)
<1>1. CASE Gone \/ ReadMessage \/ create_user \/ SendDone \/ RemoveStep \/ Close \/ ShutStep
          \/ AgainStep \/ FreeStep
  BY <1>1 DEF Gone, ReadMessage, create_user, SendDone, RemoveStep, Close, ShutStep, AgainStep,
              FreeStep, hist, Same
<1>2. CASE \E d \in Clients : WelcomeStep(d)
  <2>1. PICK d \in Clients : WelcomeStep(d)
    BY <1>2
  <2>2. [msg EXCEPT !.type = "W"] \in Message
    BY <2>1 DEF WelcomeStep, Handling, Asks, Message
  <2> QED BY <2>1, <2>2 DEF WelcomeStep, Serves, Same
<1>3. CASE PassStep
  <2>1. msg \in Message
    BY <1>3 DEF PassStep, Handling, Asks, Message
  <2> QED BY <1>3, <2>1 DEF PassStep, Serves, Same
<1>4. CASE ByeStep
  <2>1. [type |-> "S"] \in Message
    BY DEF Message
  <2> QED BY <1>4, <2>1 DEF ByeStep, Serves, Same
<1> QED BY <1>1, <1>2, <1>3, <1>4, ServerCases

(* No step of the server is a step of a client: at most, its FIFO fills.   *)
LEMMA ServerOwn ==
  ASSUME ChatAssumption, ProcessTyped, SrvqTyped, ListTyped, Handling, ServerStep,
         NEW c \in Clients, Own(c), Filed(c)
  PROVE  Own(c)' /\ Filed(c)'
<1>0. UNCHANGED <<pc, server_fd, client_fd, crunning, said, pressed>>
  BY ServerLeavesClients DEF client
<1>1. Same(c) \/ \E m \in Message : Gets(c, m)
  BY ServerSends
<1>2. cliq[c] # <<>> => cliq'[c] # <<>>
  BY <1>1, AppendIs DEF Gets, Same, ProcessTyped
<1>3. InLoop' => InLoop /\ linked' = linked
  <2>1. CASE Gone \/ ShutStep \/ AgainStep \/ ByeStep \/ FreeStep
    BY <2>1 DEF Gone, ShutStep, AgainStep, ByeStep, FreeStep, InLoop
  <2>2. CASE ~(Gone \/ ShutStep \/ AgainStep \/ ByeStep \/ FreeStep)
    BY <2>2, ServerCases DEF ReadMessage, create_user, WelcomeStep, PassStep, SendDone, RemoveStep,
                             Close, InLoop
  <2> QED BY <2>1, <2>2
<1> QED BY <1>0, <1>2, <1>3 DEF Own, Filed

(* Nothing is in a FIFO that was not sent to its client.                   *)
Sent == \A c \in Clients : Len(cliq[c]) <= Len(delivered[c])

(* A FIFO grows only with the history of what was sent.                    *)
LEMMA StepSent ==
  ASSUME ChatAssumption, ProcessTyped, SrvqTyped, ListTyped, Sent,
         ProcessTyped', ListTyped', NEW c \in Clients,
         \/ Same(c) \/ \E m \in Message : Gets(c, m)
         \/ Len(cliq'[c]) <= Len(cliq[c]) /\ delivered' = delivered
  PROVE  Len(cliq'[c]) <= Len(delivered'[c])
<1>1. /\ Len(cliq[c]) \in Nat /\ Len(delivered[c]) \in Nat /\ Len(cliq'[c]) \in Nat
      /\ Len(cliq[c]) <= Len(delivered[c])
  BY LenProperties DEF ProcessTyped, ListTyped, Sent
<1>2. CASE \E m \in Message : Gets(c, m)
  <2>1. PICK m \in Message : Gets(c, m)
    BY <1>2
  <2>2. Len(Append(cliq[c], m)) = Len(cliq[c]) + 1 /\ Len(Append(delivered[c], m)) = Len(delivered[c]) + 1
    BY AppendIs DEF ProcessTyped, ListTyped
  <2> QED BY <1>1, <2>1, <2>2 DEF Gets
<1> QED BY <1>1, <1>2 DEF Same

-----------------------------------------------------------------------------
(***************************************************************************)
(* Every client asks to join once, and is listed once.                     *)
(***************************************************************************)
JoinsOf(c) ==
  /\ pc[c]["main"] \in Before => ~Asking(c) /\ ~Joined(c)
  /\ Asking(c) => ~Joined(c)
  /\ \A j, k \in DOMAIN srvq : IsJoin(srvq[j], c) /\ IsJoin(srvq[k], c) => j = k
  /\ pc[c]["main"] \in Before \/ Asking(c) \/ Created(c) => Listed(c) = {} /\ delivered[c] = <<>>
  /\ \A j, k \in Listed(c) : j = k

(* A client asks to join only while neither asked for nor listed.          *)
LEMMA ClientJoins ==
  ASSUME SrvqTyped, NEW c \in Clients, NEW d \in Clients, JoinsOf(c), ServerSame, Moves(d)
  PROVE  JoinsOf(c)'
<1>1. /\ Created(c)' = Created(c) /\ Joined(c)' = Joined(c) /\ Listed(c)' = Listed(c)
      /\ delivered' = delivered
  BY DEF ServerSame, Created, Joined, Listed
<1>2. pc'[c]["main"] \in Before => pc[c]["main"] \in Before
  BY DEF Moves, OthersSame
<1>3. CASE srvq' = srvq
  BY <1>1, <1>2, <1>3 DEF JoinsOf, Asking
<1>4. CASE \E m \in Asks : AsksFor(d, m)
  <2>1. PICK m \in Asks : AsksFor(d, m)
    BY <1>4
  <2> DEFINE n == Len(srvq)
  <2>2. /\ DOMAIN srvq = 1 .. n /\ DOMAIN srvq' = 1 .. n + 1 /\ n \in Nat
        /\ \A i \in 1 .. n : srvq'[i] = srvq[i]
        /\ srvq'[n + 1] = m
    BY <2>1, AppendIs DEF AsksFor, SrvqTyped
  <2> HIDE DEF n
  <2>3. CASE IsJoin(m, c)
    <3>1. pc[c]["main"] = "join" /\ pc'[c]["main"] = "chat"
      BY <2>1, <2>3 DEF AsksFor, IsJoin
    <3>2. ~Asking(c) /\ ~Joined(c) /\ Listed(c) = {} /\ delivered[c] = <<>>
      BY <3>1 DEF JoinsOf, Before
    <3>3. pc'[c]["main"] \notin Before
      BY <3>1 DEF Before
    <3>4. \A j \in DOMAIN srvq' : IsJoin(srvq'[j], c) => j = n + 1
      BY <2>2, <3>2 DEF Asking
    <3> QED BY <1>1, <3>2, <3>3, <3>4 DEF JoinsOf
  <2>4. CASE ~IsJoin(m, c)
    <3>1. \A j \in DOMAIN srvq' : IsJoin(srvq'[j], c) => j \in DOMAIN srvq /\ srvq'[j] = srvq[j]
      BY <2>2, <2>4
    <3>2. Asking(c)' => Asking(c)
      BY <3>1 DEF Asking
    <3> QED BY <1>1, <1>2, <3>1, <3>2 DEF JoinsOf
  <2> QED BY <2>3, <2>4
<1> QED BY <1>3, <1>4 DEF Moves, Quiet

(* The entry that create_user puts in front of the list.                   *)
LEMMA CreateIs ==
  ASSUME ChatAssumption, ProcessTyped, ListTyped, Handling, create_user
  PROVE  \E e \in Entry :
           /\ e.internal_id = msg.internal_id
           /\ e.fd = (msg.internal_id \in linked /\ client_fd[msg.internal_id])
           /\ Len(clients) \in Nat /\ DOMAIN clients = 1 .. Len(clients)
           /\ DOMAIN clients' = 1 .. Len(clients) + 1 /\ clients'[1] = e
           /\ \A k \in DOMAIN clients : k + 1 \in DOMAIN clients' /\ clients'[k + 1] = clients[k]
           /\ \A k \in DOMAIN clients' :
                k = 1 \/ (k - 1 \in DOMAIN clients /\ clients'[k] = clients[k - 1])
<1> DEFINE e == [internal_id |-> msg.internal_id,
                 fd |-> msg.internal_id \in linked /\ client_fd[msg.internal_id]]
<1>1. msg.internal_id \in Clients
  BY DEF create_user, Handling, Asks
<1>2. clients' = <<e>> \o clients
  BY DEF create_user
<1>3. /\ e \in Entry /\ e.internal_id = msg.internal_id
      /\ e.fd = (msg.internal_id \in linked /\ client_fd[msg.internal_id])
  BY <1>1 DEF Entry, ProcessTyped
<1> HIDE DEF e
<1>4. /\ Len(clients) \in Nat /\ DOMAIN clients = 1 .. Len(clients)
      /\ DOMAIN clients' = 1 .. Len(clients) + 1 /\ clients'[1] = e
      /\ \A i \in 1 .. Len(clients) : clients'[i + 1] = clients[i]
  BY <1>2, <1>3, ConsIs DEF ListTyped
<1>5. ASSUME NEW k \in DOMAIN clients', k # 1
      PROVE  k - 1 \in DOMAIN clients /\ clients'[k] = clients[k - 1]
  <2>1. k - 1 \in 1 .. Len(clients) /\ k - 1 + 1 = k
    BY <1>4, <1>5
  <2> QED BY <1>4, <2>1
<1> QED BY <1>3, <1>4, <1>5

(* Where the entries go when one is put in front of them.                  *)
LEMMA CreateListed ==
  ASSUME ChatAssumption, ProcessTyped, ListTyped, Handling, create_user, NEW c \in Clients
  PROVE  /\ Reachable(c) => Reachable(c)'
         /\ c # msg.internal_id /\ Reachable(c)' => Reachable(c)
         /\ c = msg.internal_id /\ c \in linked /\ client_fd[c] => Reachable(c)'
         /\ \A k \in Listed(c)' : \/ k = 1 /\ c = msg.internal_id
                                  \/ k \in Nat \ {1} /\ k - 1 \in Listed(c)
<1>1. PICK e \in Entry :
           /\ e.internal_id = msg.internal_id
           /\ e.fd = (msg.internal_id \in linked /\ client_fd[msg.internal_id])
           /\ Len(clients) \in Nat /\ DOMAIN clients = 1 .. Len(clients)
           /\ DOMAIN clients' = 1 .. Len(clients) + 1 /\ clients'[1] = e
           /\ \A k \in DOMAIN clients : k + 1 \in DOMAIN clients' /\ clients'[k + 1] = clients[k]
           /\ \A k \in DOMAIN clients' :
                k = 1 \/ (k - 1 \in DOMAIN clients /\ clients'[k] = clients[k - 1])
  BY CreateIs
<1>2. Reachable(c) => Reachable(c)'
  BY <1>1 DEF Reachable
<1>3. ASSUME c # msg.internal_id, Reachable(c)' PROVE Reachable(c)
  <2>1. PICK k \in DOMAIN clients' : clients'[k] = [internal_id |-> c, fd |-> TRUE]
    BY <1>3 DEF Reachable
  <2>2. clients'[k].internal_id = c
    BY <2>1
  <2>3. k # 1
    BY <1>1, <1>3, <2>2
  <2> QED BY <1>1, <2>1, <2>3 DEF Reachable
<1>4. ASSUME c = msg.internal_id, c \in linked, client_fd[c] PROVE Reachable(c)'
  <2>1. e.internal_id = c /\ e.fd = TRUE
    BY <1>1, <1>4 DEF ProcessTyped
  <2>2. e = [internal_id |-> c, fd |-> TRUE]
    BY <2>1 DEF Entry
  <2>3. 1 \in DOMAIN clients' /\ clients'[1] = e
    BY <1>1
  <2> QED BY <2>2, <2>3 DEF Reachable
<1>5. ASSUME NEW k \in Listed(c)'
      PROVE  \/ k = 1 /\ c = msg.internal_id
             \/ k \in Nat \ {1} /\ k - 1 \in Listed(c)
  BY <1>1 DEF Listed
<1> QED BY <1>2, <1>3, <1>4, <1>5

(* Whoever is in the list the server visits is on its list.                *)
LEMMA HeadListed ==
  ASSUME ListTyped, Handling, current # <<>>
  PROVE  /\ Head(current) \in Entry
         /\ \E k \in Listed(Head(current).internal_id) : clients[k] = Head(current)
<1>1. 1 \in DOMAIN current /\ current[1] = Head(current) /\ Head(current) \in Entry
  BY TailIs DEF ListTyped
<1> QED BY <1>1 DEF Handling, Listed

(* Where the entries go when one of them is taken off.                     *)
LEMMA DropListed ==
  ASSUME ListTyped, NEW c \in Clients, NEW k \in DOMAIN clients,
         clients' = Without(clients, k)
  PROVE  /\ \A i \in Listed(c)' :
              \/ i < k /\ i \in Listed(c) /\ clients'[i] = clients[i]
              \/ i >= k /\ i + 1 \in Listed(c) /\ clients'[i] = clients[i + 1]
         /\ \A i \in Listed(c) :
              \/ i < k /\ i \in Listed(c)' /\ clients'[i] = clients[i]
              \/ i > k /\ i - 1 \in Listed(c)' /\ clients'[i - 1] = clients[i]
              \/ i = k
         /\ Listed(c) \subseteq Nat /\ Listed(c)' \subseteq Nat
<1> DEFINE n == Len(clients)
           w == Without(clients, k)
<1>1. /\ n \in Nat /\ k \in Int /\ 1 <= k /\ k <= n /\ DOMAIN clients = 1 .. n
      /\ clients \in Seq(Entry)
  BY LenProperties DEF ListTyped
<1>2. /\ w \in Seq(Entry) /\ DOMAIN clients = 1 .. n /\ DOMAIN w = 1 .. n - 1
      /\ \A i \in 1 .. k - 1 : w[i] = clients[i]
      /\ \A i \in k .. n - 1 : w[i] = clients[i + 1]
  BY <1>1, WithoutIs
<1>0. clients' = w
  OBVIOUS
<1> HIDE DEF n, w
<1>3. ASSUME NEW i \in Listed(c)'
      PROVE  \/ i < k /\ i \in Listed(c) /\ clients'[i] = clients[i]
             \/ i >= k /\ i + 1 \in Listed(c) /\ clients'[i] = clients[i + 1]
  BY <1>1, <1>2, <1>0 DEF Listed
<1>4. ASSUME NEW i \in Listed(c), i > k
      PROVE  i - 1 \in Listed(c)' /\ clients'[i - 1] = clients[i]
  <2>1. i - 1 \in k .. n - 1 /\ i - 1 + 1 = i
    BY <1>1, <1>4 DEF Listed
  <2>2. clients'[i - 1] = clients[i - 1 + 1]
    BY <1>2, <1>0, <2>1
  <2> QED BY <1>1, <1>2, <1>0, <2>1, <2>2 DEF Listed
<1>5. ASSUME NEW i \in Listed(c), i < k
      PROVE  i \in Listed(c)' /\ clients'[i] = clients[i]
  BY <1>1, <1>2, <1>0, <1>5 DEF Listed
<1>6. Listed(c) \subseteq 1 .. n /\ Listed(c)' \subseteq 1 .. n - 1
  BY <1>1, <1>2, <1>0 DEF Listed
<1> QED BY <1>1, <1>3, <1>4, <1>5, <1>6

(* remove_user makes nobody reachable.                                     *)
LEMMA RemoveKeeps ==
  ASSUME ListTyped, RemoveStep, NEW c \in Clients, Reachable(c)'
  PROVE  Reachable(c)
<1>1. CASE clients' = clients
  BY <1>1 DEF Reachable
<1>2. CASE \E k \in DOMAIN clients : clients' = Without(clients, k)
  BY <1>2, DropListed DEF Reachable, Listed
<1> QED BY <1>1, <1>2 DEF RemoveStep, Listed

(* The server lists whoever asked, and drops the request.                  *)
LEMMA ServerJoins ==
  ASSUME ChatAssumption, ProcessTyped, SrvqTyped, ListTyped, Handling, ServerStep,
         NEW c \in Clients, JoinsOf(c)
  PROVE  JoinsOf(c)'
<1>0. pc' = pc
  BY ServerLeavesClients DEF client
<1>1. CASE Gone
  <2>1. Listed(c)' = {} /\ Joined(c)' = FALSE /\ Created(c)' = FALSE /\ Asking(c)' = Asking(c)
    BY <1>1 DEF Gone, Listed, Joined, Created, Asking
  <2> QED BY <1>0, <1>1, <2>1 DEF Gone, JoinsOf
<1>2. CASE ReadMessage
  <2>1. /\ srvq # <<>> /\ srvq' = Tail(srvq) /\ clients' = clients /\ delivered' = delivered
        /\ msg' = Head(srvq) /\ spc' = IF Head(srvq).type = "J" THEN "create" ELSE "send"
    BY <1>2 DEF ReadMessage, hist
  <2>2. /\ 1 \in DOMAIN srvq /\ srvq[1] = Head(srvq)
        /\ \A k \in DOMAIN srvq' : k \in Nat \ {0} /\ k + 1 \in DOMAIN srvq /\ srvq'[k] = srvq[k + 1]
    BY <2>1, TailIs DEF SrvqTyped
  <2>3. Listed(c)' = Listed(c)
    BY <2>1 DEF Listed
  <2>4. Asking(c)' => Asking(c)
    BY <2>2 DEF Asking
  <2>5. \A j, k \in DOMAIN srvq' : IsJoin(srvq'[j], c) /\ IsJoin(srvq'[k], c) => j = k
    BY <2>2 DEF JoinsOf
  <2>6. CASE IsJoin(Head(srvq), c)
    <3>1. Asking(c)
      BY <2>2, <2>6 DEF Asking
    <3>2. ~Asking(c)'
      BY <2>2, <2>6 DEF Asking, JoinsOf
    <3> QED BY <1>0, <2>1, <2>3, <2>5, <3>1, <3>2 DEF JoinsOf
  <2>7. CASE ~IsJoin(Head(srvq), c)
    <3>1. ~Joined(c)' /\ ~Created(c)'
      BY <2>1, <2>7 DEF Joined, Created, IsJoin
    <3> QED BY <1>0, <2>1, <2>3, <2>4, <2>5, <3>1 DEF JoinsOf
  <2> QED BY <2>6, <2>7
<1>3. CASE create_user
  <2>1. msg.internal_id \in Clients
    BY <1>3 DEF create_user, Handling, Asks
  <2>2. /\ spc = "create" /\ spc' = "welcome" /\ msg' = msg /\ srvq' = srvq /\ delivered' = delivered
    BY <1>3 DEF create_user, hist
  <2>5. \A k \in Listed(c)' : \/ k = 1 /\ c = msg.internal_id
                              \/ k \in Nat \ {1} /\ k - 1 \in Listed(c)
    BY <1>3, CreateListed
  <2>6. Asking(c)' = Asking(c) /\ Joined(c)' = Joined(c) /\ ~Created(c)'
    BY <2>2 DEF Asking, Joined, Created
  <2>7. CASE c = msg.internal_id
    <3>1. Created(c) /\ Joined(c)
      BY <2>2, <2>7 DEF Created, Joined
    <3>2. Listed(c) = {}
      BY <3>1 DEF JoinsOf
    <3>3. \A j, k \in Listed(c)' : j = k
      BY <2>5, <3>2
    <3> QED BY <1>0, <2>2, <2>6, <3>1, <3>3 DEF JoinsOf
  <2>8. CASE c # msg.internal_id
    <3>1. \A k \in Listed(c)' : k \in Nat /\ k - 1 \in Listed(c)
      BY <2>5, <2>8
    <3>2. ~Created(c) /\ ~Created(c)'
      BY <2>8, <2>6 DEF Created
    <3>3. Listed(c) = {} => Listed(c)' = {}
      BY <3>1
    <3>4. \A j, k \in Listed(c)' : j = k
      BY <3>1 DEF JoinsOf
    <3> QED BY <1>0, <2>2, <2>6, <3>2, <3>3, <3>4 DEF JoinsOf
  <2> QED BY <2>7, <2>8
<1>4. CASE \E d \in Clients : WelcomeStep(d)
  <2>1. PICK d \in Clients : WelcomeStep(d)
    BY <1>4
  <2>2. /\ Listed(c)' = Listed(c) /\ Asking(c)' = Asking(c) /\ ~Joined(c)' /\ ~Created(c)'
        /\ srvq' = srvq
    BY <2>1 DEF WelcomeStep, Listed, Asking, Joined, Created
  <2>3. CASE c = d
    <3>1. Joined(c)
      BY <2>1, <2>3 DEF WelcomeStep, Joined
    <3> QED BY <1>0, <2>2, <3>1 DEF JoinsOf
  <2>4. CASE c # d
    <3>1. delivered'[c] = delivered[c]
      BY <2>1, <2>4 DEF WelcomeStep, Serves, Same
    <3> QED BY <1>0, <2>2, <3>1 DEF JoinsOf
  <2> QED BY <2>3, <2>4
<1>5. CASE PassStep
  <2>1. /\ Listed(c)' = Listed(c) /\ Asking(c)' = Asking(c) /\ Joined(c)' = Joined(c)
        /\ Created(c)' = Created(c) /\ srvq' = srvq
    BY <1>5 DEF PassStep, Listed, Asking, Joined, Created
  <2>2. Listed(c) = {} => delivered'[c] = delivered[c]
    BY <1>5, HeadListed DEF PassStep, Serves, Same
  <2> QED BY <1>0, <2>1, <2>2 DEF JoinsOf
<1>6. CASE SendDone \/ Close \/ ShutStep \/ AgainStep \/ FreeStep
  <2>1. /\ Listed(c)' = Listed(c) /\ Asking(c)' = Asking(c) /\ srvq' = srvq /\ delivered' = delivered
        /\ (Joined(c)' => Joined(c)) /\ (Created(c)' => Created(c))
    BY <1>6 DEF SendDone, Close, ShutStep, AgainStep, FreeStep, Listed, Asking, Joined, Created, hist
  <2> QED BY <1>0, <2>1 DEF JoinsOf
<1>7. CASE RemoveStep
  <2>1. /\ Asking(c)' = Asking(c) /\ srvq' = srvq /\ delivered' = delivered
        /\ ~Joined(c)' /\ ~Created(c)'
    BY <1>7 DEF RemoveStep, Asking, Joined, Created
  <2>2. CASE clients' = clients
    BY <1>0, <2>1, <2>2 DEF JoinsOf, Listed
  <2>3. CASE \E k \in Listed(msg.internal_id) : clients' = Without(clients, k)
    <3>1. PICK k \in DOMAIN clients : clients' = Without(clients, k)
      BY <2>3 DEF Listed
    <3>2. /\ (Listed(c) = {} => Listed(c)' = {})
          /\ \A i, j \in Listed(c)' : i = j
      <4>1. /\ \A i \in Listed(c)' : \/ i < k /\ i \in Listed(c)
                                     \/ i >= k /\ i + 1 \in Listed(c)
            /\ Listed(c)' \subseteq Nat
        BY <3>1, DropListed
      <4>2. k \in Int
        BY LenProperties DEF ListTyped
      <4> QED BY <4>1, <4>2 DEF JoinsOf
    <3> QED BY <1>0, <2>1, <3>2 DEF JoinsOf
  <2> QED BY <1>7, <2>2, <2>3 DEF RemoveStep
<1>8. CASE ByeStep
  <2>1. /\ Asking(c)' = Asking(c) /\ srvq' = srvq /\ ~Joined(c)' /\ ~Created(c)'
        /\ Listed(c)' = Listed(c)
    BY <1>8 DEF ByeStep, Asking, Joined, Created, Listed
  <2>2. Listed(c) = {} => delivered'[c] = delivered[c]
    BY <1>8, HeadListed DEF ByeStep, Serves, Same
  <2> QED BY <1>0, <2>1, <2>2 DEF JoinsOf
<1> QED BY <1>1, <1>2, <1>3, <1>4, <1>5, <1>6, <1>7, <1>8, ServerCases

-----------------------------------------------------------------------------
(***************************************************************************)
(* What a client gets begins with its welcome and ends with the notice,    *)
(* which is repeated at most h times.                                      *)
(***************************************************************************)
Shaped(s, c, h) ==
  \A k \in DOMAIN s :
    /\ s[k].type = "W" => k = 1 /\ s[k].internal_id = c
    /\ k = 1 => s[k].type \in {"W", "S"}
    /\ \A j \in 1 .. k - 1 : s[j].type = "S" => s[k].type = "S" /\ k - j <= h

NoBye(s) == \A k \in DOMAIN s : s[k].type # "S"

(* One more notice may follow.                                             *)
Spare(s, h) == \A j \in DOMAIN s : s[j].type = "S" => Len(s) - j < h

(* A session of the right shape is continued in the right shape ...        *)
LEMMA AppendShaped ==
  ASSUME NEW c, NEW h \in Nat, NEW s \in Seq(Message), NEW m \in Message, Shaped(s, c, h), NoBye(s),
         s = <<>> => m.type = "W",
         m.type = "W" => s = <<>> /\ m.internal_id = c,
         m.type # "S"
  PROVE  Shaped(Append(s, m), c, h) /\ NoBye(Append(s, m))
<1> DEFINE t == Append(s, m)
           n == Len(s)
<1>1. /\ DOMAIN s = 1 .. n /\ DOMAIN t = 1 .. n + 1 /\ n \in Nat
      /\ \A i \in 1 .. n : t[i] = s[i]
      /\ t[n + 1] = m
      /\ (n = 0 => s = <<>>) /\ (s = <<>> => n = 0)
  BY AppendIs, EmptySeq
<1> HIDE DEF t, n
<1>2. NoBye(t)
  BY <1>1 DEF NoBye
<1>3. \A k \in 1 .. n + 1 : \A j \in 1 .. k - 1 : t[j].type # "S"
  BY <1>1 DEF NoBye
<1>4. ASSUME NEW k \in 1 .. n + 1
      PROVE  /\ t[k].type = "W" => k = 1 /\ t[k].internal_id = c
             /\ k = 1 => t[k].type \in {"W", "S"}
  <2>1. CASE k \in 1 .. n
    BY <1>1, <2>1 DEF Shaped
  <2>2. CASE k = n + 1
    BY <1>1, <2>2
  <2> QED BY <2>1, <2>2, <1>1
<1> QED BY <1>1, <1>2, <1>3, <1>4 DEF Shaped, t

(* ... and so is one that gets the notice.                                 *)
LEMMA AppendBye ==
  ASSUME NEW c, NEW h \in Nat, NEW s \in Seq(Message), NEW m \in Message, Shaped(s, c, h),
         Spare(s, h), m.type = "S"
  PROVE  Shaped(Append(s, m), c, h)
<1> DEFINE t == Append(s, m)
           n == Len(s)
<1>1. /\ DOMAIN s = 1 .. n /\ DOMAIN t = 1 .. n + 1 /\ n \in Nat
      /\ \A i \in 1 .. n : t[i] = s[i]
      /\ t[n + 1] = m
      /\ \A j \in 1 .. n : s[j].type = "S" => n - j < h
  BY AppendIs DEF Spare
<1> HIDE DEF t, n
<1>2. ASSUME NEW k \in 1 .. n + 1
      PROVE  /\ t[k].type = "W" => k = 1 /\ t[k].internal_id = c
             /\ k = 1 => t[k].type \in {"W", "S"}
             /\ \A j \in 1 .. k - 1 : t[j].type = "S" => t[k].type = "S" /\ k - j <= h
  <2>1. CASE k \in 1 .. n
    <3>1. \A j \in 1 .. k - 1 : j \in 1 .. n /\ t[j] = s[j]
      BY <1>1, <2>1
    <3> QED BY <1>1, <2>1, <3>1 DEF Shaped
  <2>2. CASE k = n + 1
    <3>1. ASSUME NEW j \in 1 .. k - 1, t[j].type = "S"
          PROVE  k - j <= h
      <4>1. j \in 1 .. n /\ n - j < h
        BY <1>1, <2>2, <3>1
      <4> QED BY <1>1, <2>2, <4>1
    <3> QED BY <1>1, <2>2, <3>1
  <2> QED BY <2>1, <2>2, <1>1
<1> QED BY <1>1, <1>2 DEF Shaped, t

(* A signal allows for one more notice.                                    *)
LEMMA SignalShaped ==
  ASSUME NEW c, NEW h \in Nat, NEW s \in Seq(Message), Shaped(s, c, h)
  PROVE  Shaped(s, c, h + 1) /\ Spare(s, h + 1)
<1> DEFINE n == Len(s)
<1>1. DOMAIN s = 1 .. n /\ n \in Nat
  BY LenProperties
<1> HIDE DEF n
<1>2. Shaped(s, c, h + 1)
  <2>1. ASSUME NEW k \in 1 .. n, NEW j \in 1 .. k - 1, s[j].type = "S"
        PROVE  s[k].type = "S" /\ k - j <= h + 1
    <3>1. s[k].type = "S" /\ k - j <= h
      BY <1>1, <2>1 DEF Shaped
    <3> QED BY <1>1, <3>1
  <2> QED BY <1>1, <2>1 DEF Shaped
<1>3. ASSUME NEW j \in 1 .. n, s[j].type = "S"
      PROVE  n - j < h + 1
  <2>1. CASE j = n
    BY <1>1, <2>1
  <2>2. CASE j # n
    <3>1. n \in DOMAIN s /\ j \in 1 .. n - 1
      BY <1>1, <2>2
    <3>2. n - j <= h
      BY <1>3, <3>1 DEF Shaped
    <3> QED BY <1>1, <3>2
  <2> QED BY <2>1, <2>2
<1> QED BY <1>1, <1>2, <1>3 DEF Spare, n

(* c is in the part of the list still to be told: nothing of it is done.   *)
Pending(c) ==
  \E k \in DOMAIN current :
    current[k].internal_id = c /\ (spc = "cleanup" \/ (spc = "close" /\ k # 1))

ShapeOf(c) ==
  /\ Shaped(delivered[c], c, handling)
  /\ InLoop => NoBye(delivered[c])
  /\ InLoop /\ Reachable(c) /\ ~(spc = "welcome" /\ msg.internal_id = c) => delivered[c] # <<>>
  /\ spc = "welcome" /\ msg.internal_id = c => delivered[c] = <<>>
  /\ Pending(c) => Spare(delivered[c], handling)

LEMMA ClientShape ==
  ASSUME NEW c \in Clients, ShapeOf(c), ServerSame
  PROVE  ShapeOf(c)'
  BY DEF ShapeOf, ServerSame, InLoop, Reachable, Pending

LEMMA ReachableListed ==
  ASSUME NEW c \in Clients, Reachable(c) PROVE Listed(c) # {}
  BY DEF Reachable, Listed

(* A client is in the part of the list to be visited only once.            *)
OnceEach ==
  \A j, k \in DOMAIN current : current[j].internal_id = current[k].internal_id => j = k

(* Whatever the server sends, a session keeps its shape.                   *)
LEMMA ServerShape ==
  ASSUME ChatAssumption, ProcessTyped, SrvqTyped, ListTyped, Handling, OnceEach, Sent, ServerStep,
         NEW c \in Clients, JoinsOf(c), ShapeOf(c)
  PROVE  ShapeOf(c)'
<1>0. handling \in Nat /\ delivered[c] \in Seq(Message)
  BY DEF ListTyped, ChatAssumption
<1>a. ASSUME ~CleaningUp' PROVE ~Pending(c)'
  BY <1>a DEF CleaningUp, Pending
<1>1. CASE Gone
  <2>1. ~InLoop' /\ ~CleaningUp' /\ spc' # "welcome" /\ delivered' = delivered
    BY <1>1 DEF Gone, InLoop, CleaningUp
  <2>2. Shaped(delivered[c], c, handling')
    BY <1>0, <1>1, SignalShaped DEF Gone, Raised, ShapeOf
  <2> QED BY <1>a, <2>1, <2>2 DEF ShapeOf
<1>2. CASE ReadMessage
  <2>1. ~CleaningUp' /\ handling' = handling
    BY <1>2 DEF ReadMessage, CleaningUp
  <2> QED BY <1>2, <1>a, <2>1 DEF ReadMessage, ShapeOf, InLoop, Reachable, hist
<1>3. CASE create_user
  <2>1. /\ spc = "create" /\ spc' = "welcome" /\ delivered' = delivered /\ msg' = msg
        /\ handling' = handling
    BY <1>3 DEF create_user, hist
  <2>2. InLoop /\ InLoop' /\ ~Pending(c)'
    BY <1>a, <2>1 DEF InLoop, CleaningUp
  <2>3. CASE c = msg.internal_id
    <3>1. delivered[c] = <<>>
      BY <2>1, <2>3 DEF JoinsOf, Created
    <3> QED BY <2>1, <2>2, <2>3, <3>1 DEF ShapeOf
  <2>4. CASE c # msg.internal_id
    <3>1. Reachable(c)' => Reachable(c)
      BY <1>3, <2>4, CreateListed
    <3> QED BY <2>1, <2>2, <2>4, <3>1 DEF ShapeOf
  <2> QED BY <2>3, <2>4
<1>4. CASE \E d \in Clients : WelcomeStep(d)
  <2>1. PICK d \in Clients : WelcomeStep(d)
    BY <1>4
  <2>2. /\ Reachable(c)' = Reachable(c) /\ InLoop /\ InLoop' /\ spc' = "send" /\ spc = "welcome"
        /\ ~Pending(c)' /\ handling' = handling
    BY <1>a, <2>1 DEF WelcomeStep, Reachable, InLoop, CleaningUp
  <2>3. CASE c = d /\ Reachable(c)
    <3> DEFINE m == [msg EXCEPT !.type = "W"]
    <3>1. m \in Message /\ m.type = "W" /\ m.internal_id = c
      BY <2>1, <2>3 DEF WelcomeStep, Handling, Asks, Message
    <3>2. delivered[c] = <<>> /\ Serves(c, m)
      BY <2>1, <2>3 DEF WelcomeStep, ShapeOf
    <3> HIDE DEF m
    <3>3. Len(cliq[c]) <= 0 /\ Len(cliq[c]) \in Nat
      BY <3>2, EmptySeq, LenProperties DEF Sent, ProcessTyped
    <3>4. Gets(c, m)
      BY <3>2, <3>3 DEF Serves, ChatAssumption
    <3>5. delivered'[c] = Append(delivered[c], m) /\ delivered'[c] # <<>>
      <4>1. delivered[c] \in Seq(Message)
        BY DEF ListTyped
      <4>2. Append(delivered[c], m) # <<>>
        BY <3>1, <4>1, AppendIs
      <4> QED BY <3>4, <4>2 DEF Gets
    <3>6. Shaped(delivered'[c], c, handling) /\ NoBye(delivered'[c])
      BY <1>0, <2>2, <3>1, <3>2, <3>5, AppendShaped DEF ShapeOf
    <3> QED BY <2>2, <3>5, <3>6 DEF ShapeOf
  <2>4. CASE ~(c = d /\ Reachable(c))
    <3>1. delivered'[c] = delivered[c]
      BY <2>1, <2>4 DEF WelcomeStep, Serves, Same
    <3>2. Reachable(c) => delivered[c] # <<>>
      BY <2>1, <2>2, <2>4 DEF ShapeOf, WelcomeStep
    <3> QED BY <2>2, <3>1, <3>2 DEF ShapeOf
  <2> QED BY <2>3, <2>4
<1>5. CASE PassStep
  <2>1. /\ Reachable(c)' = Reachable(c) /\ InLoop /\ InLoop' /\ spc' = "send" /\ spc = "send"
        /\ ~Pending(c)' /\ handling' = handling
        /\ msg \in Message /\ msg.type \in {"J", "M", "L"}
    BY <1>5, <1>a DEF PassStep, Reachable, InLoop, CleaningUp, Handling, Asks, Message
  <2>2. CASE Same(c)
    BY <2>1, <2>2 DEF ShapeOf, Same
  <2>3. CASE ~Same(c)
    <3>1. /\ c = Head(current).internal_id /\ Head(current).fd /\ current # <<>> /\ Gets(c, msg)
      BY <1>5, <2>3 DEF PassStep, Serves, Same
    <3>2. Reachable(c)
      <4>1. Head(current) = [internal_id |-> c, fd |-> TRUE]
        BY <3>1, HeadListed DEF Entry
      <4> QED BY <3>1, <4>1, HeadListed DEF Reachable, Listed
    <3>3. delivered[c] # <<>>
      BY <2>1, <3>2 DEF ShapeOf
    <3>4. delivered'[c] = Append(delivered[c], msg) /\ delivered'[c] # <<>>
      <4>1. delivered[c] \in Seq(Message)
        BY DEF ListTyped
      <4>2. Append(delivered[c], msg) # <<>>
        BY <2>1, <4>1, AppendIs
      <4> QED BY <3>1, <4>2 DEF Gets
    <3>5. Shaped(delivered'[c], c, handling) /\ NoBye(delivered'[c])
      BY <1>0, <2>1, <3>3, <3>4, AppendShaped DEF ShapeOf
    <3> QED BY <2>1, <3>4, <3>5 DEF ShapeOf
  <2> QED BY <2>2, <2>3
<1>6. CASE SendDone \/ Close
  <2>1. /\ delivered' = delivered /\ msg' = msg /\ Reachable(c)' = Reachable(c)
        /\ handling' = handling /\ InLoop' = InLoop /\ (spc = "welcome" <=> spc' = "welcome")
    BY <1>6 DEF SendDone, Close, Reachable, hist, InLoop
  <2>2. Pending(c)' => Pending(c)
    BY <1>6 DEF SendDone, Close, Pending
  <2> QED BY <2>1, <2>2 DEF ShapeOf
<1>7. CASE RemoveStep
  <2>1. /\ InLoop /\ InLoop' /\ spc' = "poll" /\ spc = "remove" /\ delivered' = delivered
        /\ ~Pending(c)' /\ handling' = handling
    BY <1>7, <1>a DEF RemoveStep, InLoop, CleaningUp
  <2>2. Reachable(c)' => Reachable(c)
    BY <1>7, RemoveKeeps
  <2> QED BY <2>1, <2>2 DEF ShapeOf
<1>8. CASE ShutStep
  <2>1. /\ ~InLoop' /\ spc' # "welcome" /\ delivered' = delivered /\ NoBye(delivered[c])
    BY <1>8 DEF ShutStep, InLoop, ShapeOf
  <2>2. Shaped(delivered[c], c, handling')
    BY <1>0, <1>8, SignalShaped DEF ShutStep, Raised, ShapeOf
  <2> QED BY <2>1, <2>2 DEF ShapeOf, NoBye, Spare
<1>9. CASE AgainStep
  <2>1. /\ ~InLoop' /\ spc' # "welcome" /\ delivered' = delivered /\ handling' = handling + 1
    BY <1>9 DEF AgainStep, InLoop
  <2>2. Shaped(delivered[c], c, handling + 1) /\ Spare(delivered[c], handling + 1)
    BY <1>0, SignalShaped DEF ShapeOf
  <2> QED BY <2>1, <2>2 DEF ShapeOf
<1>10. CASE ByeStep
  <2>1. /\ ~InLoop' /\ spc = "cleanup" /\ spc' = "close" /\ current # <<>> /\ current' = current
        /\ handling' = handling
    BY <1>10 DEF ByeStep, InLoop
  <2>2. 1 \in DOMAIN current /\ current[1] = Head(current)
    BY <2>1, TailIs DEF ListTyped
  <2>3. CASE Same(c)
    <3>1. Pending(c)' => Pending(c)
      BY <2>1 DEF Pending
    <3> QED BY <2>1, <2>3, <3>1 DEF ShapeOf, Same
  <2>4. CASE ~Same(c)
    <3> DEFINE m == [type |-> "S"]
    <3>1. c = Head(current).internal_id /\ Gets(c, m)
      BY <1>10, <2>4 DEF ByeStep, Serves, Same
    <3>2. Spare(delivered[c], handling)
      BY <2>1, <2>2, <3>1 DEF ShapeOf, Pending
    <3>3. m \in Message /\ m.type = "S"
      BY DEF Message
    <3> HIDE DEF m
    <3>4. Shaped(delivered'[c], c, handling)
      BY <1>0, <3>1, <3>2, <3>3, AppendBye DEF Gets, ShapeOf
    <3>5. ~Pending(c)'
      BY <2>1, <2>2, <3>1 DEF Pending, OnceEach
    <3> QED BY <2>1, <3>4, <3>5 DEF ShapeOf
  <2> QED BY <2>3, <2>4
<1>11. CASE FreeStep
  <2>1. /\ ~InLoop' /\ spc = "close" /\ spc' = "cleanup" /\ current # <<>>
        /\ current' = Tail(current) /\ handling' = handling /\ delivered' = delivered
    BY <1>11 DEF FreeStep, InLoop, Handling
  <2>2. \A k \in DOMAIN current' :
          k \in Nat \ {0} /\ k + 1 \in DOMAIN current /\ current'[k] = current[k + 1]
    BY <2>1, TailIs DEF ListTyped
  <2>3. Pending(c)' => Pending(c)
    <3>1. SUFFICES ASSUME NEW k \in DOMAIN current', current'[k].internal_id = c
                   PROVE  Pending(c)
      BY DEF Pending
    <3>2. k + 1 \in DOMAIN current /\ current[k + 1].internal_id = c /\ k + 1 # 1
      BY <2>2, <3>1
    <3> QED BY <2>1, <3>2 DEF Pending
  <2> QED BY <2>1, <2>3 DEF ShapeOf
<1> QED BY <1>1, <1>2, <1>3, <1>4, <1>5, <1>6, <1>7, <1>8, <1>9, <1>10, <1>11, ServerCases

-----------------------------------------------------------------------------
(***************************************************************************)
(* Only a client that stops running leaves the list.                       *)
(***************************************************************************)
LivesOf(c) ==
  /\ (\E k \in DOMAIN srvq : IsLeave(srvq[k], c)) => ~crunning[c]
  /\ spc \in {"send", "remove"} /\ IsLeave(msg, c) => ~crunning[c]
  /\ pc[c]["main"] \in Chats /\ crunning[c] /\ InLoop => Asking(c) \/ Created(c) \/ Reachable(c)

(* A client that asks to leave, or leaves, is no longer running.           *)
LEMMA ClientLives ==
  ASSUME SrvqTyped, NEW c \in Clients, NEW d \in Clients, LivesOf(c), ServerSame, Moves(d)
  PROVE  LivesOf(c)'
<1>1. /\ Created(c)' = Created(c) /\ Reachable(c)' = Reachable(c) /\ InLoop' = InLoop
      /\ msg' = msg /\ spc' = spc
  BY DEF ServerSame, Created, Reachable, InLoop
<1>2. crunning'[c] => crunning[c]
  BY DEF Moves, OthersSame
<1>3. CASE Quiet(d)
  <2>1. srvq' = srvq /\ Asking(c)' = Asking(c)
    BY <1>3 DEF Quiet, Asking
  <2>2. pc'[c]["main"] \in Chats => pc[c]["main"] \in Chats
    BY <1>3 DEF Quiet, Moves, OthersSame
  <2> QED BY <1>1, <1>2, <2>1, <2>2 DEF LivesOf
<1>4. CASE \E m \in Asks : AsksFor(d, m)
  <2>1. PICK m \in Asks : AsksFor(d, m)
    BY <1>4
  <2> DEFINE n == Len(srvq)
  <2>2. /\ DOMAIN srvq = 1 .. n /\ DOMAIN srvq' = 1 .. n + 1 /\ n \in Nat
        /\ \A i \in 1 .. n : srvq'[i] = srvq[i]
        /\ srvq'[n + 1] = m
    BY <2>1, AppendIs DEF AsksFor, SrvqTyped
  <2> HIDE DEF n
  <2>3. (\E k \in DOMAIN srvq' : IsLeave(srvq'[k], c)) => ~crunning'[c]
    <3>1. IsLeave(m, c) => d = c /\ ~crunning[c]
      BY <2>1 DEF AsksFor, IsLeave
    <3>2. (\E k \in DOMAIN srvq' : IsLeave(srvq'[k], c))
            => IsLeave(m, c) \/ \E k \in DOMAIN srvq : IsLeave(srvq[k], c)
      BY <2>2
    <3> QED BY <1>2, <3>1, <3>2 DEF LivesOf
  <2>4. Asking(c) => Asking(c)'
    BY <2>2 DEF Asking
  <2>5. pc'[c]["main"] \in Chats => pc[c]["main"] \in Chats \/ Asking(c)'
    <3>1. CASE d # c
      BY <3>1 DEF Moves, OthersSame
    <3>2. CASE d = c /\ m.type = "J"
      <4>1. IsJoin(m, c) /\ n + 1 \in DOMAIN srvq'
        BY <2>1, <2>2, <3>2 DEF AsksFor, IsJoin
      <4> QED BY <2>2, <4>1 DEF Asking
    <3>3. CASE d = c /\ m.type # "J"
      BY <2>1, <3>3 DEF AsksFor, Chats
    <3> QED BY <3>1, <3>2, <3>3
  <2> QED BY <1>1, <1>2, <2>3, <2>4, <2>5 DEF LivesOf
<1> QED BY <1>3, <1>4 DEF Moves

(* A running client stays on the list until the server shuts down.         *)
LEMMA ServerLives ==
  ASSUME ChatAssumption, ProcessTyped, SrvqTyped, ListTyped, Handling, ServerStep,
         NEW c \in Clients, Own(c), Filed(c), LivesOf(c)
  PROVE  LivesOf(c)'
<1>0. pc' = pc /\ crunning' = crunning
  BY ServerLeavesClients DEF client
<1>1. CASE Gone \/ ShutStep \/ AgainStep \/ ByeStep \/ FreeStep
  BY <1>0, <1>1 DEF Gone, ShutStep, AgainStep, ByeStep, FreeStep, LivesOf, InLoop
<1>2. CASE ReadMessage
  <2>1. /\ srvq # <<>> /\ srvq' = Tail(srvq) /\ clients' = clients /\ spc = "poll"
        /\ msg' = Head(srvq) /\ spc' = IF Head(srvq).type = "J" THEN "create" ELSE "send"
    BY <1>2 DEF ReadMessage
  <2>2. /\ 1 \in DOMAIN srvq /\ srvq[1] = Head(srvq)
        /\ \A k \in DOMAIN srvq' : k + 1 \in DOMAIN srvq /\ srvq'[k] = srvq[k + 1]
        /\ \A k \in DOMAIN srvq : k = 1 \/ (k - 1 \in DOMAIN srvq' /\ srvq'[k - 1] = srvq[k])
    <3>1. /\ Len(srvq) \in Nat \ {0} /\ DOMAIN srvq = 1 .. Len(srvq)
          /\ DOMAIN srvq' = 1 .. Len(srvq) - 1 /\ Head(srvq) = srvq[1]
          /\ \A i \in 1 .. Len(srvq) - 1 : srvq'[i] = srvq[i + 1]
      BY <2>1, TailIs DEF SrvqTyped
    <3>2. ASSUME NEW k \in DOMAIN srvq, k # 1
          PROVE  k - 1 \in DOMAIN srvq' /\ srvq'[k - 1] = srvq[k]
      <4>1. k - 1 \in 1 .. Len(srvq) - 1 /\ k - 1 + 1 = k
        BY <3>1, <3>2
      <4> QED BY <3>1, <4>1
    <3> QED BY <3>1, <3>2
  <2>3. (\E k \in DOMAIN srvq' : IsLeave(srvq'[k], c)) => \E k \in DOMAIN srvq : IsLeave(srvq[k], c)
    BY <2>2
  <2>4. IsLeave(msg', c) => \E k \in DOMAIN srvq : IsLeave(srvq[k], c)
    BY <2>1, <2>2
  <2>5. Asking(c) => Asking(c)' \/ Created(c)'
    BY <2>1, <2>2 DEF Asking, Created, IsJoin
  <2>6. Reachable(c)' = Reachable(c) /\ ~Created(c) /\ InLoop
    BY <2>1 DEF Reachable, Created, InLoop
  <2> QED BY <1>0, <2>3, <2>4, <2>5, <2>6 DEF LivesOf
<1>3. CASE create_user
  <2>1. spc = "create" /\ spc' = "welcome" /\ msg' = msg /\ srvq' = srvq
    BY <1>3 DEF create_user
  <2>6. Reachable(c) => Reachable(c)'
    BY <1>3, CreateListed
  <2>7. pc[c]["main"] \in Chats /\ crunning[c] /\ Created(c) => Reachable(c)'
    <3>1. pc[c]["main"] \in Chats /\ crunning[c] => c \in linked /\ client_fd[c]
      BY <2>1 DEF Own, Filed, InLoop, Chats, Before
    <3> QED BY <1>3, <3>1, CreateListed DEF Created
  <2>8. Asking(c)' = Asking(c) /\ InLoop
    BY <2>1 DEF Asking, InLoop
  <2> QED BY <1>0, <2>1, <2>6, <2>7, <2>8 DEF LivesOf
<1>4. CASE (\E d \in Clients : WelcomeStep(d)) \/ PassStep \/ SendDone \/ Close
  <2>1. /\ Reachable(c)' = Reachable(c) /\ Asking(c)' = Asking(c) /\ srvq' = srvq /\ msg' = msg
        /\ InLoop' => InLoop
    BY <1>4 DEF WelcomeStep, PassStep, SendDone, Close, Reachable, Asking, InLoop
  <2>2. Created(c) => Created(c)'
    BY <1>4 DEF WelcomeStep, PassStep, SendDone, Close, Created
  <2>3. spc' \in {"send", "remove"} /\ IsLeave(msg', c) => spc \in {"send", "remove"}
    BY <1>4 DEF WelcomeStep, PassStep, SendDone, Close, IsLeave, Handling
  <2> QED BY <1>0, <2>1, <2>2, <2>3 DEF LivesOf
<1>5. CASE RemoveStep
  <2>1. /\ Asking(c)' = Asking(c) /\ srvq' = srvq /\ msg' = msg /\ ~Created(c) /\ InLoop
        /\ spc' = "poll" /\ IsLeave(msg, msg.internal_id) /\ spc = "remove"
    BY <1>5 DEF RemoveStep, Asking, Created, InLoop, Handling, IsLeave
  <2>2. CASE clients' = clients
    BY <1>0, <2>1, <2>2 DEF LivesOf, Reachable
  <2>3. CASE msg.internal_id = c
    BY <1>0, <2>1, <2>3 DEF LivesOf
  <2>4. CASE c # msg.internal_id /\ \E k \in Listed(msg.internal_id) : clients' = Without(clients, k)
    <3>1. PICK k \in Listed(msg.internal_id) : clients' = Without(clients, k)
      BY <2>4
    <3>2. ASSUME NEW i \in DOMAIN clients, clients[i] = [internal_id |-> c, fd |-> TRUE]
          PROVE  Reachable(c)'
      <4>1. k \in DOMAIN clients /\ clients[k].internal_id # c
        BY <2>4 DEF Listed
      <4>2. i \in Listed(c) /\ i # k
        BY <3>2, <4>1 DEF Listed
      <4>3. \E j \in Listed(c)' : clients'[j] = clients[i]
        BY <3>1, <4>1, <4>2, DropListed
      <4> QED BY <3>2, <4>3 DEF Reachable, Listed
    <3>3. Reachable(c) => Reachable(c)'
      BY <3>2 DEF Reachable
    <3> QED BY <1>0, <2>1, <3>3 DEF LivesOf
  <2> QED BY <1>5, <2>2, <2>3, <2>4 DEF RemoveStep
<1> QED BY <1>1, <1>2, <1>3, <1>4, <1>5, ServerCases

(* What LiveClientsReachable says follows from the invariant.              *)
LEMMA LivesReachable ==
  ASSUME \A c \in Clients : JoinsOf(c) /\ LivesOf(c), ListTyped
  PROVE  LiveClientsReachable
<1> SUFFICES ASSUME NEW c \in Clients, JoinHandled(c), crunning[c],
                    ServerUp, ~CleaningUp
             PROVE  Cardinality(Listed(c)) = 1 /\ Reachable(c)
  BY DEF LiveClientsReachable
<1>1. InLoop
  BY DEF ListTyped, ServerLabels, ServerUp, CleaningUp, InLoop
<1>2. ~Asking(c) /\ ~Created(c) /\ pc[c]["main"] \in Chats
  BY DEF JoinHandled, Asking, Created, IsJoin, Chats
<1>3. Reachable(c)
  BY <1>1, <1>2 DEF LivesOf
<1>4. PICK k \in Listed(c) : TRUE
  BY <1>3, ReachableListed
<1>5. \A j \in Listed(c) : j = k
  BY <1>4 DEF JoinsOf
<1>6. Listed(c) = {k}
  BY <1>4, <1>5
<1> QED BY <1>3, <1>6, FS_Singleton
-----------------------------------------------------------------------------
(***************************************************************************)
(* The loop of send_message_all misses nobody it can reach.                *)
(***************************************************************************)
InCurrent(c) == \E k \in DOMAIN current : current[k] = [internal_id |-> c, fd |-> TRUE]
Has(c)       == \E k \in DOMAIN delivered[c] : delivered[c][k] = msg
Due(c)       == Reachable(c) /\ c # msg.internal_id /\ c \notin overflow

ServingOf(c) ==
  /\ spc = "send" /\ Due(c) => InCurrent(c) \/ Has(c)
  /\ spc = "remove" /\ Due(c) => Has(c)
  /\ spc = "poll" /\ msg # NoMsg /\ Due(c) => Has(c)

LEMMA ClientServing ==
  ASSUME NEW c \in Clients, ServingOf(c), ServerSame
  PROVE  ServingOf(c)'
  BY DEF ServingOf, Due, Has, InCurrent, Reachable, ServerSame

(* An element is the head or in the tail.                                  *)
LEMMA HeadTail ==
  ASSUME NEW S, NEW s \in Seq(S), s # <<>>, NEW k \in DOMAIN s
  PROVE  s[k] = Head(s) \/ \E j \in DOMAIN Tail(s) : Tail(s)[j] = s[k]
<1>1. /\ Len(s) \in Nat \ {0} /\ DOMAIN s = 1 .. Len(s) /\ Head(s) = s[1]
      /\ DOMAIN Tail(s) = 1 .. Len(s) - 1
      /\ \A i \in 1 .. Len(s) - 1 : Tail(s)[i] = s[i + 1]
  BY TailIs
<1>2. CASE k # 1
  <2>1. k - 1 \in 1 .. Len(s) - 1 /\ k - 1 + 1 = k
    BY <1>1, <1>2
  <2> QED BY <1>1, <2>1
<1> QED BY <1>1, <1>2

(* Each pass of the loop serves or skips one; none is passed over.         *)
LEMMA ServerServing ==
  ASSUME ChatAssumption, ProcessTyped, SrvqTyped, ListTyped, Handling, ServerStep,
         NEW c \in Clients, ServingOf(c)
  PROVE  ServingOf(c)'
<1>1. CASE Gone \/ create_user \/ ShutStep \/ AgainStep \/ ByeStep \/ FreeStep
  BY <1>1 DEF Gone, create_user, ShutStep, AgainStep, ByeStep, FreeStep, ServingOf
<1>2. CASE ReadMessage
  <2>1. CASE spc' = "send"
    <3>1. current' = clients /\ clients' = clients
      BY <1>2, <2>1 DEF ReadMessage
    <3> QED BY <2>1, <3>1 DEF ServingOf, Due, Reachable, InCurrent
  <2>2. CASE spc' = "create"
    BY <2>2 DEF ServingOf
  <2> QED BY <1>2, <2>1, <2>2 DEF ReadMessage
<1>3. CASE \E d \in Clients : WelcomeStep(d)
  BY <1>3 DEF WelcomeStep, ServingOf, Due, Reachable, InCurrent
<1>4. CASE PassStep
  <2>1. /\ spc = "send" /\ spc' = "send" /\ msg' = msg /\ current # <<>> /\ current' = Tail(current)
        /\ Reachable(c)' = Reachable(c)
    BY <1>4 DEF PassStep, Reachable
  <2>2. (Due(c)' => Due(c)) /\ (Has(c) => Has(c)')
    <3>1. CASE Same(c) /\ (c \in overflow => c \in overflow')
      BY <2>1, <3>1 DEF Due, Has, Same
    <3>2. CASE Gets(c, msg) /\ overflow' = overflow
      <4>1. /\ DOMAIN delivered[c] \subseteq DOMAIN delivered'[c]
            /\ \A k \in DOMAIN delivered[c] : delivered'[c][k] = delivered[c][k]
        <5>1. msg \in Message /\ delivered[c] \in Seq(Message)
          BY <2>1 DEF Handling, Asks, Message, ListTyped
        <5> QED BY <3>2, <5>1, AppendIs DEF Gets
      <4> QED BY <2>1, <3>2, <4>1 DEF Due, Has
    <3> QED BY <1>4, <3>1, <3>2 DEF PassStep, Serves, Same
  <2>3. ASSUME InCurrent(c), Due(c)'
        PROVE  InCurrent(c)' \/ Has(c)'
    <3>1. PICK k \in DOMAIN current : current[k] = [internal_id |-> c, fd |-> TRUE]
      BY <2>3 DEF InCurrent
    <3>2. CASE current[k] = Head(current)
      <4>1. Serves(c, msg)
        BY <1>4, <2>2, <2>3, <3>1, <3>2 DEF PassStep, Due
      <4>2. Gets(c, msg)
        BY <2>3, <4>1 DEF Serves, Due
      <4>3. delivered[c] \in Seq(Message) /\ msg \in Message
        BY <2>1 DEF ListTyped, Handling, Asks, Message
      <4>4. Len(delivered[c]) + 1 \in DOMAIN delivered'[c]
            /\ delivered'[c][Len(delivered[c]) + 1] = msg
        BY <4>2, <4>3, AppendIs DEF Gets
      <4> QED BY <2>1, <4>4 DEF Has
    <3>3. CASE \E j \in DOMAIN Tail(current) : Tail(current)[j] = current[k]
      BY <2>1, <3>1, <3>3 DEF InCurrent
    <3>4. current \in Seq(Entry)
      BY DEF ListTyped
    <3> QED BY <2>1, <3>2, <3>3, <3>4, HeadTail
  <2> QED BY <2>1, <2>2, <2>3 DEF ServingOf
<1>5. CASE SendDone
  <2>1. /\ spc = "send" /\ ~InCurrent(c) /\ Due(c)' = Due(c) /\ Has(c)' = Has(c)
        /\ spc' \in {"remove", "poll"}
    BY <1>5 DEF SendDone, InCurrent, Due, Reachable, Has, hist
  <2> QED BY <2>1 DEF ServingOf
<1>6. CASE RemoveStep
  <2>1. /\ spc = "remove" /\ spc' = "poll" /\ Has(c)' = Has(c) /\ msg' = msg /\ overflow' = overflow
    BY <1>6 DEF RemoveStep, Has
  <2>2. Reachable(c)' => Reachable(c)
    BY <1>6, RemoveKeeps
  <2> QED BY <2>1, <2>2 DEF ServingOf, Due
<1>7. CASE Close
  BY <1>7 DEF Close, ServingOf, Due, Reachable, Has, InCurrent, hist
<1> QED BY <1>1, <1>2, <1>3, <1>4, <1>5, <1>6, <1>7, ServerCases
-----------------------------------------------------------------------------
(***************************************************************************)
(* The lines of one client among the Messages of a sequence: none; the     *)
(* last, or the first, has number v.                                       *)
(***************************************************************************)
NoLine(s, f) == \A k \in DOMAIN s : ~IsLine(s[k], f)
Ends(s, f, v) ==
  \A k \in DOMAIN s :
    IsLine(s[k], f) /\ (\A i \in k + 1 .. Len(s) : ~IsLine(s[i], f)) => s[k].n = v
Begins(s, f, v) ==
  \A k \in DOMAIN s :
    IsLine(s[k], f) /\ (\A i \in 1 .. k - 1 : ~IsLine(s[i], f)) => s[k].n = v

(* Without a line of f, anything holds of its lines.                       *)
LEMMA NoLineEnds ==
  ASSUME NEW s, NEW f, NEW v, NoLine(s, f) \/ s = <<>>
  PROVE  Ends(s, f, v) /\ Begins(s, f, v) /\ Consecutive(s, f)
  BY DEF NoLine, Ends, Begins, Consecutive

(* Behind the others comes a Message that is not a line of f.              *)
LEMMA AppendOther ==
  ASSUME NEW S, NEW s \in Seq(S), NEW m \in S, NEW f, ~IsLine(m, f)
  PROVE  /\ Consecutive(s, f) => Consecutive(Append(s, m), f)
         /\ \A v : Ends(s, f, v) => Ends(Append(s, m), f, v)
         /\ \A v : Begins(s, f, v) => Begins(Append(s, m), f, v)
         /\ NoLine(Append(s, m), f) => NoLine(s, f)
<1> DEFINE t == Append(s, m)
           n == Len(s)
<1>1. /\ DOMAIN s = 1 .. n /\ DOMAIN t = 1 .. n + 1 /\ n \in Nat /\ Len(t) = n + 1
      /\ \A i \in 1 .. n : t[i] = s[i]
      /\ t[n + 1] = m
  BY AppendIs
<1> HIDE DEF t
<1>2. \A k \in DOMAIN t : IsLine(t[k], f) => k \in 1 .. n /\ k # n + 1 /\ t[k] = s[k]
  BY <1>1
<1>3. ASSUME Consecutive(s, f) PROVE Consecutive(t, f)
  <2> SUFFICES ASSUME NEW j \in DOMAIN t, NEW k \in DOMAIN t, j < k,
                      IsLine(t[j], f), IsLine(t[k], f),
                      \A i \in j + 1 .. k - 1 : ~IsLine(t[i], f)
               PROVE  t[k].n = t[j].n + 1
    BY DEF Consecutive
  <2>1. j \in 1 .. n /\ k \in 1 .. n /\ t[j] = s[j] /\ t[k] = s[k]
    BY <1>1, <1>2
  <2>2. \A i \in j + 1 .. k - 1 : ~IsLine(s[i], f)
    BY <1>1, <2>1
  <2> QED BY <1>1, <1>3, <2>1, <2>2 DEF Consecutive
<1>4. ASSUME NEW v, Ends(s, f, v) PROVE Ends(t, f, v)
  <2> SUFFICES ASSUME NEW k \in DOMAIN t, IsLine(t[k], f),
                      \A i \in k + 1 .. Len(t) : ~IsLine(t[i], f)
               PROVE  t[k].n = v
    BY DEF Ends
  <2>1. k \in 1 .. n /\ t[k] = s[k] /\ \A i \in k + 1 .. n : ~IsLine(s[i], f)
    BY <1>1, <1>2
  <2> QED BY <1>1, <1>4, <2>1 DEF Ends
<1>5. ASSUME NEW v, Begins(s, f, v) PROVE Begins(t, f, v)
  <2> SUFFICES ASSUME NEW k \in DOMAIN t, IsLine(t[k], f),
                      \A i \in 1 .. k - 1 : ~IsLine(t[i], f)
               PROVE  t[k].n = v
    BY DEF Begins
  <2>1. k \in 1 .. n /\ t[k] = s[k] /\ \A i \in 1 .. k - 1 : ~IsLine(s[i], f)
    BY <1>1, <1>2
  <2> QED BY <1>1, <1>5, <2>1 DEF Begins
<1>6. NoLine(t, f) => NoLine(s, f)
  BY <1>1 DEF NoLine
<1> QED BY <1>3, <1>4, <1>5, <1>6 DEF t

(* The next line of f comes behind the others.                             *)
LEMMA AppendLine ==
  ASSUME NEW S, NEW s \in Seq(S), NEW m \in S, NEW f, IsLine(m, f), m.n \in Int,
         Consecutive(s, f), Ends(s, f, m.n - 1)
  PROVE  /\ Consecutive(Append(s, m), f) /\ Ends(Append(s, m), f, m.n)
         /\ \A v : Begins(s, f, v) /\ (NoLine(s, f) => v = m.n) => Begins(Append(s, m), f, v)
         /\ ~NoLine(Append(s, m), f)
<1> DEFINE t == Append(s, m)
           n == Len(s)
<1>1. /\ DOMAIN s = 1 .. n /\ DOMAIN t = 1 .. n + 1 /\ n \in Nat /\ Len(t) = n + 1
      /\ \A i \in 1 .. n : t[i] = s[i]
      /\ t[n + 1] = m
  BY AppendIs
<1> HIDE DEF t
<1>2. ~NoLine(t, f)
  BY <1>1 DEF NoLine
<1>3. ASSUME NEW k \in DOMAIN t, \A i \in k + 1 .. Len(t) : ~IsLine(t[i], f)
      PROVE  k = n + 1
  BY <1>1, <1>3
<1>4. Ends(t, f, m.n)
  BY <1>1, <1>3 DEF Ends
<1>5. ASSUME NEW j \in DOMAIN t, NEW k \in DOMAIN t, j < k, IsLine(t[j], f), IsLine(t[k], f),
             \A i \in j + 1 .. k - 1 : ~IsLine(t[i], f)
      PROVE  t[k].n = t[j].n + 1
  <2>1. j \in 1 .. n /\ k \in 1 .. n + 1 /\ t[j] = s[j]
    BY <1>1, <1>5
  <2>2. CASE k \in 1 .. n
    <3>1. t[k] = s[k] /\ \A i \in j + 1 .. k - 1 : ~IsLine(s[i], f)
      BY <1>1, <1>5, <2>1, <2>2
    <3> QED BY <1>1, <1>5, <2>1, <2>2, <3>1 DEF Consecutive
  <2>3. CASE k = n + 1
    <3>1. \A i \in j + 1 .. n : ~IsLine(s[i], f)
      BY <1>1, <1>5, <2>1, <2>3
    <3>2. s[j].n = m.n - 1
      BY <1>1, <1>5, <2>1, <3>1 DEF Ends
    <3> QED BY <1>1, <2>1, <2>3, <3>2
  <2> QED BY <2>1, <2>2, <2>3
<1>6. Consecutive(t, f)
  BY <1>5 DEF Consecutive
<1>7. ASSUME NEW v, Begins(s, f, v), NoLine(s, f) => v = m.n PROVE Begins(t, f, v)
  <2> SUFFICES ASSUME NEW k \in DOMAIN t, IsLine(t[k], f),
                      \A i \in 1 .. k - 1 : ~IsLine(t[i], f)
               PROVE  t[k].n = v
    BY DEF Begins
  <2>1. CASE k \in 1 .. n
    <3>1. t[k] = s[k] /\ \A i \in 1 .. k - 1 : ~IsLine(s[i], f)
      BY <1>1, <2>1
    <3> QED BY <1>1, <1>7, <2>1, <3>1 DEF Begins
  <2>2. CASE k = n + 1
    <3>1. \A i \in 1 .. n : ~IsLine(s[i], f)
      BY <1>1, <2>2
    <3> QED BY <1>1, <1>7, <2>2, <3>1 DEF NoLine
  <2> QED BY <1>1, <2>1, <2>2
<1> QED BY <1>2, <1>4, <1>6, <1>7 DEF t

(* The first Message is taken off.                                         *)
LEMMA TailLines ==
  ASSUME NEW S, NEW s \in Seq(S), s # <<>>, NEW f
  PROVE  /\ Consecutive(s, f) => Consecutive(Tail(s), f)
         /\ \A v : Ends(s, f, v) => Ends(Tail(s), f, v)
<1> DEFINE t == Tail(s)
           n == Len(s)
<1>1. /\ DOMAIN s = 1 .. n /\ DOMAIN t = 1 .. n - 1 /\ n \in Nat \ {0} /\ Len(t) = n - 1
      /\ \A i \in 1 .. n - 1 : t[i] = s[i + 1]
  BY TailIs
<1> HIDE DEF t, n
<1>2. ASSUME NEW j \in Int, NEW k \in Int, 1 <= j, k < n,
             \A i \in j .. k : ~IsLine(t[i], f)
      PROVE  \A i \in j + 1 .. k + 1 : ~IsLine(s[i], f)
  <2> SUFFICES ASSUME NEW i \in j + 1 .. k + 1 PROVE ~IsLine(s[i], f)
    OBVIOUS
  <2>1. i - 1 \in j .. k /\ i - 1 \in 1 .. n - 1 /\ i - 1 + 1 = i
    BY <1>1, <1>2
  <2> QED BY <1>1, <1>2, <2>1
<1>3. ASSUME Consecutive(s, f) PROVE Consecutive(t, f)
  <2> SUFFICES ASSUME NEW j \in DOMAIN t, NEW k \in DOMAIN t, j < k,
                      IsLine(t[j], f), IsLine(t[k], f),
                      \A i \in j + 1 .. k - 1 : ~IsLine(t[i], f)
               PROVE  t[k].n = t[j].n + 1
    BY DEF Consecutive
  <2>1. /\ j + 1 \in DOMAIN s /\ k + 1 \in DOMAIN s /\ j + 1 < k + 1
        /\ t[j] = s[j + 1] /\ t[k] = s[k + 1]
    BY <1>1
  <2>2. \A i \in (j + 1) + 1 .. (k + 1) - 1 : ~IsLine(s[i], f)
    <3>1. j + 1 \in Int /\ k - 1 \in Int /\ 1 <= j + 1 /\ k - 1 < n /\ k - 1 + 1 = (k + 1) - 1
      BY <1>1
    <3> QED BY <1>2, <3>1
  <2> QED BY <1>3, <2>1, <2>2 DEF Consecutive
<1>4. ASSUME NEW v, Ends(s, f, v) PROVE Ends(t, f, v)
  <2> SUFFICES ASSUME NEW k \in DOMAIN t, IsLine(t[k], f),
                      \A i \in k + 1 .. Len(t) : ~IsLine(t[i], f)
               PROVE  t[k].n = v
    BY DEF Ends
  <2>1. k + 1 \in DOMAIN s /\ t[k] = s[k + 1] /\ Len(s) = n
    BY <1>1 DEF n
  <2>2. \A i \in (k + 1) + 1 .. n : ~IsLine(s[i], f)
    <3>1. k + 1 \in Int /\ n - 1 \in Int /\ 1 <= k + 1 /\ n - 1 < n /\ n - 1 + 1 = n /\ Len(t) = n - 1
      BY <1>1
    <3> QED BY <1>2, <3>1
  <2> QED BY <1>4, <2>1, <2>2 DEF Ends
<1> QED BY <1>3, <1>4 DEF t

(* What the first Message was says what the others begin with.             *)
LEMMA TailBegins ==
  ASSUME NEW S, NEW s \in Seq(S), s # <<>>, NEW f
  PROVE  /\ ~IsLine(Head(s), f) =>
              /\ \A v : Begins(s, f, v) => Begins(Tail(s), f, v)
              /\ NoLine(Tail(s), f) => NoLine(s, f)
         /\ IsLine(Head(s), f) =>
              /\ \A v : Begins(s, f, v) => Head(s).n = v
              /\ Consecutive(s, f) => Begins(Tail(s), f, Head(s).n + 1)
              /\ \A v : Ends(s, f, v) /\ NoLine(Tail(s), f) => Head(s).n = v
<1> DEFINE t == Tail(s)
           n == Len(s)
<1>1. /\ DOMAIN s = 1 .. n /\ DOMAIN t = 1 .. n - 1 /\ n \in Nat \ {0} /\ Len(t) = n - 1
      /\ \A i \in 1 .. n - 1 : t[i] = s[i + 1]
      /\ Head(s) = s[1] /\ 1 \in DOMAIN s
  BY TailIs
<1> HIDE DEF t, n
<1>2. ASSUME NEW k \in 1 .. n - 1, \A i \in 1 .. k : ~IsLine(t[i], f)
      PROVE  \A i \in 2 .. k + 1 : ~IsLine(s[i], f)
  <2> SUFFICES ASSUME NEW i \in 2 .. k + 1 PROVE ~IsLine(s[i], f)
    OBVIOUS
  <2>1. i - 1 \in 1 .. k /\ i - 1 \in 1 .. n - 1 /\ i - 1 + 1 = i
    BY <1>1, <1>2
  <2> QED BY <1>1, <1>2, <2>1
<1>3. ASSUME NoLine(t, f) PROVE \A i \in 2 .. n : ~IsLine(s[i], f)
  <2> SUFFICES ASSUME NEW i \in 2 .. n PROVE ~IsLine(s[i], f)
    OBVIOUS
  <2>1. i - 1 \in 1 .. n - 1 /\ i - 1 + 1 = i
    BY <1>1
  <2> QED BY <1>1, <1>3, <2>1 DEF NoLine
<1>4. ASSUME NEW k \in DOMAIN t, \A i \in 1 .. k - 1 : ~IsLine(t[i], f)
      PROVE  /\ k + 1 \in DOMAIN s /\ t[k] = s[k + 1] /\ k \in Nat
             /\ \A i \in 2 .. k : ~IsLine(s[i], f)
  <2>1. k \in 1 .. n - 1 /\ k + 1 \in DOMAIN s /\ t[k] = s[k + 1]
    BY <1>1
  <2>2. ASSUME NEW i \in 2 .. k PROVE ~IsLine(s[i], f)
    <3>1. i - 1 \in 1 .. k - 1 /\ i - 1 \in 1 .. n - 1 /\ i - 1 + 1 = i
      BY <1>1, <2>1
    <3> QED BY <1>1, <1>4, <3>1
  <2> QED BY <2>1, <2>2
<1>5. ASSUME ~IsLine(Head(s), f)
      PROVE  /\ \A v : Begins(s, f, v) => Begins(t, f, v)
             /\ NoLine(t, f) => NoLine(s, f)
  <2>1. ASSUME NEW v, Begins(s, f, v), NEW k \in DOMAIN t, IsLine(t[k], f),
               \A i \in 1 .. k - 1 : ~IsLine(t[i], f)
        PROVE  t[k].n = v
    <3>1. /\ k + 1 \in DOMAIN s /\ t[k] = s[k + 1] /\ k \in Nat
          /\ \A i \in 2 .. k : ~IsLine(s[i], f)
      BY <1>4, <2>1
    <3>2. \A i \in 1 .. (k + 1) - 1 : ~IsLine(s[i], f)
      BY <1>1, <1>5, <3>1
    <3> QED BY <2>1, <3>1, <3>2 DEF Begins
  <2>2. NoLine(t, f) => NoLine(s, f)
    BY <1>1, <1>3, <1>5 DEF NoLine
  <2> QED BY <2>1, <2>2 DEF Begins
<1>6. ASSUME IsLine(Head(s), f)
      PROVE  /\ \A v : Begins(s, f, v) => Head(s).n = v
             /\ Consecutive(s, f) => Begins(t, f, Head(s).n + 1)
             /\ \A v : Ends(s, f, v) /\ NoLine(t, f) => Head(s).n = v
  <2>1. \A v : Begins(s, f, v) => Head(s).n = v
    BY <1>1, <1>6 DEF Begins
  <2>2. ASSUME Consecutive(s, f), NEW k \in DOMAIN t, IsLine(t[k], f),
               \A i \in 1 .. k - 1 : ~IsLine(t[i], f)
        PROVE  t[k].n = Head(s).n + 1
    <3>1. /\ k + 1 \in DOMAIN s /\ t[k] = s[k + 1] /\ k \in Nat /\ 1 < k + 1
          /\ \A i \in 1 + 1 .. (k + 1) - 1 : ~IsLine(s[i], f)
      BY <1>1, <1>4, <2>2
    <3> QED BY <1>1, <1>6, <2>2, <3>1 DEF Consecutive
  <2>3. ASSUME NEW v, Ends(s, f, v), NoLine(t, f) PROVE Head(s).n = v
    <3>1. \A i \in 1 + 1 .. Len(s) : ~IsLine(s[i], f)
      BY <1>3, <2>3 DEF n
    <3> QED BY <1>1, <1>6, <2>3, <3>1 DEF Ends
  <2> QED BY <2>1, <2>2, <2>3 DEF Begins
<1> QED BY <1>5, <1>6 DEF t

-----------------------------------------------------------------------------
(***************************************************************************)
(* The lines of f go one after the other from f to the server's FIFO, to   *)
(* the server and to every client: h is the last that the server has read. *)
(***************************************************************************)
(* No client is visited twice for one Message.                             *)
LEMMA ServerOnceEach ==
  ASSUME ChatAssumption, ProcessTyped, SrvqTyped, ListTyped, Handling, ServerStep, OnceEach,
         \A c \in Clients : JoinsOf(c)
  PROVE  OnceEach'
<1>1. \A j, k \in DOMAIN clients : clients[j].internal_id = clients[k].internal_id => j = k
  <2> SUFFICES ASSUME NEW j \in DOMAIN clients, NEW k \in DOMAIN clients,
                      clients[j].internal_id = clients[k].internal_id
               PROVE  j = k
    OBVIOUS
  <2>1. clients[j] \in Entry
    BY LenProperties DEF ListTyped
  <2>2. clients[j].internal_id \in Clients
    BY <2>1 DEF Entry
  <2> QED BY <2>2 DEF JoinsOf, Listed
<1>2. CASE current' = <<>> \/ current' = current
  BY <1>2 DEF OnceEach
<1>3. CASE current' = clients
  BY <1>1, <1>3 DEF OnceEach
<1>4. CASE current # <<>> /\ current' = Tail(current)
  <2>1. \A k \in DOMAIN current' : k \in Int /\ k + 1 \in DOMAIN current /\ current'[k] = current[k + 1]
    BY <1>4, TailIs DEF ListTyped
  <2> QED BY <2>1 DEF OnceEach
<1> QED BY <1>2, <1>3, <1>4, ServerCases
        DEF Gone, ReadMessage, create_user, WelcomeStep, PassStep, SendDone, RemoveStep, Close,
            ShutStep, AgainStep, ByeStep, FreeStep, Handling

InHand(f) == spc = "send" /\ IsLine(msg, f)

(* What c has got of f: all that the server has read, or all but the line  *)
(* it is about to pass on to c.                                            *)
Heard(c, f, h) ==
  InLoop /\ Reachable(c) /\ c # f /\ c \notin overflow =>
    Ends(delivered[c], f, IF InHand(f) /\ InCurrent(c) THEN h - 1 ELSE h)

Handled(f, h) ==
  /\ Begins(srvq, f, h + 1)
  /\ Writes(f) => Ends(srvq, f, Written(f)) /\ (NoLine(srvq, f) => h = Written(f))
  /\ InHand(f) => msg.n = h
  /\ \A c \in Clients : Heard(c, f, h)

LinesOf(f) ==
  /\ Consecutive(srvq, f)
  /\ \E h \in Int : Handled(f, h)
  /\ \A c \in Clients : c \notin overflow => Consecutive(delivered[c], f)

(* A client writes its next line behind those the FIFO holds.              *)
LEMMA ClientLines ==
  ASSUME ChatAssumption, ProcessTyped, SrvqTyped, NEW f \in Clients, NEW d \in Clients,
         LinesOf(f), ServerSame, Moves(d)
  PROVE  LinesOf(f)'
<1>1. /\ delivered' = delivered /\ overflow' = overflow /\ msg' = msg
      /\ InHand(f)' = InHand(f)
      /\ \A c \in Clients, h \in Int : Heard(c, f, h)' = Heard(c, f, h)
  BY DEF ServerSame, InHand, Heard, InLoop, Reachable, InCurrent
<1>2. PICK h \in Int : Handled(f, h)
  BY DEF LinesOf
<1>3. CASE d # f
  <2>1. Writes(f)' = Writes(f) /\ Written(f)' = Written(f)
    BY <1>3 DEF Moves, OthersSame, Writes, Written
  <2>2. CASE srvq' = srvq
    <3>1. Handled(f, h)'
      BY <1>1, <1>2, <2>1, <2>2 DEF Handled
    <3> QED BY <1>1, <2>2, <3>1 DEF LinesOf
  <2>3. CASE \E m \in Asks : AsksFor(d, m)
    <3>1. PICK m \in Asks : srvq' = Append(srvq, m) /\ ~IsLine(m, f)
      BY <1>3, <2>3 DEF AsksFor, IsLine
    <3>2. srvq \in Seq(Asks)
      BY DEF SrvqTyped
    <3>3. /\ Consecutive(srvq', f) /\ Begins(srvq', f, h + 1)
          /\ Ends(srvq, f, Written(f)) => Ends(srvq', f, Written(f))
          /\ NoLine(srvq', f) => NoLine(srvq, f)
      BY <1>2, <3>1, <3>2, AppendOther DEF LinesOf, Handled
    <3>4. Handled(f, h)'
      BY <1>1, <1>2, <2>1, <3>3 DEF Handled
    <3> QED BY <1>1, <3>3, <3>4 DEF LinesOf
  <2> QED BY <2>2, <2>3 DEF Moves, Quiet
<1>4. CASE d = f /\ Quiet(f)
  <2>1. Handled(f, h)'
    BY <1>1, <1>2, <1>4 DEF Handled, Quiet
  <2> QED BY <1>1, <1>4, <2>1 DEF LinesOf, Quiet
<1>5. CASE d = f /\ \E m \in Asks : AsksFor(f, m)
  <2>1. PICK m \in Asks : AsksFor(f, m)
    BY <1>5
  <2>2. srvq \in Seq(Asks) /\ srvq' = Append(srvq, m) /\ m \in Asks
    BY <2>1 DEF SrvqTyped, AsksFor
  <2>3. CASE IsLine(m, f)
    <3>1. Writes(f) /\ Written(f) = m.n - 1 /\ Written(f)' = m.n /\ m.n \in Int
      BY <2>1, <2>3 DEF AsksFor, IsLine, Writes, Written, Chats, ProcessTyped, ChatAssumption
    <3>2. Ends(srvq, f, m.n - 1) /\ (NoLine(srvq, f) => h + 1 = m.n) /\ Begins(srvq, f, h + 1)
      BY <1>2, <3>1 DEF Handled
    <3>3. /\ Consecutive(srvq', f) /\ Ends(srvq', f, m.n) /\ Begins(srvq', f, h + 1)
          /\ ~NoLine(srvq', f)
      BY <2>2, <2>3, <3>1, <3>2, AppendLine DEF LinesOf
    <3>4. Handled(f, h)'
      BY <1>1, <1>2, <3>1, <3>3 DEF Handled
    <3> QED BY <1>1, <3>3, <3>4 DEF LinesOf
  <2>4. CASE ~IsLine(m, f)
    <3>1. Writes(f)' => Writes(f) /\ Written(f)' = Written(f)
      BY <2>1, <2>4 DEF AsksFor, IsLine, Writes, Written, Before, Chats
    <3>2. /\ Consecutive(srvq', f) /\ Begins(srvq', f, h + 1)
          /\ Ends(srvq, f, Written(f)) => Ends(srvq', f, Written(f))
          /\ NoLine(srvq', f) => NoLine(srvq, f)
      BY <1>2, <2>2, <2>4, AppendOther DEF LinesOf, Handled
    <3>3. Handled(f, h)'
      BY <1>1, <1>2, <3>1, <3>2 DEF Handled
    <3> QED BY <1>1, <3>2, <3>3 DEF LinesOf
  <2> QED BY <2>3, <2>4
<1> QED BY <1>3, <1>4, <1>5 DEF Moves

(* The server reads a Message: if it is a line of f, it is the next.       *)
LEMMA ReadLines ==
  ASSUME ChatAssumption, ProcessTyped, SrvqTyped, ListTyped, Handling, ReadMessage,
         NEW f \in Clients, LinesOf(f)
  PROVE  LinesOf(f)'
<1>1. /\ srvq # <<>> /\ srvq' = Tail(srvq) /\ clients' = clients /\ delivered' = delivered
      /\ overflow' = overflow /\ spc = "poll" /\ msg' = Head(srvq)
      /\ spc' = (IF Head(srvq).type = "J" THEN "create" ELSE "send")
      /\ current' = (IF Head(srvq).type = "J" THEN <<>> ELSE clients)
  BY DEF ReadMessage, hist
<1>2. Writes(f)' = Writes(f) /\ Written(f)' = Written(f)
  BY DEF ReadMessage, client, Writes, Written
<1>3. PICK h \in Int : Handled(f, h)
  BY DEF LinesOf
<1>4. srvq \in Seq(Asks) /\ Head(srvq) \in Asks
  BY <1>1, TailIs DEF SrvqTyped
<1>5. Consecutive(srvq', f) /\ \A v : Ends(srvq, f, v) => Ends(srvq', f, v)
  BY <1>1, <1>4, TailLines DEF LinesOf
<1>6. \A c \in Clients : Reachable(c)' = Reachable(c)
  BY <1>1 DEF Reachable
<1>7. \A c \in Clients : Reachable(c) /\ c # f /\ c \notin overflow => Ends(delivered[c], f, h)
  BY <1>1, <1>3 DEF Handled, Heard, InLoop, InHand
<1>8. CASE IsLine(Head(srvq), f)
  <2>1. Head(srvq).n = h + 1 /\ Begins(srvq', f, h + 2) /\ Begins(srvq', f, h + 1 + 1)
    <3>1. Begins(srvq, f, h + 1) /\ Consecutive(srvq, f)
      BY <1>3 DEF Handled, LinesOf
    <3>2. Head(srvq).n = h + 1 /\ Begins(srvq', f, Head(srvq).n + 1)
      BY <1>1, <1>4, <1>8, <3>1, TailBegins
    <3>3. h + 1 + 1 = h + 2
      OBVIOUS
    <3> QED BY <3>2, <3>3
  <2>2. Ends(srvq, f, Written(f)) /\ NoLine(srvq', f) => h + 1 = Written(f)
    <3>1. \A v : Ends(srvq, f, v) /\ NoLine(srvq', f) => Head(srvq).n = v
      BY <1>1, <1>4, <1>8, TailBegins
    <3> QED BY <2>1, <3>1
  <2>3. spc' = "send" /\ current' = clients
    BY <1>1, <1>8 DEF IsLine
  <2>4. ASSUME NEW c \in Clients PROVE Heard(c, f, h + 1)'
    <3> SUFFICES ASSUME Reachable(c)', c # f, c \notin overflow'
                 PROVE  Ends(delivered'[c], f, IF InHand(f)' /\ InCurrent(c)' THEN h + 1 - 1 ELSE h + 1)
      BY DEF Heard
    <3>1. InHand(f)' /\ InCurrent(c)'
      BY <1>1, <1>6, <1>8, <2>3 DEF InHand, InCurrent, Reachable
    <3>2. Ends(delivered'[c], f, h) /\ h + 1 - 1 = h
      BY <1>1, <1>6, <1>7
    <3> QED BY <3>1, <3>2
  <2>5. Handled(f, h + 1)'
    BY <1>1, <1>2, <1>3, <1>5, <2>1, <2>2, <2>4 DEF Handled
  <2> QED BY <1>1, <1>5, <2>5 DEF LinesOf
<1>9. CASE ~IsLine(Head(srvq), f)
  <2>1. /\ Begins(srvq', f, h + 1)
        /\ NoLine(srvq', f) => NoLine(srvq, f)
    BY <1>1, <1>3, <1>4, <1>9, TailBegins DEF Handled
  <2>2. ~InHand(f)'
    BY <1>1, <1>9 DEF InHand
  <2>3. \A c \in Clients : Heard(c, f, h)'
    BY <1>1, <1>6, <1>7, <2>2 DEF Heard
  <2>4. Handled(f, h)'
    BY <1>2, <1>3, <1>5, <2>1, <2>2, <2>3 DEF Handled
  <2> QED BY <1>1, <1>5, <2>4 DEF LinesOf
<1> QED BY <1>8, <1>9

(* A step of the server that reads nothing: for each client, the FIFO gets *)
(* no line of f, or the one in hand.                                       *)
LEMMA PassLines ==
  ASSUME ChatAssumption, ProcessTyped, SrvqTyped, ListTyped, Handling, OnceEach, PassStep,
         NEW f \in Clients, NEW h \in Int, NEW c \in Clients, Heard(c, f, h),
         InHand(f) => msg.n = h,
         c \notin overflow => Consecutive(delivered[c], f)
  PROVE  Heard(c, f, h)' /\ (c \notin overflow' => Consecutive(delivered'[c], f))
<1> DEFINE e == Head(current)
<1>1. /\ spc = "send" /\ spc' = "send" /\ msg' = msg /\ current # <<>> /\ current' = Tail(current)
      /\ Reachable(c)' = Reachable(c) /\ InLoop /\ InHand(f)' = InHand(f)
      /\ (c \notin overflow' => c \notin overflow)
  BY DEF PassStep, Reachable, InLoop, InHand, Serves
<1>2. delivered[c] \in Seq(Message) /\ msg \in Message /\ current \in Seq(Entry)
  BY <1>1 DEF ListTyped, Handling, Asks, Message
<1>3. InCurrent(c)' => InCurrent(c)
  BY <1>1, <1>2, TailIs DEF InCurrent
<1>4. CASE Gets(c, msg)
  <2>1. delivered'[c] = Append(delivered[c], msg)
    BY <1>4 DEF Gets
  <2>2. CASE InHand(f) /\ ~Same(c) /\ c \notin overflow'
    <3>1. c = e.internal_id /\ e.fd /\ c # msg.internal_id
      BY <2>2 DEF PassStep, Serves, Same
    <3>2. e \in Entry /\ 1 \in DOMAIN current /\ current[1] = e
      BY <1>1, <1>2, TailIs
    <3>3. e = [internal_id |-> c, fd |-> TRUE]
      BY <3>1, <3>2 DEF Entry
    <3>4. InCurrent(c) /\ Reachable(c) /\ c # f
      <4>1. InCurrent(c)
        BY <3>2, <3>3 DEF InCurrent
      <4>2. c # f
        BY <2>2, <3>1 DEF InHand, IsLine
      <4>3. Reachable(c)
        BY <3>2, <3>3 DEF Reachable, Handling
      <4> QED BY <4>1, <4>2, <4>3
    <3>5. Ends(delivered[c], f, h - 1) /\ msg.n = h /\ IsLine(msg, f)
      BY <1>1, <2>2, <3>4 DEF Heard, InHand
    <3>6. Consecutive(delivered'[c], f) /\ Ends(delivered'[c], f, h)
      BY <1>1, <1>2, <2>1, <2>2, <3>5, AppendLine
    <3>7. ~InCurrent(c)'
      <4>1. /\ DOMAIN current' = 1 .. Len(current) - 1 /\ DOMAIN current = 1 .. Len(current)
            /\ Len(current) \in Nat
            /\ \A i \in 1 .. Len(current) - 1 : current'[i] = current[i + 1]
        BY <1>1, <1>2, TailIs
      <4> SUFFICES ASSUME NEW k \in DOMAIN current', current'[k] = [internal_id |-> c, fd |-> TRUE]
                   PROVE  FALSE
        BY DEF InCurrent
      <4>2. k + 1 \in DOMAIN current /\ current[k + 1].internal_id = c /\ k + 1 # 1
        BY <4>1
      <4> QED BY <3>2, <3>3, <4>2 DEF OnceEach
    <3> QED BY <3>6, <3>7 DEF Heard
  <2>3. CASE ~InHand(f)
    <3>1. ~IsLine(msg, f)
      BY <1>1, <2>3 DEF InHand
    <3>2. /\ Consecutive(delivered[c], f) => Consecutive(delivered'[c], f)
          /\ Ends(delivered[c], f, h) => Ends(delivered'[c], f, h)
      BY <1>2, <2>1, <3>1, AppendOther
    <3> QED BY <1>1, <2>3, <3>2 DEF Heard
  <2>4. CASE Same(c)
    <3>1. Append(delivered[c], msg) = delivered[c]
      BY <2>1, <2>4 DEF Same
    <3>2. Len(delivered[c]) + 1 = Len(delivered[c]) /\ Len(delivered[c]) \in Nat
      BY <1>2, <3>1, AppendIs
    <3> QED BY <3>2
  <2>5. CASE c \in overflow'
    BY <2>5 DEF Heard
  <2> QED BY <2>2, <2>3, <2>4, <2>5
<1>5. CASE Same(c)
  <2>1. CASE c \in overflow'
    BY <2>1 DEF Heard
  <2>2. CASE c \notin overflow' /\ ~InHand(f)
    BY <1>1, <1>5, <2>2 DEF Heard, Same
  <2>3. CASE c \notin overflow' /\ InHand(f) /\ c # f
    <3>1. e # [internal_id |-> c, fd |-> TRUE]
      <4> SUFFICES ASSUME e = [internal_id |-> c, fd |-> TRUE] PROVE FALSE
        OBVIOUS
      <4>1. e.internal_id = c /\ e.fd /\ c # msg.internal_id
        BY <2>3 DEF InHand, IsLine
      <4>2. Gets(c, msg)
        BY <2>3, <4>1 DEF PassStep, Serves
      <4>3. Append(delivered[c], msg) = delivered[c]
        BY <1>5, <4>2 DEF Same, Gets
      <4>4. Len(delivered[c]) + 1 = Len(delivered[c]) /\ Len(delivered[c]) \in Nat
        BY <1>2, <4>3, AppendIs
      <4> QED BY <4>4
    <3>2. InCurrent(c) => InCurrent(c)'
      <4> SUFFICES ASSUME NEW k \in DOMAIN current, current[k] = [internal_id |-> c, fd |-> TRUE]
                   PROVE  InCurrent(c)'
        BY DEF InCurrent
      <4>1. \E j \in DOMAIN Tail(current) : Tail(current)[j] = current[k]
        BY <1>1, <1>2, <3>1, HeadTail
      <4> QED BY <1>1, <4>1 DEF InCurrent
    <3> QED BY <1>1, <1>3, <1>5, <2>3, <3>2 DEF Heard, Same
  <2>4. CASE c \notin overflow' /\ c = f
    BY <1>1, <1>5, <2>4 DEF Heard, Same
  <2> QED BY <2>1, <2>2, <2>3, <2>4
<1> QED BY <1>4, <1>5 DEF PassStep, Serves, Same
(* What the server reads and passes on are the next lines.                 *)
LEMMA ServerLines ==
  ASSUME ChatAssumption, ProcessTyped, SrvqTyped, ListTyped, Handling, OnceEach, ServerStep,
         \A c \in Clients : JoinsOf(c), NEW f \in Clients, LinesOf(f)
  PROVE  LinesOf(f)'
<1>1. CASE ReadMessage
  BY <1>1, ReadLines
<1>2. CASE ~ReadMessage
  <2>1. srvq' = srvq /\ Writes(f)' = Writes(f) /\ Written(f)' = Written(f)
    <3>1. srvq' = srvq
      BY <1>2, ServerCases DEF Gone, create_user, WelcomeStep, PassStep, SendDone, RemoveStep, Close,
                               ShutStep, AgainStep, ByeStep, FreeStep
    <3> QED BY <3>1, ServerLeavesClients DEF client, Writes, Written
  <2>2. PICK h \in Int : Handled(f, h)
    BY DEF LinesOf
  <2>3. InHand(f)' => InHand(f) /\ msg' = msg
    BY <1>2, ServerCases DEF Gone, create_user, WelcomeStep, PassStep, SendDone, RemoveStep, Close,
                             ShutStep, AgainStep, ByeStep, FreeStep, InHand, IsLine, Handling
  <2>4. ASSUME NEW c \in Clients
        PROVE  Heard(c, f, h)' /\ (c \notin overflow' => Consecutive(delivered'[c], f))
    <3>0. Heard(c, f, h) /\ (c \notin overflow => Consecutive(delivered[c], f))
      BY <2>2 DEF Handled, LinesOf
    <3>1. CASE PassStep
      BY <2>2, <3>0, <3>1, PassLines DEF Handled
    <3>2. CASE Gone \/ ShutStep \/ AgainStep \/ FreeStep
      BY <3>0, <3>2 DEF Gone, ShutStep, AgainStep, FreeStep, Heard, InLoop
    <3>3. CASE ByeStep
      <4>1. ~InLoop' /\ (c \in overflow => c \in overflow')
        BY <3>3 DEF ByeStep, InLoop, Serves
      <4>2. CASE Same(c)
        BY <3>0, <4>1, <4>2 DEF Heard, Same
      <4>3. CASE Gets(c, [type |-> "S"])
        <5> DEFINE m == [type |-> "S"]
        <5>1. m \in Message /\ ~IsLine(m, f)
          BY DEF Message, IsLine
        <5> HIDE DEF m
        <5>2. delivered[c] \in Seq(Message) /\ delivered'[c] = Append(delivered[c], m)
          BY <4>3 DEF ListTyped, Gets, m
        <5>3. Consecutive(delivered[c], f) => Consecutive(delivered'[c], f)
          BY <5>1, <5>2, AppendOther
        <5> QED BY <3>0, <4>1, <5>3 DEF Heard
      <4> QED BY <3>3, <4>2, <4>3 DEF ByeStep, Serves, Same
    <3>4. CASE create_user
      <4>1. /\ spc = "create" /\ ~InHand(f) /\ ~InHand(f)' /\ delivered' = delivered
            /\ overflow' = overflow /\ InLoop
        BY <3>4 DEF create_user, InHand, hist, InLoop
      <4>2. CASE Created(c)
        <5>1. delivered[c] = <<>>
          BY <4>2 DEF JoinsOf
        <5> QED BY <4>1, <5>1, NoLineEnds DEF Heard
      <4>3. CASE ~Created(c)
        <5>1. Reachable(c)' => Reachable(c)
          BY <3>4, <4>1, <4>3, CreateListed DEF Created
        <5> QED BY <3>0, <4>1, <5>1 DEF Heard
      <4> QED BY <4>2, <4>3
    <3>5. CASE \E d \in Clients : WelcomeStep(d)
      <4>1. PICK d \in Clients : WelcomeStep(d)
        BY <3>5
      <4>2. /\ InLoop /\ ~InHand(f) /\ ~InHand(f)' /\ Reachable(c)' = Reachable(c)
            /\ (c \in overflow => c \in overflow')
        BY <4>1 DEF WelcomeStep, InLoop, InHand, Handling, IsLine, Reachable, Serves
      <4>3. CASE Same(c)
        BY <3>0, <4>2, <4>3 DEF Heard, Same
      <4>4. CASE Gets(c, [msg EXCEPT !.type = "W"])
        <5> DEFINE m == [msg EXCEPT !.type = "W"]
        <5>1. m \in Message /\ ~IsLine(m, f)
          BY <4>1 DEF WelcomeStep, Handling, Asks, Message, IsLine
        <5> HIDE DEF m
        <5>2. delivered[c] \in Seq(Message) /\ delivered'[c] = Append(delivered[c], m)
          BY <4>4 DEF ListTyped, Gets, m
        <5>3. /\ Consecutive(delivered[c], f) => Consecutive(delivered'[c], f)
              /\ Ends(delivered[c], f, h) => Ends(delivered'[c], f, h)
          BY <5>1, <5>2, AppendOther
        <5> QED BY <3>0, <4>2, <5>3 DEF Heard
      <4> QED BY <4>1, <4>3, <4>4 DEF WelcomeStep, Serves, Same
    <3>6. CASE SendDone
      <4>1. /\ spc = "send" /\ InLoop /\ ~InHand(f)' /\ ~InCurrent(c) /\ Reachable(c)' = Reachable(c)
            /\ delivered' = delivered /\ overflow' = overflow
        BY <3>6 DEF SendDone, InLoop, InHand, InCurrent, Reachable, hist
      <4> QED BY <3>0, <4>1 DEF Heard
    <3>7. CASE RemoveStep
      <4>1. /\ InLoop /\ ~InHand(f) /\ ~InHand(f)' /\ delivered' = delivered /\ overflow' = overflow
        BY <3>7 DEF RemoveStep, InLoop, InHand
      <4>2. Reachable(c)' => Reachable(c)
        BY <3>7, RemoveKeeps
      <4> QED BY <3>0, <4>1, <4>2 DEF Heard
    <3>8. CASE Close
      BY <3>0, <3>8 DEF Close, Heard, InLoop, InHand, InCurrent, Reachable, hist
    <3> QED BY <1>2, <3>1, <3>2, <3>3, <3>4, <3>5, <3>6, <3>7, <3>8, ServerCases
  <2>5. Handled(f, h)'
    BY <2>1, <2>2, <2>3, <2>4 DEF Handled
  <2> QED BY <2>1, <2>4, <2>5 DEF LinesOf
<1> QED BY <1>1, <1>2
-----------------------------------------------------------------------------
(***************************************************************************)
(* The invariant, and the theorems.                                        *)
(***************************************************************************)
ChatInv ==
  /\ ProcessTyped /\ SrvqTyped /\ ListTyped /\ Handling /\ OnceEach /\ Sent
  /\ \A c \in Clients :
       /\ Own(c) /\ Filed(c) /\ JoinsOf(c) /\ ShapeOf(c) /\ LivesOf(c) /\ ServingOf(c)
       /\ LinesOf(c)

(* The invariant holds at the start, and every step keeps it.              *)
LEMMA ChatInvInit ==
  ASSUME ChatAssumption, Init
  PROVE  ChatInv
<1>1. ProcessTyped
  BY DEF ChatAssumption, Init, ProcessTyped, ClientLabels
<1>2. SrvqTyped /\ Handling /\ OnceEach
  BY DEF ChatAssumption, Init, SrvqTyped, Handling, OnceEach
<1>3. ListTyped /\ Sent
  BY DEF Init, ListTyped, ServerLabels, Sent
<1>4. ASSUME NEW c \in Clients
      PROVE  Own(c) /\ Filed(c) /\ JoinsOf(c) /\ ShapeOf(c) /\ LivesOf(c) /\ ServingOf(c)
  <2>1. /\ spc = "poll" /\ clients = <<>> /\ srvq = <<>> /\ delivered[c] = <<>> /\ crunning[c] = TRUE
        /\ \A t \in Threads : pc[c][t] = "none"
    BY DEF Init
  <2>2. ~Asking(c) /\ ~Created(c) /\ ~Joined(c) /\ Listed(c) = {} /\ ~Reachable(c)
    BY <2>1 DEF Asking, Created, Joined, Listed, Reachable
  <2>3. Own(c) /\ Filed(c)
    BY <2>1 DEF Own, Filed, Threads, Leaving, Before, Chats
  <2>4. JoinsOf(c) /\ ShapeOf(c)
    BY <2>1, <2>2 DEF JoinsOf, ShapeOf, Shaped, NoBye, Spare
  <2>5. LivesOf(c) /\ ServingOf(c)
    BY <2>1, <2>2 DEF LivesOf, ServingOf, Due, Threads, Chats
  <2> QED BY <2>3, <2>4, <2>5
<1>5. ASSUME NEW f \in Clients
      PROVE  LinesOf(f)
  <2>1. /\ spc = "poll" /\ clients = <<>> /\ srvq = <<>> /\ delivered = [c \in Clients |-> <<>>]
        /\ said[f] = 0 /\ pc[f]["main"] = "none"
    BY DEF Init, Threads
  <2>2. \A v : Begins(srvq, f, v) /\ Ends(srvq, f, v) /\ Consecutive(srvq, f)
    BY <2>1, NoLineEnds
  <2>3. Written(f) = 0 /\ ~InHand(f) /\ \A c \in Clients : ~Reachable(c)
    BY <2>1 DEF Written, InHand, Reachable
  <2>4. \A c \in Clients : Consecutive(delivered[c], f)
    BY <2>1, NoLineEnds
  <2>5. Handled(f, 0)
    BY <2>2, <2>3 DEF Handled, Heard
  <2> QED BY <2>2, <2>4, <2>5 DEF LinesOf
<1> QED BY <1>1, <1>2, <1>3, <1>4, <1>5 DEF ChatInv

LEMMA ClientListTyped ==
  ASSUME ListTyped, NEW c \in Clients, ClientStep(c), ServerSame
  PROVE  ListTyped'
<1>1. linked' \subseteq linked \union {c} /\ pressed' \subseteq pressed \union {c}
  <2>1. CASE MakeFifo(c) \/ OpenServer(c) \/ OpenClient(c) \/ StartReceiver(c) \/ SendJoin(c)
    BY <2>1 DEF MakeFifo, OpenServer, OpenClient, StartReceiver, SendJoin
  <2>2. CASE PollServer(c) \/ StopChatting(c) \/ SendLine(c) \/ Kill(c)
    BY <2>2 DEF PollServer, StopChatting, SendLine, Kill
  <2>3. CASE PollOwn(c) \/ ReadOwn(c) \/ ReceiverReturns(c)
    BY <2>3 DEF PollOwn, ReadOwn, ReceiverReturns
  <2>4. CASE \E t \in Threads :
                \/ Interrupt(c, t) \/ SendLeave(c, t) \/ CloseServer(c, t) \/ CloseClient(c, t)
                \/ JoinAndExit(c, t)
    BY <2>4 DEF Interrupt, SendLeave, CloseServer, CloseClient, JoinAndExit
  <2> QED BY <2>1, <2>2, <2>3, <2>4, ClientCases
<1> QED BY <1>1 DEF ListTyped, ServerSame

LEMMA ClientHandling ==
  ASSUME Handling, OnceEach, ServerSame, SrvqTyped'
  PROVE  Handling' /\ OnceEach'
  BY DEF Handling, OnceEach, ServerSame, SrvqTyped

LEMMA ChatInvClient ==
  ASSUME ChatAssumption, ChatInv, NEW d \in Clients, ClientStep(d)
  PROVE  ChatInv'
<1>0. ProcessTyped /\ SrvqTyped /\ ListTyped /\ Handling /\ OnceEach /\ Sent /\ Own(d) /\ Filed(d)
  BY DEF ChatInv
<1>1. ServerSame /\ Moves(d)
  BY <1>0, ClientMoves
<1>2. ProcessTyped' /\ SrvqTyped' /\ ListTyped' /\ Handling' /\ OnceEach'
  BY <1>0, <1>1, ClientTyped, ClientListTyped, ClientHandling
<1>3. ASSUME NEW c \in Clients
      PROVE  Own(c)' /\ Filed(c)' /\ Len(cliq'[c]) <= Len(cliq[c])
  <2>1. CASE c = d
    BY <1>1, <2>1 DEF Moves
  <2>2. CASE c # d
    <3>1. Own(c) /\ Filed(c)
      BY DEF ChatInv
    <3>2. /\ pc'[c] = pc[c] /\ client_fd'[c] = client_fd[c] /\ crunning'[c] = crunning[c]
          /\ said'[c] = said[c] /\ cliq'[c] = cliq[c] /\ (c \in linked' <=> c \in linked)
          /\ spc' = spc
      BY <1>1, <2>2 DEF Moves, OthersSame, ServerSame
    <3>3. Own(c)' /\ Filed(c)'
      BY <3>1, <3>2 DEF Own, Filed, InLoop
    <3>4. Len(cliq[c]) \in Nat
      BY <1>0, LenProperties DEF ProcessTyped
    <3> QED BY <3>2, <3>3, <3>4
  <2> QED BY <2>1, <2>2
<1>4. Sent'
  <2> SUFFICES ASSUME NEW c \in Clients PROVE Len(cliq'[c]) <= Len(delivered'[c])
    BY DEF Sent
  <2>1. delivered' = delivered
    BY <1>1 DEF ServerSame
  <2> QED BY <1>0, <1>2, <1>3, <2>1, StepSent
<1>5. ASSUME NEW c \in Clients
      PROVE  JoinsOf(c)' /\ ShapeOf(c)' /\ LivesOf(c)' /\ ServingOf(c)' /\ LinesOf(c)'
  <2>1. JoinsOf(c) /\ ShapeOf(c) /\ LivesOf(c) /\ ServingOf(c) /\ LinesOf(c)
    BY DEF ChatInv
  <2> QED BY <1>0, <1>1, <2>1, ClientJoins, ClientShape, ClientLives, ClientServing, ClientLines
<1> QED BY <1>2, <1>3, <1>4, <1>5 DEF ChatInv

LEMMA ChatInvServer ==
  ASSUME ChatAssumption, ChatInv, ServerStep
  PROVE  ChatInv'
<1>0. /\ ProcessTyped /\ SrvqTyped /\ ListTyped /\ Handling /\ OnceEach /\ Sent
      /\ \A c \in Clients : JoinsOf(c)
  BY DEF ChatInv
<1>1. ProcessTyped' /\ SrvqTyped' /\ ListTyped' /\ Handling' /\ OnceEach'
  BY <1>0, ServerTyped, ServerHandling, ServerOnceEach
<1>2. Sent'
  <2> SUFFICES ASSUME NEW c \in Clients PROVE Len(cliq'[c]) <= Len(delivered'[c])
    BY DEF Sent
  <2>1. Same(c) \/ \E m \in Message : Gets(c, m)
    BY <1>0, ServerSends
  <2> QED BY <1>0, <1>1, <2>1, StepSent
<1>3. ASSUME NEW c \in Clients
      PROVE  /\ Own(c)' /\ Filed(c)' /\ JoinsOf(c)' /\ ShapeOf(c)' /\ LivesOf(c)' /\ ServingOf(c)'
             /\ LinesOf(c)'
  <2>1. Own(c) /\ Filed(c) /\ JoinsOf(c) /\ ShapeOf(c) /\ LivesOf(c) /\ ServingOf(c) /\ LinesOf(c)
    BY DEF ChatInv
  <2>2. Own(c)' /\ Filed(c)' /\ JoinsOf(c)'
    BY <1>0, <2>1, ServerOwn, ServerJoins
  <2>3. ShapeOf(c)' /\ LivesOf(c)'
    BY <1>0, <2>1, ServerShape, ServerLives
  <2>4. ServingOf(c)' /\ LinesOf(c)'
    BY <1>0, <2>1, ServerServing, ServerLines
  <2> QED BY <2>2, <2>3, <2>4
<1> QED BY <1>1, <1>2, <1>3 DEF ChatInv

LEMMA ChatInvSame ==
  ASSUME ChatInv, UNCHANGED vars
  PROVE  ChatInv'
<1> USE DEF vars, server, client, hist
<1>1. ProcessTyped' /\ SrvqTyped' /\ ListTyped' /\ Handling' /\ OnceEach' /\ Sent'
  BY DEF ChatInv, ProcessTyped, SrvqTyped, ListTyped, Handling, OnceEach, Sent
<1>2. ASSUME NEW c \in Clients
      PROVE  Own(c)' /\ Filed(c)' /\ JoinsOf(c)' /\ ShapeOf(c)' /\ LivesOf(c)' /\ ServingOf(c)'
  BY DEF ChatInv, Own, Filed, JoinsOf, ShapeOf, LivesOf, ServingOf, Asking, Joined, Created, Listed,
         Pending, Reachable, InLoop, InCurrent, Has, Due
<1>3. ASSUME NEW c \in Clients PROVE LinesOf(c)'
  BY DEF ChatInv, LinesOf, Handled, Heard, Writes, Written, InHand, InLoop, InCurrent, Reachable
<1> QED BY <1>1, <1>2, <1>3 DEF ChatInv

(* What the threads hold, what the list and the FIFOs hold, and how far the *)
(* lines of each client have come are an inductive invariant of the chat.  *)
THEOREM ChatInvariant == Spec => []ChatInv
<1>1. Init => ChatInv
  BY ChatAssumption, ChatInvInit
<1>2. ChatInv /\ [Next]_vars => ChatInv'
  <2> SUFFICES ASSUME ChatInv, [Next]_vars PROVE ChatInv'
    OBVIOUS
  <2>1. CASE ServerStep
    BY <2>1, ChatAssumption, ChatInvServer
  <2>2. CASE \E c \in Clients : ClientStep(c)
    BY <2>2, ChatAssumption, ChatInvClient
  <2>3. CASE UNCHANGED vars
    BY <2>3, ChatInvSame
  <2> QED BY <2>1, <2>2, <2>3 DEF Next, ServerStep
<1> QED BY <1>1, <1>2, PTL DEF Spec

(* The variables of the server, the clients and the FIFOs have their types; *)
(* no FIFO ever holds more than PIPE Messages.                             *)
THEOREM ChatTypeOK == Spec => []TypeOK
<1>1. ChatInv => TypeOK
  BY DEF ChatInv, ProcessTyped, SrvqTyped, ListTyped, TypeOK
<1> QED BY <1>1, ChatInvariant, PTL

(* What is delivered to a client begins with its only welcome (or the       *)
(* notice); nothing but the notice again follows the notice, and that at    *)
(* most once for each signal that came.                                     *)
THEOREM ChatSessionShape == Spec => []SessionShape
<1>1. ChatInv => SessionShape
  BY DEF ChatInv, ShapeOf, Shaped, SessionShape
<1> QED BY <1>1, ChatInvariant, PTL

(* When the server is done with a Message, every client that it can reach  *)
(* has it, but its sender and those whose FIFO was full.                   *)
THEOREM ChatEveryoneServed == Spec => []EveryoneServed
<1>1. ChatInv => EveryoneServed
  BY DEF ChatInv, ServingOf, Due, Has, EveryoneServed
<1> QED BY <1>1, ChatInvariant, PTL

(* Each client gets the lines of each other one after the other, none twice *)
(* and none skipped, unless its FIFO was full.                             *)
THEOREM ChatLinesInOrder == Spec => []LinesInOrder
<1>1. ChatInv => LinesInOrder
  BY DEF ChatInv, LinesOf, LinesInOrder
<1> QED BY <1>1, ChatInvariant, PTL

(* Whoever has joined and still runs is on the server's list once, with its *)
(* FIFO open.                                                              *)
THEOREM ChatLiveClientsReachable == Spec => []LiveClientsReachable
<1>1. ChatInv => LiveClientsReachable
  BY LivesReachable DEF ChatInv
<1> QED BY <1>1, ChatInvariant, PTL

=============================================================================
