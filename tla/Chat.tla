-------------------------------- MODULE Chat --------------------------------
(***************************************************************************)
(* hw5/Q4: a chat room.  server.c reads messages from one FIFO and writes  *)
(* them, without blocking, to one FIFO per client; client.c writes to the  *)
(* server's FIFO from its main thread and reads its own from a second      *)
(* thread.  Every write is one Message, smaller than PIPE_BUF and so       *)
(* atomic.  A write to a FIFO without reader kills the writer: neither     *)
(* program changes the default action of SIGPIPE, so the EPIPE branches of *)
(* send_message_all never run.                                             *)
(***************************************************************************)
EXTENDS Naturals, Sequences, FiniteSets

CONSTANTS
  Clients,      \* the client processes
  PIPE,         \* how many Messages a FIFO holds
  MaxSaid,      \* bound: lines a user types
  Interrupted,  \* clients whose user may press ^C, once
  Killable,     \* clients that may be killed outright
  MayClose,     \* whether the operator may type 'close'
  Signals,      \* how many of SIGINT and SIGTERM the server may get, one of each
  NoMsg         \* no message read yet

ASSUME ChatAssumption ==
  /\ PIPE \in Nat \ {0} /\ MaxSaid \in Nat
  /\ Interrupted \subseteq Clients /\ Killable \subseteq Clients
  /\ MayClose \in BOOLEAN /\ Signals \in 0 .. 2

VARIABLES
  spc,        \* where the server's main thread stands
  clients,    \* its list, newest first: records of internal_id and fd
  msg,        \* the Message it read last
  current,    \* the part of the list its loop has still to visit
  running,    \* the server's flag, cleared by 'close'
  handling,   \* how many runs of its signal handler have begun; none returns
  srvq,       \* content of the server's FIFO, whose file is there while ...
  srvLinked,  \* ... srvLinked holds
  cliq,       \* cliq[c]: content of c's FIFO
  linked,     \* the clients whose FIFO file exists
  pc,         \* pc[c][t]: where thread t of client c stands
  server_fd, client_fd,  \* whether c has its end of the FIFOs open
  crunning,   \* the client's flag
  said,       \* said[c]: how many lines c's user has typed
  pressed,    \* history: clients that got their ^C
  delivered,  \* history: all Messages ever put into c's FIFO
  overflow    \* history: clients a Message was not written to: FIFO full

server == <<spc, clients, msg, current, running, handling, srvLinked>>
client == <<pc, server_fd, client_fd, crunning, said, pressed>>
hist   == <<delivered, overflow>>
vars   == <<server, client, srvq, cliq, linked, hist>>

Threads == {"main", "recv"}
Message == [type : {"J", "M", "L", "W"}, internal_id : Clients, n : 0 .. MaxSaid]
           \union {[type |-> "S"]}
Entry   == [internal_id : Clients, fd : BOOLEAN]

ServerLabels ==
  {"poll", "create", "welcome", "send", "remove", "cleanup", "close", "exited", "killed"}
ClientLabels ==
  {"none", "fifo", "half", "open", "join", "chat", "write", "poll", "read", "returned",
   "leave", "closesrv", "closecli", "jointhread", "gone"}

TypeOK ==
  /\ spc \in ServerLabels /\ clients \in Seq(Entry) /\ current \in Seq(Entry)
  /\ msg \in Message \union {NoMsg} /\ running \in BOOLEAN /\ srvLinked \in BOOLEAN
  /\ handling \in 0 .. Signals
  /\ srvq \in Seq(Message) /\ Len(srvq) <= PIPE
  /\ cliq \in [Clients -> Seq(Message)] /\ \A c \in Clients : Len(cliq[c]) <= PIPE
  /\ linked \subseteq Clients /\ overflow \subseteq Clients /\ pressed \subseteq Clients
  /\ pc \in [Clients -> [Threads -> ClientLabels]]
  /\ server_fd \in [Clients -> BOOLEAN] /\ client_fd \in [Clients -> BOOLEAN]
  /\ crunning \in [Clients -> BOOLEAN] /\ said \in [Clients -> 0 .. MaxSaid]
  /\ delivered \in [Clients -> Seq(Message)]

(* The server has made and opened its FIFO; no client has started yet.      *)
Init ==
  /\ spc = "poll" /\ clients = <<>> /\ msg = NoMsg /\ current = <<>>
  /\ running = TRUE /\ handling = 0 /\ srvLinked = TRUE /\ srvq = <<>>
  /\ cliq = [c \in Clients |-> <<>>] /\ linked = {}
  /\ pc = [c \in Clients |-> [t \in Threads |-> "none"]]
  /\ server_fd = [c \in Clients |-> FALSE] /\ client_fd = [c \in Clients |-> FALSE]
  /\ crunning = [c \in Clients |-> TRUE] /\ said = [c \in Clients |-> 0]
  /\ pressed = {} /\ delivered = [c \in Clients |-> <<>>] /\ overflow = {}

-----------------------------------------------------------------------------
(* Server.                                                                  *)

ServerUp == spc \notin {"exited", "killed"}

(* The process is gone, with its list; what nobody read stays in its FIFO.  *)
ServerEnds(how) ==
  /\ spc' = how
  /\ clients' = <<>> /\ current' = <<>>

(* write() of m to the open FIFO of client c.                               *)
(* Mutant: the FIFO takes any number of Messages.                           *)
WriteClient_Unbounded(c, m) ==
  /\ cliq' = [cliq EXCEPT ![c] = Append(@, m)]
  /\ delivered' = [delivered EXCEPT ![c] = Append(@, m)]
  /\ UNCHANGED overflow

WriteClient(c, m) ==
  IF Len(cliq[c]) < PIPE
  THEN /\ cliq' = [cliq EXCEPT ![c] = Append(@, m)]
       /\ delivered' = [delivered EXCEPT ![c] = Append(@, m)]
       /\ UNCHANGED overflow
  ELSE overflow' = overflow \union {c} /\ UNCHANGED <<cliq, delivered>>

Sigpipe ==
  /\ ServerEnds("killed")
  /\ UNCHANGED <<msg, running, handling, srvLinked, client, srvq, cliq, linked, hist>>

ReadMessage ==
  /\ spc = "poll" /\ running
  /\ srvq # <<>>
  /\ msg' = Head(srvq) /\ srvq' = Tail(srvq)
  /\ spc' = IF Head(srvq).type = "J" THEN "create" ELSE "send"
  /\ current' = IF Head(srvq).type = "J" THEN <<>> ELSE clients
  /\ UNCHANGED <<clients, running, handling, srvLinked, client, cliq, linked, hist>>

(* open(O_WRONLY | O_NONBLOCK) needs the file and a reader; the client is   *)
(* listed even if it fails.                                                 *)
create_user ==
  /\ spc = "create" /\ spc' = "welcome"
  /\ LET c == msg.internal_id
     IN  clients' = <<[internal_id |-> c, fd |-> c \in linked /\ client_fd[c]]>> \o clients
  /\ UNCHANGED <<msg, current, running, handling, srvLinked, client, srvq, cliq, linked, hist>>

Reachable(c) == \E k \in DOMAIN clients : clients[k] = [internal_id |-> c, fd |-> TRUE]

SendWelcome ==
  /\ spc = "welcome"
  /\ LET c == msg.internal_id
     IN  IF Reachable(c) /\ ~client_fd[c]
         THEN Sigpipe
         ELSE /\ IF Reachable(c) THEN WriteClient(c, [msg EXCEPT !.type = "W"])
                                 ELSE UNCHANGED <<cliq, delivered, overflow>>
              /\ spc' = "send" /\ current' = clients
              /\ UNCHANGED <<clients, msg, running, handling, srvLinked, client, srvq, linked>>

(* Mutant: the loop breaks at the sender, as the loop for a welcome does.   *)
SendNext_Breaks ==
  /\ spc = "send" /\ current # <<>>
  /\ LET e == Head(current)
         skip == e.internal_id = msg.internal_id \/ ~e.fd
     IN  IF ~skip /\ ~client_fd[e.internal_id]
         THEN Sigpipe
         ELSE /\ IF skip THEN UNCHANGED <<cliq, hist>> ELSE WriteClient(e.internal_id, msg)
              /\ current' = IF skip THEN <<>> ELSE Tail(current)
              /\ UNCHANGED <<spc, clients, msg, running, handling, srvLinked, client, srvq, linked>>

(* One pass of the loop of send_message_all.                                *)
SendNext ==
  /\ spc = "send" /\ current # <<>>
  /\ LET e == Head(current)
         skip == e.internal_id = msg.internal_id \/ ~e.fd
     IN  IF ~skip /\ ~client_fd[e.internal_id]
         THEN Sigpipe
         ELSE /\ IF skip THEN UNCHANGED <<cliq, hist>> ELSE WriteClient(e.internal_id, msg)
              /\ current' = Tail(current)
              /\ UNCHANGED <<spc, clients, msg, running, handling, srvLinked, client, srvq, linked>>

SendDone ==
  /\ spc = "send" /\ current = <<>>
  /\ spc' = IF msg.type = "L" THEN "remove" ELSE "poll"
  /\ UNCHANGED <<clients, msg, current, running, handling, srvLinked, client, srvq, cliq, linked, hist>>

(* Mutant: always unlinks the head of the list.                             *)
remove_user_Head ==
  /\ spc = "remove" /\ spc' = "poll"
  /\ clients' = IF clients = <<>> THEN <<>> ELSE Tail(clients)
  /\ UNCHANGED <<msg, current, running, handling, srvLinked, client, srvq, cliq, linked, hist>>

(* Unlinks the first entry of that id, if there is one.                      *)
remove_user ==
  /\ spc = "remove" /\ spc' = "poll"
  /\ LET found == {k \in DOMAIN clients : clients[k].internal_id = msg.internal_id}
     IN  IF found = {}
         THEN UNCHANGED clients
         ELSE LET k == CHOOSE k \in found : \A j \in found : k <= j
              IN  clients' = SubSeq(clients, 1, k - 1) \o SubSeq(clients, k + 1, Len(clients))
  /\ UNCHANGED <<msg, current, running, handling, srvLinked, client, srvq, cliq, linked, hist>>

(* console_input_handler                                                    *)
(* Mutant: tells the clients there and then, while the main thread goes on.  *)
Close_Notifies ==
  /\ MayClose /\ running /\ ServerUp
  /\ running' = FALSE
  /\ LET told    == {c \in Clients : Reachable(c) /\ Len(cliq[c]) < PIPE}
         With(q) == [c \in Clients |-> IF c \in told THEN Append(q[c], [type |-> "S"]) ELSE q[c]]
     IN  cliq' = With(cliq) /\ delivered' = With(delivered)
  /\ UNCHANGED <<spc, clients, msg, current, handling, srvLinked, client, srvq, linked, overflow>>

Close ==
  /\ MayClose /\ running /\ ServerUp
  /\ running' = FALSE
  /\ UNCHANGED <<spc, clients, msg, current, handling, srvLinked, client, srvq, cliq, linked, hist>>

LeaveLoop ==
  /\ spc = "poll" /\ ~running
  /\ spc' = "cleanup" /\ current' = clients
  /\ UNCHANGED <<clients, msg, running, handling, srvLinked, client, srvq, cliq, linked, hist>>

CleaningUp == spc \in {"cleanup", "close"}

(* handle_signal, in the main thread: what it interrupts never goes on.  It  *)
(* runs cleanup() from the head of the list, also when it interrupts a       *)
(* cleanup(): the descriptors closed by then fail with EBADF, but the        *)
(* entries before current have been freed and the list still begins with     *)
(* them, so that the second free aborts the server - or goes unnoticed.      *)
handle_signal ==
  /\ handling < Signals /\ ServerUp
  /\ handling' = handling + 1 /\ running' = FALSE
  /\ \/ /\ spc' = "cleanup" /\ current' = IF CleaningUp THEN current ELSE clients
        /\ UNCHANGED clients
     \/ /\ CleaningUp /\ Len(current) < Len(clients)
        /\ ServerEnds("killed")
  /\ UNCHANGED <<msg, srvLinked, client, srvq, cliq, linked, hist>>

(* cleanup(): for each client the shutdown notice ...                       *)
CleanupNext ==
  /\ spc = "cleanup" /\ current # <<>>
  /\ LET e == Head(current)
     IN  IF e.fd /\ ~client_fd[e.internal_id]
         THEN Sigpipe
         ELSE /\ IF e.fd THEN WriteClient(e.internal_id, [type |-> "S"])
                         ELSE UNCHANGED <<cliq, hist>>
              /\ spc' = "close"
              /\ UNCHANGED <<clients, msg, current, running, handling, srvLinked, client, srvq, linked>>

(* ... then close, unlink and free (a signal between the close and the free *)
(* finds what one after a free that goes unnoticed does) ...                *)
CleanupFree ==
  /\ spc = "close" /\ spc' = "cleanup"
  /\ linked' = linked \ {Head(current).internal_id}
  /\ current' = Tail(current)
  /\ UNCHANGED <<clients, msg, running, handling, srvLinked, client, srvq, cliq, hist>>

(* ... and at last the server's own FIFO; the process returns from main.    *)
CleanupDone ==
  /\ spc = "cleanup" /\ current = <<>>
  /\ ServerEnds("exited")
  /\ srvLinked' = FALSE
  /\ UNCHANGED <<msg, running, handling, client, srvq, cliq, linked, hist>>

ServerMain ==
  \/ ReadMessage \/ create_user \/ SendWelcome \/ SendNext \/ SendDone \/ remove_user
  \/ LeaveLoop \/ CleanupNext \/ CleanupFree \/ CleanupDone

-----------------------------------------------------------------------------
(* Client c; t is one of its two threads.                                   *)

Goto(c, t, from, to) ==
  pc[c][t] = from /\ pc' = [pc EXCEPT ![c][t] = to]

(* The process of c is gone, with both ends it had open.                    *)
ClientEnds(c) ==
  /\ pc' = [pc EXCEPT ![c] = [t \in Threads |-> "gone"]]
  /\ server_fd' = [server_fd EXCEPT ![c] = FALSE]
  /\ client_fd' = [client_fd EXCEPT ![c] = FALSE]
  /\ cliq' = [cliq EXCEPT ![c] = <<>>]
  /\ UNCHANGED <<crunning, said>>

(* write() of m to the server: blocks while the FIFO is full, kills the     *)
(* client if the server is gone.                                            *)
WriteServer(c, t, m, to) ==
  \/ /\ ServerUp /\ Len(srvq) < PIPE
     /\ srvq' = Append(srvq, m)
     /\ pc' = [pc EXCEPT ![c][t] = to]
     /\ UNCHANGED <<server_fd, client_fd, crunning, said, cliq>>
  \/ /\ ~ServerUp
     /\ ClientEnds(c)
     /\ UNCHANGED srvq

MakeFifo(c) ==
  /\ Goto(c, "main", "none", "fifo")
  /\ linked' = linked \union {c}
  /\ UNCHANGED <<server, server_fd, client_fd, crunning, said, pressed, srvq, cliq, hist>>

(* open(server_fifo, O_WRONLY) waits for a reader; no file, no connection.  *)
OpenServer(c) ==
  /\ IF srvLinked
     THEN /\ ServerUp
          /\ Goto(c, "main", "fifo", "half")
          /\ server_fd' = [server_fd EXCEPT ![c] = TRUE]
          /\ UNCHANGED <<client_fd, crunning, said, cliq, linked>>
     ELSE /\ pc[c]["main"] = "fifo"
          /\ ClientEnds(c)
          /\ linked' = linked \ {c}
  /\ UNCHANGED <<server, pressed, srvq, hist>>

OpenClient(c) ==
  /\ Goto(c, "main", "half", "open")
  /\ client_fd' = [client_fd EXCEPT ![c] = TRUE]
  /\ UNCHANGED <<server, server_fd, crunning, said, pressed, srvq, cliq, linked, hist>>

StartReceiver(c) ==
  /\ pc[c]["main"] = "open"
  /\ pc' = [pc EXCEPT ![c] = [t \in Threads |-> IF t = "main" THEN "join" ELSE "poll"]]
  /\ UNCHANGED <<server, server_fd, client_fd, crunning, said, pressed, srvq, cliq, linked, hist>>

SendJoin(c) ==
  /\ pc[c]["main"] = "join"
  /\ WriteServer(c, "main", [type |-> "J", internal_id |-> c, n |-> 0], "chat")
  /\ UNCHANGED <<server, pressed, linked, hist>>

(* A line is typed, and poll says whether the server's FIFO has room: if    *)
(* not (or if the other thread closed the descriptor) the loop ends.        *)
PollServer(c) ==
  /\ crunning[c] /\ said[c] < MaxSaid
  /\ said' = [said EXCEPT ![c] = @ + 1]
  /\ LET ready == server_fd[c] /\ Len(srvq) < PIPE
     IN  /\ Goto(c, "main", "chat", IF ready THEN "write" ELSE "leave")
         /\ crunning' = [crunning EXCEPT ![c] = ready]
  /\ UNCHANGED <<server, server_fd, client_fd, pressed, srvq, cliq, linked, hist>>

(* Mutant: writes the line again.                                           *)
SendLine_Again(c) ==
  /\ pc[c]["main"] = "write"
  /\ IF server_fd[c]
     THEN WriteServer(c, "main", [type |-> "M", internal_id |-> c, n |-> said[c]], "write")
     ELSE /\ pc' = [pc EXCEPT ![c]["main"] = "leave"]
          /\ crunning' = [crunning EXCEPT ![c] = FALSE]
          /\ UNCHANGED <<server_fd, client_fd, said, srvq, cliq>>
  /\ UNCHANGED <<server, pressed, linked, hist>>

SendLine(c) ==
  /\ pc[c]["main"] = "write"
  /\ IF server_fd[c]
     THEN WriteServer(c, "main", [type |-> "M", internal_id |-> c, n |-> said[c]], "chat")
     ELSE /\ pc' = [pc EXCEPT ![c]["main"] = "leave"]
          /\ crunning' = [crunning EXCEPT ![c] = FALSE]
          /\ UNCHANGED <<server_fd, client_fd, said, srvq, cliq>>
  /\ UNCHANGED <<server, pressed, linked, hist>>

(* fgets returns once more after running was cleared, and the loop ends.    *)
StopChatting(c) ==
  /\ ~crunning[c]
  /\ Goto(c, "main", "chat", "leave")
  /\ UNCHANGED <<server, server_fd, client_fd, crunning, said, pressed, srvq, cliq, linked, hist>>

(* get_message: poll (running was tested before it), then read: client_fd   *)
(* may have been closed in between, and then read fails and the thread ends *)
(* the process.  A read is followed by the next test of running.            *)
PollOwn(c) ==
  /\ client_fd[c] /\ cliq[c] # <<>>
  /\ Goto(c, "recv", "poll", "read")
  /\ UNCHANGED <<server, server_fd, client_fd, crunning, said, pressed, srvq, cliq, linked, hist>>

ReadOwn(c) ==
  /\ pc[c]["recv"] = "read"
  /\ IF client_fd[c]
     THEN /\ cliq' = [cliq EXCEPT ![c] = Tail(@)]
          /\ pc' = [pc EXCEPT ![c]["recv"] =
                      CASE Head(cliq[c]).type = "S" -> "leave"
                        [] Head(cliq[c]).type # "S" /\ crunning[c] -> "poll"
                        [] OTHER -> "returned"]
          /\ crunning' = [crunning EXCEPT ![c] = @ /\ Head(cliq[c]).type # "S"]
          /\ UNCHANGED <<server_fd, client_fd, said>>
     ELSE ClientEnds(c)
  /\ UNCHANGED <<server, pressed, srvq, linked, hist>>

ReceiverReturns(c) ==
  /\ ~crunning[c]
  /\ Goto(c, "recv", "poll", "returned")
  /\ UNCHANGED <<server, server_fd, client_fd, crunning, said, pressed, srvq, cliq, linked, hist>>

(* ^C: handle_signal runs cleanup() in whichever thread gets the signal.    *)
Interrupt(c, t) ==
  /\ c \in Interrupted \ pressed
  /\ pc[c][t] \in {"join", "chat", "write", "poll", "read"}
  /\ pressed' = pressed \union {c}
  /\ pc' = [pc EXCEPT ![c][t] = "leave"]
  /\ crunning' = [crunning EXCEPT ![c] = FALSE]
  /\ UNCHANGED <<server, server_fd, client_fd, said, srvq, cliq, linked, hist>>

(* cleanup(), in thread t, with running cleared *)
SendLeave(c, t) ==
  /\ pc[c][t] = "leave"
  /\ IF server_fd[c]
     THEN WriteServer(c, t, [type |-> "L", internal_id |-> c, n |-> 0], "closesrv")
     ELSE /\ pc' = [pc EXCEPT ![c][t] = "closecli"]
          /\ UNCHANGED <<server_fd, client_fd, crunning, said, srvq, cliq>>
  /\ UNCHANGED <<server, pressed, linked, hist>>

CloseServer(c, t) ==
  /\ Goto(c, t, "closesrv", "closecli")
  /\ server_fd' = [server_fd EXCEPT ![c] = FALSE]
  /\ UNCHANGED <<server, client_fd, crunning, said, pressed, srvq, cliq, linked, hist>>

(* close, then unlink: nothing asks for the file of a closed FIFO.          *)
CloseClient(c, t) ==
  /\ Goto(c, t, "closecli", "jointhread")
  /\ client_fd' = [client_fd EXCEPT ![c] = FALSE]
  /\ cliq' = [cliq EXCEPT ![c] = <<>>]
  /\ linked' = linked \ {c}
  /\ UNCHANGED <<server, server_fd, crunning, said, pressed, srvq, hist>>

(* Mutant: the receiver, too, waits for the receiver.                       *)
JoinAndExit_Itself(c, t) ==
  /\ pc[c][t] = "jointhread" /\ pc[c]["recv"] = "returned"
  /\ ClientEnds(c)
  /\ UNCHANGED <<server, pressed, srvq, linked, hist>>

(* pthread_join: the receiver does not wait for itself.                     *)
JoinAndExit(c, t) ==
  /\ pc[c][t] = "jointhread"
  /\ t = "main" => pc[c]["recv"] = "returned"
  /\ ClientEnds(c)
  /\ UNCHANGED <<server, pressed, srvq, linked, hist>>

cleanup(c, t) ==
  \/ SendLeave(c, t) \/ CloseServer(c, t) \/ CloseClient(c, t) \/ JoinAndExit(c, t)

Kill(c) ==
  /\ c \in Killable
  /\ pc[c]["main"] \notin {"none", "gone"}
  /\ ClientEnds(c)
  /\ UNCHANGED <<server, pressed, srvq, linked, hist>>

ConnectStep(c) ==
  MakeFifo(c) \/ OpenServer(c) \/ OpenClient(c) \/ StartReceiver(c) \/ SendJoin(c)
TypingStep(c)  == PollServer(c) \/ StopChatting(c)
get_message(c) == PollOwn(c) \/ ReadOwn(c) \/ ReceiverReturns(c) \/ cleanup(c, "recv")

ClientStep(c) ==
  \/ ConnectStep(c) \/ TypingStep(c) \/ SendLine(c) \/ cleanup(c, "main")
  \/ get_message(c) \/ Kill(c) \/ \E t \in Threads : Interrupt(c, t)

Next ==
  \/ ServerMain \/ Close \/ handle_signal
  \/ \E c \in Clients : ClientStep(c)

Spec == Init /\ [][Next]_vars

(* As long as a thread of either program can go on, one of them does; what  *)
(* a user, an operator or a killer does is not assumed to happen, so the    *)
(* main thread of a client may sit in fgets.                                *)
Fairness ==
  WF_vars(\/ ServerMain
          \/ \E c \in Clients : get_message(c) \/ SendLine(c) \/ cleanup(c, "main"))

FairSpec == Spec /\ Fairness

-----------------------------------------------------------------------------
(***************************************************************************)
(* Safety.                                                                 *)
(***************************************************************************)

Listed(c) == {k \in DOMAIN clients : clients[k].internal_id = c}

(* The J of c has been taken from the FIFO and create_user has run for it.  *)
JoinHandled(c) ==
  /\ pc[c]["main"] \in {"chat", "write"}
  /\ \A k \in DOMAIN srvq : ~(srvq[k].type = "J" /\ srvq[k].internal_id = c)
  /\ ~(spc = "create" /\ msg.internal_id = c)

(* A client that has joined and has not begun to leave is on the list once, *)
(* with an open descriptor: it opened its FIFO before it asked to join, and *)
(* nobody else's leaving takes it off.                                      *)
LiveClientsReachable ==
  \A c \in Clients :
    JoinHandled(c) /\ crunning[c] /\ ServerUp /\ ~CleaningUp
      => Cardinality(Listed(c)) = 1 /\ Reachable(c)

(* What a client gets begins with its only welcome (unless the server shuts *)
(* down first); after the shutdown notice there is nothing but the notice   *)
(* again, at most once for each signal: it may come between the write and   *)
(* the close of cleanup().                                                  *)
SessionShape ==
  \A c \in Clients : \A k \in DOMAIN delivered[c] :
    /\ delivered[c][k].type = "W" => k = 1 /\ delivered[c][k].internal_id = c
    /\ k = 1 => delivered[c][k].type \in {"W", "S"}
    /\ \A j \in 1 .. k - 1 :
         delivered[c][j].type = "S" => delivered[c][k].type = "S" /\ k - j <= handling

(* Once a Message is dealt with, every listed client but its sender has it, *)
(* as long as its FIFO has never been full and it could be opened.          *)
EveryoneServed ==
  spc = "poll" /\ msg # NoMsg =>
    \A c \in Clients :
      Reachable(c) /\ c # msg.internal_id /\ c \notin overflow
        => \E k \in DOMAIN delivered[c] : delivered[c][k] = msg

(* The lines one client gets from another are consecutive lines, each once  *)
(* and in the order they were typed, unless its FIFO was full.              *)
IsLine(m, from) == m.type = "M" /\ m.internal_id = from

Consecutive(s, from) ==
  \A j, k \in DOMAIN s :
    j < k /\ IsLine(s[j], from) /\ IsLine(s[k], from)
          /\ (\A i \in j + 1 .. k - 1 : ~IsLine(s[i], from))
      => s[k].n = s[j].n + 1

LinesInOrder ==
  \A c, from \in Clients : c \notin overflow => Consecutive(delivered[c], from)

(* The shutdown tells every client the server can reach, unless the notice  *)
(* finds its FIFO full, and ends everyone it told, in whatever its threads  *)
(* are, unless the server itself is killed on the way.                      *)
Told(c) == \E k \in DOMAIN delivered[c] : delivered[c][k].type = "S"

ShutdownEndsClients ==
  /\ [](spc = "cleanup" /\ current = <<>>
          => \A c \in Clients : Reachable(c) => Told(c) \/ c \in overflow)
  /\ CleaningUp ~>
       \/ spc = "killed"
       \/ spc = "exited" /\ \A c \in Clients : Told(c) => pc[c]["main"] = "gone"

(***************************************************************************)
(* What the report says.                                                   *)
(***************************************************************************)

(* report.md:210-211, "Detects disconnected clients during send", "Removes  *)
(* clients on pipe errors": a client that leaves does not take the server   *)
(* down.                                                                    *)
DocSurvivesLeaving == spc # "killed"

=============================================================================
