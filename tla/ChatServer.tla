----------------------------- MODULE ChatServer -----------------------------
(***************************************************************************)
(* Chat/server.cpp: main accepts connections and starts one detached       *)
(* thread for each; the threads share the vector of registered clients     *)
(* under clients_mutex.  A connection, its thread and its ClientInfo are   *)
(* one value here, the descriptor is not: the kernel gives the number of a *)
(* closed socket to the next connection.                                   *)
(*                                                                         *)
(* The text of a message is left out: what a recv returns is a text for    *)
(* the others, /list, /exit, or the end of the connection.  A section that *)
(* touches only the vector, between lock and unlock, is one step; the loop *)
(* of send_all, whose sends can block, is one step per client.             *)
(***************************************************************************)
EXTENDS Naturals, Sequences, SequencesExt

CONSTANTS
  Conns,    \* the connections that clients make, one after another
  MaxFd,    \* bound: descriptors the process may have for connections
  Nobody    \* no connection, and no thread

ASSUME ChatServerAssumption ==
  /\ MaxFd \in Nat \ {0}
  /\ Nobody \notin Conns

Fd == 1 .. MaxFd

VARIABLES
  open,      \* the connection each descriptor refers to, or Nobody
  fd,        \* ClientInfo::client_socket
  pc,        \* where each thread is
  pos,       \* position of each thread in the loop of send_all
  clients,   \* the vector clients
  mutex,     \* the thread that holds clients_mutex, or Nobody
  peer,      \* what the client at the other end does
  server,    \* "running", or "killed" by a signal
  reused     \* history: a descriptor was given out while clients still held it

vars == <<open, fd, pc, pos, clients, mutex, peer, server, reused>>

Locked == {"push", "send", "list", "remove"}
PC == Locked \cup {"away", "name", "push_lock", "recv", "send_lock", "list_lock", "reply",
                   "bye", "close", "remove_lock", "delete", "gone"}

TypeOK ==
  /\ open \in [Fd -> Conns \cup {Nobody}]
  /\ fd \in [Conns -> Fd \cup {0}]
  /\ pc \in [Conns -> PC]
  /\ pos \in [Conns -> 1 .. Len(clients) + 1]
  /\ clients \in Seq(Conns)
  /\ mutex \in Conns \cup {Nobody}
  /\ peer \in [Conns -> {"reading", "stalled", "closed", "aborted", "reset"}]
  /\ server \in {"running", "killed"}
  /\ reused \in BOOLEAN

Init ==
  /\ open = [f \in Fd |-> Nobody]
  /\ fd = [c \in Conns |-> 0]
  /\ pc = [c \in Conns |-> "away"]
  /\ pos = [c \in Conns |-> 1]
  /\ clients = <<>>
  /\ mutex = Nobody
  /\ peer = [c \in Conns |-> "reading"]
  /\ server = "running"
  /\ reused = FALSE

At(c, label) == server = "running" /\ pc[c] = label
Goto(c, label) == pc' = [pc EXCEPT ![c] = label]

Deleted(c) == pc[c] = "gone"

\* What reading client_socket through a pointer to c may give: once the
\* ClientInfo is deleted, anything.
SocketRead(c) == IF Deleted(c) THEN Fd \cup {0} ELSE {fd[c]}

----------------------------------------------------------------------------
\* The client at the other end.  A stalled one does not read, and the buffers
\* of its connection are full; one that ends without reading what it was sent
\* aborts the connection.

Connected(c) == pc[c] # "away" /\ pc[c] # "gone"
Local == UNCHANGED <<open, fd, pos, clients, mutex, reused>>

PeerMoves(c) ==
  /\ Connected(c)
  /\ \/ peer[c] = "reading" /\ peer' = [peer EXCEPT ![c] = "stalled"]
     \/ peer[c] = "stalled" /\ peer' = [peer EXCEPT ![c] = "reading"]
     \/ peer[c] = "reading" /\ peer' = [peer EXCEPT ![c] = "closed"]
     \/ peer[c] = "stalled" /\ peer' = [peer EXCEPT ![c] = "aborted"]
  /\ Local /\ UNCHANGED <<pc, server>>

Sends(c)   == peer[c] \in {"reading", "stalled", "closed"}
HasLeft(c) == peer[c] \in {"closed", "aborted", "reset"}

\* send on descriptor f.  It blocks while the peer is stalled.  What is sent to
\* a closed peer is answered by a reset, sooner or later; the first send after
\* an abort is an error; any other on a dead connection raises SIGPIPE, which
\* the server does not handle.  A descriptor that is not open is an error.
Send(f) ==
  LET d == IF f \in Fd THEN open[f] ELSE Nobody IN
  \/ d = Nobody /\ UNCHANGED <<peer, server>>
  \/ /\ d # Nobody
     /\ \/ peer[d] = "reading" /\ UNCHANGED <<peer, server>>
        \/ /\ peer[d] = "closed"
           /\ \E answer \in {"closed", "reset"} : peer' = [peer EXCEPT ![d] = answer]
           /\ UNCHANGED server
        \/ peer[d] = "aborted" /\ peer' = [peer EXCEPT ![d] = "reset"] /\ UNCHANGED server
        \/ peer[d] = "reset" /\ server' = "killed" /\ UNCHANGED peer

----------------------------------------------------------------------------
\* main.

Free == {f \in Fd : open[f] = Nobody}

\* accept returns the lowest free descriptor; without one, or on another error,
\* main tries again.
Accept(c) ==
  /\ At(c, "away")
  /\ \E f \in Free :
       /\ \A g \in Free : f <= g
       /\ open' = [open EXCEPT ![f] = c]
       /\ fd' = [fd EXCEPT ![c] = f]
       /\ reused' = (reused \/ \E j \in DOMAIN clients : fd[clients[j]] = f)
  /\ Goto(c, "name")
  /\ UNCHANGED <<pos, clients, mutex, peer, server>>

\* pthread_create fails: main closes the descriptor it has just got.
AcceptNoThread(c) ==
  /\ At(c, "away")
  /\ Free # {}
  /\ Goto(c, "gone")
  /\ Local /\ UNCHANGED <<peer, server>>

----------------------------------------------------------------------------
\* A thread: client_handler.

Lock(c, from, to) ==
  /\ At(c, from)
  /\ mutex = Nobody
  /\ mutex' = c
  /\ Goto(c, to)
  /\ UNCHANGED <<open, fd, pos, clients, peer, server, reused>>

LockToPush(c)   == Lock(c, "push_lock", "push")
LockToSend(c)   == Lock(c, "send_lock", "send")
LockToList(c)   == Lock(c, "list_lock", "list")
LockToRemove(c) == Lock(c, "remove_lock", "remove")

RecvName(c) ==
  /\ At(c, "name")
  /\ Sends(c)
  /\ Goto(c, "push_lock")
  /\ Local /\ UNCHANGED <<peer, server>>

\* The first recv fails: the connection was never registered.
LeaveUnnamed(c) ==
  /\ At(c, "name")
  /\ HasLeft(c)
  /\ open' = [open EXCEPT ![fd[c]] = Nobody]
  /\ Goto(c, "gone")
  /\ UNCHANGED <<fd, pos, clients, mutex, peer, server, reused>>

Push(c) ==
  /\ At(c, "push")
  /\ clients' = Append(clients, c)
  /\ mutex' = Nobody
  /\ Goto(c, "recv")
  /\ UNCHANGED <<open, fd, pos, peer, server, reused>>

\* recv returns a text, /list or /exit, also one sent before the peer closed.
Recv(c) ==
  /\ At(c, "recv")
  /\ Sends(c)
  /\ \E label \in {"send_lock", "list_lock", "bye"} : Goto(c, label)
  /\ Local /\ UNCHANGED <<peer, server>>

RecvEnd(c) ==
  /\ At(c, "recv")
  /\ HasLeft(c)
  /\ Goto(c, "close")
  /\ Local /\ UNCHANGED <<peer, server>>

\* One iteration of send_all.
SendNext(c) ==
  /\ At(c, "send")
  /\ pos[c] <= Len(clients)
  /\ \E f \in SocketRead(clients[pos[c]]) :
       \/ f = fd[c] /\ UNCHANGED <<peer, server>>
       \/ f # fd[c] /\ Send(f)
  /\ pos' = [pos EXCEPT ![c] = @ + 1]
  /\ UNCHANGED <<open, fd, pc, clients, mutex, reused>>

SendEnd(c) ==
  /\ At(c, "send")
  /\ pos[c] > Len(clients)
  /\ pos' = [pos EXCEPT ![c] = 1]
  /\ mutex' = Nobody
  /\ Goto(c, "recv")
  /\ UNCHANGED <<open, fd, clients, peer, server, reused>>

\* The names are collected under the mutex and sent without it.  Copying the
\* name of a deleted ClientInfo may crash.
List(c) ==
  /\ At(c, "list")
  /\ \/ UNCHANGED server
     \/ (\E j \in DOMAIN clients : Deleted(clients[j])) /\ server' = "killed"
  /\ mutex' = Nobody
  /\ Goto(c, "reply")
  /\ UNCHANGED <<open, fd, pos, clients, peer, reused>>

Reply(c) ==
  /\ At(c, "reply")
  /\ Send(fd[c])
  /\ Goto(c, "recv")
  /\ Local

Bye(c) ==
  /\ At(c, "bye")
  /\ Send(fd[c])
  /\ Goto(c, "close")
  /\ Local

Close(c) ==
  /\ At(c, "close")
  /\ open' = [open EXCEPT ![fd[c]] = Nobody]
  /\ Goto(c, "remove_lock")
  /\ UNCHANGED <<fd, pos, clients, mutex, peer, server, reused>>

\* Mutants of RemoveClient: the test is inverted; the mutex is not given back when
\* the first client is the one removed.
RemoveOther(c) ==
  /\ At(c, "remove")
  /\ clients' = SelectSeq(clients, LAMBDA d : fd[d] = fd[c])
  /\ mutex' = Nobody
  /\ Goto(c, "delete")
  /\ UNCHANGED <<open, fd, pos, peer, server, reused>>

RemoveLocked(c) ==
  /\ At(c, "remove")
  /\ \E j \in DOMAIN clients :
       /\ fd[clients[j]] = fd[c]
       /\ clients' = RemoveAt(clients, j)
       /\ mutex' = IF j = 1 THEN c ELSE Nobody
  /\ Goto(c, "delete")
  /\ UNCHANGED <<open, fd, pos, peer, server, reused>>

\* remove_client: the first entry with this client_socket goes.
RemoveClient(c) ==
  /\ At(c, "remove")
  /\ \E socket \in [DOMAIN clients -> Fd \cup {0}] :
       LET Match == {j \in DOMAIN clients : socket[j] = fd[c]} IN
       /\ \A j \in DOMAIN clients : socket[j] \in SocketRead(clients[j])
       /\ IF Match = {} THEN UNCHANGED clients
          ELSE \E j \in Match : /\ \A m \in Match : j <= m
                                /\ clients' = RemoveAt(clients, j)
  /\ mutex' = Nobody
  /\ Goto(c, "delete")
  /\ UNCHANGED <<open, fd, pos, peer, server, reused>>

\* Mutant of Delete: the descriptor is closed a second time.
DeleteAndClose(c) ==
  /\ At(c, "delete")
  /\ open' = [open EXCEPT ![fd[c]] = Nobody]
  /\ Goto(c, "gone")
  /\ UNCHANGED <<fd, pos, clients, mutex, peer, server, reused>>

\* delete client_info and the end of the thread.
Delete(c) ==
  /\ At(c, "delete")
  /\ Goto(c, "gone")
  /\ Local /\ UNCHANGED <<peer, server>>

----------------------------------------------------------------------------
Locks(c) == LockToPush(c) \/ LockToSend(c) \/ LockToList(c) \/ LockToRemove(c)

Thread(c) ==
  \/ Locks(c)
  \/ RecvName(c)
  \/ LeaveUnnamed(c)
  \/ Push(c)
  \/ Recv(c)
  \/ RecvEnd(c)
  \/ SendNext(c)
  \/ SendEnd(c)
  \/ List(c)
  \/ Reply(c)
  \/ Bye(c)
  \/ Close(c)
  \/ RemoveClient(c)
  \/ Delete(c)

Next ==
  \E c \in Conns :
    \/ Accept(c)
    \/ AcceptNoThread(c)
    \/ PeerMoves(c)
    \/ Thread(c)

Spec == Init /\ [][Next]_vars

\* Threads run; a thread that asks for the mutex again and again gets it; what
\* a client sent before it left is finite.  Nothing is assumed of the clients.
FairSpec ==
  /\ Spec
  /\ \A c \in Conns : WF_vars(Thread(c)) /\ SF_vars(Locks(c)) /\ SF_vars(RecvEnd(c))

----------------------------------------------------------------------------
\* The thread between lock and unlock holds the mutex, and only that one
\* (server.cpp:23-28, 37-43, 61-63, 88-91).
MutexHeldByOwner == \A c \in Conns : mutex = c <=> pc[c] \in Locked

\* A thread between accept and close owns its descriptor, and every other
\* descriptor is free: nothing is closed twice, and no thread receives from or
\* answers on another's connection (server.cpp:54, 72, 82, 136).
HasSocket(c) == pc[c] \notin {"away", "remove_lock", "remove", "delete", "gone"}
DescriptorsOwned ==
  \A f \in Fd, c \in Conns : open[f] = c <=> HasSocket(c) /\ fd[c] = f

Registered(c) == pc[c] \notin {"away", "name", "push_lock", "push", "delete", "gone"}

\* clients holds each registered client once and nothing else, as long as no
\* descriptor came back from accept while clients still had an entry with it
\* (server.cpp:36-44, 62).
RegistryExact ==
  ~reused =>
    /\ \A c \in Conns : Registered(c) <=> \E j \in DOMAIN clients : clients[j] = c
    /\ \A j, m \in DOMAIN clients : clients[j] = clients[m] => j = m

\* A thread whose send waits for a stalled peer holds the mutex all the while:
\* nobody registers, leaves, lists or speaks (server.cpp:23-28).
Blocked(c) ==
  /\ At(c, "send")
  /\ pos[c] <= Len(clients)
  /\ ~Deleted(clients[pos[c]])
  /\ fd[clients[pos[c]]] # fd[c]
  /\ LET d == open[fd[clients[pos[c]]]] IN d # Nobody /\ peer[d] = "stalled"
StalledPeerFreezesChat ==
  [][(\E c \in Conns : Blocked(c)) => UNCHANGED <<clients, mutex>>]_vars

\* /list prints "connected users" (server.cpp:87): every entry of clients is a
\* ClientInfo that still exists.  Close before remove_client makes it fail.
NoDanglingEntry == \A j \in DOMAIN clients : ~Deleted(clients[j])

\* The thread of a client that has left comes to its end, unless the server
\* dies or somebody stalls: no lock is kept and none is waited for in vain
\* (server.cpp:70-75).
DepartedLeave ==
  \A c \in Conns :
    (HasLeft(c) /\ Connected(c)) ~>
      (Deleted(c) \/ server = "killed" \/ \E d \in Conns : peer[d] = "stalled")
=============================================================================
