----------------------------- MODULE PollServer -----------------------------
(***************************************************************************)
(* RPC-2: server.cpp echoes what its clients send.  main polls the         *)
(* listening socket and a table of MAX_CLIENTS slots, accepts connections  *)
(* and starts a detached thread for each.  client.cpp sends a message and  *)
(* reads the answer with one recv.                                         *)
(*                                                                         *)
(* A stream is a sequence of units.  The units of a client's k-th message  *)
(* are k, its final NUL is -k, and so are those of the answer to it.  Over *)
(* the loopback that client.cpp uses, what one send wrote arrives at once; *)
(* recv takes what has arrived, up to the size of its buffer.              *)
(***************************************************************************)
EXTENDS Integers, Sequences, FiniteSets

CONSTANTS
  Client,        \* the processes that run client.cpp
  MAX_CLIENTS,   \* slots, and the length of the queue of the listening socket
  Fd,            \* descriptors the server can have for connections
  Lengths,       \* lengths of the texts that are typed, in units
  ServerBuf,     \* BUF_SIZE - 1, in units
  ClientBuf,     \* sizeof(buffer) - 1 of the client
  Header,        \* the length of "server received: "
  MaxMessages,   \* bound: messages a client sends
  MaxFailures    \* bound: calls of pthread_create that fail

ASSUME PollServerAssumption ==
  /\ MAX_CLIENTS \in Nat \ {0}
  /\ Fd \subseteq Nat
  /\ Lengths \subseteq Nat
  /\ ServerBuf \in Nat \ {0} /\ ClientBuf \in Nat \ {0} /\ Header \in Nat \ {0}
  /\ MaxMessages \in Nat /\ MaxFailures \in Nat

VARIABLES
  queue,      \* connections that wait to be accepted
  main,       \* where the server's main is; "died" when the process is gone
  client_fd,  \* the client main has accepted last
  slot,       \* fds[1 .. MAX_CLIENTS].fd
  fd,         \* the server's descriptor for each client, or -1
  thread,     \* where the thread of each client is
  buffer,     \* what the thread has received
  client,     \* where each client is
  sent,       \* how many messages it has sent
  long,       \* history: whether one of them was too long for one recv at either end
  toServer,   \* the two streams of its connection
  toClient,
  broken      \* a reset has come back from a client that is gone

mainVars == <<queue, main, client_fd, slot>>
threadVars == <<fd, thread, buffer>>
clientVars == <<client, sent, long>>
streamVars == <<toServer, toClient, broken>>
vars == <<mainVars, threadVars, clientVars, streamVars>>

Slot == 1 .. MAX_CLIENTS
Unit == {k \in -MaxMessages .. MaxMessages : k # 0}

TypeOK ==
  /\ queue \in Seq(Client)
  /\ main \in {"poll", "accept", "place", "died"}
  /\ client_fd \in Client
  /\ slot \in [Slot -> Fd \cup {-1}]
  /\ fd \in [Client -> Fd \cup {-1}]
  /\ thread \in [Client -> {"none", "recv", "answer", "close", "ended", "failed"}]
  /\ buffer \in [Client -> Seq(Unit)]
  /\ \A c \in Client : Len(buffer[c]) <= ServerBuf
  /\ client \in [Client -> {"start", "prompt", "answer", "gone"}]
  /\ sent \in [Client -> 0 .. MaxMessages]
  /\ long \in [Client -> BOOLEAN]
  /\ toServer \in [Client -> Seq(Unit)]
  /\ toClient \in [Client -> Seq(Unit)]
  /\ broken \in [Client -> BOOLEAN]

Init ==
  /\ queue = <<>>
  /\ main = "poll"
  /\ client_fd \in Client
  /\ slot = [i \in Slot |-> -1]
  /\ fd = [c \in Client |-> -1]
  /\ thread = [c \in Client |-> "none"]
  /\ buffer = [c \in Client |-> <<>>]
  /\ client = [c \in Client |-> "start"]
  /\ sent = [c \in Client |-> 0]
  /\ long = [c \in Client |-> FALSE]
  /\ toServer = [c \in Client |-> <<>>]
  /\ toClient = [c \in Client |-> <<>>]
  /\ broken = [c \in Client |-> FALSE]

Lesser(a, b) == IF a < b THEN a ELSE b
Received(stream, size) == SubSeq(stream, 1, Lesser(size, Len(stream)))
Left(stream, size) == SubSeq(stream, Lesser(size, Len(stream)) + 1, Len(stream))
Magnitude(k) == IF k < 0 THEN -k ELSE k

Message(k, length) == [j \in 1 .. length |-> k] \o <<-k>>

\* What is received up to its first NUL.
Text(chunk) ==
  LET text == {i \in DOMAIN chunk : \A j \in 1 .. i : chunk[j] > 0}
  IN SubSeq(chunk, 1, Cardinality(text))

\* Mutant of Answer: the whole buffer is sent, whatever was received.
AnswerWholeBuffer(chunk) ==
  LET k == Magnitude(chunk[1])
  IN [j \in 1 .. Header + ServerBuf |-> k] \o <<-k>>

Answer(chunk) ==
  LET k == Magnitude(chunk[1])
  IN [j \in 1 .. Header |-> k] \o Text(chunk) \o <<-k>>

\* A message that both ends can take in one recv, and so can its answer.
Fits(length) == length + 1 <= ServerBuf /\ Header + length + 1 <= ClientBuf

\* The server's end of the connection exists.
Open(c) == main # "died" /\ (fd[c] # -1 \/ \E i \in DOMAIN queue : queue[i] = c)

----------------------------------------------------------------------------
\* client.cpp

Connect(c) ==
  /\ main # "died"
  /\ client[c] = "start"
  /\ Len(queue) <= MAX_CLIENTS
  /\ client' = [client EXCEPT ![c] = "prompt"]
  /\ queue' = Append(queue, c)
  /\ UNCHANGED <<main, client_fd, slot, threadVars, sent, long, streamVars>>

Send(c) ==
  /\ client[c] = "prompt"
  /\ sent[c] < MaxMessages
  /\ client' = [client EXCEPT ![c] = "answer"]
  /\ sent' = [sent EXCEPT ![c] = @ + 1]
  /\ \E length \in Lengths :
       /\ toServer' = IF Open(c) THEN [toServer EXCEPT ![c] = @ \o Message(sent[c] + 1, length)]
                                 ELSE toServer
       /\ long' = [long EXCEPT ![c] = @ \/ ~Fits(length)]
  /\ UNCHANGED <<mainVars, threadVars, toClient, broken>>

Receive(c) ==
  /\ client[c] = "answer"
  /\ toClient[c] # <<>>
  /\ client' = [client EXCEPT ![c] = "prompt"]
  /\ toClient' = [toClient EXCEPT ![c] = Left(@, ClientBuf)]
  /\ UNCHANGED <<mainVars, threadVars, sent, long, toServer, broken>>

\* The server has closed its end.
Disconnected(c) ==
  /\ client[c] = "answer"
  /\ toClient[c] = <<>>
  /\ ~Open(c)
  /\ client' = [client EXCEPT ![c] = "gone"]
  /\ UNCHANGED <<mainVars, threadVars, sent, long, streamVars>>

\* "exit" at the prompt; a client can also be killed while it waits.
Leave(c) ==
  /\ client[c] \in {"prompt", "answer"}
  /\ client' = [client EXCEPT ![c] = "gone"]
  /\ toClient' = [toClient EXCEPT ![c] = <<>>]
  /\ UNCHANGED <<mainVars, threadVars, sent, long, toServer, broken>>

----------------------------------------------------------------------------
\* main of server.cpp

\* poll also returns when a slot has something to read, or holds a number that
\* was closed: main does nothing about it.
Poll ==
  /\ main = "poll"
  /\ queue # <<>>
  /\ main' = "accept"
  /\ UNCHANGED <<queue, client_fd, slot, threadVars, clientVars, streamVars>>

\* The kernel gives the lowest free number; with none left accept fails.
FreeFd == Fd \ {fd[c] : c \in Client}

Accept ==
  /\ main = "accept"
  /\ IF FreeFd = {}
     THEN main' = "poll" /\ UNCHANGED <<queue, client_fd, fd>>
     ELSE /\ main' = "place"
          /\ queue' = Tail(queue)
          /\ client_fd' = Head(queue)
          /\ \E f \in FreeFd : /\ \A g \in FreeFd : f <= g
                               /\ fd' = [fd EXCEPT ![Head(queue)] = f]
  /\ UNCHANGED <<slot, thread, buffer, clientVars, streamVars>>

FreeSlot == {i \in Slot : slot[i] = -1}

TakeSlot ==
  \E i \in FreeSlot : /\ \A j \in FreeSlot : i <= j
                      /\ slot' = [slot EXCEPT ![i] = fd[client_fd]]

\* Mutant of Serve: main closes the connection that the thread uses.
ServeAndClose ==
  /\ main = "place"
  /\ TakeSlot
  /\ thread' = [thread EXCEPT ![client_fd] = "recv"]
  /\ fd' = [fd EXCEPT ![client_fd] = -1]
  /\ main' = "poll"
  /\ UNCHANGED <<queue, client_fd, buffer, clientVars, streamVars>>

\* The thread is created, with the first free slot taken.
Serve ==
  /\ main = "place"
  /\ TakeSlot
  /\ thread' = [thread EXCEPT ![client_fd] = "recv"]
  /\ main' = "poll"
  /\ UNCHANGED <<queue, client_fd, fd, buffer, clientVars, streamVars>>

\* What a thread that cannot be created leaves of its slot. Mutant of SlotReset:
\* it is not given back.
SlotKept == TakeSlot
SlotReset == UNCHANGED slot

\* The thread cannot be created: the slot is given back and the connection
\* closed.  The detach of a thread that never was is undefined.
FailToServe ==
  /\ main = "place"
  /\ FreeSlot # {}
  /\ Cardinality({c \in Client : thread[c] = "failed"}) < MaxFailures
  /\ SlotReset
  /\ thread' = [thread EXCEPT ![client_fd] = "failed"]
  /\ fd' = [fd EXCEPT ![client_fd] = -1]
  /\ main' \in {"poll", "died"}
  /\ UNCHANGED <<queue, client_fd, buffer, clientVars, streamVars>>

\* With no slot left the loop over the slots ends without having done anything.
Forget ==
  /\ main = "place"
  /\ FreeSlot = {}
  /\ main' = "poll"
  /\ UNCHANGED <<queue, client_fd, slot, threadVars, clientVars, streamVars>>

----------------------------------------------------------------------------
\* handle_client of server.cpp

At(c, label) == main # "died" /\ thread[c] = label
Goto(c, label) == thread' = [thread EXCEPT ![c] = label]

\* What a recv takes at most: one place is left for the NUL.
RecvSize == ServerBuf

\* recv has something to return. Mutant: it waits until it can fill the buffer.
BufferFull(c) == Len(toServer[c]) >= RecvSize
Arrived(c) == toServer[c] # <<>>

Recv(c) ==
  /\ At(c, "recv")
  /\ Arrived(c)
  /\ buffer' = [buffer EXCEPT ![c] = Received(toServer[c], RecvSize)]
  /\ toServer' = [toServer EXCEPT ![c] = Left(@, RecvSize)]
  /\ Goto(c, "answer")
  /\ UNCHANGED <<mainVars, fd, clientVars, toClient, broken>>

\* Mutant of RecvEnd: an empty recv is answered like any other.
RecvEndIgnored(c) ==
  /\ At(c, "recv")
  /\ toServer[c] = <<>>
  /\ client[c] = "gone"
  /\ buffer' = [buffer EXCEPT ![c] = <<-1>>]
  /\ Goto(c, "answer")
  /\ UNCHANGED <<mainVars, fd, clientVars, streamVars>>

RecvEnd(c) ==
  /\ At(c, "recv")
  /\ toServer[c] = <<>>
  /\ client[c] = "gone"
  /\ Goto(c, "close")
  /\ UNCHANGED <<mainVars, fd, buffer, clientVars, streamVars>>

\* The result of send is not looked at.  The first send to a client that is
\* gone can bring back a reset, and the next one then raises SIGPIPE.
Reply(c) ==
  /\ At(c, "answer")
  /\ ~broken[c]
  /\ IF client[c] = "gone"
     THEN UNCHANGED toClient /\ broken' \in {broken, [broken EXCEPT ![c] = TRUE]}
     ELSE toClient' = [toClient EXCEPT ![c] = @ \o Answer(buffer[c])] /\ UNCHANGED broken
  /\ buffer' = [buffer EXCEPT ![c] = <<>>]
  /\ Goto(c, "recv")
  /\ UNCHANGED <<mainVars, fd, clientVars, toServer>>

Sigpipe(c) ==
  /\ At(c, "answer")
  /\ broken[c]
  /\ main' = "died"
  /\ UNCHANGED <<queue, client_fd, slot, threadVars, clientVars, streamVars>>

Close(c) ==
  /\ At(c, "close")
  /\ fd' = [fd EXCEPT ![c] = -1]
  /\ Goto(c, "ended")
  /\ UNCHANGED <<mainVars, buffer, clientVars, streamVars>>

----------------------------------------------------------------------------
Main == Poll \/ Accept \/ Serve \/ FailToServe \/ Forget
HandleClient(c) == Recv(c) \/ RecvEnd(c) \/ Reply(c) \/ Sigpipe(c) \/ Close(c)
Answered(c) == Receive(c) \/ Disconnected(c)

Next ==
  \/ Main
  \/ \E c \in Client : \/ HandleClient(c)
                       \/ Connect(c) \/ Send(c) \/ Answered(c) \/ Leave(c)

Spec == Init /\ [][Next]_vars

\* main and the threads run; a client reads what has arrived.  Nobody has to
\* type anything.
Fair(c) == WF_vars(HandleClient(c)) /\ WF_vars(Answered(c))
FairSpec == Spec /\ WF_vars(Main) /\ \A c \in Client : Fair(c)

\* Who has something to do, with a recv that would return.
HandlerCan(c) ==
  \/ At(c, "answer") \/ At(c, "close")
  \/ At(c, "recv") /\ Arrived(c)
  \/ At(c, "recv") /\ toServer[c] = <<>> /\ client[c] = "gone"
AnsweredCan(c) == client[c] = "answer" /\ (toClient[c] # <<>> \/ ~Open(c))

\* Their guards are all that keeps a thread and a client from their next step.
StepsAreEnabled ==
  \A c \in Client :
    /\ HandlerCan(c) => ENABLED <<HandleClient(c)>>_vars
    /\ AnsweredCan(c) => ENABLED <<Answered(c)>>_vars

----------------------------------------------------------------------------
Served(c) == thread[c] \in {"recv", "answer", "close"}

\* A thread works on a descriptor that is its own for as long as it runs, though
\* numbers are reused and main and the threads close them (server.cpp:45, 111).
DescriptorsOwned ==
  \A c \in Client :
    /\ Served(c) => fd[c] # -1
    /\ fd[c] # -1 => \A d \in Client \ {c} : fd[d] # fd[c]

\* A slot is used up by each thread that was ever started, and by nothing else;
\* a client that main has dealt with has no thread only if it could not be
\* created or all slots were used up (server.cpp:98-117).
SlotPerThread ==
  LET started == {c \in Client : Served(c) \/ thread[c] = "ended"}
      waiting == {c \in Client : main = "place" /\ c = client_fd}
  IN /\ Cardinality(started) = Cardinality(Slot \ FreeSlot)
     /\ \A c \in Client \ waiting :
          main # "died" /\ fd[c] # -1 /\ thread[c] = "none" => FreeSlot = {}

\* A client that sends what fits into one recv at both ends gets each answer
\* with one recv: back at its prompt it has nothing under way, so that the next
\* answer is the answer to the next message (client.cpp:39-52, server.cpp:30-42).
AnswersPaired ==
  \A c \in Client :
    client[c] = "prompt" /\ ~long[c] =>
      toServer[c] = <<>> /\ toClient[c] = <<>> /\ thread[c] # "answer"

\* The server is only killed by SIGPIPE after a message that did not fit, since
\* a client waits for its answer: no thread answers a client that is gone twice
\* (server.cpp:42).
SigpipeOnlyAfterLong ==
  \A c \in Client : broken[c] /\ thread[c] = "answer" => long[c]

\* A served client that waits for an answer gets one, or learns that the server
\* is gone, whatever it has sent before (client.cpp:46-50).
AnswerComes ==
  \A c \in Client : client[c] = "answer" /\ Served(c) ~> client[c] # "answer"

\* The descriptor of a served client is closed once the client is gone
\* (server.cpp:31, 45).
DepartedClosed ==
  \A c \in Client :
    client[c] = "gone" /\ Served(c) ~> fd[c] = -1 \/ main = "died"
=============================================================================
