-------------------------- MODULE PollServerProofs --------------------------
(***************************************************************************)
(* Theorems about PollServer, for any number of clients, slots and         *)
(* descriptors and any sizes of the buffers.                               *)
(***************************************************************************)
EXTENDS PollServer, FiniteSetTheorems, SequenceTheorems, TLAPS

\* A client waits once to be accepted; until it is served, nothing is its own
\* but what main has just accepted for it.
QueueInv ==
  /\ \A i \in DOMAIN queue : /\ thread[queue[i]] = "none" /\ fd[queue[i]] = -1
                             /\ client[queue[i]] # "start"
  /\ \A i, j \in DOMAIN queue : queue[i] = queue[j] => i = j
  /\ \A c \in Client : client[c] = "start" => fd[c] = -1 /\ thread[c] = "none"
  /\ main = "place" => thread[client_fd] = "none" /\ fd[client_fd] # -1
                        /\ client[client_fd] # "start"
                        /\ \A i \in DOMAIN queue : queue[i] # client_fd
  /\ main = "accept" => queue # <<>>

Started == {c \in Client : Served(c) \/ thread[c] = "ended"}

\* A stream that holds one message which fits, the last unit of which is its NUL.
OneMessage(s) ==
  /\ Len(s) >= 1 /\ s[Len(s)] < 0
  /\ Len(s) <= ServerBuf /\ Header + Len(s) <= ClientBuf

\* Of a client whose messages fit, one message or one answer is under way, and
\* nothing while it is at its prompt or once its connection is broken.
Alone(c) ==
  /\ toServer[c] # <<>> => OneMessage(toServer[c]) /\ thread[c] # "answer" /\ toClient[c] = <<>>
  /\ thread[c] = "answer" => OneMessage(buffer[c]) /\ toClient[c] = <<>>
  /\ Len(toClient[c]) <= ClientBuf
  /\ client[c] \in {"start", "prompt"} \/ broken[c] => toServer[c] = <<>> /\ thread[c] # "answer"
  /\ client[c] \in {"start", "prompt"} => toClient[c] = <<>>
  /\ broken[c] => client[c] = "gone"

PairedInv == \A c \in Client : ~long[c] => Alone(c)

BufferInv == \A c \in Client : thread[c] = "answer" => buffer[c] # <<>>

IInv ==
  /\ TypeOK /\ QueueInv /\ DescriptorsOwned /\ SlotPerThread /\ PairedInv
  /\ IsFiniteSet(Started)
  /\ BufferInv

ServerStep(c) == HandleClient(c)
ClientStep(c) == Connect(c) \/ Send(c) \/ Answered(c) \/ Leave(c)

----------------------------------------------------------------------------
\* Streams.

LEMMA Repeated ==
  ASSUME NEW k \in Unit, NEW n \in Nat
  PROVE  [j \in 1 .. n |-> k] \in Seq(Unit) /\ Len([j \in 1 .. n |-> k]) = n
OBVIOUS

LEMMA MessageFacts ==
  ASSUME NEW k \in 1 .. MaxMessages, NEW length \in Nat
  PROVE  /\ Message(k, length) \in Seq(Unit)
         /\ Len(Message(k, length)) = length + 1
         /\ Message(k, length)[length + 1] < 0
<1> DEFINE text == [j \in 1 .. length |-> k]
<1>1. k \in Unit /\ -k \in Unit /\ k \in Nat \ {0}
  BY PollServerAssumption DEF Unit
<1>2. text \in Seq(Unit) /\ Len(text) = length
  BY <1>1, Repeated
<1>3. <<-k>> \in Seq(Unit) /\ Len(<<-k>>) = 1 /\ <<-k>>[1] = -k
  BY <1>1
<1>4. Message(k, length) = text \o <<-k>>
  BY DEF Message
<1> HIDE DEF text
<1>5. -k < 0
  BY <1>1
<1> QED
  BY <1>2, <1>3, <1>4, <1>5

LEMMA ReceivedFacts ==
  ASSUME NEW stream \in Seq(Unit), NEW size \in Nat \ {0}
  PROVE  /\ Received(stream, size) \in Seq(Unit)
         /\ Len(Received(stream, size)) <= size
         /\ stream # <<>> => Received(stream, size) # <<>>
         /\ Left(stream, size) \in Seq(Unit)
         /\ Len(stream) <= size => Received(stream, size) = stream /\ Left(stream, size) = <<>>
<1> DEFINE n == Lesser(size, Len(stream))
<1>1. n \in 0 .. Len(stream) /\ n <= size /\ (Len(stream) <= size => n = Len(stream))
      /\ (stream # <<>> => n >= 1)
  BY DEF Lesser
<1>2. Received(stream, size) = SubSeq(stream, 1, n) /\ Left(stream, size) = SubSeq(stream, n + 1, Len(stream))
  BY DEF Received, Left
<1> HIDE DEF n
<1>3. SubSeq(stream, 1, n) \in Seq(Unit) /\ Len(SubSeq(stream, 1, n)) = n
  BY <1>1
<1>4. SubSeq(stream, n + 1, Len(stream)) \in Seq(Unit)
  BY <1>1
<1>5. ASSUME n = Len(stream)
      PROVE  SubSeq(stream, 1, n) = stream /\ SubSeq(stream, n + 1, Len(stream)) = <<>>
  BY <1>5
<1> QED
  BY <1>1, <1>2, <1>3, <1>4, <1>5

LEMMA TextFacts ==
  ASSUME NEW chunk \in Seq(Unit), chunk # <<>>
  PROVE  /\ Text(chunk) \in Seq(Unit)
         /\ Len(Text(chunk)) <= Len(chunk)
         /\ chunk[Len(chunk)] < 0 => Len(Text(chunk)) <= Len(chunk) - 1
<1> DEFINE text == {i \in DOMAIN chunk : \A j \in 1 .. i : chunk[j] > 0}
<1>1. Len(chunk) \in Nat \ {0} /\ text \subseteq 1 .. Len(chunk)
  OBVIOUS
<1>2. IsFiniteSet(1 .. Len(chunk)) /\ Cardinality(1 .. Len(chunk)) = Len(chunk)
  BY <1>1, FS_Interval
<1>3. IsFiniteSet(text) /\ Cardinality(text) \in Nat /\ Cardinality(text) <= Len(chunk)
  BY <1>1, <1>2, FS_Subset, FS_CardinalityType
<1>4. ASSUME chunk[Len(chunk)] < 0 PROVE Cardinality(text) <= Len(chunk) - 1
  <2>1. text \subseteq 1 .. Len(chunk) - 1
    <3>1. Len(chunk) \notin text
      <4>1. Len(chunk) \in 1 .. Len(chunk) /\ ~(chunk[Len(chunk)] > 0)
        BY <1>1, <1>4, PollServerAssumption DEF Unit
      <4> QED
        BY <4>1
    <3> QED
      BY <1>1, <3>1
  <2>2. IsFiniteSet(1 .. Len(chunk) - 1) /\ Cardinality(1 .. Len(chunk) - 1) = Len(chunk) - 1
    BY <1>1, FS_Interval
  <2> QED
    BY <2>1, <2>2, FS_Subset
<1>5. Text(chunk) = SubSeq(chunk, 1, Cardinality(text))
  BY DEF Text
<1> HIDE DEF text
<1>6. Text(chunk) \in Seq(Unit) /\ Len(Text(chunk)) = Cardinality(text)
  BY <1>3, <1>5
<1> QED
  BY <1>3, <1>4, <1>6

LEMMA AnswerFacts ==
  ASSUME NEW chunk \in Seq(Unit), chunk # <<>>
  PROVE  /\ Answer(chunk) \in Seq(Unit)
         /\ chunk[Len(chunk)] < 0 => Len(Answer(chunk)) <= Header + Len(chunk)
<1> DEFINE k == Magnitude(chunk[1])
           header == [j \in 1 .. Header |-> k]
<1>1. chunk[1] \in Unit /\ Len(chunk) \in Nat
  OBVIOUS
<1>2. k \in Unit /\ -k \in Unit
  BY <1>1, PollServerAssumption DEF Unit, Magnitude
<1>3. Header \in Nat
  BY PollServerAssumption
<1>4. header \in Seq(Unit) /\ Len(header) = Header
  BY <1>2, <1>3, Repeated
<1>5. <<-k>> \in Seq(Unit) /\ Len(<<-k>>) = 1
  BY <1>2
<1>6. Answer(chunk) = header \o Text(chunk) \o <<-k>>
  BY DEF Answer
<1> HIDE DEF header, k
<1>7. /\ Answer(chunk) \in Seq(Unit)
      /\ Len(Answer(chunk)) = Header + Len(Text(chunk)) + 1
  <2>1. Text(chunk) \in Seq(Unit) /\ Len(Text(chunk)) \in Nat
    BY TextFacts
  <2>2. header \o Text(chunk) \in Seq(Unit) /\ Len(header \o Text(chunk)) = Header + Len(Text(chunk))
    BY <1>4, <2>1
  <2> QED
    BY <1>5, <1>6, <2>2
<1>8. Len(Text(chunk)) \in Nat
  BY TextFacts
<1> QED
  BY <1>1, <1>3, <1>7, <1>8, TextFacts

----------------------------------------------------------------------------
\* The queue of the listening socket.

LEMMA QueueAppend ==
  ASSUME NEW q \in Seq(Client), NEW c \in Client
  PROVE  /\ Append(q, c) \in Seq(Client) /\ Append(q, c) # <<>>
         /\ DOMAIN Append(q, c) = 1 .. Len(q) + 1
         /\ \A i \in DOMAIN q : Append(q, c)[i] = q[i]
         /\ Append(q, c)[Len(q) + 1] = c
<1>1. DOMAIN q = 1 .. Len(q) /\ Len(q) \in Nat
  OBVIOUS
<1>2. DOMAIN Append(q, c) = 1 .. Len(Append(q, c))
  BY AppendProperties
<1> QED
  BY <1>1, <1>2, AppendProperties

LEMMA QueueTail ==
  ASSUME NEW q \in Seq(Client), q # <<>>
  PROVE  /\ Head(q) = q[1] /\ 1 \in DOMAIN q /\ Head(q) \in Client
         /\ Tail(q) \in Seq(Client)
         /\ \A i \in DOMAIN Tail(q) : i \in Int /\ i + 1 \in DOMAIN q /\ i + 1 # 1
                                      /\ Tail(q)[i] = q[i + 1]
<1>1. DOMAIN q = 1 .. Len(q) /\ Len(q) \in Nat /\ Len(q) # 0
  OBVIOUS
<1>2. Tail(q) \in Seq(Client) /\ Len(Tail(q)) = Len(q) - 1 /\ Head(q) \in Client
      /\ \A i \in 1 .. Len(Tail(q)) : Tail(q)[i] = q[i + 1]
  BY HeadTailProperties
<1>3. DOMAIN Tail(q) = 1 .. Len(Tail(q))
  BY <1>2
<1>4. Head(q) = q[1]
  OBVIOUS
<1> QED
  BY <1>1, <1>2, <1>3, <1>4

----------------------------------------------------------------------------
LEMMA InitIInv == Init => IInv
<1> SUFFICES ASSUME Init PROVE IInv
  OBVIOUS
<1> USE PollServerAssumption DEF Init
<1>1. TypeOK
  <2>1. 0 \in 0 .. MaxMessages
    OBVIOUS
  <2> QED
    BY <2>1 DEF TypeOK
<1>2. QueueInv /\ DescriptorsOwned
  BY DEF QueueInv, DescriptorsOwned, Served
<1>3. Started = {} /\ FreeSlot = Slot
  BY DEF Started, Served, FreeSlot
<1>4. SlotPerThread /\ IsFiniteSet(Started)
  BY <1>3, FS_EmptySet DEF SlotPerThread, Started
<1>5. PairedInv /\ BufferInv
  BY DEF PairedInv, Alone, BufferInv
<1> QED
  BY <1>1, <1>2, <1>4, <1>5 DEF IInv

----------------------------------------------------------------------------
LEMMA StepClientType ==
  ASSUME IInv, NEW c \in Client, ClientStep(c)
  PROVE  TypeOK'
<1> USE PollServerAssumption DEF IInv, TypeOK, mainVars, threadVars, streamVars
<1>1. CASE Connect(c)
  BY <1>1 DEF Connect
<1>2. CASE Send(c)
  <2>1. sent[c] + 1 \in 1 .. MaxMessages /\ sent[c] + 1 \in 0 .. MaxMessages
    BY <1>2 DEF Send
  <2>2. \A length \in Lengths : Message(sent[c] + 1, length) \in Seq(Unit)
    BY <2>1, MessageFacts
  <2>3. toServer' \in [Client -> Seq(Unit)]
    <3>1. PICK length \in Lengths :
            toServer' = IF Open(c) THEN [toServer EXCEPT ![c] = @ \o Message(sent[c] + 1, length)]
                                   ELSE toServer
      BY <1>2 DEF Send
    <3>2. toServer[c] \o Message(sent[c] + 1, length) \in Seq(Unit)
      BY <2>2
    <3> QED
      BY <3>1, <3>2
  <2>4. long' \in [Client -> BOOLEAN]
    BY <1>2 DEF Send, Fits
  <2> QED
    BY <1>2, <2>1, <2>3, <2>4 DEF Send
<1>3. CASE Receive(c)
  <2>1. Left(toClient[c], ClientBuf) \in Seq(Unit)
    BY ReceivedFacts
  <2> QED
    BY <1>3, <2>1 DEF Receive
<1>4. CASE Disconnected(c)
  BY <1>4 DEF Disconnected
<1>5. CASE Leave(c)
  BY <1>5 DEF Leave
<1> QED
  BY <1>1, <1>2, <1>3, <1>4, <1>5 DEF ClientStep, Answered

LEMMA StepServerType ==
  ASSUME IInv, NEW c \in Client, ServerStep(c)
  PROVE  TypeOK'
<1> USE PollServerAssumption DEF IInv, TypeOK, mainVars, clientVars, streamVars, At, Goto
<1>1. CASE Recv(c)
  <2>1. /\ Received(toServer[c], ServerBuf) \in Seq(Unit)
        /\ Len(Received(toServer[c], ServerBuf)) <= ServerBuf
        /\ Left(toServer[c], ServerBuf) \in Seq(Unit)
    BY ReceivedFacts
  <2> QED
    BY <1>1, <2>1 DEF Recv, RecvSize, threadVars
<1>2. CASE RecvEnd(c)
  BY <1>2 DEF RecvEnd
<1>3. CASE Reply(c)
  <2>1. toClient[c] \o Answer(buffer[c]) \in Seq(Unit)
    BY <1>3, AnswerFacts DEF Reply, BufferInv
  <2>2. toClient' \in [Client -> Seq(Unit)] /\ broken' \in [Client -> BOOLEAN]
    BY <1>3, <2>1 DEF Reply
  <2>3. <<>> \in Seq(Unit) /\ Len(<<>>) <= ServerBuf
    OBVIOUS
  <2> QED
    BY <1>3, <2>2, <2>3 DEF Reply
<1>4. CASE Sigpipe(c)
  BY <1>4 DEF Sigpipe, threadVars
<1>5. CASE Close(c)
  BY <1>5 DEF Close
<1> QED
  BY <1>1, <1>2, <1>3, <1>4, <1>5 DEF ServerStep, HandleClient

LEMMA StepMainType ==
  ASSUME IInv, Main
  PROVE  TypeOK'
<1> USE PollServerAssumption DEF IInv, TypeOK, clientVars, streamVars, threadVars
<1>1. CASE Poll
  BY <1>1 DEF Poll
<1>2. CASE Accept
  <2>1. CASE FreeFd = {}
    BY <1>2, <2>1 DEF Accept
  <2>2. CASE FreeFd # {}
    <3>1. queue # <<>> => Head(queue) \in Client /\ Tail(queue) \in Seq(Client)
      OBVIOUS
    <3>2. PICK f \in FreeFd : fd' = [fd EXCEPT ![Head(queue)] = f]
      BY <1>2, <2>2 DEF Accept
    <3>3. f \in Fd
      BY DEF FreeFd
    <3>4. queue # <<>>
      BY <1>2 DEF Accept, QueueInv
    <3> QED
      BY <1>2, <2>2, <3>1, <3>2, <3>3, <3>4 DEF Accept
  <2> QED
    BY <2>1, <2>2
<1>3. CASE Serve
  BY <1>3 DEF Serve, TakeSlot, FreeSlot
<1>4. CASE FailToServe
  BY <1>4 DEF FailToServe, SlotReset
<1>5. CASE Forget
  BY <1>5 DEF Forget
<1> QED
  BY <1>1, <1>2, <1>3, <1>4, <1>5 DEF Main

----------------------------------------------------------------------------
LEMMA QueueKept ==
  ASSUME IInv, UNCHANGED <<queue, client_fd>>, main' \in {main, "died"},
         \A d \in Client : /\ thread[d] = "none" => thread'[d] = "none" /\ fd'[d] = fd[d]
                           /\ client'[d] = "start" => client[d] = "start"
  PROVE  QueueInv'
<1>1. (\A i \in DOMAIN queue : queue[i] \in Client) /\ client_fd \in Client
  BY DEF IInv, TypeOK
<1> QED
  BY <1>1 DEF IInv, QueueInv

LEMMA StepQueue ==
  ASSUME IInv, [Next]_vars
  PROVE  QueueInv'
<1> USE PollServerAssumption DEF IInv, TypeOK, mainVars, threadVars, clientVars, streamVars, At, Goto
<1>0. \A i \in DOMAIN queue : queue[i] \in Client
  OBVIOUS
<1>1. ASSUME NEW c \in Client, Connect(c) PROVE QueueInv'
  <2>1. \A i \in DOMAIN queue : queue[i] # c
    BY <1>1 DEF Connect, QueueInv
  <2>2. DOMAIN queue = 1 .. Len(queue) /\ Len(queue) \in Nat
    OBVIOUS
  <2>3. \A i \in DOMAIN queue' : \/ i \in DOMAIN queue /\ queue'[i] = queue[i]
                                 \/ i = Len(queue) + 1 /\ queue'[i] = c
    BY <1>1, <2>2, QueueAppend DEF Connect
  <2>4. queue' # <<>>
    BY <1>1, QueueAppend DEF Connect
  <2>5. client'[c] = "prompt" /\ fd'[c] = -1 /\ thread'[c] = "none"
        /\ \A d \in Client \ {c} : client'[d] = client[d]
    BY <1>1 DEF Connect, QueueInv
  <2>6. \A i \in DOMAIN queue' : thread'[queue'[i]] = "none" /\ fd'[queue'[i]] = -1
                                 /\ client'[queue'[i]] # "start"
    <3> TAKE i \in DOMAIN queue'
    <3>1. CASE i \in DOMAIN queue /\ queue'[i] = queue[i]
      <4>1. queue[i] \in Client \ {c}
        BY <1>0, <2>1, <3>1
      <4>2. thread[queue[i]] = "none" /\ fd[queue[i]] = -1 /\ client[queue[i]] # "start"
        BY <3>1 DEF QueueInv
      <4> QED
        BY <1>1, <2>5, <3>1, <4>1, <4>2 DEF Connect
    <3>2. CASE queue'[i] = c
      BY <2>5, <3>2
    <3> QED
      BY <2>3, <3>1, <3>2
  <2>7. \A i, j \in DOMAIN queue' : queue'[i] = queue'[j] => i = j
    <3> TAKE i, j \in DOMAIN queue'
    <3>1. \A k, l \in DOMAIN queue : queue[k] = queue[l] => k = l
      BY DEF QueueInv
    <3> QED
      BY ONLY <2>1, <2>3, <3>1, i \in DOMAIN queue', j \in DOMAIN queue'
  <2>8. main' = "place" => \A i \in DOMAIN queue' : queue'[i] # client_fd'
    BY <1>1, <2>3 DEF Connect, QueueInv
  <2> QED
    BY <1>1, <2>4, <2>5, <2>6, <2>7, <2>8 DEF Connect, QueueInv
<1>2. ASSUME NEW c \in Client, Send(c) \/ Receive(c) \/ Disconnected(c) \/ Leave(c) PROVE QueueInv'
  BY <1>2, QueueKept DEF Send, Receive, Disconnected, Leave
<1>3. ASSUME NEW c \in Client, HandleClient(c) PROVE QueueInv'
  BY <1>3, QueueKept DEF HandleClient, Recv, RecvEnd, Reply, Sigpipe, Close
<1>4. CASE Poll
  BY <1>4 DEF Poll, QueueInv
<1>5. CASE Accept
  <2>1. CASE FreeFd = {}
    BY <1>5, <2>1 DEF Accept, QueueInv
  <2>2. CASE FreeFd # {}
    <3>1. queue # <<>>
      BY <1>5 DEF Accept, QueueInv
    <3>2. /\ Head(queue) = queue[1] /\ 1 \in DOMAIN queue /\ Head(queue) \in Client
          /\ Tail(queue) \in Seq(Client)
          /\ \A i \in DOMAIN Tail(queue) : i \in Int /\ i + 1 \in DOMAIN queue /\ i + 1 # 1
                                           /\ Tail(queue)[i] = queue[i + 1]
      BY <3>1, QueueTail
    <3>3. PICK f \in FreeFd : fd' = [fd EXCEPT ![Head(queue)] = f]
      BY <1>5, <2>2 DEF Accept
    <3>4. f \in Fd /\ f # -1
      BY DEF FreeFd
    <3>5. queue' = Tail(queue) /\ client_fd' = Head(queue) /\ main' = "place" /\ UNCHANGED <<thread, client>>
      BY <1>5, <2>2 DEF Accept
    <3>6. \A i \in DOMAIN queue' : queue'[i] # client_fd' /\ thread'[queue'[i]] = "none"
                                   /\ fd'[queue'[i]] = -1 /\ client'[queue'[i]] # "start"
      <4> TAKE i \in DOMAIN queue'
      <4>1. i + 1 \in DOMAIN queue /\ queue'[i] = queue[i + 1] /\ queue[i + 1] # Head(queue)
        BY <3>2, <3>5 DEF QueueInv
      <4>2. queue[i + 1] \in Client
        BY <1>0, <4>1
      <4>3. thread[queue[i + 1]] = "none" /\ fd[queue[i + 1]] = -1 /\ client[queue[i + 1]] # "start"
        BY <4>1 DEF QueueInv
      <4> QED
        BY <3>3, <3>5, <4>1, <4>2, <4>3
    <3>7. \A i, j \in DOMAIN queue' : queue'[i] = queue'[j] => i = j
      <4> TAKE i, j \in DOMAIN queue'
      <4> HAVE queue'[i] = queue'[j]
      <4>1. i + 1 = j + 1
        BY <3>2, <3>5 DEF QueueInv
      <4>2. i \in Int /\ j \in Int
        BY <3>2, <3>5
      <4> QED
        BY <4>1, <4>2
    <3>8. \A c \in Client : client'[c] = "start" => fd'[c] = -1 /\ thread'[c] = "none"
      BY <3>2, <3>3, <3>5 DEF QueueInv
    <3>9. thread'[client_fd'] = "none" /\ fd'[client_fd'] # -1 /\ client'[client_fd'] # "start"
      BY <3>2, <3>3, <3>4, <3>5 DEF QueueInv
    <3> QED
      BY <3>5, <3>6, <3>7, <3>8, <3>9 DEF QueueInv
  <2> QED
    BY <2>1, <2>2
<1>6. CASE Serve
  BY <1>0, <1>6 DEF Serve, QueueInv
<1>7. CASE FailToServe
  BY <1>0, <1>7 DEF FailToServe, QueueInv
<1>8. CASE Forget
  BY <1>8 DEF Forget, QueueInv
<1>9. CASE UNCHANGED vars
  BY <1>9 DEF vars, QueueInv
<1> QED
  BY <1>1, <1>2, <1>3, <1>4, <1>5, <1>6, <1>7, <1>8, <1>9 DEF Next, Main, Answered

LEMMA StepOwned ==
  ASSUME IInv, [Next]_vars
  PROVE  DescriptorsOwned'
<1> USE PollServerAssumption DEF IInv, TypeOK, mainVars, threadVars, clientVars, streamVars, At, Goto,
      Served
<1>1. ASSUME NEW c \in Client, Connect(c) \/ Send(c) \/ Receive(c) \/ Disconnected(c) \/ Leave(c)
      PROVE  DescriptorsOwned'
  BY <1>1 DEF Connect, Send, Receive, Disconnected, Leave, DescriptorsOwned
<1>2. ASSUME NEW c \in Client, HandleClient(c) PROVE DescriptorsOwned'
  BY <1>2 DEF HandleClient, Recv, RecvEnd, Reply, Sigpipe, Close, DescriptorsOwned
<1>3. CASE Poll \/ Forget
  BY <1>3 DEF Poll, Forget, DescriptorsOwned
<1>4. CASE Accept
  <2>1. CASE FreeFd = {}
    BY <1>4, <2>1 DEF Accept, DescriptorsOwned
  <2>2. CASE FreeFd # {}
    <3>1. Head(queue) \in Client /\ UNCHANGED thread
      BY <1>4 DEF Accept, QueueInv
    <3>2. PICK f \in FreeFd : fd' = [fd EXCEPT ![Head(queue)] = f]
      BY <1>4, <2>2 DEF Accept
    <3>3. f # -1 /\ \A c \in Client : fd[c] # f
      BY DEF FreeFd
    <3> QED
      BY <3>1, <3>2, <3>3 DEF DescriptorsOwned
  <2> QED
    BY <2>1, <2>2
<1>5. CASE Serve
  BY <1>5 DEF Serve, QueueInv, DescriptorsOwned
<1>6. CASE FailToServe
  BY <1>6 DEF FailToServe, QueueInv, DescriptorsOwned
<1>7. CASE UNCHANGED vars
  BY <1>7 DEF vars, DescriptorsOwned
<1> QED
  BY <1>1, <1>2, <1>3, <1>4, <1>5, <1>6, <1>7 DEF Next, Main, Answered

----------------------------------------------------------------------------
\* A client that main has dealt with and that has a connection, but no thread.
Forgotten(c) == main # "died" /\ fd[c] # -1 /\ thread[c] = "none"
                /\ ~(main = "place" /\ c = client_fd)

LEMMA SlotFacts ==
  SlotPerThread <=> /\ Cardinality(Started) = Cardinality(Slot \ FreeSlot)
                    /\ \A c \in Client : Forgotten(c) => FreeSlot = {}
BY DEF SlotPerThread, Started, Forgotten

\* The steps that start no thread and take no slot.
LEMMA SlotsKept ==
  ASSUME IInv, UNCHANGED slot, Started' = Started,
         \A c \in Client : Forgotten(c)' => Forgotten(c) \/ FreeSlot = {}
  PROVE  SlotPerThread' /\ IsFiniteSet(Started)'
<1>1. FreeSlot' = FreeSlot /\ (Slot \ FreeSlot)' = Slot \ FreeSlot
  BY DEF FreeSlot
<1>2. Cardinality(Started)' = Cardinality(Started)
  OBVIOUS
<1>3. SlotPerThread' <=> /\ Cardinality(Started)' = Cardinality(Slot \ FreeSlot)'
                         /\ \A c \in Client : Forgotten(c)' => FreeSlot' = {}
  BY DEF SlotPerThread, Started, Forgotten
<1> QED
  BY <1>1, <1>2, <1>3, SlotFacts DEF IInv

LEMMA StepSlots ==
  ASSUME IInv, [Next]_vars
  PROVE  SlotPerThread' /\ IsFiniteSet(Started)'
<1> USE PollServerAssumption DEF IInv, TypeOK, mainVars, threadVars, clientVars, streamVars, At, Goto
<1>1. ASSUME NEW c \in Client, Connect(c) \/ Send(c) \/ Receive(c) \/ Disconnected(c) \/ Leave(c)
      PROVE  SlotPerThread' /\ IsFiniteSet(Started)'
  BY <1>1, SlotsKept
     DEF Connect, Send, Receive, Disconnected, Leave, Started, Served, Forgotten
<1>2. ASSUME NEW c \in Client, HandleClient(c) PROVE SlotPerThread' /\ IsFiniteSet(Started)'
  <2>1. UNCHANGED slot /\ main' \in {main, "died"} /\ UNCHANGED client_fd
    BY <1>2 DEF HandleClient, Recv, RecvEnd, Reply, Sigpipe, Close
  <2>2. Started' = Started
    BY <1>2 DEF HandleClient, Recv, RecvEnd, Reply, Sigpipe, Close, Started, Served
  <2>3. \A d \in Client : thread'[d] = "none" => thread[d] = "none" /\ fd'[d] = fd[d]
    BY <1>2 DEF HandleClient, Recv, RecvEnd, Reply, Sigpipe, Close
  <2>4. \A d \in Client : Forgotten(d)' => Forgotten(d)
    BY <2>1, <2>3 DEF Forgotten
  <2> QED
    BY <2>1, <2>2, <2>4, SlotsKept
<1>3. CASE Poll \/ Forget
  BY <1>3, SlotsKept DEF Poll, Forget, Started, Served, Forgotten
<1>4. CASE Accept
  <2>1. UNCHANGED <<slot, thread>> /\ main = "accept"
    BY <1>4 DEF Accept
  <2>2. \A d \in Client : Forgotten(d)' => Forgotten(d)
    <3>1. CASE FreeFd = {}
      BY <1>4, <3>1 DEF Accept, Forgotten
    <3>2. CASE FreeFd # {}
      <4>1. main' = "place" /\ client_fd' = Head(queue)
            /\ \A d \in Client : d # Head(queue) => fd'[d] = fd[d]
        BY <1>4, <3>2 DEF Accept
      <4> QED
        BY <2>1, <4>1 DEF Forgotten
    <3> QED
      BY <3>1, <3>2
  <2>3. Started' = Started
    BY <2>1 DEF Started, Served
  <2> QED
    BY <2>1, <2>2, <2>3, SlotsKept
<1>5. CASE Serve
  <2>1. PICK i \in FreeSlot : slot' = [slot EXCEPT ![i] = fd[client_fd]]
    BY <1>5 DEF Serve, TakeSlot
  <2>2. client_fd \in Client /\ thread[client_fd] = "none" /\ fd[client_fd] # -1
        /\ thread' = [thread EXCEPT ![client_fd] = "recv"] /\ UNCHANGED <<fd, client_fd>>
        /\ main = "place" /\ main' = "poll"
    BY <1>5 DEF Serve, QueueInv
  <2>3. client_fd \notin Started /\ Started' = Started \cup {client_fd}
    BY <2>2 DEF Started, Served
  <2>4. IsFiniteSet(Started') /\ Cardinality(Started') = Cardinality(Started) + 1
    BY <2>3, FS_AddElement
  <2>5. i \in Slot /\ slot[i] = -1 /\ i \notin Slot \ FreeSlot
    BY DEF FreeSlot
  <2>6. (Slot \ FreeSlot)' = (Slot \ FreeSlot) \cup {i}
    BY <2>1, <2>2, <2>5 DEF FreeSlot
  <2>7. IsFiniteSet(Slot)
    BY FS_Interval DEF Slot
  <2>8. IsFiniteSet(Slot \ FreeSlot)
    BY <2>7, FS_Subset
  <2>9. Cardinality((Slot \ FreeSlot)') = Cardinality(Slot \ FreeSlot) + 1
    BY <2>5, <2>6, <2>8, FS_AddElement
  <2>10. Cardinality(Started) = Cardinality(Slot \ FreeSlot)
         /\ \A c \in Client : ~Forgotten(c)
    BY SlotFacts
  <2>11. \A c \in Client : ~Forgotten(c)'
    BY <2>2, <2>10 DEF Forgotten
  <2>12. Cardinality(Started)' = Cardinality(Slot \ FreeSlot)'
    BY <2>4, <2>9, <2>10
  <2> QED
    BY <2>4, <2>11, <2>12 DEF SlotPerThread, Started, Forgotten
<1>6. CASE FailToServe
  <2>1. UNCHANGED slot /\ Started' = Started
    BY <1>6 DEF FailToServe, SlotReset, QueueInv, Started, Served
  <2>2. \A d \in Client : Forgotten(d)' => Forgotten(d)
    BY <1>6 DEF FailToServe, Forgotten
  <2> QED
    BY <2>1, <2>2, SlotsKept
<1>7. CASE UNCHANGED vars
  BY <1>7, SlotsKept DEF vars, Started, Served, Forgotten
<1> QED
  BY <1>1, <1>2, <1>3, <1>4, <1>5, <1>6, <1>7 DEF Next, Main, Answered

----------------------------------------------------------------------------
LEMMA StepBuffer ==
  ASSUME IInv, [Next]_vars
  PROVE  BufferInv'
<1> USE PollServerAssumption DEF IInv, TypeOK, mainVars, threadVars, clientVars, streamVars, At, Goto
<1>1. ASSUME NEW c \in Client, Connect(c) \/ Send(c) \/ Receive(c) \/ Disconnected(c) \/ Leave(c)
      PROVE  BufferInv'
  BY <1>1 DEF Connect, Send, Receive, Disconnected, Leave, BufferInv
<1>2. ASSUME NEW c \in Client, Recv(c) PROVE BufferInv'
  <2>1. Received(toServer[c], ServerBuf) # <<>>
    BY <1>2, ReceivedFacts DEF Recv, Arrived
  <2> QED
    BY <1>2, <2>1 DEF Recv, RecvSize, BufferInv
<1>3. ASSUME NEW c \in Client, RecvEnd(c) \/ Reply(c) \/ Sigpipe(c) \/ Close(c) PROVE BufferInv'
  BY <1>3 DEF RecvEnd, Reply, Sigpipe, Close, BufferInv
<1>4. CASE Main
  BY <1>4 DEF Main, Poll, Accept, Serve, FailToServe, Forget, BufferInv
<1>5. CASE UNCHANGED vars
  BY <1>5 DEF vars, BufferInv
<1> QED
  BY <1>1, <1>2, <1>3, <1>4, <1>5 DEF Next, HandleClient, Answered

LEMMA StepPaired ==
  ASSUME IInv, [Next]_vars
  PROVE  PairedInv'
<1> USE PollServerAssumption DEF IInv, TypeOK, mainVars, threadVars, clientVars, streamVars, At, Goto
<1>1. ASSUME NEW c \in Client, Connect(c) PROVE PairedInv'
  BY <1>1 DEF Connect, PairedInv, Alone, OneMessage
<1>2. ASSUME NEW c \in Client, Send(c) PROVE PairedInv'
  <2>1. PICK length \in Lengths :
          /\ toServer' = IF Open(c) THEN [toServer EXCEPT ![c] = @ \o Message(sent[c] + 1, length)]
                                    ELSE toServer
          /\ long' = [long EXCEPT ![c] = @ \/ ~Fits(length)]
    BY <1>2 DEF Send
  <2>2. client[c] = "prompt" /\ UNCHANGED <<thread, buffer, toClient, broken>>
        /\ \A d \in Client \ {c} : client'[d] = client[d] /\ toServer'[d] = toServer[d] /\ long'[d] = long[d]
    BY <1>2, <2>1 DEF Send
  <2>3. \A d \in Client \ {c} : ~long'[d] => Alone(d)'
    BY <2>2 DEF PairedInv, Alone, OneMessage
  <2>4. ASSUME ~long'[c] PROVE Alone(c)'
    <3>1. ~long[c] /\ Fits(length)
      BY <2>1, <2>4
    <3>2. Alone(c)
      BY <3>1 DEF PairedInv
    <3>3. toServer[c] = <<>> /\ thread[c] # "answer" /\ toClient[c] = <<>> /\ ~broken[c]
      BY <2>2, <3>2 DEF Alone
    <3>4. client'[c] = "answer"
      BY <1>2 DEF Send
    <3>5. toServer'[c] = <<>> \/ toServer'[c] = Message(sent[c] + 1, length)
      <4>1. sent[c] + 1 \in 1 .. MaxMessages
        BY <1>2 DEF Send
      <4>2. Message(sent[c] + 1, length) \in Seq(Unit)
        BY <4>1, MessageFacts
      <4> QED
        BY <2>1, <3>3, <4>2
    <3>6. OneMessage(Message(sent[c] + 1, length))
      <4>1. sent[c] + 1 \in 1 .. MaxMessages
        BY <1>2 DEF Send
      <4>2. /\ Len(Message(sent[c] + 1, length)) = length + 1
            /\ Message(sent[c] + 1, length)[length + 1] < 0
        BY <4>1, MessageFacts
      <4> QED
        BY <3>1, <4>2 DEF OneMessage, Fits
    <3> QED
      BY <2>2, <3>3, <3>4, <3>5, <3>6 DEF Alone, OneMessage
  <2> QED
    BY <2>3, <2>4 DEF PairedInv
<1>3. ASSUME NEW c \in Client, Receive(c) PROVE PairedInv'
  <2>1. Len(toClient[c]) <= ClientBuf => Left(toClient[c], ClientBuf) = <<>>
    BY ReceivedFacts
  <2> QED
    BY <1>3, <2>1 DEF Receive, PairedInv, Alone, OneMessage
<1>4. ASSUME NEW c \in Client, Disconnected(c) \/ Leave(c) PROVE PairedInv'
  <2>1. client' = [client EXCEPT ![c] = "gone"] /\ UNCHANGED <<thread, buffer, long, toServer, broken>>
    BY <1>4 DEF Disconnected, Leave
  <2>2. \A d \in Client : toClient'[d] = toClient[d] \/ toClient'[d] = <<>>
    BY <1>4 DEF Disconnected, Leave
  <2>3. Len(<<>>) <= ClientBuf
    OBVIOUS
  <2> QED
    BY <2>1, <2>2, <2>3 DEF PairedInv, Alone, OneMessage
<1>5. ASSUME NEW c \in Client, Recv(c) PROVE PairedInv'
  <2>1. Len(toServer[c]) <= ServerBuf =>
          Received(toServer[c], ServerBuf) = toServer[c] /\ Left(toServer[c], ServerBuf) = <<>>
    BY ReceivedFacts
  <2>2. toServer[c] # <<>>
    BY <1>5 DEF Recv, Arrived
  <2> QED
    BY <1>5, <2>1, <2>2 DEF Recv, RecvSize, PairedInv, Alone, OneMessage
<1>6. ASSUME NEW c \in Client, RecvEnd(c) \/ Sigpipe(c) \/ Close(c) PROVE PairedInv'
  <2>1. UNCHANGED <<buffer, client, long, toServer, toClient, broken>>
        /\ \A d \in Client : thread'[d] = "answer" => thread[d] = "answer"
    BY <1>6 DEF RecvEnd, Sigpipe, Close
  <2> QED
    BY <2>1 DEF PairedInv, Alone, OneMessage
<1>7. ASSUME NEW c \in Client, Reply(c) PROVE PairedInv'
  <2>1. thread[c] = "answer" /\ thread' = [thread EXCEPT ![c] = "recv"]
        /\ UNCHANGED <<client, long, toServer>> /\ buffer' = [buffer EXCEPT ![c] = <<>>]
    BY <1>7 DEF Reply
  <2>2. \A d \in Client \ {c} : toClient'[d] = toClient[d] /\ broken'[d] = broken[d]
    BY <1>7 DEF Reply
  <2>3. \A d \in Client \ {c} : ~long'[d] => Alone(d)'
    BY <2>1, <2>2 DEF PairedInv, Alone, OneMessage
  <2>4. ASSUME ~long[c] PROVE Alone(c)'
    <3>1. Alone(c)
      BY <2>4 DEF PairedInv
    <3>2. OneMessage(buffer[c]) /\ toClient[c] = <<>> /\ toServer[c] = <<>>
          /\ client[c] \notin {"start", "prompt"}
      BY <2>1, <3>1 DEF Alone
    <3>3. Answer(buffer[c]) \in Seq(Unit) /\ Len(Answer(buffer[c])) <= Header + Len(buffer[c])
      BY <2>1, <3>2, AnswerFacts DEF BufferInv, OneMessage
    <3>4. Header + Len(buffer[c]) <= ClientBuf
      BY <3>2 DEF OneMessage
    <3>5. CASE client[c] = "gone"
      BY <1>7, <2>1, <3>2, <3>5 DEF Reply, Alone
    <3>6. CASE client[c] # "gone"
      <4>1. toClient'[c] = Answer(buffer[c]) /\ UNCHANGED broken
        BY <1>7, <3>2, <3>3, <3>6 DEF Reply
      <4>2. Len(Answer(buffer[c])) <= ClientBuf
        BY <3>3, <3>4
      <4> QED
        BY <1>7, <2>1, <3>2, <3>6, <4>1, <4>2 DEF Reply, Alone
    <3> QED
      BY <3>5, <3>6
  <2> QED
    BY <2>1, <2>3, <2>4 DEF PairedInv
<1>8. CASE Main
  <2>1. UNCHANGED <<client, long, toServer, toClient, broken, buffer>>
        /\ \A d \in Client : thread'[d] = "answer" => thread[d] = "answer"
    BY <1>8 DEF Main, Poll, Accept, Serve, FailToServe, Forget
  <2> QED
    BY <2>1 DEF PairedInv, Alone, OneMessage
<1>9. CASE UNCHANGED vars
  BY <1>9 DEF vars, PairedInv, Alone, OneMessage
<1> QED
  BY <1>1, <1>2, <1>3, <1>4, <1>5, <1>6, <1>7, <1>8, <1>9 DEF Next, HandleClient, Answered

----------------------------------------------------------------------------
LEMMA StepIInv == IInv /\ [Next]_vars => IInv'
<1> SUFFICES ASSUME IInv, [Next]_vars PROVE IInv'
  OBVIOUS
<1>1. TypeOK'
  <2>1. CASE UNCHANGED vars
    BY <2>1 DEF IInv, TypeOK, vars, mainVars, threadVars, clientVars, streamVars
  <2> QED
    BY <2>1, StepClientType, StepServerType, StepMainType DEF Next, ClientStep, ServerStep
<1> QED
  BY <1>1, StepQueue, StepOwned, StepSlots, StepBuffer, StepPaired DEF IInv

THEOREM Invariance == Spec => []IInv
<1>1. Init => IInv
  BY InitIInv
<1>2. IInv /\ [Next]_vars => IInv'
  BY StepIInv
<1> QED
  BY <1>1, <1>2, PTL DEF Spec

\* Every variable keeps its type, and no buffer is overrun: recv never writes
\* more than BUF_SIZE - 1 units (server.cpp:27, 31-37).
THEOREM TypeCorrect == Spec => []TypeOK
<1>1. IInv => TypeOK
  BY DEF IInv
<1> QED
  BY <1>1, Invariance, PTL

\* A running thread always works on a descriptor of its own, with any number of
\* clients and however the numbers are reused (server.cpp:45, 111).
THEOREM OwnDescriptors == Spec => []DescriptorsOwned
<1>1. IInv => DescriptorsOwned
  BY DEF IInv
<1> QED
  BY <1>1, Invariance, PTL

\* Slots are only ever used up, one by each thread that was started, whatever
\* fails on the way (server.cpp:98-117).
THEOREM SlotsUsedUp == Spec => []SlotPerThread
<1>1. IInv => SlotPerThread
  BY DEF IInv
<1> QED
  BY <1>1, Invariance, PTL

\* For any sizes of the buffers and of the header, a client whose messages fit
\* reads each answer with one recv (client.cpp:39-52, server.cpp:30-42).
THEOREM Paired == Spec => []AnswersPaired
<1>1. IInv => AnswersPaired
  BY DEF IInv, PairedInv, Alone, AnswersPaired
<1> QED
  BY <1>1, Invariance, PTL

\* No number of clients that send what fits can bring the server down by
\* SIGPIPE (server.cpp:42).
THEOREM SigpipeAfterLong == Spec => []SigpipeOnlyAfterLong
<1>1. IInv => SigpipeOnlyAfterLong
  BY DEF IInv, PairedInv, Alone, SigpipeOnlyAfterLong
<1> QED
  BY <1>1, Invariance, PTL

----------------------------------------------------------------------------
\* What keeps a served client that waits from waiting for ever.

\* A client that has connected waits in the queue or has a descriptor, until main
\* has dealt with it.
KnownInv ==
  \A c \in Client :
    client[c] # "start" /\ thread[c] = "none" =>
      fd[c] # -1 \/ \E i \in DOMAIN queue : queue[i] = c

\* Of a message or of its answer, something is under way.
UnderWay ==
  \A c \in Client :
    client[c] = "answer" /\ thread[c] \in {"none", "recv"} =>
      main = "died" \/ toServer[c] # <<>> \/ toClient[c] # <<>>

CloseInv == \A c \in Client : thread[c] = "close" => client[c] = "gone"

LiveInv == IInv /\ KnownInv /\ UnderWay /\ CloseInv

LEMMA NonEmptyConcat ==
  ASSUME NEW s \in Seq(Unit), NEW t \in Seq(Unit), t # <<>>
  PROVE  s \o t # <<>>
<1>1. Len(s \o t) = Len(s) + Len(t) /\ Len(t) \in Nat \ {0} /\ Len(s) \in Nat
  OBVIOUS
<1> QED
  BY <1>1

LEMMA AnswerIsSomething ==
  ASSUME NEW s \in Seq(Unit), NEW chunk \in Seq(Unit), chunk # <<>>
  PROVE  s \o Answer(chunk) # <<>>
<1> DEFINE k == Magnitude(chunk[1])
           header == [j \in 1 .. Header |-> k]
<1>1. k \in Unit /\ -k \in Unit
  BY PollServerAssumption DEF Unit, Magnitude
<1>2. header \in Seq(Unit) /\ Text(chunk) \in Seq(Unit)
  BY <1>1, PollServerAssumption, Repeated, TextFacts
<1>3. Answer(chunk) = header \o Text(chunk) \o <<-k>>
  BY DEF Answer
<1> HIDE DEF header, k
<1>4. <<-k>> \in Seq(Unit) /\ <<-k>> # <<>> /\ header \o Text(chunk) \in Seq(Unit)
  BY <1>1, <1>2
<1>5. Answer(chunk) # <<>> /\ Answer(chunk) \in Seq(Unit)
  BY <1>3, <1>4, NonEmptyConcat, AnswerFacts
<1> QED
  BY <1>5, NonEmptyConcat

LEMMA QueueKeeps ==
  ASSUME NEW q \in Seq(Client), NEW c \in Client
  PROVE  /\ \A i \in DOMAIN q : \E j \in DOMAIN Append(q, c) : Append(q, c)[j] = q[i]
         /\ \E j \in DOMAIN Append(q, c) : Append(q, c)[j] = c
<1>1. DOMAIN q = 1 .. Len(q) /\ Len(q) \in Nat
  OBVIOUS
<1>2. \A i \in DOMAIN q : i \in DOMAIN Append(q, c) /\ Append(q, c)[i] = q[i]
  BY <1>1, QueueAppend
<1>3. Len(q) + 1 \in DOMAIN Append(q, c) /\ Append(q, c)[Len(q) + 1] = c
  BY <1>1, QueueAppend
<1> QED
  BY <1>2, <1>3

LEMMA TailKeeps ==
  ASSUME NEW q \in Seq(Client), q # <<>>
  PROVE  \A i \in DOMAIN q : i # 1 => \E j \in DOMAIN Tail(q) : Tail(q)[j] = q[i]
<1> SUFFICES ASSUME NEW i \in DOMAIN q, i # 1
             PROVE  \E j \in DOMAIN Tail(q) : Tail(q)[j] = q[i]
  OBVIOUS
<1>1. i \in Int /\ 1 < i /\ i <= Len(q) /\ Len(q) \in Nat
  OBVIOUS
<1>2. Tail(q) \in Seq(Client) /\ Len(Tail(q)) = Len(q) - 1
      /\ \A j \in 1 .. Len(Tail(q)) : Tail(q)[j] = q[j + 1]
  BY HeadTailProperties
<1>3. DOMAIN Tail(q) = 1 .. Len(Tail(q))
  BY <1>2
<1>4. i - 1 \in 1 .. Len(Tail(q)) /\ (i - 1) + 1 = i
  BY <1>1, <1>2
<1> QED
  BY <1>2, <1>3, <1>4

LEMMA StepKnown ==
  ASSUME IInv, KnownInv, [Next]_vars
  PROVE  KnownInv'
<1> USE PollServerAssumption DEF IInv, TypeOK, mainVars, threadVars, clientVars, streamVars, At, Goto
<1>1. ASSUME NEW c \in Client, Connect(c) PROVE KnownInv'
  <2>1. queue' = Append(queue, c) /\ queue \in Seq(Client)
    BY <1>1 DEF Connect
  <2>2. /\ \A i \in DOMAIN queue : \E j \in DOMAIN queue' : queue'[j] = queue[i]
        /\ \E j \in DOMAIN queue' : queue'[j] = c
    BY ONLY <2>1, QueueKeeps, c \in Client
  <2>3. UNCHANGED <<fd, thread>> /\ \A d \in Client \ {c} : client'[d] = client[d]
    BY <1>1 DEF Connect
  <2> QED
    BY ONLY KnownInv, <2>2, <2>3 DEF KnownInv
<1>2. ASSUME NEW c \in Client, Send(c) \/ Receive(c) \/ Disconnected(c) \/ Leave(c)
      PROVE  KnownInv'
  BY <1>2 DEF Send, Receive, Disconnected, Leave, KnownInv
<1>3. ASSUME NEW c \in Client, HandleClient(c) PROVE KnownInv'
  <2>1. UNCHANGED <<queue, client>>
        /\ \A d \in Client : thread'[d] = "none" => thread[d] = "none" /\ fd'[d] = fd[d]
    BY <1>3 DEF HandleClient, Recv, RecvEnd, Reply, Sigpipe, Close
  <2> QED
    BY <2>1 DEF KnownInv
<1>4. CASE Poll \/ Forget
  BY <1>4 DEF Poll, Forget, KnownInv
<1>5. CASE Accept
  <2>1. CASE FreeFd = {}
    BY <1>5, <2>1 DEF Accept, KnownInv
  <2>2. CASE FreeFd # {}
    <3>1. queue # <<>>
      BY <1>5 DEF Accept, QueueInv
    <3>2. PICK f \in FreeFd : fd' = [fd EXCEPT ![Head(queue)] = f]
      BY <1>5, <2>2 DEF Accept
    <3>3. f # -1 /\ Head(queue) \in Client /\ Head(queue) = queue[1]
      BY <3>1, QueueTail DEF FreeFd
    <3>4. queue' = Tail(queue) /\ UNCHANGED <<thread, client>>
      BY <1>5, <2>2 DEF Accept
    <3>5. \A i \in DOMAIN queue : i # 1 => \E j \in DOMAIN queue' : queue'[j] = queue[i]
      BY <3>1, <3>4, TailKeeps
    <3>6. ASSUME NEW d \in Client, client[d] # "start", thread[d] = "none"
          PROVE  fd'[d] # -1 \/ \E j \in DOMAIN queue' : queue'[j] = d
      <4>1. CASE d = Head(queue)
        BY <3>2, <3>3, <4>1
      <4>2. CASE d # Head(queue) /\ fd[d] # -1
        BY <3>2, <4>2
      <4>3. CASE d # Head(queue) /\ fd[d] = -1
        <5>1. PICK i \in DOMAIN queue : queue[i] = d
          BY <3>6, <4>3 DEF KnownInv
        <5> QED
          BY <3>3, <3>5, <4>3, <5>1
      <4> QED
        BY <4>1, <4>2, <4>3
    <3> QED
      BY <3>4, <3>6 DEF KnownInv
  <2> QED
    BY <2>1, <2>2
<1>6. CASE Serve
  BY <1>6 DEF Serve, KnownInv
<1>7. CASE FailToServe
  BY <1>7 DEF FailToServe, KnownInv
<1>8. CASE UNCHANGED vars
  BY <1>8 DEF vars, KnownInv
<1> QED
  BY <1>1, <1>2, <1>3, <1>4, <1>5, <1>6, <1>7, <1>8 DEF Next, Main, Answered

LEMMA StepUnderWay ==
  ASSUME IInv, KnownInv, UnderWay, [Next]_vars
  PROVE  UnderWay'
<1> USE PollServerAssumption DEF IInv, TypeOK, mainVars, threadVars, clientVars, streamVars, At, Goto
<1>1. ASSUME NEW c \in Client, Connect(c) \/ Disconnected(c) PROVE UnderWay'
  BY <1>1 DEF Connect, Disconnected, UnderWay
<1>2. ASSUME NEW c \in Client, Send(c) PROVE UnderWay'
  <2>1. PICK length \in Lengths :
          toServer' = IF Open(c) THEN [toServer EXCEPT ![c] = @ \o Message(sent[c] + 1, length)]
                                 ELSE toServer
    BY <1>2 DEF Send
  <2>2. toServer[c] \o Message(sent[c] + 1, length) # <<>>
    <3>1. sent[c] + 1 \in 1 .. MaxMessages
      BY <1>2 DEF Send
    <3>2. Message(sent[c] + 1, length) \in Seq(Unit) /\ Message(sent[c] + 1, length) # <<>>
      BY <3>1, MessageFacts
    <3> QED
      BY <3>2, NonEmptyConcat
  <2>3. /\ client[c] = "prompt" /\ UNCHANGED <<main, thread, toClient>>
        /\ \A d \in Client \ {c} : client'[d] = client[d] /\ toServer'[d] = toServer[d]
    BY <1>2, <2>1 DEF Send
  <2>4. ASSUME thread[c] \in {"none", "recv"}, main # "died"
        PROVE  toServer'[c] # <<>>
    <3>1. Open(c)
      BY <2>3, <2>4 DEF Open, KnownInv, DescriptorsOwned, Served
    <3> QED
      BY <2>1, <2>2, <3>1
  <2> QED
    BY <2>3, <2>4 DEF UnderWay
<1>3. ASSUME NEW c \in Client, Receive(c) \/ Leave(c) PROVE UnderWay'
  BY <1>3 DEF Receive, Leave, UnderWay
<1>4. ASSUME NEW c \in Client, Recv(c) \/ RecvEnd(c) \/ Sigpipe(c) \/ Close(c) PROVE UnderWay'
  BY <1>4 DEF Recv, RecvEnd, Sigpipe, Close, UnderWay
<1>5. ASSUME NEW c \in Client, Reply(c) PROVE UnderWay'
  <2>1. toClient[c] \o Answer(buffer[c]) # <<>>
    BY <1>5, AnswerIsSomething DEF Reply, BufferInv
  <2> QED
    BY <1>5, <2>1 DEF Reply, UnderWay
<1>6. CASE Main
  <2>1. /\ UNCHANGED <<client, toServer, toClient>>
        /\ \A d \in Client : thread'[d] \in {"none", "recv"} => thread[d] \in {"none", "recv"}
        /\ main # "died"
    BY <1>6 DEF Main, Poll, Accept, Serve, FailToServe, Forget, QueueInv
  <2> QED
    BY <2>1 DEF UnderWay
<1>7. CASE UNCHANGED vars
  BY <1>7 DEF vars, UnderWay
<1> QED
  BY <1>1, <1>2, <1>3, <1>4, <1>5, <1>6, <1>7 DEF Next, HandleClient, Answered

LEMMA StepClose ==
  ASSUME IInv, CloseInv, [Next]_vars
  PROVE  CloseInv'
<1> USE DEF IInv, TypeOK, mainVars, threadVars, clientVars, streamVars, At, Goto
<1>1. ASSUME NEW c \in Client, Connect(c) \/ Send(c) \/ Answered(c) \/ Leave(c) PROVE CloseInv'
  BY <1>1 DEF Connect, Send, Answered, Receive, Disconnected, Leave, CloseInv
<1>2. ASSUME NEW c \in Client, HandleClient(c) PROVE CloseInv'
  BY <1>2 DEF HandleClient, Recv, RecvEnd, Reply, Sigpipe, Close, CloseInv
<1>3. CASE Main
  BY <1>3 DEF Main, Poll, Accept, Serve, FailToServe, Forget, CloseInv
<1>4. CASE UNCHANGED vars
  BY <1>4 DEF vars, CloseInv
<1> QED
  BY <1>1, <1>2, <1>3, <1>4 DEF Next

LEMMA LiveInvariant == Spec => []LiveInv
<1>1. Init => LiveInv
  BY InitIInv DEF Init, LiveInv, KnownInv, UnderWay, CloseInv
<1>2. LiveInv /\ [Next]_vars => LiveInv'
  BY StepIInv, StepKnown, StepUnderWay, StepClose DEF LiveInv
<1> QED
  BY <1>1, <1>2, PTL DEF Spec

\* From the question to its answer: the thread reads it and answers, or the server
\* dies, and the client is told.
Reading(c)   == client[c] = "answer" /\ thread[c] = "recv" /\ toServer[c] # <<>>
Answering(c) == client[c] = "answer" /\ thread[c] = "answer"
Told(c)      == client[c] = "answer" /\ (toClient[c] # <<>> \/ main = "died")

LEMMA WaitingIsSomewhere ==
  ASSUME LiveInv, NEW c \in Client, client[c] = "answer", Served(c)
  PROVE  Reading(c) \/ Answering(c) \/ Told(c)
BY DEF LiveInv, UnderWay, CloseInv, Served, Reading, Answering, Told

LEMMA WaitingGoesOn ==
  ASSUME LiveInv, NEW c \in Client, client[c] = "answer", client'[c] = "answer", [Next]_vars
  PROVE  /\ Reading(c) => Reading(c)' \/ Answering(c)'
         /\ Answering(c) => Answering(c)' \/ Told(c)'
         /\ Told(c) => Told(c)'
         /\ HandleClient(c) => /\ Reading(c) => Answering(c)'
                               /\ Answering(c) => Told(c)'
<1> USE DEF LiveInv, IInv, TypeOK, mainVars, threadVars, clientVars, streamVars, At, Goto,
        Reading, Answering, Told
<1>1. ASSUME NEW d \in Client, Connect(d) \/ Send(d) \/ Answered(d) \/ Leave(d)
      PROVE  UNCHANGED <<main, thread>> /\ toServer'[c] = toServer[c] /\ toClient'[c] = toClient[c]
  <2>1. d # c
    BY <1>1 DEF Connect, Send, Answered, Receive, Disconnected, Leave
  <2> QED
    BY <1>1, <2>1 DEF Connect, Send, Answered, Receive, Disconnected, Leave
<1>2. ASSUME NEW d \in Client, HandleClient(d), d # c
      PROVE  /\ thread'[c] = thread[c] /\ toServer'[c] = toServer[c] /\ toClient'[c] = toClient[c]
             /\ main' \in {main, "died"}
  BY <1>2 DEF HandleClient, Recv, RecvEnd, Reply, Sigpipe, Close
<1>3. ASSUME HandleClient(c)
      PROVE  /\ Reading(c) => Answering(c)'
             /\ Answering(c) => Told(c)'
             /\ Told(c) => Told(c)'
  <2>1. CASE Recv(c) \/ RecvEnd(c) \/ Sigpipe(c) \/ Close(c)
    BY <2>1 DEF Recv, RecvEnd, Sigpipe, Close
  <2>2. CASE Reply(c)
    <3>1. toClient[c] \o Answer(buffer[c]) # <<>>
      BY <2>2, AnswerIsSomething DEF Reply, BufferInv
    <3> QED
      BY <2>2, <3>1 DEF Reply
  <2> QED
    BY <1>3, <2>1, <2>2 DEF HandleClient
<1>4. ASSUME Main
      PROVE  /\ UNCHANGED <<client, toServer, toClient>> /\ main # "died"
             /\ thread[c] # "none" => thread'[c] = thread[c]
  BY <1>4 DEF Main, Poll, Accept, Serve, FailToServe, Forget, QueueInv
<1>5. \/ \E d \in Client : Connect(d) \/ Send(d) \/ Answered(d) \/ Leave(d)
      \/ \E d \in Client : HandleClient(d)
      \/ Main
      \/ UNCHANGED vars
  BY DEF Next
<1>6. CASE \E d \in Client : Connect(d) \/ Send(d) \/ Answered(d) \/ Leave(d)
  BY <1>1, <1>3, <1>6
<1>7. CASE \E d \in Client : HandleClient(d)
  BY <1>2, <1>3, <1>7
<1>8. CASE Main
  BY <1>3, <1>4, <1>8
<1>9. CASE UNCHANGED vars
  BY <1>3, <1>9 DEF vars
<1> QED
  BY <1>5, <1>6, <1>7, <1>8, <1>9

\* A served client that waits for an answer gets one, or learns that the server is
\* gone, whatever it has sent before and whatever the others do (client.cpp:46-50).
THEOREM AnswersCome == FairSpec /\ []StepsAreEnabled => AnswerComes
<1>1. FairSpec => \A c \in Client : Fair(c)
  BY PTL DEF FairSpec
<1>2. ASSUME NEW c \in Client
      PROVE  FairSpec /\ []StepsAreEnabled =>
               (client[c] = "answer" /\ Served(c) ~> client[c] # "answer")
  <2> DEFINE Heard == client[c] # "answer"
  <2>1. LiveInv /\ [Next]_vars =>
          /\ Reading(c) => Reading(c)' \/ Answering(c)' \/ Heard'
          /\ Answering(c) => Answering(c)' \/ Told(c)' \/ Heard'
          /\ Told(c) => Told(c)' \/ Heard'
    BY WaitingGoesOn DEF Reading, Answering, Told
  <2>2. LiveInv /\ [Next]_vars /\ <<HandleClient(c)>>_vars =>
          /\ Reading(c) => Answering(c)' \/ Heard'
          /\ Answering(c) => Told(c)' \/ Heard'
    BY WaitingGoesOn DEF Reading, Answering
  <2>3. LiveInv /\ <<Answered(c)>>_vars => Heard'
    BY DEF LiveInv, IInv, TypeOK, Answered, Receive, Disconnected
  <2>4. LiveInv /\ StepsAreEnabled =>
          /\ Told(c) => ENABLED <<Answered(c)>>_vars
          /\ Reading(c) \/ Answering(c) => Told(c) \/ ENABLED <<HandleClient(c)>>_vars
    BY DEF StepsAreEnabled, Told, Reading, Answering, AnsweredCan, HandlerCan, At, Open, Arrived
  <2>5. LiveInv /\ client[c] = "answer" /\ Served(c) => Reading(c) \/ Answering(c) \/ Told(c)
    BY WaitingIsSomewhere
  <2>6. FairSpec => []LiveInv
    BY LiveInvariant, PTL DEF FairSpec
  <2>7. FairSpec => Fair(c)
    BY <1>1
  <2> HIDE DEF Heard
  <2>8. FairSpec /\ []StepsAreEnabled => (Told(c) ~> Heard)
    BY <2>1, <2>3, <2>4, <2>6, <2>7, PTL DEF FairSpec, Spec, Fair
  <2>9. FairSpec /\ []StepsAreEnabled => (Answering(c) ~> Told(c) \/ Heard)
    BY <2>1, <2>2, <2>4, <2>6, <2>7, PTL DEF FairSpec, Spec, Fair
  <2>10. FairSpec /\ []StepsAreEnabled => (Reading(c) ~> Answering(c) \/ Told(c) \/ Heard)
    BY <2>1, <2>2, <2>4, <2>6, <2>7, PTL DEF FairSpec, Spec, Fair
  <2>11. FairSpec /\ []StepsAreEnabled => (client[c] = "answer" /\ Served(c) ~> Heard)
    BY <2>5, <2>6, <2>8, <2>9, <2>10, PTL
  <2> QED
    BY <2>11, PTL DEF Heard
<1> QED
  BY <1>2 DEF AnswerComes
=============================================================================
