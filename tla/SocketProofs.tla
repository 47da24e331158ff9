---------------------------- MODULE SocketProofs ----------------------------
(***************************************************************************)
(* Theorems about the servers that start a thread for each connection:     *)
(* first ChatServer, for any number of connections and descriptors, then   *)
(* Calculator, for any number of copies, any lines and ints of any size.   *)
(***************************************************************************)
EXTENDS ChatServer, Calculator, SequenceTheorems, TLAPS

\* A thread that has begun has a descriptor; only the one in send_all is not at
\* the start of the vector.
ThreadInv ==
  /\ \A c \in Conns : pc[c] \notin {"away", "gone"} => fd[c] \in Fd
  /\ \A c \in Conns : pc[c] # "send" => pos[c] = 1

\* While no descriptor was reused too early, a registered client shares its
\* number with nobody who still uses one.
Holds(c) == pc[c] \notin {"away", "delete", "gone"}
NumbersInv ==
  ~reused => \A c, d \in Conns : c # d /\ Holds(c) /\ Registered(d) => fd[c] # fd[d]

IInv ==
  TypeOK /\ MutexHeldByOwner /\ DescriptorsOwned /\ RegistryExact /\ ThreadInv /\ NumbersInv

ConnStep(c) == Accept(c) \/ AcceptNoThread(c) \/ PeerMoves(c) \/ Thread(c)

----------------------------------------------------------------------------
LEMMA InitIInv == Init => IInv
<1> SUFFICES ASSUME Init PROVE IInv
  OBVIOUS
<1> USE ChatServerAssumption DEF Init
<1>1. TypeOK
  <2>1. <<>> \in Seq(Conns) /\ 1 \in 1 .. Len(<<>>) + 1
    OBVIOUS
  <2> QED
    BY <2>1 DEF TypeOK, PC, Locked
<1>2. MutexHeldByOwner /\ ThreadInv /\ NumbersInv
  BY DEF MutexHeldByOwner, ThreadInv, NumbersInv, Locked, Registered
<1>3. DescriptorsOwned
  BY DEF DescriptorsOwned, HasSocket
<1>4. RegistryExact
  BY DEF RegistryExact, Registered
<1> QED
  BY <1>1, <1>2, <1>3, <1>4 DEF IInv

\* What is left of a sequence when one element is taken out.
LEMMA RemoveAtElements ==
  ASSUME NEW S, NEW s \in Seq(S), NEW j \in DOMAIN s
  PROVE  /\ RemoveAt(s, j) \in Seq(S)
         /\ Len(RemoveAt(s, j)) = Len(s) - 1
         /\ \A i \in 1 .. Len(s) - 1 : RemoveAt(s, j)[i] = IF i < j THEN s[i] ELSE s[i + 1]
<1> DEFINE before == SubSeq(s, 1, j - 1)
           after  == SubSeq(s, j + 1, Len(s))
<1>1. j \in 1 .. Len(s) /\ Len(s) \in Nat
  OBVIOUS
<1>2. before \in Seq(S) /\ Len(before) = j - 1 /\ \A i \in 1 .. j - 1 : before[i] = s[i]
  BY <1>1
<1>3. /\ after \in Seq(S) /\ Len(after) = Len(s) - j
      /\ \A i \in 1 .. Len(s) - j : after[i] = s[i + j]
  BY <1>1
<1>4. RemoveAt(s, j) = before \o after
  BY DEF RemoveAt
<1> HIDE DEF before, after
<1>5. before \o after \in Seq(S) /\ Len(before \o after) = Len(s) - 1
  BY <1>1, <1>2, <1>3
<1>6. ASSUME NEW i \in 1 .. Len(s) - 1
      PROVE  (before \o after)[i] = IF i < j THEN s[i] ELSE s[i + 1]
  <2>1. CASE i < j
    BY <1>1, <1>2, <1>3, <2>1
  <2>2. CASE ~(i < j)
    <3>0. /\ i \in Int /\ Len(before) \in Nat /\ Len(after) \in Nat /\ j - 1 = Len(before)
          /\ Len(before) < i /\ i <= Len(before) + Len(after)
      BY <1>1, <1>2, <1>3, <2>2
    <3>1. (before \o after)[i] = after[i - Len(before)]
      <4>1. i \in 1 .. Len(before) + Len(after) /\ ~(i <= Len(before))
        BY ONLY <3>0
      <4> QED
        BY <1>2, <1>3, <4>1, ConcatProperties
    <3>2. /\ i - Len(before) \in 1 .. Len(s) - j
          /\ (i - Len(before)) + j = i + 1
      BY ONLY <1>1, <1>6, <2>2, <3>0
    <3> QED
      BY <1>3, <2>2, <3>1, <3>2
  <2> QED
    BY <2>1, <2>2
<1> QED
  BY <1>4, <1>5, <1>6

----------------------------------------------------------------------------
\* A send changes nothing but the peer and the life of the server.
LEMMA SendKeeps ==
  ASSUME IInv, NEW f \in Fd \cup {0}, Send(f)
  PROVE  /\ peer' \in [Conns -> {"reading", "stalled", "closed", "aborted", "reset"}]
         /\ server' \in {"running", "killed"}
BY DEF Send, IInv, TypeOK

LEMMA StepType ==
  ASSUME IInv, NEW c \in Conns, ConnStep(c)
  PROVE  TypeOK' /\ ThreadInv'
<1> USE ChatServerAssumption DEF IInv, TypeOK, ThreadInv, At, Goto, Local, PC, Locked
<1>1. CASE Accept(c)
  BY <1>1 DEF Accept, Free
<1>2. CASE AcceptNoThread(c)
  BY <1>2 DEF AcceptNoThread
<1>3. CASE PeerMoves(c)
  BY <1>3 DEF PeerMoves
<1>4. CASE Locks(c)
  BY <1>4 DEF Locks, LockToPush, LockToSend, LockToList, LockToRemove, Lock
<1>5. CASE RecvName(c) \/ Recv(c) \/ RecvEnd(c)
  BY <1>5 DEF RecvName, Recv, RecvEnd
<1>6. CASE LeaveUnnamed(c) \/ Close(c) \/ Delete(c)
  BY <1>6 DEF LeaveUnnamed, Close, Delete
<1>7. CASE Push(c)
  <2>1. clients' \in Seq(Conns) /\ Len(clients') = Len(clients) + 1
    BY <1>7 DEF Push
  <2>2. \A d \in Conns : pos[d] \in 1 .. Len(clients) + 2
    OBVIOUS
  <2> QED
    BY <1>7, <2>1, <2>2 DEF Push
<1>8. CASE SendNext(c)
  <2>1. clients[pos[c]] \in Conns /\ pos[c] + 1 \in 1 .. Len(clients) + 1
    BY <1>8 DEF SendNext
  <2>2. /\ peer' \in [Conns -> {"reading", "stalled", "closed", "aborted", "reset"}]
        /\ server' \in {"running", "killed"}
    BY <1>8, <2>1, SendKeeps DEF SendNext, SocketRead
  <2> QED
    BY <1>8, <2>1, <2>2 DEF SendNext
<1>9. CASE SendEnd(c) \/ List(c)
  <2>1. CASE SendEnd(c)
    <3>1. 1 \in 1 .. Len(clients) + 1
      OBVIOUS
    <3> QED
      BY <2>1, <3>1 DEF SendEnd
  <2>2. CASE List(c)
    BY <2>2 DEF List
  <2> QED
    BY <1>9, <2>1, <2>2
<1>10. CASE Reply(c) \/ Bye(c)
  <2>1. /\ peer' \in [Conns -> {"reading", "stalled", "closed", "aborted", "reset"}]
        /\ server' \in {"running", "killed"}
    BY <1>10, SendKeeps DEF Reply, Bye
  <2> QED
    BY <1>10, <2>1 DEF Reply, Bye
<1>11. CASE RemoveClient(c)
  <2>1. clients' \in Seq(Conns)
    BY <1>11, RemoveAtElements DEF RemoveClient
  <2>2. \A d \in Conns : pos[d] = 1
    BY <1>11 DEF RemoveClient, MutexHeldByOwner
  <2>3. Len(clients') \in Nat
    BY <2>1
  <2> QED
    BY <1>11, <2>1, <2>2, <2>3 DEF RemoveClient
<1> QED
  BY <1>1, <1>2, <1>3, <1>4, <1>5, <1>6, <1>7, <1>8, <1>9, <1>10, <1>11 DEF ConnStep, Thread

----------------------------------------------------------------------------
LEMMA StepMutex ==
  ASSUME IInv, NEW c \in Conns, ConnStep(c)
  PROVE  MutexHeldByOwner'
<1> USE ChatServerAssumption DEF IInv, TypeOK, MutexHeldByOwner, At, Goto, Local, Locked
<1>1. CASE Accept(c) \/ AcceptNoThread(c) \/ PeerMoves(c)
  BY <1>1 DEF Accept, AcceptNoThread, PeerMoves
<1>2. CASE Locks(c)
  BY <1>2 DEF Locks, LockToPush, LockToSend, LockToList, LockToRemove, Lock
<1>3. CASE RecvName(c) \/ LeaveUnnamed(c) \/ Recv(c) \/ RecvEnd(c)
  BY <1>3 DEF RecvName, LeaveUnnamed, Recv, RecvEnd
<1>4. CASE SendNext(c) \/ Reply(c) \/ Bye(c) \/ Close(c) \/ Delete(c)
  BY <1>4 DEF SendNext, Reply, Bye, Close, Delete
<1>5. CASE Push(c) \/ SendEnd(c) \/ List(c) \/ RemoveClient(c)
  <2>1. pc[c] \in Locked /\ mutex' = Nobody
    BY <1>5 DEF Push, SendEnd, List, RemoveClient
  <2>2. \E to \in {"recv", "reply", "delete"} : pc' = [pc EXCEPT ![c] = to]
    BY <1>5 DEF Push, SendEnd, List, RemoveClient
  <2> QED
    BY <2>1, <2>2
<1> QED
  BY <1>1, <1>2, <1>3, <1>4, <1>5 DEF ConnStep, Thread

LEMMA StepDescriptors ==
  ASSUME IInv, NEW c \in Conns, ConnStep(c)
  PROVE  DescriptorsOwned'
<1> USE ChatServerAssumption DEF IInv, TypeOK, DescriptorsOwned, At, Goto, Local, HasSocket
<1>1. CASE Accept(c)
  BY <1>1 DEF Accept, Free
<1>2. CASE AcceptNoThread(c) \/ PeerMoves(c)
  BY <1>2 DEF AcceptNoThread, PeerMoves
<1>3. CASE Locks(c)
  BY <1>3 DEF Locks, LockToPush, LockToSend, LockToList, LockToRemove, Lock
<1>4. CASE RecvName(c) \/ Recv(c) \/ RecvEnd(c) \/ Delete(c)
  BY <1>4 DEF RecvName, Recv, RecvEnd, Delete
<1>5. CASE SendNext(c) \/ Reply(c) \/ Bye(c)
  BY <1>5 DEF SendNext, Reply, Bye
<1>6. CASE Push(c) \/ SendEnd(c) \/ List(c) \/ RemoveClient(c)
  BY <1>6 DEF Push, SendEnd, List, RemoveClient
<1>7. CASE LeaveUnnamed(c) \/ Close(c)
  <2>1. fd[c] \in Fd /\ open' = [open EXCEPT ![fd[c]] = Nobody] /\ fd' = fd
    BY <1>7 DEF LeaveUnnamed, Close, ThreadInv
  <2>2. \A d \in Conns : d # c => pc'[d] = pc[d]
    BY <1>7 DEF LeaveUnnamed, Close
  <2>3. pc[c] \in {"name", "close"} /\ pc'[c] \in {"gone", "remove_lock"}
    BY <1>7 DEF LeaveUnnamed, Close
  <2>4. open[fd[c]] = c /\ \A d \in Conns : d # c => open[fd[c]] # d
    BY <2>1, <2>3
  <2>5. ~HasSocket(c)' /\ \A d \in Conns : d # c => (HasSocket(d)' <=> HasSocket(d))
    BY <2>2, <2>3
  <2> QED
    BY <2>1, <2>4, <2>5
<1> QED
  BY <1>1, <1>2, <1>3, <1>4, <1>5, <1>6, <1>7 DEF ConnStep, Thread

----------------------------------------------------------------------------
\* A step that neither changes the vector nor who is registered.
LEMMA RegistryKept ==
  ASSUME IInv, UNCHANGED clients, reused' = FALSE => reused = FALSE,
         \A d \in Conns : Registered(d)' <=> Registered(d)
  PROVE  RegistryExact'
BY DEF IInv, TypeOK, RegistryExact

LEMMA StepRegistry ==
  ASSUME IInv, NEW c \in Conns, ConnStep(c)
  PROVE  RegistryExact'
<1> USE ChatServerAssumption DEF At, Goto, Local
<1> pc \in [Conns -> PC] /\ clients \in Seq(Conns) /\ reused \in BOOLEAN
  BY DEF IInv, TypeOK
<1>1. CASE Accept(c) \/ AcceptNoThread(c) \/ PeerMoves(c)
  BY <1>1, RegistryKept DEF Accept, AcceptNoThread, PeerMoves, Registered
<1>2. CASE Locks(c)
  BY <1>2, RegistryKept DEF Locks, LockToPush, LockToSend, LockToList, LockToRemove, Lock, Registered
<1>3. CASE RecvName(c) \/ LeaveUnnamed(c) \/ Recv(c) \/ RecvEnd(c)
  BY <1>3, RegistryKept DEF RecvName, LeaveUnnamed, Recv, RecvEnd, Registered
<1>4. CASE SendNext(c) \/ Reply(c) \/ Bye(c) \/ Close(c)
  BY <1>4, RegistryKept DEF SendNext, Reply, Bye, Close, Registered
<1>5. CASE SendEnd(c) \/ List(c) \/ Delete(c)
  BY <1>5, RegistryKept DEF SendEnd, List, Delete, Registered
<1>6. CASE Push(c)
  <2> SUFFICES ASSUME ~reused PROVE RegistryExact'
    BY <1>6 DEF Push, RegistryExact
  <2>1. /\ Len(clients') = Len(clients) + 1
        /\ clients'[Len(clients) + 1] = c
        /\ \A j \in DOMAIN clients : clients'[j] = clients[j]
    BY <1>6 DEF Push
  <2>2. \A j \in DOMAIN clients : clients[j] # c
    BY <1>6 DEF Push, IInv, RegistryExact, Registered
  <2>3. /\ Registered(c)'
        /\ \A d \in Conns \ {c} : Registered(d)' <=> Registered(d)
    BY <1>6 DEF Push, Registered
  <2>4. DOMAIN clients' = DOMAIN clients \cup {Len(clients) + 1} /\ Len(clients) + 1 \notin DOMAIN clients
    BY <1>6, <2>1 DEF Push
  <2> QED
    BY <2>1, <2>2, <2>3, <2>4 DEF IInv, RegistryExact
<1>7. CASE RemoveClient(c)
  <2> SUFFICES ASSUME ~reused PROVE RegistryExact'
    BY <1>7 DEF RemoveClient, RegistryExact
  <2>1. PICK j \in DOMAIN clients : clients[j] = c
    BY <1>7 DEF RemoveClient, IInv, RegistryExact, Registered
  <2>2. \A m \in DOMAIN clients : SocketRead(clients[m]) = {fd[clients[m]]}
    BY DEF SocketRead, Deleted, IInv, RegistryExact, Registered
  <2>3. \A m \in DOMAIN clients : fd[clients[m]] = fd[c] => m = j
    <3> SUFFICES ASSUME NEW m \in DOMAIN clients, fd[clients[m]] = fd[c] PROVE m = j
      OBVIOUS
    <3>1. clients[m] \in Conns /\ Registered(clients[m]) /\ Holds(c)
      BY <1>7 DEF RemoveClient, IInv, RegistryExact, Holds
    <3>2. clients[m] = c
      BY <3>1 DEF IInv, NumbersInv
    <3> QED
      BY <2>1, <3>2 DEF IInv, RegistryExact
  <2>4. clients' = RemoveAt(clients, j)
    <3>1. PICK socket \in [DOMAIN clients -> Fd \cup {0}] :
            LET Match == {m \in DOMAIN clients : socket[m] = fd[c]} IN
            /\ \A m \in DOMAIN clients : socket[m] \in SocketRead(clients[m])
            /\ IF Match = {} THEN UNCHANGED clients
               ELSE \E m \in Match : /\ \A i \in Match : m <= i
                                     /\ clients' = RemoveAt(clients, m)
      BY <1>7 DEF RemoveClient
    <3>2. \A m \in DOMAIN clients : socket[m] = fd[clients[m]]
      BY <2>2, <3>1
    <3>3. {m \in DOMAIN clients : socket[m] = fd[c]} = {j}
      BY <2>1, <2>3, <3>2
    <3> QED
      BY <3>1, <3>3
  <2>5. /\ DOMAIN clients' = 1 .. Len(clients) - 1
        /\ \A i \in 1 .. Len(clients) - 1 :
             clients'[i] = IF i < j THEN clients[i] ELSE clients[i + 1]
    <3>1. /\ clients' \in Seq(Conns) /\ Len(clients') = Len(clients) - 1
          /\ \A i \in 1 .. Len(clients) - 1 :
               clients'[i] = IF i < j THEN clients[i] ELSE clients[i + 1]
      BY <2>4, RemoveAtElements
    <3> QED
      BY <3>1
  <2>6. \A m \in DOMAIN clients : clients[m] = c => m = j
    BY <2>3
  <2>7. /\ ~Registered(c)'
        /\ \A d \in Conns \ {c} : Registered(d)' <=> Registered(d)
    BY <1>7 DEF RemoveClient, Registered
  <2>8. \A d \in Conns : (\E i \in DOMAIN clients' : clients'[i] = d)
                          <=> \E m \in DOMAIN clients : m # j /\ clients[m] = d
    <3> SUFFICES ASSUME NEW d \in Conns
                 PROVE  (\E i \in DOMAIN clients' : clients'[i] = d)
                          <=> \E m \in DOMAIN clients : m # j /\ clients[m] = d
      OBVIOUS
    <3>1. ASSUME NEW i \in DOMAIN clients', clients'[i] = d
          PROVE  \E m \in DOMAIN clients : m # j /\ clients[m] = d
      <4>1. CASE i < j
        BY <3>1, <2>5, <4>1
      <4>2. CASE ~(i < j)
        <5>1. i + 1 \in DOMAIN clients /\ i + 1 # j /\ clients[i + 1] = d
          BY <3>1, <2>5, <4>2
        <5> QED
          BY <5>1
      <4> QED
        BY <4>1, <4>2
    <3>2. ASSUME NEW m \in DOMAIN clients, m # j, clients[m] = d
          PROVE  \E i \in DOMAIN clients' : clients'[i] = d
      <4>1. CASE m < j
        BY <3>2, <2>5, <4>1
      <4>2. CASE ~(m < j)
        <5>1. m - 1 \in DOMAIN clients' /\ clients'[m - 1] = d
          BY <3>2, <2>5, <4>2
        <5> QED
          BY <5>1
      <4> QED
        BY <4>1, <4>2
    <3> QED
      BY <3>1, <3>2
  <2>9. \A d \in Conns : Registered(d)' <=> \E i \in DOMAIN clients' : clients'[i] = d
    BY <2>1, <2>6, <2>7, <2>8 DEF IInv, RegistryExact
  <2>10. \A i, m \in DOMAIN clients' : clients'[i] = clients'[m] => i = m
    BY <2>5 DEF IInv, RegistryExact
  <2> QED
    BY <2>9, <2>10 DEF RegistryExact
<1> QED
  BY <1>1, <1>2, <1>3, <1>4, <1>5, <1>6, <1>7 DEF ConnStep, Thread

----------------------------------------------------------------------------
\* A step after which nobody holds or has registered a number who did not.
LEMMA NumbersKept ==
  ASSUME IInv, UNCHANGED fd, reused' = FALSE => reused = FALSE,
         \A d \in Conns : (Holds(d)' => Holds(d)) /\ (Registered(d)' => Registered(d))
  PROVE  NumbersInv'
BY DEF IInv, TypeOK, NumbersInv

LEMMA StepNumbers ==
  ASSUME IInv, NEW c \in Conns, ConnStep(c)
  PROVE  NumbersInv'
<1> USE ChatServerAssumption DEF At, Goto, Local
<1> pc \in [Conns -> PC] /\ fd \in [Conns -> Fd \cup {0}] /\ reused \in BOOLEAN
  BY DEF IInv, TypeOK
<1>1. CASE Accept(c)
  <2> SUFFICES ASSUME ~reused' PROVE NumbersInv'
    BY DEF NumbersInv
  <2>1. ~reused /\ \A j \in DOMAIN clients : fd[clients[j]] # fd'[c]
    BY <1>1 DEF Accept
  <2>2. \A d \in Conns : Registered(d) => fd[d] # fd'[c]
    BY <2>1 DEF IInv, RegistryExact
  <2>3. /\ ~Registered(c)'
        /\ \A d \in Conns \ {c} : /\ fd'[d] = fd[d] /\ (Registered(d)' <=> Registered(d))
                                  /\ (Holds(d)' <=> Holds(d))
    BY <1>1 DEF Accept, Registered, Holds
  <2> QED
    BY <2>1, <2>2, <2>3 DEF IInv, NumbersInv
<1>2. CASE AcceptNoThread(c) \/ PeerMoves(c)
  BY <1>2, NumbersKept DEF AcceptNoThread, PeerMoves, Registered, Holds
<1>3. CASE Locks(c)
  BY <1>3, NumbersKept
     DEF Locks, LockToPush, LockToSend, LockToList, LockToRemove, Lock, Registered, Holds
<1>4. CASE RecvName(c) \/ LeaveUnnamed(c) \/ Recv(c) \/ RecvEnd(c)
  BY <1>4, NumbersKept DEF RecvName, LeaveUnnamed, Recv, RecvEnd, Registered, Holds
<1>5. CASE SendNext(c) \/ Reply(c) \/ Bye(c) \/ Close(c)
  BY <1>5, NumbersKept DEF SendNext, Reply, Bye, Close, Registered, Holds
<1>6. CASE SendEnd(c) \/ List(c) \/ Delete(c) \/ RemoveClient(c)
  BY <1>6, NumbersKept DEF SendEnd, List, Delete, RemoveClient, Registered, Holds
<1>7. CASE Push(c)
  <2> SUFFICES ASSUME ~reused PROVE NumbersInv'
    BY <1>7 DEF Push, NumbersInv
  <2>1. /\ fd' = fd /\ \A d \in Conns : Holds(d)' <=> Holds(d)
        /\ \A d \in Conns \ {c} : Registered(d)' <=> Registered(d)
        /\ HasSocket(c) /\ Holds(c)
    BY <1>7 DEF Push, Registered, Holds, HasSocket
  <2>2. \A d \in Conns \ {c} : Holds(d) => fd[d] # fd[c]
    <3> SUFFICES ASSUME NEW d \in Conns \ {c}, Holds(d) PROVE fd[d] # fd[c]
      OBVIOUS
    <3>1. CASE Registered(d)
      BY <2>1, <3>1 DEF IInv, NumbersInv
    <3>2. CASE HasSocket(d)
      <4>1. fd[c] \in Fd /\ open[fd[c]] = c
        BY <1>7, <2>1 DEF Push, IInv, ThreadInv, DescriptorsOwned
      <4> QED
        BY <3>2, <4>1 DEF IInv, DescriptorsOwned
    <3> QED
      BY <3>1, <3>2 DEF Holds, Registered, HasSocket
  <2> QED
    BY <2>1, <2>2 DEF IInv, NumbersInv
<1> QED
  BY <1>1, <1>2, <1>3, <1>4, <1>5, <1>6, <1>7 DEF ConnStep, Thread

----------------------------------------------------------------------------
LEMMA StepIInv == IInv /\ [Next]_vars => IInv'
<1> SUFFICES ASSUME IInv, [Next]_vars PROVE IInv'
  OBVIOUS
<1>1. CASE Next
  <2>1. PICK c \in Conns : ConnStep(c)
    BY <1>1 DEF Next, ConnStep
  <2> QED
    BY <2>1, StepType, StepMutex, StepDescriptors, StepRegistry, StepNumbers DEF IInv
<1>2. CASE UNCHANGED vars
  BY <1>2 DEF vars, IInv, TypeOK, MutexHeldByOwner, DescriptorsOwned, HasSocket, RegistryExact,
              Registered, ThreadInv, NumbersInv, Holds
<1> QED
  BY <1>1, <1>2

LEMMA Invariance == Spec => []IInv
BY InitIInv, StepIInv, PTL DEF Spec

\* The type invariant.
THEOREM TypeCorrect == Spec => []TypeOK
BY Invariance, PTL DEF IInv

\* One thread at most is between lock and unlock, and it holds clients_mutex.
THEOREM MutualExclusion == Spec => []MutexHeldByOwner
BY Invariance, PTL DEF IInv

\* No thread closes, reads or answers on the descriptor of another connection.
THEOREM OwnDescriptors == Spec => []DescriptorsOwned
BY Invariance, PTL DEF IInv

\* clients is the set of registered clients, without a repetition and without a
\* deleted one, until accept returns a number that clients still holds.
THEOREM Registry == Spec => []RegistryExact
BY Invariance, PTL DEF IInv

\* Nothing moves in the chat while a send waits for a stalled peer.
THEOREM StalledPeerFreezes == Spec => StalledPeerFreezesChat
<1>1. IInv /\ [Next]_vars
        => [(\E c \in Conns : Blocked(c)) => UNCHANGED <<clients, mutex>>]_vars
  <2> SUFFICES ASSUME IInv, Next, NEW c \in Conns, Blocked(c)
               PROVE  UNCHANGED <<clients, mutex>>
    OBVIOUS
  <2>1. PICK d \in Conns : ConnStep(d)
    BY DEF Next, ConnStep
  <2>2. mutex = c /\ pos[c] <= Len(clients) /\ pc[c] = "send"
    BY DEF Blocked, At, IInv, MutexHeldByOwner, Locked
  <2>3. d # c => pc[d] \notin Locked
    BY <2>2 DEF IInv, MutexHeldByOwner
  <2>4. mutex # Nobody
    BY <2>2, ChatServerAssumption
  <2>5. CASE Accept(d) \/ AcceptNoThread(d) \/ PeerMoves(d)
    BY <2>5 DEF Accept, AcceptNoThread, PeerMoves, Local
  <2>6. CASE Locks(d)
    BY <2>4, <2>6 DEF Locks, LockToPush, LockToSend, LockToList, LockToRemove, Lock
  <2>7. CASE RecvName(d) \/ LeaveUnnamed(d) \/ Recv(d) \/ RecvEnd(d) \/ SendNext(d)
    BY <2>7 DEF RecvName, LeaveUnnamed, Recv, RecvEnd, SendNext, Local
  <2>8. CASE Reply(d) \/ Bye(d) \/ Close(d) \/ Delete(d)
    BY <2>8 DEF Reply, Bye, Close, Delete, Local
  <2>9. CASE Push(d) \/ SendEnd(d) \/ List(d) \/ RemoveClient(d)
    BY <2>2, <2>3, <2>9, ChatServerAssumption
       DEF Push, SendEnd, List, RemoveClient, At, Locked, IInv, TypeOK
  <2> QED
    BY <2>1, <2>5, <2>6, <2>7, <2>8, <2>9 DEF ConnStep, Thread
<1> QED
  BY <1>1, Invariance, PTL DEF Spec, StalledPeerFreezesChat

----------------------------------------------------------------------------
\* The safety half of DepartedLeave.  Which threads have a step to take, with the
\* guards that the code has.
ThreadCan(c) ==
  /\ server = "running"
  /\ \/ pc[c] \in {"name", "push", "recv", "list", "remove", "close", "delete"}
     \/ pc[c] \in {"push_lock", "send_lock", "list_lock", "remove_lock"} /\ mutex = Nobody
     \/ pc[c] = "send" /\ ~Blocked(c)
     \/ pc[c] \in {"reply", "bye"} /\ peer[c] # "stalled"

NobodyWaitsInVain ==
  server = "running" =>
    \A c \in Conns : Connected(c) =>
      \/ ThreadCan(c)
      \/ mutex \in Conns \ {c} /\ ThreadCan(mutex)
      \/ \E d \in Conns : peer[d] = "stalled"

\* The steps that the thread with the mutex has before it, at most, until it gives the
\* mutex back.
ToUnlock(c) == IF pc[c] = "send" THEN Len(clients) + 2 - pos[c] ELSE 1

\* Each step of the thread with the mutex gives it back or brings it nearer to that,
\* and no step of another thread takes it further from it.
MutexNears == \A c \in Conns :
  mutex = c => /\ ToUnlock(c) \in Nat \ {0}
               /\ IF Thread(c) THEN mutex' = Nobody \/ (mutex' = c /\ ToUnlock(c)' < ToUnlock(c))
                               ELSE mutex' = c /\ ToUnlock(c)' = ToUnlock(c)

\* Who was ever registered has had a descriptor.
EntriesInv == \A j \in DOMAIN clients : fd[clients[j]] \in Fd

LEMMA StepEntries ==
  ASSUME IInv, EntriesInv, NEW c \in Conns, ConnStep(c)
  PROVE  EntriesInv'
<1> USE DEF IInv, TypeOK, EntriesInv
<1>1. \A d \in Conns : fd[d] \in Fd => fd'[d] \in Fd
  BY DEF ConnStep, Thread, Accept, AcceptNoThread, PeerMoves, Locks, LockToPush, LockToSend,
         LockToList, LockToRemove, Lock, RecvName, LeaveUnnamed, Recv, RecvEnd, SendNext, Reply,
         Bye, Close, Delete, Push, SendEnd, List, RemoveClient, Free, Local
<1>2. CASE Push(c)
  <2>1. fd[c] \in Fd /\ clients' = Append(clients, c) /\ fd' = fd
    BY <1>2 DEF Push, At, ThreadInv
  <2> QED
    BY <2>1
<1>3. CASE RemoveClient(c)
  <2>1. clients' = clients \/ \E j \in DOMAIN clients : clients' = RemoveAt(clients, j)
    BY <1>3 DEF RemoveClient
  <2>2. CASE clients' = clients
    BY <1>1, <2>2
  <2>3. ASSUME NEW j \in DOMAIN clients, clients' = RemoveAt(clients, j) PROVE EntriesInv'
    <3>1. /\ clients' \in Seq(Conns) /\ Len(clients') = Len(clients) - 1
          /\ \A i \in 1 .. Len(clients) - 1 :
               clients'[i] = IF i < j THEN clients[i] ELSE clients[i + 1]
      BY <2>3, RemoveAtElements
    <3>2. ASSUME NEW i \in DOMAIN clients' PROVE fd'[clients'[i]] \in Fd
      <4>1. /\ DOMAIN clients = 1 .. Len(clients) /\ Len(clients) \in Nat
            /\ DOMAIN clients' = 1 .. Len(clients')
        BY <3>1
      <4>2. i \in 1 .. Len(clients')
        BY <3>2, <4>1
      <4>3. i \in 1 .. Len(clients) - 1
        BY <3>1, <4>2
      <4>4. i \in 1 .. Len(clients) - 1 /\ i \in DOMAIN clients /\ i + 1 \in DOMAIN clients
        BY <4>1, <4>3
      <4>5. clients'[i] = clients[i] \/ clients'[i] = clients[i + 1]
        BY <3>1, <4>4
      <4> QED
        BY <1>1, <4>4, <4>5
    <3> QED
      BY <3>2
  <2> QED
    BY <2>1, <2>2, <2>3
<1>4. CASE ~Push(c) /\ ~RemoveClient(c)
  <2>1. clients' = clients
    BY <1>4 DEF ConnStep, Thread, Accept, AcceptNoThread, PeerMoves, Locks, LockToPush,
           LockToSend, LockToList, LockToRemove, Lock, RecvName, LeaveUnnamed, Recv, RecvEnd,
           SendNext, Reply, Bye, Close, Delete, SendEnd, List, Local
  <2> QED
    BY <1>1, <2>1
<1> QED
  BY <1>2, <1>3, <1>4

LEMMA HolderCan ==
  ASSUME IInv, EntriesInv, server = "running", NEW c \in Conns, pc[c] \in Locked
  PROVE  ThreadCan(c) \/ \E d \in Conns : peer[d] = "stalled"
<1>1. CASE Blocked(c)
  <2>1. pos[c] \in DOMAIN clients
    BY <1>1 DEF Blocked, IInv, TypeOK
  <2>2. fd[clients[pos[c]]] \in Fd
    BY <2>1 DEF EntriesInv
  <2> QED
    BY <1>1, <2>2, ChatServerAssumption DEF Blocked, IInv, TypeOK
<1> QED
  BY <1>1 DEF ThreadCan, Locked

LEMMA NobodyStuck == IInv /\ EntriesInv => NobodyWaitsInVain
<1> SUFFICES ASSUME IInv, EntriesInv, server = "running", NEW c \in Conns, Connected(c),
                    ~ThreadCan(c), \A d \in Conns : peer[d] # "stalled"
             PROVE  mutex \in Conns \ {c} /\ ThreadCan(mutex)
  BY DEF NobodyWaitsInVain
<1>1. pc[c] \notin Locked
  BY HolderCan
<1>2. pc[c] \in {"push_lock", "send_lock", "list_lock", "remove_lock"} /\ mutex # Nobody
  BY <1>1 DEF ThreadCan, Connected, IInv, TypeOK, PC, Locked
<1>3. mutex \in Conns /\ pc[mutex] \in Locked
  BY <1>2 DEF IInv, TypeOK, MutexHeldByOwner
<1> QED
  BY <1>1, <1>3, HolderCan

LEMMA StepNears ==
  ASSUME IInv, NEW c \in Conns, ConnStep(c)
  PROVE  MutexNears
<1> USE ChatServerAssumption DEF IInv, TypeOK
<1> SUFFICES ASSUME NEW h \in Conns, mutex = h
             PROVE  /\ ToUnlock(h) \in Nat \ {0}
                    /\ IF Thread(h)
                       THEN mutex' = Nobody \/ (mutex' = h /\ ToUnlock(h)' < ToUnlock(h))
                       ELSE mutex' = h /\ ToUnlock(h)' = ToUnlock(h)
  BY DEF MutexNears
<1>1. pc[h] \in Locked /\ \A d \in Conns \ {h} : pc[d] \notin Locked
  BY DEF MutexHeldByOwner
<1>2. pos[h] \in 1 .. Len(clients) + 1 /\ Len(clients) \in Nat
  OBVIOUS
<1>3. ToUnlock(h) \in Nat \ {0}
  BY <1>2 DEF ToUnlock
<1>4. CASE Thread(h)
  <2>1. Push(h) \/ SendNext(h) \/ SendEnd(h) \/ List(h) \/ RemoveClient(h)
    BY <1>1, <1>4 DEF Thread, Locks, LockToPush, LockToSend, LockToList, LockToRemove, Lock,
       RecvName, LeaveUnnamed, Recv, RecvEnd, Reply, Bye, Close, Delete, At, Locked
  <2>2. CASE SendNext(h)
    <3>1. /\ pc[h] = "send" /\ pos'[h] = pos[h] + 1
          /\ UNCHANGED <<pc, clients, mutex>>
      BY <2>2 DEF SendNext, At
    <3>2. ToUnlock(h) = Len(clients) + 2 - pos[h]
      BY <3>1 DEF ToUnlock
    <3>3. ToUnlock(h)' = Len(clients) + 2 - (pos[h] + 1)
      BY <3>1 DEF ToUnlock
    <3> QED
      BY <1>2, <1>4, <3>1, <3>2, <3>3, <1>3
  <2>3. CASE Push(h) \/ SendEnd(h) \/ List(h) \/ RemoveClient(h)
    <3>1. mutex' = Nobody
      BY <2>3 DEF Push, SendEnd, List, RemoveClient
    <3> QED
      BY <1>3, <1>4, <3>1
  <2> QED
    BY <2>1, <2>2, <2>3
<1>5. CASE ~Thread(h)
  <2>1. UNCHANGED <<clients, mutex>> /\ pc'[h] = pc[h] /\ pos'[h] = pos[h]
    <3>1. CASE c = h
      <4>1. PeerMoves(h)
        BY <1>1, <1>5, <3>1 DEF ConnStep, Accept, AcceptNoThread, At, Locked
      <4> QED
        BY <4>1 DEF PeerMoves, Local
    <3>2. CASE c # h
      <4>1. CASE Accept(c) \/ AcceptNoThread(c) \/ PeerMoves(c)
        BY <3>2, <4>1 DEF Accept, AcceptNoThread, PeerMoves, Local, Goto
      <4>2. CASE Thread(c)
        <5>1. pc[c] \notin Locked /\ mutex # Nobody
          BY <1>1, <3>2
        <5>2. RecvName(c) \/ LeaveUnnamed(c) \/ Recv(c) \/ RecvEnd(c) \/ Reply(c) \/ Bye(c)
              \/ Close(c) \/ Delete(c)
          BY <4>2, <5>1 DEF Thread, Locks, LockToPush, LockToSend, LockToList, LockToRemove,
             Lock, Push, SendNext, SendEnd, List, RemoveClient, At, Locked
        <5> QED
          BY <3>2, <5>2 DEF RecvName, LeaveUnnamed, Recv, RecvEnd, Reply, Bye, Close, Delete,
             Local, Goto
      <4> QED
        BY <4>1, <4>2 DEF ConnStep
    <3> QED
      BY <3>1, <3>2
  <2>2. ToUnlock(h)' = ToUnlock(h)
    BY <2>1 DEF ToUnlock
  <2> QED
    BY <1>3, <1>5, <2>1, <2>2
<1> QED
  BY <1>4, <1>5

\* clients_mutex comes back from every thread that keeps running, and no thread waits
\* for anything but a message, the mutex or a stalled peer: nobody waits in vain
\* unless a peer stalls or a signal ends the server (server.cpp:23-28, 36-43, 70-75).
THEOREM MutexComesBack == Spec => []NobodyWaitsInVain /\ [][MutexNears]_vars
<1>1. Init => EntriesInv
  BY DEF Init, EntriesInv
<1>2. IInv /\ EntriesInv /\ [Next]_vars => EntriesInv'
  <2>1. CASE UNCHANGED vars
    BY <2>1 DEF vars, EntriesInv
  <2> QED
    BY <2>1, StepEntries DEF Next, ConnStep
<1>3. IInv /\ [Next]_vars => [MutexNears]_vars
  BY StepNears DEF Next, ConnStep
<1> QED
  BY <1>1, <1>2, <1>3, NobodyStuck, Invariance, PTL DEF Spec

----------------------------------------------------------------------------
\* Calculator.

\* What is under way for the client of copy p, at most one of three: its line on
\* the way to the server, the answer to that line in its handler, or the answer on
\* its way back.
Conversation(p) ==
  /\ client[p] = "answer" => buf[p] \in Line
  /\ toServer[p] # Nothing => /\ client[p] = "answer" /\ toServer[p] = buf[p]
                              /\ handler[p] # "send" /\ toClient[p] = Nothing
  /\ handler[p] = "send" => /\ client[p] = "answer" /\ Result(info[p]) = Answer[buf[p]]
                            /\ toClient[p] = Nothing
  /\ toClient[p] # Nothing => client[p] = "answer" /\ toClient[p] = Answer[buf[p]]

\* The copy that has the port runs, and a client connects once.
ConnectionInv ==
  /\ port # NoCopy => Runs(port)
  /\ \A p \in Copy : client[p] = "connect" => host[p] = NoCopy

ConversationInv == \A p \in Copy : client[p] # "returned" => Conversation(p)

CalcInv == CalcTypeOK /\ ConnectionInv /\ ConversationInv

----------------------------------------------------------------------------
\* Arithmetic of ints.

LEMMA Remainder ==
  ASSUME NEW x \in Int, NEW m \in Nat \ {0}
  PROVE  x % m \in 0 .. m - 1 /\ x = m * (x \div m) + (x % m) /\ x \div m \in Int
OBVIOUS

LEMMA SmallMultiple ==
  ASSUME NEW m \in Nat \ {0}, NEW k \in Int, m * k < m, m * k > -m
  PROVE  k = 0
OBVIOUS

\* A multiple leaves no remainder.
LEMMA Multiple ==
  ASSUME NEW m \in Nat \ {0}, NEW k \in Int
  PROVE  (m * k) % m = 0
<1> DEFINE y == m * k
           d == y \div m
           r == y % m
<1>1. y \in Int
  OBVIOUS
<1> HIDE DEF y
<1>2. d \in Int /\ r \in 0 .. m - 1 /\ y = m * d + r
  BY <1>1, Remainder
<1> HIDE DEF d, r
<1> DEFINE e == k - d
<1>3. e \in Int /\ m * e = r
  BY <1>2 DEF y
<1> HIDE DEF e
<1>4. e = 0
  BY <1>2, <1>3, SmallMultiple
<1>5. r = 0
  BY <1>3, <1>4
<1> QED
  BY <1>5 DEF r, y

\* Of the ints, Wrap(s) and no other one is s modulo their number.
LEMMA WrapIsTheInt ==
  ASSUME NEW s \in Int
  PROVE  /\ Wrap(s) \in Int32
         /\ \A k \in Int32 : (k - s) % (2 * HalfRange) = 0 <=> k = Wrap(s)
<1> DEFINE h == HalfRange
           m == 2 * h
           t == s + h
           d == t \div m
           r == t % m
           w == r - h
<1>1. h \in Nat \ {0} /\ m \in Nat \ {0} /\ t \in Int
  BY CalculatorAssumption DEF HalfRange
<1>2. d \in Int /\ r \in 0 .. m - 1 /\ t = m * d + r
  <2> HIDE DEF t, m
  <2> QED
    BY <1>1, Remainder
<1>3. Wrap(s) = w
  BY DEF Wrap
<1> HIDE DEF d, r
<1>4. w \in Int /\ w >= -h /\ w < h /\ w - s = m * (-d)
  BY <1>1, <1>2
<1>5. w \in Int32
  BY <1>1, <1>4 DEF Int32
<1>6. (w - s) % m = 0
  <2>1. -d \in Int
    BY <1>2
  <2> HIDE DEF m, w
  <2> QED
    BY <1>1, <1>4, <2>1, Multiple
<1>7. ASSUME NEW k \in Int32, (k - s) % m = 0
      PROVE  k = w
  <2> DEFINE y == k - s
             e == y \div m
  <2>1. k \in Int /\ k >= -h /\ k < h /\ y \in Int
    BY <1>1 DEF Int32
  <2>2. e \in Int /\ y = m * e
    <3> HIDE DEF y, m
    <3>1. y % m = 0
      BY <1>7 DEF y
    <3>2. e \in Int /\ y = m * e + (y % m) /\ m \in Int
      BY <1>1, <2>1, Remainder
    <3> QED
      BY <3>1, <3>2
  <2> HIDE DEF e
  <2> DEFINE f == e + d
  <2>3. f \in Int /\ k - w = m * f
    BY <1>1, <1>2, <1>4, <2>1, <2>2
  <2> HIDE DEF f
  <2>4. f = 0
    <3>1. m * f < m /\ m * f > -m
      BY <1>1, <1>4, <2>1, <2>3
    <3> HIDE DEF m
    <3> QED
      BY <1>1, <2>3, <3>1, SmallMultiple
  <2> HIDE DEF w
  <2> QED
    BY <1>1, <1>4, <2>1, <2>3, <2>4
<1> HIDE DEF w
<1> QED
  BY <1>3, <1>5, <1>6, <1>7

\* The absolute value.
LEMMA MagnitudeIs ==
  ASSUME NEW k \in Int
  PROVE  /\ Magnitude(k) \in Nat
         /\ k >= 0 => Magnitude(k) = k
         /\ k < 0 => Magnitude(k) = -k
BY DEF Magnitude

\* Unless it is no int, Quotient is the quotient that truncates.
LEMMA QuotientIs ==
  ASSUME NEW x \in Int32, NEW y \in Int32, y # 0,
         ~(x = -HalfRange /\ y = -1)
  PROVE  Quotient(x, y) \in Int32 /\ IsQuotient(Quotient(x, y), x, y)
<1> DEFINE h == HalfRange
           a == Magnitude(x)
           b == Magnitude(y)
           d == a \div b
           r == a % b
           q == Quotient(x, y)
           rest == x - q * y
<1>1. h \in Nat \ {0} /\ x \in Int /\ y \in Int /\ x >= -h /\ x < h /\ y >= -h /\ y < h
  BY CalculatorAssumption DEF HalfRange, Int32
<1>2. a \in Nat /\ b \in Nat \ {0} /\ a <= h
  BY <1>1, MagnitudeIs
<1>3. d \in Int /\ r \in Nat /\ r < b /\ a = b * d + r
  <2> HIDE DEF a, b
  <2> QED
    BY <1>2, Remainder
<1>4. q = IF (x < 0) = (y < 0) THEN d ELSE -d
  BY DEF Quotient
<1>a. (x >= 0 => a = x) /\ (x < 0 => a = -x) /\ (y >= 0 => b = y) /\ (y < 0 => b = -y)
  BY <1>1, MagnitudeIs
<1> HIDE DEF a, b, d, r, q, h
<1>5. d >= 0 /\ d <= a /\ (b # 1 => 2 * d <= a)
  <2>1. d >= 0
    <3> SUFFICES ASSUME d <= -1 PROVE FALSE
      BY <1>3
    <3>1. b * d <= b * (-1)
      BY <1>2, <1>3
    <3> QED
      BY <1>2, <1>3, <3>1
  <2>2. b * d >= 1 * d
    BY <1>2, <1>3, <2>1
  <2>3. b # 1 => b * d >= 2 * d
    <3> SUFFICES ASSUME b >= 2 PROVE b * d >= 2 * d
      BY <1>2
    <3> QED
      BY <1>2, <1>3, <2>1
  <2> QED
    BY <1>2, <1>3, <2>1, <2>2, <2>3
<1>6. q \in Int32
  <2>1. q \in Int /\ q >= -h /\ q < h
    <3>1. CASE b = 1
      <4>1. d = a
        BY <1>2, <1>3, <3>1
      <4> QED
        BY <1>1, <1>2, <1>4, <1>a, <3>1, <4>1 DEF h
    <3>2. CASE b # 1
      BY <1>1, <1>2, <1>3, <1>4, <1>5, <3>2
    <3> QED
      BY <3>1, <3>2
  <2> QED
    BY <1>1, <2>1 DEF Int32, h
<1>7. rest = IF x >= 0 THEN r ELSE -r
  <2>1. q * y = IF x >= 0 THEN b * d ELSE -(b * d)
    BY <1>1, <1>2, <1>3, <1>4, <1>a
  <2> QED
    BY <1>1, <1>2, <1>3, <1>a, <2>1
<1> HIDE DEF rest
<1>8. Magnitude(rest) = r /\ rest * x >= 0
  <2>1. Magnitude(rest) = r
    BY <1>3, <1>7, MagnitudeIs
  <2>2. rest * x = r * a
    BY <1>1, <1>2, <1>3, <1>7, <1>a
  <2>3. r * a >= 0
    BY <1>2, <1>3
  <2> QED
    BY <2>1, <2>2, <2>3
<1> QED
  BY <1>3, <1>6, <1>8 DEF IsQuotient, rest, q, b

\* At most one number is the quotient.
LEMMA OneQuotient ==
  ASSUME NEW x \in Int, NEW y \in Int, y # 0, NEW k \in Int, NEW q \in Int,
         IsQuotient(k, x, y), IsQuotient(q, x, y)
  PROVE  k = q
<1> DEFINE b == Magnitude(y)
           rk == x - k * y
           rq == x - q * y
           e == IF y < 0 THEN k - q ELSE q - k
<1>1. b \in Nat \ {0} /\ (y >= 0 => b = y) /\ (y < 0 => b = -y)
  BY MagnitudeIs
<1>2. rk \in Int /\ rq \in Int /\ rk - rq = b * e /\ e \in Int
  <2>1. rk - rq = (q - k) * y /\ q - k \in Int
    OBVIOUS
  <2> HIDE DEF rk, rq
  <2> QED
    BY <1>1, <2>1 DEF rk, rq
<1>3. /\ Magnitude(rk) < b /\ rk * x >= 0
      /\ Magnitude(rq) < b /\ rq * x >= 0
  BY DEF IsQuotient
<1>b. -b < rk /\ rk < b /\ -b < rq /\ rq < b
  <2> HIDE DEF b, rk, rq
  <2> QED
    BY <1>1, <1>2, <1>3, MagnitudeIs
<1>4. CASE x = 0
  <2>1. rk = b * (IF y < 0 THEN k ELSE -k) /\ rq = b * (IF y < 0 THEN q ELSE -q)
    BY <1>1, <1>4
  <2> HIDE DEF rk, rq, b
  <2>2. k = 0 /\ q = 0
    <3>1. (IF y < 0 THEN k ELSE -k) = 0
      BY <1>1, <1>b, <2>1, SmallMultiple
    <3>2. (IF y < 0 THEN q ELSE -q) = 0
      BY <1>1, <1>b, <2>1, SmallMultiple
    <3> QED
      BY <3>1, <3>2
  <2> QED
    BY <2>2
<1>5. CASE x # 0
  <2> HIDE DEF rk, rq, b, e
  <2>1. (rk >= 0 /\ rq >= 0) \/ (rk <= 0 /\ rq <= 0)
    <3>1. CASE x > 0
      <4>1. rk >= 0 /\ rq >= 0
        BY <1>2, <1>3, <3>1
      <4> QED
        BY <4>1
    <3>2. CASE x < 0
      <4>1. rk <= 0 /\ rq <= 0
        BY <1>2, <1>3, <3>2
      <4> QED
        BY <4>1
    <3> QED
      BY <1>5, <3>1, <3>2
  <2>2. b * e < b /\ b * e > -b
    BY <1>1, <1>2, <1>b, <2>1
  <2>3. e = 0
    BY <1>1, <1>2, <2>2, SmallMultiple
  <2> QED
    BY <2>3 DEF e
<1> QED
  BY <1>4, <1>5

Info == [operand : 0 .. 3 \cup {Nothing}, error : 0 .. 2, x : Int32 \cup {Nothing},
         y : Int32 \cup {Nothing}, result : Int32 \cup {Nothing}]

\* Where one int is the result, it is the answer.
LEMMA TheAnswer ==
  ASSUME NEW line \in Line, line.fields = 3, line.op # "other",
         ~(line.op = "DIV" /\ line.y = 0),
         NEW w \in Int32, \A k \in Int32 : IsResult(k, line) <=> k = w
  PROVE  Expected(line) = [error |-> 0, number |-> w]
<1>1. Expected(line) = [error |-> 0, number |-> IF \E k \in Int32 : IsResult(k, line)
                                         THEN CHOOSE k \in Int32 : IsResult(k, line)
                                         ELSE Nothing]
  BY DEF Expected
<1>2. (CHOOSE k \in Int32 : IsResult(k, line)) = w
  OBVIOUS
<1> QED
  BY <1>1, <1>2

\* parser reads a line, whatever the record held before.
LEMMA ParserIs ==
  ASSUME NEW line \in Line, NEW i \in Info
  PROVE  LET j == Parser(i, line) IN
         /\ j \in Info
         /\ line.op = "other" \/ line.fields < 3 => j.error = 2
         /\ line.op # "other" /\ line.fields = 3 =>
              j.error = 0 /\ j.x = line.x /\ j.y = line.y /\ j.operand = Operand[line.op]
<1>1. line \in [op : {"ADD", "SUB", "DIV", "MUL", "other"}, fields : 0 .. 3,
                x : Int32, y : Int32]
  BY CalculatorAssumption
<1>2. DOMAIN Operand = {"ADD", "SUB", "DIV", "MUL"}
  BY DEF Operand
<1>3. \A op \in DOMAIN Operand : Operand[op] \in 0 .. 3
  BY DEF Operand
<1> DEFINE j == Parser(i, line)
           converted == [i EXCEPT !.x = IF line.fields >= 2 THEN line.x ELSE @,
                                  !.y = IF line.fields = 3 THEN line.y ELSE @,
                                  !.error = 0]
<1>4. /\ converted \in Info
      /\ converted.error = 0
      /\ line.fields = 3 => converted.x = line.x /\ converted.y = line.y
  <2> DEFINE cx == IF line.fields >= 2 THEN line.x ELSE i.x
             cy == IF line.fields = 3 THEN line.y ELSE i.y
             i1 == [i EXCEPT !.x = cx]
             i2 == [i1 EXCEPT !.y = cy]
  <2>1. line.x \in Int32 /\ line.y \in Int32 /\ line.fields \in 0 .. 3
    BY <1>1
  <2>2. cx \in Int32 \cup {Nothing} /\ cy \in Int32 \cup {Nothing}
    BY <2>1 DEF Info
  <2>3. converted = [i2 EXCEPT !.error = 0]
    OBVIOUS
  <2>4. line.fields = 3 => cx = line.x /\ cy = line.y
    BY <2>1
  <2> HIDE DEF cx, cy, converted
  <2>5. i1 \in Info /\ i1.x = cx
    BY <2>2 DEF Info
  <2> HIDE DEF i1
  <2>6. i2 \in Info /\ i2.x = cx /\ i2.y = cy
    BY <2>2, <2>5 DEF Info
  <2> HIDE DEF i2
  <2>7. /\ converted \in Info
        /\ converted.error = 0 /\ converted.x = cx /\ converted.y = cy
    BY <2>3, <2>6 DEF Info
  <2> QED
    BY <2>4, <2>7
<1>5. j = IF line.fields = 3 /\ line.op \in DOMAIN Operand
          THEN [converted EXCEPT !.operand = Operand[line.op]]
          ELSE [converted EXCEPT !.error = 2]
  BY DEF Parser
<1> HIDE DEF converted, j
<1>6. CASE line.op = "other" \/ line.fields < 3
  <2>1. j = [converted EXCEPT !.error = 2]
    BY <1>1, <1>2, <1>5, <1>6
  <2> QED
    BY <1>1, <1>4, <1>6, <2>1 DEF Info, j
<1>7. CASE line.op # "other" /\ line.fields = 3
  <2>1. line.op \in DOMAIN Operand /\ j = [converted EXCEPT !.operand = Operand[line.op]]
    BY <1>1, <1>2, <1>5, <1>7
  <2> QED
    BY <1>3, <1>4, <1>7, <2>1 DEF Info, j
<1> QED
  BY <1>1, <1>6, <1>7 DEF j

\* What parser and calculate make of a line is the right answer to it, whatever
\* lines the record was used for before, unless the division traps (main.cpp:35-79).
THEOREM RightAnswer ==
  ASSUME NEW line \in Line, NEW i \in Info,
         ~Traps(Parser(i, line))
  PROVE  /\ Calculate(Parser(i, line)) \in Info
         /\ Result(Calculate(Parser(i, line))) = Expected(line)
<1> DEFINE j == Parser(i, line)
           c == Calculate(j)
<1>1. line \in [op : {"ADD", "SUB", "DIV", "MUL", "other"}, fields : 0 .. 3,
                x : Int32, y : Int32]
  BY CalculatorAssumption
<1>2. line.x \in Int /\ line.y \in Int
  BY <1>1, CalculatorAssumption DEF Int32, HalfRange
<1>3. /\ j \in Info
      /\ line.op = "other" \/ line.fields < 3 => j.error = 2
      /\ line.op # "other" /\ line.fields = 3 =>
           j.error = 0 /\ j.x = line.x /\ j.y = line.y /\ j.operand = Operand[line.op]
  BY ParserIs
<1> HIDE DEF j
<1>4. CASE line.op = "other" \/ line.fields < 3
  <2>1. c = j /\ j.error = 2
    BY <1>3, <1>4 DEF Calculate
  <2>2. Expected(line) = [error |-> 2, number |-> Nothing]
    BY <1>4 DEF Expected
  <2> QED
    BY <1>3, <2>1, <2>2 DEF Result, j
<1>5. ASSUME line.op # "other", line.fields = 3,
             NEW w \in Int32, c = [j EXCEPT !.result = w],
             ~(line.op = "DIV" /\ line.y = 0),
             \A k \in Int32 : IsResult(k, line) <=> k = w
      PROVE  c \in Info /\ Result(c) = Expected(line)
  <2>1. c \in Info /\ c.error = 0 /\ c.result = w
    BY <1>3, <1>5 DEF Info
  <2>2. Expected(line) = [error |-> 0, number |-> w]
    BY <1>5, TheAnswer
  <2> QED
    BY <2>1, <2>2 DEF Result
<1>6. CASE line.op # "other" /\ line.fields = 3 /\ line.op = "ADD"
  <2> DEFINE w == Wrap(line.x + line.y)
  <2>1. w \in Int32
        /\ \A k \in Int32 : (k - (line.x + line.y)) % (2 * HalfRange) = 0 <=> k = w
    BY <1>2, WrapIsTheInt
  <2>2. \A k \in Int32 : k - (line.x + line.y) = k - line.x - line.y
    BY <1>2, CalculatorAssumption DEF Int32, HalfRange
  <2>3. \A k \in Int32 : IsResult(k, line) <=> k = w
    BY <1>6, <2>1, <2>2 DEF IsResult
  <2>4. c = [j EXCEPT !.result = w]
    BY <1>3, <1>6 DEF Calculate, Operand
  <2> HIDE DEF w, c
  <2> QED
    BY <1>5, <1>6, <2>1, <2>3, <2>4 DEF j, c
<1>7. CASE line.op # "other" /\ line.fields = 3 /\ line.op = "SUB"
  <2> DEFINE w == Wrap(line.x - line.y)
  <2>1. w \in Int32
        /\ \A k \in Int32 : (k - (line.x - line.y)) % (2 * HalfRange) = 0 <=> k = w
    BY <1>2, WrapIsTheInt
  <2>2. \A k \in Int32 : k - (line.x - line.y) = k - line.x + line.y
    BY <1>2, CalculatorAssumption DEF Int32, HalfRange
  <2>3. \A k \in Int32 : IsResult(k, line) <=> k = w
    BY <1>7, <2>1, <2>2 DEF IsResult
  <2>4. c = [j EXCEPT !.result = w]
    BY <1>3, <1>7 DEF Calculate, Operand
  <2> HIDE DEF w, c
  <2> QED
    BY <1>5, <1>7, <2>1, <2>3, <2>4 DEF j, c
<1>8. CASE line.op # "other" /\ line.fields = 3 /\ line.op = "MUL"
  <2> DEFINE w == Wrap(line.x * line.y)
  <2>1. w \in Int32
        /\ \A k \in Int32 : (k - line.x * line.y) % (2 * HalfRange) = 0 <=> k = w
    <3>1. line.x * line.y \in Int
      BY <1>2
    <3> QED
      BY <3>1, WrapIsTheInt
  <2>3. \A k \in Int32 : IsResult(k, line) <=> k = w
    BY <1>8, <2>1 DEF IsResult
  <2>4. c = [j EXCEPT !.result = w]
    BY <1>3, <1>8 DEF Calculate, Operand
  <2> HIDE DEF w, c
  <2> QED
    BY <1>5, <1>8, <2>1, <2>3, <2>4 DEF j, c
<1>9. CASE line.op # "other" /\ line.fields = 3 /\ line.op = "DIV" /\ line.y = 0
  <2>1. c = [j EXCEPT !.error = 1]
    BY <1>3, <1>9 DEF Calculate, Operand
  <2>2. c \in Info /\ c.error = 1
    BY <1>3, <2>1 DEF Info
  <2>3. Expected(line) = [error |-> 1, number |-> Nothing]
    BY <1>9 DEF Expected
  <2> QED
    BY <2>2, <2>3 DEF Result, j
<1>10. CASE line.op # "other" /\ line.fields = 3 /\ line.op = "DIV" /\ line.y # 0
  <2> DEFINE w == Quotient(line.x, line.y)
  <2>1. ~(line.x = -HalfRange /\ line.y = -1)
    BY <1>3, <1>10 DEF Traps, Operand, j
  <2>2. w \in Int32 /\ IsQuotient(w, line.x, line.y)
    BY <1>1, <1>10, <2>1, QuotientIs
  <2>3. \A k \in Int32 : IsQuotient(k, line.x, line.y) => k = w
    <3>1. \A k \in Int32 : k \in Int
      BY CalculatorAssumption DEF Int32, HalfRange
    <3> HIDE DEF w
    <3> QED
      BY <1>2, <1>10, <2>2, <3>1, OneQuotient
  <2>4. \A k \in Int32 : IsResult(k, line) <=> k = w
    BY <1>10, <2>2, <2>3 DEF IsResult
  <2>5. c = [j EXCEPT !.result = w]
    BY <1>3, <1>10 DEF Calculate, Operand
  <2> HIDE DEF w, c
  <2> QED
    BY <1>5, <1>10, <2>2, <2>4, <2>5 DEF j, c
<1>11. line.op \in {"ADD", "SUB", "DIV", "MUL", "other"} /\ (line.fields = 3 \/ line.fields < 3)
  BY <1>1
<1> QED
  BY <1>4, <1>6, <1>7, <1>8, <1>9, <1>10, <1>11 DEF j

----------------------------------------------------------------------------
\* The invariant.

LEMMA CalculatorInit == CalcInit => CalcInv
<1> SUFFICES ASSUME CalcInit PROVE CalcInv
  OBVIOUS
<1>1. CalcTypeOK
  <2>1. queue \in Seq(Copy)
    BY DEF CalcInit
  <2>2. NewInfo \in [operand : 0 .. 3 \cup {Nothing}, error : 0 .. 2,
                     x : Int32 \cup {Nothing}, y : Int32 \cup {Nothing},
                     result : Int32 \cup {Nothing}]
    BY DEF NewInfo
  <2> QED
    BY <2>1, <2>2 DEF CalcInit, CalcTypeOK
<1>2. ConnectionInv /\ ConversationInv
  BY DEF CalcInit, ConnectionInv, ConversationInv, Conversation
<1> QED
  BY <1>1, <1>2 DEF CalcInv

\* The end of a copy takes what was under way with it.
LEMMA EndStep ==
  ASSUME CalcInv, NEW h \in Copy, NEW how \in {"exited", "killed"},
         End(h, how)
  PROVE  CalcInv'
<1> USE DEF CalcInv, clientVars, handlerVars, serverVars, streamVars
<1>1. CalcTypeOK'
  <2>1. queue' \in Seq(Copy)
    BY DEF End, CalcTypeOK
  <2> QED
    BY <2>1 DEF End, CalcTypeOK
<1>2. ConnectionInv'
  <2>1. port' # NoCopy => port' = port /\ port # h
    BY DEF End
  <2>2. port # NoCopy => port \in Copy /\ Runs(port)
    BY DEF CalcTypeOK, ConnectionInv
  <2>3. port' # NoCopy => Runs(port)'
    BY <2>1, <2>2 DEF End, Runs, CalcTypeOK
  <2>4. \A p \in Copy : client'[p] = "connect" => host'[p] = NoCopy
    BY DEF End, ConnectionInv, CalcTypeOK
  <2> QED
    BY <2>3, <2>4 DEF ConnectionInv
<1>3. ConversationInv'
  <2> SUFFICES ASSUME NEW p \in Copy, client'[p] # "returned" PROVE Conversation(p)'
    BY DEF ConversationInv
  <2>1. p # h /\ client'[p] = client[p] /\ buf'[p] = buf[p] /\ toClient'[p] = toClient[p]
    BY DEF End, CalcTypeOK
  <2>2. (toServer'[p] = toServer[p] \/ toServer'[p] = Nothing) /\ handler' = handler /\ info' = info
    BY DEF End, CalcTypeOK
  <2>3. Conversation(p)
    BY <2>1 DEF ConversationInv
  <2> QED
    BY <2>1, <2>2, <2>3 DEF Conversation
<1> QED
  BY <1>1, <1>2, <1>3

\* A step that leaves client p where it is in its conversation.
LEMMA OneConversation ==
  ASSUME ConversationInv, NEW p \in Copy,
         \A q \in Copy \ {p} :
           /\ client'[q] = client[q] /\ buf'[q] = buf[q] /\ handler'[q] = handler[q]
           /\ info'[q] = info[q] /\ toServer'[q] = toServer[q] /\ toClient'[q] = toClient[q],
         client'[p] # "returned" => Conversation(p)'
  PROVE  ConversationInv'
BY DEF ConversationInv, Conversation

LEMMA CalculatorStep ==
  ASSUME CalcInv, [CalcNext]_(calcVars)
  PROVE  CalcInv'
<1> USE DEF CalcInv, clientVars, handlerVars, serverVars, streamVars
<1>1. CASE UNCHANGED calcVars
  BY <1>1 DEF calcVars, CalcTypeOK, ConnectionInv, ConversationInv, Conversation, Runs
<1>2. ASSUME NEW p \in Copy, Server(p)
      PROVE  CalcInv'
  <2>1. CalcTypeOK'
    <3>1. CASE AcceptClient(p)
      <4>1. Head(queue) \in Copy /\ Tail(queue) \in Seq(Copy)
        BY <3>1 DEF AcceptClient, CalcTypeOK
      <4> QED
        BY <3>1, <4>1 DEF AcceptClient, ServerTo, CalcTypeOK
    <3>2. CASE Bind(p)
      BY <3>2 DEF Bind, ServerTo, CalcTypeOK
    <3>3. CASE BindFails(p) \/ Listen(p)
      BY <3>3 DEF BindFails, Listen, ServerTo, CalcTypeOK
    <3> QED
      BY <1>2, <3>1, <3>2, <3>3 DEF Server
  <2>2. ConnectionInv'
    BY <1>2 DEF Server, AcceptClient, Bind, BindFails, Listen, ServerTo,
                ConnectionInv, Runs
  <2>3. UNCHANGED <<client, buf, info, toServer, toClient>>
    BY <1>2 DEF Server, AcceptClient, Bind, BindFails, Listen
  <2>4. \A q \in Copy : handler'[q] = handler[q] \/ handler'[q] = "recv"
    BY <1>2 DEF Server, AcceptClient, Bind, BindFails, Listen, CalcTypeOK
  <2>5. ConversationInv'
    BY <2>3, <2>4 DEF ConversationInv, Conversation
  <2> QED
    BY <2>1, <2>2, <2>5
<1>3. ASSUME NEW p \in Copy, Handle(p)
      PROVE  CalcInv'
  <2> DEFINE i == Parser(info[p], toServer[p])
  <2>1. toServer[p] \in Line /\ info[p] \in Info
    BY <1>3 DEF Handle, CalcTypeOK, Info
  <2>2. Calculate(i) \in Info /\ Result(Calculate(i)) = Expected(toServer[p])
    BY <1>3, <2>1, RightAnswer DEF Handle
  <2>3. /\ handler[p] = "recv" /\ handler' = [handler EXCEPT ![p] = "send"]
        /\ info' = [info EXCEPT ![p] = Calculate(i)]
        /\ toServer' = [toServer EXCEPT ![p] = Nothing]
        /\ UNCHANGED <<process, port, acceptor, queue, client, buf, host, printed, toClient>>
    BY <1>3 DEF Handle, HandlerTo
  <2> HIDE DEF i
  <2>4. CalcTypeOK'
    BY <2>2, <2>3 DEF CalcTypeOK, Info
  <2>5. ConnectionInv'
    BY <2>3 DEF ConnectionInv, Runs
  <2>6. ConversationInv'
    <3>1. ASSUME client'[p] # "returned" PROVE Conversation(p)'
      <4>1. Conversation(p) /\ toServer[p] # Nothing
        BY <1>3, <2>3, <3>1 DEF ConversationInv, Handle
      <4>2. info'[p] = Calculate(i) /\ toServer'[p] = Nothing
        BY <2>3 DEF CalcTypeOK
      <4>3. client[p] = "answer" /\ toServer[p] = buf[p] /\ toClient[p] = Nothing
        BY <4>1 DEF Conversation
      <4>4. Answer[buf[p]] = Expected(buf[p])
        BY <2>1, <4>3 DEF Answer
      <4>5. Result(info[p])' = Answer'[buf'[p]]
        BY <2>2, <2>3, <4>2, <4>3, <4>4 DEF Answer, Result
      <4> QED
        BY <2>3, <4>1, <4>2, <4>3, <4>5 DEF Conversation
    <3>2. \A q \in Copy \ {p} :
            /\ client'[q] = client[q] /\ buf'[q] = buf[q] /\ handler'[q] = handler[q]
            /\ info'[q] = info[q] /\ toServer'[q] = toServer[q] /\ toClient'[q] = toClient[q]
      BY <2>3 DEF CalcTypeOK
    <3> QED
      BY <3>1, <3>2, OneConversation
  <2> QED
    BY <2>4, <2>5, <2>6
<1>4. ASSUME NEW p \in Copy, SendResult(p)
      PROVE  CalcInv'
  <2>1. /\ handler[p] = "send" /\ handler' = [handler EXCEPT ![p] = "recv"]
        /\ toClient' = IF client[p] = "returned" THEN toClient
                       ELSE [toClient EXCEPT ![p] = Result(info[p])]
        /\ UNCHANGED <<process, port, acceptor, queue, info, client, buf, host, printed, toServer>>
    BY <1>4 DEF SendResult, HandlerTo
  <2>2. Result(info[p]) \in Answers
    BY DEF Result, Answers, CalcTypeOK
  <2>3. CalcTypeOK'
    BY <2>1, <2>2 DEF CalcTypeOK
  <2>4. ConnectionInv'
    BY <2>1 DEF ConnectionInv, Runs
  <2>5. ConversationInv'
    <3>1. client'[p] # "returned" => Conversation(p)'
      BY <2>1 DEF ConversationInv, Conversation, CalcTypeOK
    <3>2. \A q \in Copy \ {p} :
            /\ client'[q] = client[q] /\ buf'[q] = buf[q] /\ handler'[q] = handler[q]
            /\ info'[q] = info[q] /\ toServer'[q] = toServer[q] /\ toClient'[q] = toClient[q]
      BY <2>1 DEF CalcTypeOK
    <3> QED
      BY <3>1, <3>2, OneConversation
  <2> QED
    BY <2>3, <2>4, <2>5
<1>5. ASSUME NEW p \in Copy, HandlerEnd(p)
      PROVE  CalcInv'
  <2>1. /\ client[p] = "returned" /\ handler' = [handler EXCEPT ![p] = "closed"]
        /\ info' = [info EXCEPT ![p] = NewInfo]
        /\ UNCHANGED <<process, port, acceptor, queue, client, buf, host, printed,
                       toServer, toClient>>
    BY <1>5 DEF HandlerEnd, HandlerTo
  <2>2. NewInfo \in Info
    BY DEF NewInfo, Info
  <2>3. CalcTypeOK'
    BY <2>1, <2>2 DEF CalcTypeOK, Info
  <2>4. ConnectionInv'
    BY <2>1 DEF ConnectionInv, Runs
  <2>5. ConversationInv'
    <3>1. \A q \in Copy \ {p} :
            /\ client'[q] = client[q] /\ buf'[q] = buf[q] /\ handler'[q] = handler[q]
            /\ info'[q] = info[q] /\ toServer'[q] = toServer[q] /\ toClient'[q] = toClient[q]
      BY <2>1 DEF CalcTypeOK
    <3> QED
      BY <2>1, <3>1, OneConversation
  <2> QED
    BY <2>3, <2>4, <2>5
<1>6. ASSUME NEW p \in Copy, Connect(p) \/ Refused(p) \/ Quit(p) \/ Answered(p)
                             \/ \E line \in Line : SendLine(p, line)
      PROVE  CalcInv'
  <2> USE DEF Connect, Refused, Quit, Answered, Receive,
              Disconnected, SendLine, ClientTo
  <2>1. CalcTypeOK'
    <3>1. CASE Connect(p)
      <4>1. Append(queue, p) \in Seq(Copy) /\ port \in Copy
        BY <3>1 DEF CalcTypeOK, Listening
      <4> QED
        BY <3>1, <4>1 DEF CalcTypeOK
    <3>2. CASE Refused(p) \/ Quit(p)
      BY <3>2 DEF CalcTypeOK
    <3>3. CASE Receive(p)
      BY <3>3 DEF CalcTypeOK
    <3>4. CASE Disconnected(p)
      BY <3>4 DEF CalcTypeOK
    <3>5. CASE \E line \in Line : SendLine(p, line)
      BY <3>5 DEF CalcTypeOK
    <3> QED
      BY <1>6, <3>1, <3>2, <3>3, <3>4, <3>5 DEF Answered
  <2>2. ConnectionInv'
    <3>1. process' = process /\ port' = port
      BY <1>6
    <3>2. \A q \in Copy : client'[q] = "connect" =>
                            client[q] = "connect" /\ host'[q] = host[q]
      BY <1>6 DEF CalcTypeOK
    <3> QED
      BY <3>1, <3>2 DEF ConnectionInv, Runs
  <2>3. ConversationInv'
    <3>1. ASSUME client'[p] # "returned" PROVE Conversation(p)'
      <4>1. Conversation(p)
        BY <1>6 DEF ConversationInv
      <4>2. CASE Connect(p)
        BY <4>1, <4>2 DEF Conversation, CalcTypeOK
      <4>3. CASE Receive(p)
        BY <4>1, <4>3 DEF Conversation, CalcTypeOK
      <4>4. CASE \E line \in Line : SendLine(p, line)
        <5>1. PICK line \in Line : SendLine(p, line)
          BY <4>4
        <5>2. toServer[p] = Nothing /\ handler[p] # "send" /\ toClient[p] = Nothing
          BY <4>1, <5>1 DEF Conversation
        <5>3. client'[p] = "answer" /\ buf'[p] = line /\ toServer'[p] \in {line, Nothing}
              /\ handler' = handler /\ info' = info /\ toClient' = toClient
          BY <5>1, <5>2 DEF CalcTypeOK
        <5> QED
          BY <5>2, <5>3 DEF Conversation
      <4>5. ~(Refused(p) \/ Quit(p) \/ Disconnected(p))
        BY <3>1 DEF CalcTypeOK
      <4> QED
        BY <1>6, <4>2, <4>3, <4>4, <4>5 DEF Answered
    <3>2. \A q \in Copy \ {p} :
            /\ client'[q] = client[q] /\ buf'[q] = buf[q] /\ handler'[q] = handler[q]
            /\ info'[q] = info[q] /\ toServer'[q] = toServer[q] /\ toClient'[q] = toClient[q]
      BY <1>6 DEF CalcTypeOK
    <3> QED
      BY <3>1, <3>2, OneConversation
  <2> QED
    BY <2>1, <2>2, <2>3
<1>7. ASSUME NEW p \in Copy, Trap(p)
      PROVE  CalcInv'
  <2>1. host[p] \in Copy /\ End(host[p], "killed")
    BY <1>7 DEF Trap, HostRuns, CalcTypeOK
  <2> QED
    BY <2>1, EndStep
<1>8. ASSUME NEW p \in Copy, Join(p) \/ Die(p)
      PROVE  CalcInv'
  <2>1. End(p, "exited") \/ End(p, "killed")
    BY <1>8 DEF Join, Die
  <2> QED
    BY <2>1, EndStep
<1> QED
  BY <1>1, <1>2, <1>3, <1>4, <1>5, <1>6, <1>7, <1>8 DEF CalcNext, Handler

----------------------------------------------------------------------------
\* The refinement: what Service sees of the state.

Asked == [p \in Copy |-> IF client[p] = "answer" THEN buf[p] ELSE Nothing]
Gone == {p \in Copy : client[p] = "returned"}
Lost == {p \in Copy : host[p] # NoCopy /\ ~HostRuns(p)}

\* What the end of a copy is to the clients of all.
LEMMA EndIsPart ==
  ASSUME CalcInv, NEW h \in Copy, Runs(h),
         NEW how \in {"exited", "killed"}, End(h, how)
  PROVE  \E leaving, losing \in SUBSET Copy : Promise!Part(leaving, losing)
<1>1. /\ process' = [process EXCEPT ![h] = how] /\ client' = [client EXCEPT ![h] = "returned"]
      /\ buf' = [buf EXCEPT ![h] = Nothing] /\ host' = host /\ printed' = printed
  BY DEF End
<1>2. Gone' = Gone \cup {h}
  BY <1>1 DEF Gone, CalcInv, CalcTypeOK
<1>3. Lost' = Lost \cup {q \in Copy : host[q] = h}
  <2>1. h # NoCopy
    BY CalculatorAssumption
  <2>2. ASSUME NEW q \in Copy
        PROVE  q \in Lost' <=> q \in Lost \/ host[q] = h
    BY <1>1, <2>1 DEF Lost, HostRuns, Runs, CalcInv, CalcTypeOK
  <2> QED
    BY <2>2 DEF Lost
<1>4. Asked' = [c \in Copy |-> IF c \in {h} THEN Nothing ELSE Asked[c]]
  BY <1>1 DEF Asked, CalcInv, CalcTypeOK
\* Bound to a constant: Part may only be asked of the sets as they are now.
<1>5. PICK losing \in SUBSET Copy : losing = {q \in Copy : host[q] = h}
  OBVIOUS
<1>6. Promise!Part({h}, losing)
  BY <1>1, <1>2, <1>3, <1>4, <1>5 DEF Promise!Part, Asked, Gone, Lost
<1>7. {h} \in SUBSET Copy
  OBVIOUS
<1> QED
  BY <1>5, <1>6, <1>7

\* Steps that the promise does not see.
LEMMA StutterIsService ==
  ASSUME UNCHANGED <<process, client, buf, host, printed>>
  PROVE  UNCHANGED Promise!vars
BY DEF Promise!vars, HostRuns, Runs

LEMMA InitIsService ==
  CalcInit => Promise!Init
BY DEF CalcInit, Promise!Init

\* Each step of the copies keeps the promise: a line is asked, an answer is heard,
\* clients leave and servers are lost, or nothing happens that a client sees.
LEMMA StepIsService ==
  ASSUME CalcInv, [CalcNext]_(calcVars)
  PROVE  [Promise!Next]_(Promise!vars)
<1> USE DEF CalcInv
<1>1. CASE UNCHANGED calcVars
  BY <1>1, StutterIsService DEF calcVars, clientVars
<1>2. ASSUME NEW p \in Copy, Server(p) \/ Handle(p) \/ SendResult(p) \/ HandlerEnd(p)
      PROVE  UNCHANGED Promise!vars
  <2>1. UNCHANGED <<process, client, buf, host, printed>>
    BY <1>2 DEF Server, Bind, BindFails, Listen, AcceptClient, Handle,
                SendResult, HandlerEnd, clientVars
  <2> QED
    BY <2>1, StutterIsService
<1>3. ASSUME NEW p \in Copy, Connect(p)
      PROVE  UNCHANGED Promise!vars
  <2>1. /\ port # NoCopy /\ Runs(port) /\ host[p] = NoCopy /\ client[p] = "connect"
        /\ client' = [client EXCEPT ![p] = "prompt"] /\ host' = [host EXCEPT ![p] = port]
        /\ UNCHANGED <<process, buf, printed>>
    BY <1>3 DEF Connect, ClientTo, Listening, ConnectionInv
  <2>2. Asked' = Asked /\ Gone' = Gone
    BY <2>1 DEF Asked, Gone, CalcTypeOK
  <2>3. Lost' = Lost
    <3>1. ASSUME NEW q \in Copy PROVE q \in Lost' <=> q \in Lost
      BY <2>1 DEF Lost, HostRuns, Runs, CalcTypeOK
    <3> QED
      BY <3>1 DEF Lost
  <2> QED
    BY <2>1, <2>2, <2>3 DEF Promise!vars, Asked, Gone, Lost
<1>4. ASSUME NEW p \in Copy, Refused(p) \/ Quit(p) \/ Disconnected(p)
      PROVE  Promise!Part({p}, {})
  <2>1. /\ client' = [client EXCEPT ![p] = "returned"]
        /\ buf' = buf \/ buf' = [buf EXCEPT ![p] = Nothing]
        /\ UNCHANGED <<process, host, printed>>
    BY <1>4 DEF Refused, Quit, Disconnected, ClientTo, clientVars
  <2>2. Gone' = Gone \cup {p} /\ Lost' = Lost \cup {}
    BY <2>1 DEF Gone, Lost, HostRuns, Runs, CalcTypeOK
  <2>3. Asked' = [c \in Copy |-> IF c \in {p} THEN Nothing ELSE Asked[c]]
    BY <2>1 DEF Asked, CalcTypeOK
  <2> QED
    BY <2>1, <2>2, <2>3 DEF Promise!Part, Asked, Gone, Lost
<1>5. ASSUME NEW p \in Copy, NEW line \in Line, SendLine(p, line)
      PROVE  Promise!Ask(p, line)
  <2>1. /\ client[p] = "prompt" /\ client' = [client EXCEPT ![p] = "answer"]
        /\ buf' = [buf EXCEPT ![p] = line]
        /\ UNCHANGED <<process, host, printed>>
    BY <1>5 DEF SendLine, ClientTo
  <2>2. p \notin Gone /\ Asked[p] = Nothing /\ Gone' = Gone /\ Lost' = Lost
    BY <2>1 DEF Gone, Asked, Lost, HostRuns, Runs, CalcTypeOK
  <2>3. Asked' = [Asked EXCEPT ![p] = line]
    BY <2>1 DEF Asked, CalcTypeOK
  <2> QED
    BY <2>1, <2>2, <2>3 DEF Promise!Ask, Asked, Gone, Lost
<1>6. ASSUME NEW p \in Copy, Receive(p)
      PROVE  Promise!Hear(p)
  <2>1. /\ client[p] = "answer" /\ client' = [client EXCEPT ![p] = "prompt"]
        /\ toClient[p] # Nothing /\ printed' = [printed EXCEPT ![p] = toClient[p]]
        /\ buf' = [buf EXCEPT ![p] = Nothing]
        /\ UNCHANGED <<process, host>>
    BY <1>6 DEF Receive, ClientTo
  <2>2. buf[p] \in Line /\ buf[p] # Nothing /\ toClient[p] = Answer[buf[p]]
    BY <2>1, CalculatorAssumption DEF ConversationInv, Conversation
  <2>3. Asked[p] = buf[p] /\ Gone' = Gone /\ Lost' = Lost
    BY <2>1 DEF Gone, Asked, Lost, HostRuns, Runs, CalcTypeOK
  <2>4. Asked' = [Asked EXCEPT ![p] = Nothing]
    BY <2>1 DEF Asked, CalcTypeOK
  <2>5. printed' = [printed EXCEPT ![p] = Answer[Asked[p]]]
    BY <2>1, <2>2, <2>3
  <2> QED
    BY <2>2, <2>3, <2>4, <2>5 DEF Promise!Hear, Asked, Gone, Lost
<1>7. ASSUME NEW p \in Copy, Trap(p)
      PROVE  \E leaving, losing \in SUBSET Copy : Promise!Part(leaving, losing)
  <2>1. host[p] \in Copy /\ Runs(host[p]) /\ End(host[p], "killed")
    BY <1>7 DEF Trap, HostRuns, CalcTypeOK
  <2> QED
    BY <2>1, EndIsPart
<1>8. ASSUME NEW p \in Copy, Join(p) \/ Die(p)
      PROVE  \E leaving, losing \in SUBSET Copy : Promise!Part(leaving, losing)
  <2>1. Runs(p) /\ (End(p, "exited") \/ End(p, "killed"))
    BY <1>8 DEF Join, Die
  <2> QED
    BY <2>1, EndIsPart
<1>9. \A p \in Copy : Promise!Part({p}, {}) =>
        \E leaving, losing \in SUBSET Copy : Promise!Part(leaving, losing)
  OBVIOUS
<1>10. CASE CalcNext
  <2>1. PICK p \in Copy :
          \/ Server(p) \/ Handler(p) \/ Answered(p)
          \/ Connect(p) \/ Refused(p) \/ Quit(p)
          \/ \E line \in Line : SendLine(p, line)
          \/ Join(p) \/ Die(p)
    BY <1>10 DEF CalcNext
  <2>2. CASE \/ Server(p) \/ Handle(p) \/ SendResult(p)
             \/ HandlerEnd(p) \/ Connect(p)
    BY <1>2, <1>3, <2>2
  <2>3. CASE Refused(p) \/ Quit(p) \/ Disconnected(p)
             \/ Trap(p) \/ Join(p) \/ Die(p)
    BY <1>4, <1>7, <1>8, <1>9, <2>3 DEF Promise!Next
  <2>4. CASE (\E line \in Line : SendLine(p, line)) \/ Receive(p)
    BY <1>5, <1>6, <2>4 DEF Promise!Next
  <2> QED
    BY <2>1, <2>2, <2>3, <2>4 DEF Handler, Answered
<1> QED
  BY <1>1, <1>10

LEMMA CalculatorInvariant == CalcSpec => []CalcInv
<1>1. CalcInit => CalcInv
  BY CalculatorInit
<1>2. CalcInv /\ [CalcNext]_(calcVars) => CalcInv'
  BY CalculatorStep
<1> QED
  BY <1>1, <1>2, PTL DEF CalcSpec

\* The values that the variables of Calculator can have (main.cpp:14-33, 145-191).
THEOREM CalculatorTypes == CalcSpec => []CalcTypeOK
BY CalculatorInvariant, PTL DEF CalcInv

\* Each client hears the answer to the line it has sent, and misses it only if the
\* copy it is connected to has ended (main.cpp:35-101, 169-188).
THEOREM AnswersArePromised == CalcSpec => RefinesService
<1>1. CalcInit => Promise!Init
  BY InitIsService
<1>2. CalcInv /\ [CalcNext]_(calcVars) => [Promise!Next]_(Promise!vars)
  BY StepIsService
<1> QED
  BY <1>1, <1>2, CalculatorInvariant, PTL DEF CalcSpec, RefinesService, Promise!Spec

----------------------------------------------------------------------------
\* A copy whose client is done, on its way to its end: bind, listen, join.
Done(p)      == client[p] = "returned" /\ Runs(p)
Binding(p)   == Done(p) /\ acceptor[p] = "bind"
Opening(p)   == Done(p) /\ acceptor[p] = "listen"
Joining(p)   == Done(p) /\ acceptor[p] = "returned"
EndsOrServes(p) == ~Runs(p) \/ acceptor[p] = "accept"

LEMMA DoneIsSomewhere ==
  ASSUME CalcTypeOK, NEW p \in Copy, client[p] = "returned"
  PROVE  Binding(p) \/ Opening(p) \/ Joining(p) \/ EndsOrServes(p)
BY DEF CalcTypeOK, Binding, Opening, Joining, Done, EndsOrServes

LEMMA EndingGoesOn ==
  ASSUME CalcTypeOK, NEW p \in Copy, [CalcNext]_calcVars
  PROVE  /\ Binding(p) => Binding(p)' \/ Opening(p)' \/ Joining(p)' \/ EndsOrServes(p)'
         /\ Opening(p) => Opening(p)' \/ Joining(p)' \/ EndsOrServes(p)'
         /\ Joining(p) => Joining(p)' \/ EndsOrServes(p)'
<1> USE DEF CalcTypeOK, Binding, Opening, Joining, Done, EndsOrServes, Runs,
        serverVars, handlerVars, clientVars, streamVars
<1>1. ASSUME NEW q \in Copy, NEW how \in {"exited", "killed"}, End(q, how)
      PROVE  /\ client[p] = "returned" => client'[p] = "returned"
             /\ acceptor' = acceptor
             /\ process'[p] = process[p] \/ process'[p] # "running"
  BY <1>1 DEF End
<1>2. ASSUME NEW q \in Copy, Server(q)
      PROVE  /\ UNCHANGED <<client, process>>
             /\ \/ acceptor'[p] = acceptor[p]
                \/ acceptor[p] = "bind" /\ acceptor'[p] \in {"listen", "returned"}
                \/ acceptor[p] = "listen" /\ acceptor'[p] \in {"accept", "returned"}
  BY <1>2 DEF Server, Bind, BindFails, Listen, AcceptClient, ServerTo
<1>3. ASSUME NEW q \in Copy, Handle(q) \/ SendResult(q) \/ HandlerEnd(q)
      PROVE  UNCHANGED <<client, process, acceptor>>
  BY <1>3 DEF Handle, SendResult, HandlerEnd
<1>4. ASSUME NEW q \in Copy,
             \/ Answered(q) \/ Connect(q) \/ Refused(q) \/ Quit(q)
             \/ \E line \in Line : SendLine(q, line)
      PROVE  /\ UNCHANGED <<process, acceptor>>
             /\ client[p] = "returned" => client'[p] = "returned"
  BY <1>4 DEF Answered, Receive, Disconnected, Connect, Refused, Quit, SendLine, ClientTo
<1>5. \/ UNCHANGED calcVars
      \/ \E q \in Copy : Server(q)
      \/ \E q \in Copy : Handle(q) \/ SendResult(q) \/ HandlerEnd(q)
      \/ \E q \in Copy : \/ Answered(q) \/ Connect(q) \/ Refused(q) \/ Quit(q)
                         \/ \E line \in Line : SendLine(q, line)
      \/ \E q \in Copy : \E how \in {"exited", "killed"} : End(q, how)
  <2>1. ASSUME NEW q \in Copy, Trap(q) PROVE host[q] \in Copy /\ End(host[q], "killed")
    BY <2>1 DEF Trap, HostRuns
  <2> QED
    BY <2>1 DEF CalcNext, Handler, Join, Die
<1>6. CASE UNCHANGED calcVars
  BY <1>6 DEF calcVars
<1> QED
  BY <1>1, <1>2, <1>3, <1>4, <1>5, <1>6

\* A copy whose client is done comes to its end, unless it is the one that serves
\* (main.cpp:198-199).
THEOREM IdleCopiesJoin == CalcFairSpec /\ []StepsAreEnabled => IdleCopiesEnd
<1>1. CalcFairSpec => \A p \in Copy : Fair(p)
  BY PTL DEF CalcFairSpec
<1>2. ASSUME NEW p \in Copy
      PROVE  CalcFairSpec /\ []StepsAreEnabled =>
               (client[p] = "returned" ~> ~Runs(p) \/ acceptor[p] = "accept")
  <2>1. CalcTypeOK /\ [CalcNext]_calcVars =>
          /\ Binding(p) => Binding(p)' \/ Opening(p)' \/ Joining(p)' \/ EndsOrServes(p)'
          /\ Opening(p) => Opening(p)' \/ Joining(p)' \/ EndsOrServes(p)'
          /\ Joining(p) => Joining(p)' \/ EndsOrServes(p)'
    BY EndingGoesOn
  <2>2. CalcTypeOK /\ <<Server(p)>>_calcVars =>
          /\ Binding(p) => Opening(p)' \/ Joining(p)'
          /\ Opening(p) => Joining(p)' \/ EndsOrServes(p)'
    BY DEF CalcTypeOK, Server, Bind, BindFails, Listen, AcceptClient, ServerTo, Runs, Binding,
           Opening, Joining, Done, EndsOrServes, clientVars
  <2>3. CalcTypeOK /\ <<Join(p)>>_calcVars => EndsOrServes(p)'
    BY DEF CalcTypeOK, Join, End, Runs, EndsOrServes
  <2>4. StepsAreEnabled =>
          /\ Binding(p) \/ Opening(p) => ENABLED <<Server(p)>>_calcVars
          /\ Joining(p) => ENABLED <<Join(p)>>_calcVars
    BY DEF StepsAreEnabled, Binding, Opening, Joining, Done, ServerCan, JoinCan
  <2>5. CalcTypeOK /\ client[p] = "returned" =>
          Binding(p) \/ Opening(p) \/ Joining(p) \/ EndsOrServes(p)
    BY DoneIsSomewhere
  <2>6. CalcFairSpec => []CalcTypeOK
    BY CalculatorTypes, PTL DEF CalcFairSpec
  <2>7. CalcFairSpec => Fair(p)
    BY <1>1
  <2>8. CalcFairSpec /\ []StepsAreEnabled => (Joining(p) ~> EndsOrServes(p))
    BY <2>1, <2>3, <2>4, <2>6, <2>7, PTL DEF CalcFairSpec, CalcSpec, Fair
  <2>9. CalcFairSpec /\ []StepsAreEnabled => (Opening(p) ~> Joining(p) \/ EndsOrServes(p))
    BY <2>1, <2>2, <2>4, <2>6, <2>7, PTL DEF CalcFairSpec, CalcSpec, Fair
  <2>10. CalcFairSpec /\ []StepsAreEnabled =>
           (Binding(p) ~> Opening(p) \/ Joining(p) \/ EndsOrServes(p))
    BY <2>1, <2>2, <2>4, <2>6, <2>7, PTL DEF CalcFairSpec, CalcSpec, Fair
  <2>11. CalcFairSpec /\ []StepsAreEnabled => (client[p] = "returned" ~> EndsOrServes(p))
    BY <2>5, <2>6, <2>8, <2>9, <2>10, PTL
  <2> QED
    BY <2>11, PTL DEF EndsOrServes
<1> QED
  BY <1>2 DEF IdleCopiesEnd
=============================================================================
