----------------------------- MODULE Calculator -----------------------------
(***************************************************************************)
(* RPC/main.cpp: one program that is a calculator server and a client of   *)
(* the server on this machine, in two threads.  Of several copies the      *)
(* first to bind the port serves the clients of all; a copy that serves    *)
(* has one detached thread, a ClientHandler, for each connection.          *)
(*                                                                         *)
(* A typed line is what sscanf makes of it: how many of its three fields   *)
(* it converts, and their values.  A line fits into buf_size.              *)
(***************************************************************************)
EXTENDS Integers, Sequences

CONSTANTS
  Copy,      \* the processes that run the program
  INT_MAX,   \* the greatest int
  Line,      \* the lines that are typed
  NoCopy,    \* no copy
  Nothing    \* no line, no answer, and what an uninitialized int holds

HalfRange == INT_MAX + 1
Int32 == -HalfRange .. HalfRange - 1

ASSUME CalculatorAssumption ==
  /\ INT_MAX \in Nat
  /\ Line \subseteq [op : {"ADD", "SUB", "DIV", "MUL", "other"}, fields : 0 .. 3,
                     x : Int32, y : Int32]
  /\ NoCopy \notin Copy
  /\ Nothing \notin Line

VARIABLES
  process,    \* each copy: "running", "exited" or "killed"
  port,       \* the copy that has bound port 8888, or NoCopy
  acceptor,   \* where server_thread of each copy is
  queue,      \* connections that wait to be accepted
  handler,    \* where the ClientHandler of each client is
  info,       \* its t_info: ints, or Nothing before they are first written
  client,     \* where client_thread of each copy is
  buf,        \* the line it has sent, until that is answered
  host,       \* the copy it is connected to, or NoCopy
  printed,    \* the result it has printed last
  toServer,   \* the line its connection holds, or Nothing
  toClient    \* the answer its connection holds, or Nothing

serverVars == <<port, acceptor, queue>>
handlerVars == <<handler, info>>
clientVars == <<client, buf, host, printed>>
streamVars == <<toServer, toClient>>
calcVars == <<process, serverVars, handlerVars, clientVars, streamVars>>

----------------------------------------------------------------------------
\* ClientHandler::parser, calculate and the answer.

Wrap(k) == ((k + HalfRange) % (2 * HalfRange)) - HalfRange
Magnitude(k) == IF k < 0 THEN -k ELSE k

\* Integer division truncates.
Quotient(x, y) ==
  LET q == Magnitude(x) \div Magnitude(y) IN IF (x < 0) = (y < 0) THEN q ELSE -q

Operand == [ADD |-> 0, SUB |-> 1, DIV |-> 2, MUL |-> 3]

\* Mutant of Parser: the error of the line before is kept.
ParserKeepsError(old, line) ==
  LET converted == [old EXCEPT !.x = IF line.fields >= 2 THEN line.x ELSE @,
                               !.y = IF line.fields = 3 THEN line.y ELSE @]
  IN IF line.fields = 3 /\ line.op \in DOMAIN Operand
     THEN [converted EXCEPT !.operand = Operand[line.op]]
     ELSE [converted EXCEPT !.error = 2]

Parser(old, line) ==
  LET converted == [old EXCEPT !.x = IF line.fields >= 2 THEN line.x ELSE @,
                               !.y = IF line.fields = 3 THEN line.y ELSE @,
                               !.error = 0]
  IN IF line.fields = 3 /\ line.op \in DOMAIN Operand
     THEN [converted EXCEPT !.operand = Operand[line.op]]
     ELSE [converted EXCEPT !.error = 2]

Calculate(i) ==
  IF i.error # 0 THEN i
  ELSE CASE i.operand = 0 -> [i EXCEPT !.result = Wrap(i.x + i.y)]
         [] i.operand = 1 -> [i EXCEPT !.result = Wrap(i.x - i.y)]
         [] i.operand = 2 -> IF i.y = 0 THEN [i EXCEPT !.error = 1]
                                        ELSE [i EXCEPT !.result = Quotient(i.x, i.y)]
         [] i.operand = 3 -> [i EXCEPT !.result = Wrap(i.x * i.y)]

\* The one division whose quotient is not an int: the process gets a SIGFPE.
Traps(i) == i.error = 0 /\ i.operand = 2 /\ i.x = -HalfRange /\ i.y = -1

\* The answer: one of two messages, or a number.
Result(i) == [error |-> i.error, number |-> IF i.error = 0 THEN i.result ELSE Nothing]

Answers == [error : 0 .. 2, number : Int32 \cup {Nothing}]

CalcTypeOK ==
  /\ process \in [Copy -> {"running", "exited", "killed"}]
  /\ port \in Copy \cup {NoCopy}
  /\ acceptor \in [Copy -> {"bind", "listen", "accept", "returned"}]
  /\ queue \in Seq(Copy)
  /\ handler \in [Copy -> {"none", "recv", "send", "closed"}]
  /\ info \in [Copy -> [operand : 0 .. 3 \cup {Nothing}, error : 0 .. 2,
                        x : Int32 \cup {Nothing}, y : Int32 \cup {Nothing},
                        result : Int32 \cup {Nothing}]]
  /\ client \in [Copy -> {"connect", "prompt", "answer", "returned"}]
  /\ buf \in [Copy -> Line \cup {Nothing}]
  /\ host \in [Copy -> Copy \cup {NoCopy}]
  /\ printed \in [Copy -> Answers \cup {Nothing}]
  /\ toServer \in [Copy -> Line \cup {Nothing}]
  /\ toClient \in [Copy -> Answers \cup {Nothing}]

----------------------------------------------------------------------------
NewInfo ==
  [operand |-> Nothing, x |-> Nothing, y |-> Nothing, result |-> Nothing, error |-> 0]

CalcInit ==
  /\ process = [p \in Copy |-> "running"]
  /\ port = NoCopy
  /\ acceptor = [p \in Copy |-> "bind"]
  /\ queue = <<>>
  /\ handler = [p \in Copy |-> "none"]
  /\ info = [p \in Copy |-> NewInfo]
  /\ client = [p \in Copy |-> "connect"]
  /\ buf = [p \in Copy |-> Nothing]
  /\ host = [p \in Copy |-> NoCopy]
  /\ printed = [p \in Copy |-> Nothing]
  /\ toServer = [p \in Copy |-> Nothing]
  /\ toClient = [p \in Copy |-> Nothing]

Runs(p) == process[p] = "running"
HostRuns(p) == host[p] # NoCopy /\ Runs(host[p])

\* What is left when copy p is gone: its port is free, its clients' connections
\* are closed, and what they have already been sent can still be read.
End(p, how) ==
  /\ process' = [process EXCEPT ![p] = how]
  /\ port' = IF port = p THEN NoCopy ELSE port
  /\ queue' = IF port = p THEN <<>> ELSE queue
  /\ client' = [client EXCEPT ![p] = "returned"]
  /\ buf' = [buf EXCEPT ![p] = Nothing]
  /\ toServer' = [q \in Copy |-> IF host[q] = p THEN Nothing ELSE toServer[q]]
  /\ toClient' = [toClient EXCEPT ![p] = Nothing]
  /\ UNCHANGED <<acceptor, handlerVars, host, printed>>

----------------------------------------------------------------------------
\* server_thread

ServerTo(p, from, to) == Runs(p) /\ acceptor[p] = from /\ acceptor' = [acceptor EXCEPT ![p] = to]

Bind(p) ==
  /\ ServerTo(p, "bind", "listen")
  /\ port = NoCopy
  /\ port' = p
  /\ UNCHANGED <<process, queue, handlerVars, clientVars, streamVars>>

\* Mutant of BindFails: it is tried again.
BindRetried(p) ==
  /\ ServerTo(p, "bind", "bind")
  /\ UNCHANGED <<process, port, queue, handlerVars, clientVars, streamVars>>

\* The port is taken, or still in use by connections of a copy that has ended.
BindFails(p) ==
  /\ ServerTo(p, "bind", "returned")
  /\ UNCHANGED <<process, port, queue, handlerVars, clientVars, streamVars>>

Listen(p) ==
  /\ \/ ServerTo(p, "listen", "accept")
     \/ ServerTo(p, "listen", "returned")
  /\ UNCHANGED <<process, port, queue, handlerVars, clientVars, streamVars>>

\* accept, and a thread that gets a ClientHandler of its own.
AcceptClient(p) ==
  /\ ServerTo(p, "accept", "accept")
  /\ queue # <<>>
  /\ queue' = Tail(queue)
  /\ handler' = [handler EXCEPT ![Head(queue)] = "recv"]
  /\ UNCHANGED <<process, port, info, clientVars, streamVars>>

----------------------------------------------------------------------------
\* ClientHandler::operator(), in the copy that client p is connected to.

HandlerTo(p, from, to) ==
  HostRuns(p) /\ handler[p] = from /\ handler' = [handler EXCEPT ![p] = to]

Handle(p) ==
  LET i == Parser(info[p], toServer[p]) IN
  /\ HandlerTo(p, "recv", "send")
  /\ toServer[p] # Nothing
  /\ ~Traps(i)
  /\ info' = [info EXCEPT ![p] = Calculate(i)]
  /\ toServer' = [toServer EXCEPT ![p] = Nothing]
  /\ UNCHANGED <<process, serverVars, clientVars, toClient>>

\* The signal ends the copy with all its threads.
Trap(p) ==
  /\ HostRuns(p) /\ handler[p] = "recv"
  /\ toServer[p] # Nothing
  /\ Traps(Parser(info[p], toServer[p]))
  /\ End(host[p], "killed")

\* Mutant of SendResult: nothing is sent after an error.
SendUnlessError(p) ==
  /\ HandlerTo(p, "send", "recv")
  /\ toClient' = IF info[p].error # 0 THEN toClient
                 ELSE [toClient EXCEPT ![p] = Result(info[p])]
  /\ UNCHANGED <<process, serverVars, info, clientVars, toServer>>

SendResult(p) ==
  /\ HandlerTo(p, "send", "recv")
  /\ toClient' = IF client[p] = "returned" THEN toClient
                 ELSE [toClient EXCEPT ![p] = Result(info[p])]
  /\ UNCHANGED <<process, serverVars, info, clientVars, toServer>>

HandlerEnd(p) ==
  /\ HandlerTo(p, "recv", "closed")
  /\ toServer[p] = Nothing
  /\ client[p] = "returned"
  /\ info' = [info EXCEPT ![p] = NewInfo]
  /\ UNCHANGED <<process, serverVars, clientVars, streamVars>>

----------------------------------------------------------------------------
\* client_thread

ClientTo(p, from, to) == Runs(p) /\ client[p] = from /\ client' = [client EXCEPT ![p] = to]

Listening == port # NoCopy /\ acceptor[port] = "accept"

\* The second that main sleeps is no guarantee that a server listens.
Connect(p) ==
  /\ Listening
  /\ ClientTo(p, "connect", "prompt")
  /\ host' = [host EXCEPT ![p] = port]
  /\ queue' = Append(queue, p)
  /\ UNCHANGED <<process, port, acceptor, handlerVars, buf, printed, streamVars>>

Refused(p) ==
  /\ ~Listening
  /\ ClientTo(p, "connect", "returned")
  /\ UNCHANGED <<process, serverVars, handlerVars, buf, host, printed, streamVars>>

SendLine(p, line) ==
  /\ ClientTo(p, "prompt", "answer")
  /\ buf' = [buf EXCEPT ![p] = line]
  /\ toServer' = IF HostRuns(p) THEN [toServer EXCEPT ![p] = line] ELSE toServer
  /\ UNCHANGED <<process, serverVars, handlerVars, host, printed, toClient>>

\* An empty line, or the end of the input.
Quit(p) ==
  /\ ClientTo(p, "prompt", "returned")
  /\ UNCHANGED <<process, serverVars, handlerVars, buf, host, printed, streamVars>>

Receive(p) ==
  /\ ClientTo(p, "answer", "prompt")
  /\ toClient[p] # Nothing
  /\ printed' = [printed EXCEPT ![p] = toClient[p]]
  /\ toClient' = [toClient EXCEPT ![p] = Nothing]
  /\ buf' = [buf EXCEPT ![p] = Nothing]
  /\ UNCHANGED <<process, serverVars, handlerVars, host, toServer>>

Disconnected(p) ==
  /\ ClientTo(p, "answer", "returned")
  /\ toClient[p] = Nothing
  /\ ~HostRuns(p)
  /\ buf' = [buf EXCEPT ![p] = Nothing]
  /\ UNCHANGED <<process, serverVars, handlerVars, host, printed, streamVars>>

\* main joins both threads.
Join(p) ==
  /\ Runs(p)
  /\ acceptor[p] = "returned" /\ client[p] = "returned"
  /\ End(p, "exited")

Die(p) == Runs(p) /\ End(p, "killed")

----------------------------------------------------------------------------
Server(p) == Bind(p) \/ BindFails(p) \/ Listen(p) \/ AcceptClient(p)
Handler(p) == Handle(p) \/ Trap(p) \/ SendResult(p) \/ HandlerEnd(p)
Answered(p) == Receive(p) \/ Disconnected(p)

CalcNext ==
  \E p \in Copy :
    \/ Server(p) \/ Handler(p) \/ Answered(p)
    \/ Connect(p) \/ Refused(p) \/ (\E line \in Line : SendLine(p, line)) \/ Quit(p)
    \/ Join(p) \/ Die(p)

CalcSpec == CalcInit /\ [][CalcNext]_calcVars

\* The threads run.  Nobody has to type anything.
Fair(p) ==
  /\ WF_calcVars(Server(p)) /\ WF_calcVars(Handler(p))
  /\ WF_calcVars(Answered(p)) /\ WF_calcVars(Join(p))
CalcFairSpec == CalcSpec /\ \A p \in Copy : Fair(p)

\* Who has something to do, of the threads that end a copy.
ServerCan(p) ==
  \/ Runs(p) /\ acceptor[p] \in {"bind", "listen"}
  \/ Runs(p) /\ acceptor[p] = "accept" /\ queue # <<>>
JoinCan(p) == Runs(p) /\ acceptor[p] = "returned" /\ client[p] = "returned"

\* Their guards are all that keeps these threads from their next step.
StepsAreEnabled ==
  \A p \in Copy : /\ ServerCan(p) => ENABLED <<Server(p)>>_calcVars
                  /\ JoinCan(p) => ENABLED <<Join(p)>>_calcVars

----------------------------------------------------------------------------
\* What the answer to a line should be, from the meaning of the operations: sums
\* and products modulo the number of ints, and the quotient that leaves a remainder of the
\* sign of x.  If that is no int, no answer is right.
IsQuotient(q, x, y) ==
  LET r == x - q * y IN Magnitude(r) < Magnitude(y) /\ r * x >= 0

IsResult(k, line) ==
  CASE line.op = "ADD" -> (k - line.x - line.y) % (2 * HalfRange) = 0
    [] line.op = "SUB" -> (k - line.x + line.y) % (2 * HalfRange) = 0
    [] line.op = "MUL" -> (k - line.x * line.y) % (2 * HalfRange) = 0
    [] line.op = "DIV" -> IsQuotient(k, line.x, line.y)

Expected(line) ==
  IF line.op = "other" \/ line.fields < 3 THEN [error |-> 2, number |-> Nothing]
  ELSE IF line.op = "DIV" /\ line.y = 0 THEN [error |-> 1, number |-> Nothing]
  ELSE [error |-> 0, number |-> IF \E k \in Int32 : IsResult(k, line)
                                THEN CHOOSE k \in Int32 : IsResult(k, line)
                                ELSE Nothing]

Answer == [line \in Line |-> Expected(line)]

\* Each client gets the answer to the line it has sent, whatever was sent before
\* on its connection or on others, and misses it only if the copy that it is
\* connected to has ended, however the copies come and go
\* (main.cpp:35-101, 169-188).
Promise == INSTANCE Service WITH
  Client  <- Copy,
  Request <- Line,
  Answer  <- Answer,
  asked   <- [p \in Copy |-> IF client[p] = "answer" THEN buf[p] ELSE Nothing],
  heard   <- printed,
  gone    <- {p \in Copy : client[p] = "returned"},
  lost    <- {p \in Copy : host[p] # NoCopy /\ ~HostRuns(p)}
RefinesService == Promise!Spec

\* A client that waits for an answer gets it or learns that the server is gone,
\* also when one of the other clients has ended the server (main.cpp:175-185).
AnswerComes == \A p \in Copy : client[p] = "answer" ~> client[p] # "answer"

\* A copy whose client is done comes to its end, unless it is the one that
\* serves: that one runs on until it is killed (main.cpp:198-199).
IdleCopiesEnd ==
  \A p \in Copy : client[p] = "returned" ~> ~Runs(p) \/ acceptor[p] = "accept"
=============================================================================
