------------------------------ MODULE Service ------------------------------
(***************************************************************************)
(* What a server that answers requests promises: a client has at most one  *)
(* request under way, and what it hears next is the answer to that         *)
(* request; it can miss the answer only once its server is lost.  There    *)
(* are no connections, threads or messages here.                           *)
(***************************************************************************)
CONSTANTS
  Client,
  Request,
  Answer,      \* the answer to each request, a function
  Nothing      \* no request (and none of Request), and no answer yet

VARIABLES
  asked,   \* the request each client waits for an answer to
  heard,   \* the last answer of each client
  gone,    \* the clients that have left
  lost     \* the clients whose server has ended

vars == <<asked, heard, gone, lost>>

Init ==
  /\ asked = [c \in Client |-> Nothing]
  /\ heard = [c \in Client |-> Nothing]
  /\ gone = {}
  /\ lost = {}

Ask(c, request) ==
  /\ c \notin gone
  /\ asked[c] = Nothing
  /\ asked' = [asked EXCEPT ![c] = request]
  /\ UNCHANGED <<heard, gone, lost>>

Hear(c) ==
  /\ asked[c] # Nothing
  /\ heard' = [heard EXCEPT ![c] = Answer[asked[c]]]
  /\ asked' = [asked EXCEPT ![c] = Nothing]
  /\ UNCHANGED <<gone, lost>>

Miss(c) ==
  /\ c \in lost
  /\ asked[c] # Nothing
  /\ asked' = [asked EXCEPT ![c] = Nothing]
  /\ UNCHANGED <<heard, gone, lost>>

\* Clients leave, and a server that ends is lost to others: one process can be
\* both.
Part(leaving, losing) ==
  /\ gone' = gone \cup leaving
  /\ lost' = lost \cup losing
  /\ asked' = [c \in Client |-> IF c \in leaving THEN Nothing ELSE asked[c]]
  /\ UNCHANGED heard

Next ==
  \/ \E c \in Client : (\E request \in Request : Ask(c, request)) \/ Hear(c) \/ Miss(c)
  \/ \E leaving, losing \in SUBSET Client : Part(leaving, losing)

Spec == Init /\ [][Next]_vars
=============================================================================
