------------------------- MODULE MCSocketUringNormal -------------------------
(***************************************************************************)
(* Instances for TLC of the two servers with one buffer: a behaviour is a  *)
(* run of one of them, chosen at the start.                                *)
(***************************************************************************)
EXTENDS SocketUringHttp

CONSTANTS c1, c2,
          MaxTotal,     \* bytes all clients may send together
          MaxResets     \* how many of them may reset their connection

VARIABLE which          \* "echo" or "http"

TwoClients  == {c1, c2}
StayOrReset == {{}, {"reset", "slow_reader"}}

MCInit == which \in {"echo", "http"} /\ HttpInit

all == <<http, which>>

Echo(A) == which = "echo" /\ A /\ UNCHANGED <<sending, which>>
Http(A) == which = "http" /\ A /\ UNCHANGED which

Bounds == /\ Cardinality({b \in Client \X (1 .. MaxBytes) : b[2] <= sent[b[1]]}) <= MaxTotal
          /\ Cardinality({c \in Client : conn[c] = "reset"}) <= MaxResets

MCNext == (Echo(Next) \/ Http(HttpNext)) /\ Bounds'

(* The server runs and the kernel carries out what it can; the clients owe *)
(* nothing, and while one that does not read holds up a send the HTTP      *)
(* server need not go on.                                                  *)
MCSpec == /\ MCInit /\ [][MCNext]_all
          /\ WF_all(Echo(Server /\ pc # "main"))
          /\ WF_all(Http(HttpServer /\ pc # "main" /\ ~Held))
          /\ WF_all(KernelOn("accept", Listen) /\ UNCHANGED <<sending, which>>)
          /\ \A c \in Client :
                /\ WF_all(KernelOn("recv", c) /\ UNCHANGED <<sending, which>>)
                /\ WF_all(KernelOn("send", c) /\ UNCHANGED <<sending, which>>)

(* Both servers keep one request per connection and none on a descriptor   *)
(* that was closed.                                                        *)
OneRequest == IF which = "echo" THEN OneRequestEach ELSE HttpOneRequest

(* A client is served from its own bytes when nobody else sends any.       *)
OwnBytes == IF which = "echo" THEN EchoIntegrity ELSE OwnAnswer

(* Both servers accept whoever connects, and the HTTP server answers       *)
(* whoever sends a request and stays, with two exceptions.  A client that  *)
(* stays and never reads its answer holds up the loop in send, and with it *)
(* all others; and SIGPIPE ends the server, but only while it answers a    *)
(* client that has gone.                                                   *)
Served(c) == conn[c] # "pending" /\ ~(which = "http" /\ Unanswered(c))
Dead == which = "http" /\ pc = "exit" /\ \E c \in sending : conn[c] # "open"
EveryoneServed == \/ <>[]Held
                  \/ \A c \in Client : ~Served(c) ~> Served(c) \/ Dead
=============================================================================
