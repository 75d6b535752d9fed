--------------------------- MODULE SocketUringHttp ---------------------------
(***************************************************************************)
(* io_uring/socket_uring.c: an HTTP server, one request per connection.    *)
(* It is socket_uring_normal.c up to the completion of a receive: then it  *)
(* answers with blocking sends and closes, and after a receive that        *)
(* brought nothing it leaves the descriptor open.  It never queues a send. *)
(*                                                                         *)
(* A client's answer is the content the one buffer had when render read    *)
(* the request from it.  The sends block: an answer that does not fit into *)
(* the socket's buffer waits for the client to read, and the loop with it. *)
(***************************************************************************)
EXTENDS SocketUringNormal

VARIABLE sending        \* the client that render is sending its answer to, if any

http == <<vars, sending>>

HttpInit == Init /\ sending = {}

StartUp == (SetupFails \/ Setup) /\ UNCHANGED sending

Loop == (Submit \/ PeekBatch \/ Advance) /\ UNCHANGED sending

AcceptDone == (AcceptFailed \/ Accepted) /\ UNCHANGED sending

(* An error or the end of the connection: nothing is done. *)
ReadNothing == Event("READ") /\ res <= 0 /\ Handled /\ UNCHANGED <<sq, fds, sending>>

Peer == fds[ci.connfd]

(* What strtok leaves of a request in the shared buffer: it ends the URL,  *)
(* for which the first byte stands, with a NUL.                            *)
Url(b) == [x \in 1 .. MAXLINE |-> IF x = 1 THEN b[x] ELSE NULL]

(* The first part of render: the URL, the file and the first bytes of the  *)
(* answer, which reach the client if it is still there.                    *)
render == /\ Event("READ") /\ res > 0 /\ sending = {}
          /\ mem' = [mem EXCEPT !["buffer"] = Url(@)]
          /\ echo' = IF conn[Peer] = "open"
                     THEN [echo EXCEPT ![Peer] = Append(@, mem["buffer"])] ELSE echo
          /\ sending' = {Peer}
          /\ UNCHANGED <<ring, fds, Faults, conn, sent, taken, pc, cqecount, i>>

(* Mutant of renderDone: the connection is kept open. *)
renderKeeps == /\ Event("READ") /\ Peer \in sending
               /\ sending' = {} /\ i' = i + 1
               /\ UNCHANGED <<env, pc, cqecount>>

(* The rest of the sends and the close. *)
renderDone == /\ Event("READ") /\ Peer \in sending
              /\ Close(ci.connfd)
              /\ sending' = {} /\ i' = i + 1
              /\ UNCHANGED <<ring, net, mem, pc, cqecount>>

(* The client is gone and the file has lines: the second send raises       *)
(* SIGPIPE, which nobody catches.                                          *)
renderKilled == /\ Event("READ") /\ Peer \in sending /\ conn[Peer] # "open"
                /\ pc' = "exit"
                /\ UNCHANGED <<env, cqecount, i, sending>>

HttpServer == \/ StartUp \/ Loop \/ AcceptDone \/ ReadNothing
              \/ render \/ renderDone \/ renderKilled

(* A send waits for a client that is there and does not read. *)
Held == /\ "slow_reader" \in Faults
        /\ \E c \in sending : conn[c] = "open"

HttpNext == HttpServer \/ ((Kernel \/ Clients) /\ UNCHANGED sending)

-----------------------------------------------------------------------------
(* Properties. *)

(* Every open connection has exactly one receive going or to be handled,   *)
(* until its client has gone, when the descriptor stays with none; a       *)
(* closed descriptor has none, so that the number can be given out again.  *)
HttpOneRequest ==
    pc # "exit" =>
       \A f \in Fd : /\ fds[f] \in Client => \/ OnDescriptor(f) = 1
                                             \/ OnDescriptor(f) = 0 /\ conn[fds[f]] # "open"
                     /\ fds[f] = Closed => OnDescriptor(f) = 0

(* Each client gets at most one answer, and that one is made from its own  *)
(* request when nobody else sent one.                                      *)
OwnAnswer ==
    \A c \in Client : /\ Len(echo[c]) <= 1
                      /\ echo[c] # <<>> /\ (\A d \in Client \ {c} : sent[d] = 0) =>
                            echo[c][1][1] = <<c, 1>>

(* A client waits for the answer to its request, or for the rest of it. *)
Unanswered(c) == conn[c] = "open" /\ sent[c] > 0 /\ (echo[c] = <<>> \/ c \in sending)
=============================================================================
