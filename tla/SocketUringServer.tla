-------------------------- MODULE SocketUringServer --------------------------
(***************************************************************************)
(* io_uring/socket_uring_server.c: an echo server.  Every outstanding      *)
(* request has a ConnInfo of its own on the heap as its user data; a       *)
(* connection's ConnInfo goes from recv to send and back until the client  *)
(* leaves.  One accept is kept outstanding.                                *)
(***************************************************************************)
EXTENDS SocketRing

CONSTANTS Info,         \* addresses malloc can return
          CQE_LEN       \* completions handled in one round

ConnInfo(fd, event, len) == [connfd |-> fd, event |-> event, buffer_length |-> len]
ConnInfos == [connfd : Fd, event : {"ACCEPT", "READ", "WRITE"}, buffer_length : 0 .. MAXLINE]

(* One ConnInfo per connection, one for the accept and one more while the  *)
(* accept is renewed.  malloc is assumed not to fail.                      *)
ASSUME EnoughMemory ==
    /\ IsFiniteSet(Info) /\ Cardinality(Info) >= Cardinality(Client) + 2
    /\ NULL \notin Info \cup ConnInfos
    /\ CQE_LEN \in Nat \ {0}

VARIABLES pc,           \* "main", "submit", "handle", "exit"
          heap,         \* the ConnInfo at an address, or NULL if it is free
          cqecount, i   \* completions of this round, and the next to handle

vars == <<env, pc, heap, cqecount, i>>

Init == /\ EnvInit(Info)
        /\ pc = "main"
        /\ heap = [a \in Info |-> NULL]
        /\ cqecount = 0 /\ i = 1

(* malloc: some free address.  Addresses are only ever compared, so which  *)
(* one it is makes no difference.                                          *)
Malloc(S) == CHOOSE a \in S : heap[a] = NULL

(* socket, bind, listen and the options; the first get_sqe leaves an       *)
(* unprepared entry in the queue, which the kernel takes for a no-op with  *)
(* user data NULL.                                                         *)
SetupFails == /\ pc = "main" /\ pc' = "exit"
              /\ UNCHANGED <<env, heap, cqecount, i>>

Setup == /\ pc = "main" /\ pc' = "submit"
         /\ LET a == Malloc(Info) IN
               /\ heap' = [heap EXCEPT ![a] = ConnInfo(1, "ACCEPT", 0)]
               /\ sq' = <<Nop(NULL), Accept(1, a)>>
         /\ UNCHANGED <<inflight, cq, fds, net, mem, cqecount, i>>

-----------------------------------------------------------------------------
(* The loop: submit, wait, take a batch, handle it, advance. *)

Submit == /\ pc = "submit" /\ pc' = "wait"
          /\ SubmitAll
          /\ UNCHANGED <<cq, fds, net, mem, heap, cqecount, i>>

PeekBatch == /\ pc = "wait" /\ cq # <<>>
             /\ cqecount' = IF Len(cq) < CQE_LEN THEN Len(cq) ELSE CQE_LEN
             /\ i' = 1
             /\ pc' = "handle"
             /\ UNCHANGED <<env, heap>>

Advance == /\ pc = "handle" /\ i > cqecount
           /\ cq' = SubSeq(cq, cqecount + 1, Len(cq))
           /\ pc' = "submit"
           /\ UNCHANGED <<sq, inflight, fds, net, mem, heap, cqecount, i>>

(* The completion at hand, its result and its ConnInfo. *)
ci  == cq[i].data
res == cq[i].res

Handling == pc = "handle" /\ i <= cqecount
Event(e) == Handling /\ ci # NULL /\ heap[ci].event = e
Handled  == i' = i + 1 /\ UNCHANGED <<pc, cqecount, inflight, cq, net>>

HandleNull == /\ Handling /\ ci = NULL
              /\ Handled
              /\ UNCHANGED <<sq, fds, heap, mem>>

(* A failed accept: its ConnInfo is freed, nothing is queued. *)
AcceptFailed == /\ Event("ACCEPT") /\ res < 0
                /\ heap' = [heap EXCEPT ![ci] = NULL]
                /\ Handled
                /\ UNCHANGED <<sq, fds, mem>>

(* A new connection: a ConnInfo and a recv for it, and a new accept.       *)
Accepted ==
    /\ Event("ACCEPT") /\ res >= 0
    /\ LET a == Malloc(Info)
           b == Malloc(Info \ {a})
       IN /\ heap' = [heap EXCEPT ![a] = ConnInfo(res, "READ", MAXLINE),
                                  ![b] = ConnInfo(heap[ci].connfd, "ACCEPT", 0),
                                  ![ci] = NULL]
          /\ mem' = [mem EXCEPT ![a] = Blank, ![b] = Blank]
          /\ sq' = sq \o <<Recv(res, a, MAXLINE, a), Accept(heap[ci].connfd, b)>>
    /\ Handled
    /\ UNCHANGED fds

(* Mutant of Drop: a forgotten free. *)
DropWithoutFree == /\ fds' = [fds EXCEPT ![heap[ci].connfd] = Closed]
                   /\ UNCHANGED <<heap, sq, mem>>

(* Mutant of Drop: a forgotten close. *)
DropWithoutClose == /\ heap' = [heap EXCEPT ![ci] = NULL]
                    /\ UNCHANGED <<fds, sq, mem>>

(* End of a connection: close(connfd) and free(ci). *)
Drop == /\ fds' = [fds EXCEPT ![heap[ci].connfd] = Closed]
        /\ heap' = [heap EXCEPT ![ci] = NULL]
        /\ UNCHANGED <<sq, mem>>

ReadEnded == Event("READ") /\ res <= 0 /\ Drop /\ Handled

(* Mutant of ReadDone: the event stays EVENT_READ. *)
ReadDoneSameEvent ==
    /\ Event("READ") /\ res > 0
    /\ heap' = [heap EXCEPT ![ci] = ConnInfo(@.connfd, "READ", res)]
    /\ sq' = Append(sq, Send(heap[ci].connfd, ci, res, ci))
    /\ Handled
    /\ UNCHANGED <<fds, mem>>

(* Mutant of ReadDone: the whole buffer is sent, not what was received. *)
ReadDoneSendsAll ==
    /\ Event("READ") /\ res > 0
    /\ heap' = [heap EXCEPT ![ci] = ConnInfo(@.connfd, "WRITE", res)]
    /\ sq' = Append(sq, Send(heap[ci].connfd, ci, MAXLINE, ci))
    /\ Handled
    /\ UNCHANGED <<fds, mem>>

ReadDone == /\ Event("READ") /\ res > 0
            /\ heap' = [heap EXCEPT ![ci] = ConnInfo(@.connfd, "WRITE", res)]
            /\ sq' = Append(sq, Send(heap[ci].connfd, ci, res, ci))
            /\ Handled
            /\ UNCHANGED <<fds, mem>>

WriteFailed == Event("WRITE") /\ res <= 0 /\ Drop /\ Handled

(* Mutant of WriteDone: no recv follows. *)
WriteDoneIdle == /\ Event("WRITE") /\ res > 0
                 /\ heap' = [heap EXCEPT ![ci] = ConnInfo(@.connfd, "READ", @.buffer_length)]
                 /\ Handled
                 /\ UNCHANGED <<sq, fds, mem>>

(* The recv that follows has the length of the last one, not MAXLINE.      *)
WriteDone == /\ Event("WRITE") /\ res > 0
             /\ heap' = [heap EXCEPT ![ci] = ConnInfo(@.connfd, "READ", @.buffer_length)]
             /\ sq' = Append(sq, Recv(heap[ci].connfd, ci, heap[ci].buffer_length, ci))
             /\ Handled
             /\ UNCHANGED <<fds, mem>>

-----------------------------------------------------------------------------
Server == \/ SetupFails \/ Setup \/ Submit \/ PeekBatch \/ Advance
          \/ HandleNull \/ AcceptFailed \/ Accepted
          \/ ReadEnded \/ ReadDone \/ WriteFailed \/ WriteDone

Kernel == /\ \E q \in DOMAIN inflight : KernelStep(q)
          /\ UNCHANGED <<pc, heap, cqecount, i>>

Clients == /\ pc \notin {"main", "exit"}
           /\ \E c \in Client : ClientStep(c)
           /\ UNCHANGED <<pc, heap, cqecount, i>>

Next == Server \/ Kernel \/ Clients

Spec == Init /\ [][Next]_vars

(* The server runs and the kernel carries out each kind of request that it *)
(* can; the clients owe nothing.                                           *)
KernelOn(op, f) ==
    /\ \E q \in DOMAIN inflight : q.op = op /\ q.file = f /\ KernelStep(q)
    /\ UNCHANGED <<pc, heap, cqecount, i>>

Fairness == /\ WF_vars(Server /\ pc # "main")
            /\ WF_vars(KernelOn("accept", Listen))
            /\ \A c \in Client : /\ WF_vars(KernelOn("recv", c))
                                 /\ WF_vars(KernelOn("send", c))

FairSpec == Spec /\ Fairness

-----------------------------------------------------------------------------
(* Properties. *)

(* The completions not yet handled, by their places in the queue. *)
Unhandled == (IF pc = "handle" THEN i ELSE 1) .. Len(cq)

(* How many requests and completions have user data a: queued, in the      *)
(* kernel, or completed and not yet handled.                               *)
Outstanding(a) ==
    Cardinality({k \in DOMAIN sq : sq[k].data = a})
    + Cardinality(UNION {{q} \X (1 .. inflight[q]) :
                           q \in {q \in DOMAIN inflight : q.data = a}})
    + Cardinality({k \in Unhandled : cq[k].data = a})

(* Every ConnInfo on the heap is the user data of exactly one outstanding  *)
(* request or completion: none is leaked, freed twice or used after free.  *)
InfoOwnership ==
    \A a \in Info : Outstanding(a) = IF heap[a] = NULL THEN 0 ELSE 1

(* Every connection's descriptor belongs to exactly one ConnInfo, or to    *)
(* the completion of the accept that made it; a ConnInfo never refers to a *)
(* descriptor that was closed and so perhaps given to somebody else.       *)
FdOwnership ==
    /\ \A a \in Info : heap[a] # NULL =>
          fds[heap[a].connfd] \in IF heap[a].event = "ACCEPT" THEN {Listen} ELSE Client
    /\ \A f \in Fd : fds[f] \in Client =>
          1 = Cardinality({a \in Info : heap[a] # NULL /\ heap[a].connfd = f})
              + Cardinality({k \in Unhandled :
                               /\ cq[k].data # NULL
                               /\ heap[cq[k].data].event = "ACCEPT"
                               /\ cq[k].res = f})

(* Without short sends a client gets back its own bytes, in order and none *)
(* missing, also when its replies interleave with those of others.         *)
EchoIntegrity ==
    "short_send" \notin Faults =>
       \A c \in Client : \A k \in DOMAIN echo[c] : echo[c][k] = <<c, k>>

(* Even when sends are cut short a client only gets its own bytes, in the  *)
(* order it sent them.                                                     *)
EchoInOrder ==
    \A c \in Client : \A k \in DOMAIN echo[c] :
       /\ echo[c][k][1] = c
       /\ k > 1 => echo[c][k - 1][2] < echo[c][k][2]

(* Whoever connects is accepted, as long as no accept fails, and whatever  *)
(* it sends comes back, unless it leaves.                                  *)
EverythingEchoed ==
    \A c \in Client :
       /\ conn[c] = "pending" ~> conn[c] # "pending"
       /\ conn[c] = "open" ~> (conn[c] # "open" \/ Len(echo[c]) = sent[c])
=============================================================================
