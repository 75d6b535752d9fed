-------------------------- MODULE SocketUringNormal --------------------------
(***************************************************************************)
(* io_uring/socket_uring_normal.c: the echo server with no memory of its   *)
(* own per connection.  The user data of a request is the pair of its      *)
(* descriptor and event, copied into the 64 bits of the entry, and all     *)
(* connections receive into and send from one buffer.                      *)
(***************************************************************************)
EXTENDS SocketRing

CONSTANTS CQE_LEN       \* completions handled in one round

ASSUME BatchAssumption == CQE_LEN \in Nat \ {0}

VARIABLES pc,           \* "main", "submit", "wait", "handle", "exit"
          cqecount, i   \* completions of this round, and the next to handle

vars == <<env, pc, cqecount, i>>

ConnInfo(fd, event) == [connfd |-> fd, event |-> event]

Init == /\ EnvInit({"buffer"})
        /\ pc = "main"
        /\ cqecount = 0 /\ i = 1

set_accept_event(fd)    == Accept(fd, ConnInfo(fd, "ACCEPT"))
set_recv_event(fd)      == Recv(fd, "buffer", MAXLINE, ConnInfo(fd, "READ"))
set_send_event(fd, len) == Send(fd, "buffer", len, ConnInfo(fd, "WRITE"))

SetupFails == /\ pc = "main" /\ pc' = "exit"
              /\ UNCHANGED <<env, cqecount, i>>

(* The first get_sqe leaves an unprepared entry in the queue: opcode 0 is  *)
(* a no-op, and user data 0 reads as EVENT_ACCEPT on descriptor 0.         *)
Setup == /\ pc = "main" /\ pc' = "submit"
         /\ sq' = <<Nop(ConnInfo(0, "ACCEPT")), set_accept_event(1)>>
         /\ UNCHANGED <<inflight, cq, fds, net, mem, cqecount, i>>

-----------------------------------------------------------------------------
(* The loop: submit, wait, take a batch, handle it, advance. *)

Submit == /\ pc = "submit" /\ pc' = "wait"
          /\ SubmitAll
          /\ UNCHANGED <<cq, fds, net, mem, cqecount, i>>

PeekBatch == /\ pc = "wait" /\ cq # <<>>
             /\ cqecount' = IF Len(cq) < CQE_LEN THEN Len(cq) ELSE CQE_LEN
             /\ i' = 1
             /\ pc' = "handle"
             /\ UNCHANGED env

Advance == /\ pc = "handle" /\ i > cqecount
           /\ cq' = SubSeq(cq, cqecount + 1, Len(cq))
           /\ cqecount' = 0 /\ i' = 1
           /\ pc' = "submit"
           /\ UNCHANGED <<sq, inflight, fds, net, mem>>

ci  == cq[i].data
res == cq[i].res

Handling == pc = "handle" /\ i <= cqecount
Event(e) == Handling /\ ci.event = e
Handled  == i' = i + 1 /\ UNCHANGED <<pc, cqecount, inflight, cq, net, mem>>

Close(fd) == fds' = [fds EXCEPT ![fd] = Closed]

AcceptFailed == /\ Event("ACCEPT") /\ res < 0
                /\ Handled
                /\ UNCHANGED <<sq, fds>>

(* Mutant of Accepted: the accept is not queued again. *)
AcceptedOnce == /\ Event("ACCEPT") /\ res >= 0
                /\ sq' = Append(sq, set_recv_event(res))
                /\ Handled
                /\ UNCHANGED fds

Accepted == /\ Event("ACCEPT") /\ res >= 0
            /\ sq' = sq \o <<set_recv_event(res), set_accept_event(ci.connfd)>>
            /\ Handled
            /\ UNCHANGED fds

ReadEnded == Event("READ") /\ res <= 0 /\ Close(ci.connfd) /\ Handled /\ UNCHANGED sq

(* Mutant of ReadDone: the whole buffer is sent, not what was received. *)
ReadDoneSendsAll == /\ Event("READ") /\ res > 0
                    /\ sq' = Append(sq, set_send_event(ci.connfd, MAXLINE))
                    /\ Handled
                    /\ UNCHANGED fds

ReadDone == /\ Event("READ") /\ res > 0
            /\ sq' = Append(sq, set_send_event(ci.connfd, res))
            /\ Handled
            /\ UNCHANGED fds

(* After a failed send the descriptor is closed and then received from.    *)
WriteFailed == /\ Event("WRITE") /\ res < 0
               /\ Close(ci.connfd)
               /\ sq' = Append(sq, set_recv_event(ci.connfd))
               /\ Handled

WriteDone == /\ Event("WRITE") /\ res >= 0
             /\ sq' = Append(sq, set_recv_event(ci.connfd))
             /\ Handled
             /\ UNCHANGED fds

-----------------------------------------------------------------------------
Server == \/ SetupFails \/ Setup \/ Submit \/ PeekBatch \/ Advance
          \/ AcceptFailed \/ Accepted \/ ReadEnded \/ ReadDone
          \/ WriteFailed \/ WriteDone

Kernel == /\ \E q \in DOMAIN inflight : KernelStep(q)
          /\ UNCHANGED <<pc, cqecount, i>>

Clients == /\ pc \notin {"main", "exit"}
           /\ \E c \in Client : ClientStep(c)
           /\ UNCHANGED <<pc, cqecount, i>>

Next == Server \/ Kernel \/ Clients

Spec == Init /\ [][Next]_vars

(* A step of the kernel on one kind of request and one connection. *)
KernelOn(op, f) ==
    /\ \E q \in DOMAIN inflight : q.op = op /\ q.file = f /\ KernelStep(q)
    /\ UNCHANGED <<pc, cqecount, i>>

-----------------------------------------------------------------------------
(* Properties. *)

FirstUnhandled == IF pc = "handle" THEN i ELSE 1
Unhandled == SubSeq(cq, FirstUnhandled, Len(cq))

(* How many requests and completions are about descriptor f as a           *)
(* connection: a recv or send queued, in the kernel, or completed and not  *)
(* handled, or the completion of the accept that made it.                  *)
OnDescriptor(f) ==
    LET Data(d) == d.connfd = f /\ d.event # "ACCEPT"
    IN  Cardinality({k \in DOMAIN sq : Data(sq[k].data)})
        + Cardinality(UNION {{q} \X (1 .. inflight[q]) :
                               q \in {q \in DOMAIN inflight : Data(q.data)}})
        + Cardinality({k \in DOMAIN Unhandled :
                         \/ Data(Unhandled[k].data)
                         \/ /\ Unhandled[k].data = ConnInfo(1, "ACCEPT")
                            /\ Unhandled[k].res = f})

(* While clients wait for their replies, every open connection has exactly *)
(* one recv or send going, and a descriptor that is not open has none: the *)
(* pair in the user data names one connection.                             *)
OneRequestEach ==
    Faults = {} =>
       \A f \in Fd : /\ fds[f] \in Client => OnDescriptor(f) = 1
                     /\ fds[f] = Closed => OnDescriptor(f) = 0

(* Byte b was sent by a client and received. *)
Genuine(b) == \E d \in Client : \E k \in 1 .. taken[d] : b = <<d, k>>

(* A client gets back its own bytes, in order and none missing, whatever   *)
(* becomes of it, as long as the others send nothing.  A send that is cut  *)
(* short is not repeated, so that bytes would be missing.  When several    *)
(* send, a receive may overwrite what another connection has not sent yet, *)
(* and a client may get the bytes of another one; without faults it still  *)
(* gets no more than was received from it, and nothing no client sent.     *)
EchoIntegrity ==
    /\ "short_send" \notin Faults =>
          \A c \in Client : (\A d \in Client \ {c} : sent[d] = 0) =>
             \A k \in DOMAIN echo[c] : echo[c][k] = <<c, k>>
    /\ Faults = {} =>
          \A c \in Client : /\ Len(echo[c]) <= taken[c]
                            /\ \A k \in DOMAIN echo[c] : Genuine(echo[c][k])
=============================================================================
