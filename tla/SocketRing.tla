----------------------------- MODULE SocketRing -----------------------------
(***************************************************************************)
(* The environment of the io_uring socket servers: the ring, the file      *)
(* descriptor table, the TCP connections and the clients.  None of it is   *)
(* code of this repository; it is modelled from the way the servers use    *)
(* liburing and sockets.                                                   *)
(*                                                                         *)
(* Each client connects once and sends a bounded number of bytes; byte k   *)
(* of client c is the pair <<c, k>>, so that an echo can be traced back.   *)
(***************************************************************************)
EXTENDS Integers, Sequences, FiniteSets

CONSTANTS Client,
          MaxFd,        \* descriptors are 0 .. MaxFd; 0 is stdin, 1 the listener
          MaxBytes,     \* bytes a client may send
          MAXLINE,      \* size of a receive buffer
          NULL,
          Closed,       \* what a descriptor that is not open refers to
          Stdin, Listen,
          FaultSets     \* what may happen in a run: one of these sets, made of
                        \* "accept_error", "short_send", "reset", "slow_reader", a
                        \* client that need not read, and "early_close", one that
                        \* leaves before it has all its bytes back

(* Descriptors 0 and 1 are open from the start, and what a descriptor may  *)
(* refer to besides a client is neither a client nor the same.             *)
ASSUME RingAssumption ==
    /\ MaxFd \in Nat \ {0} /\ MaxBytes \in Nat /\ MAXLINE \in Nat \ {0}
    /\ IsFiniteSet(Client) /\ {Closed, Stdin, Listen} \cap Client = {}
    /\ Closed # Stdin /\ Closed # Listen /\ Stdin # Listen

VARIABLES Faults,       \* what may happen
          sq,           \* requests queued, a FIFO
          inflight,     \* requests the kernel has taken, each with their number
          cq,           \* completions [data, res], a FIFO
          fds,          \* what each descriptor refers to
          conn,         \* state of each client's connection
          sent, taken,  \* bytes a client sent, and bytes recv took of them
          echo,         \* what a client got back
          mem           \* content of the receive buffers

net  == <<Faults, conn, sent, taken, echo>>
ring == <<sq, inflight, cq>>
env  == <<ring, fds, net, mem>>

EBADF      == -9
EMFILE     == -24
EPIPE      == -32
ENOTSOCK   == -88
ECONNRESET == -104

Fd == 0 .. MaxFd
Free == {f \in Fd : fds[f] = Closed}
Lowest(S) == CHOOSE f \in S : \A g \in S : f <= g

Blank == [k \in 1 .. MAXLINE |-> NULL]

EnvInit(Buffers) ==
    /\ Faults \in FaultSets
    /\ sq = <<>> /\ inflight = [q \in {} |-> 0] /\ cq = <<>>
    /\ fds = [f \in Fd |-> IF f = 0 THEN Stdin ELSE IF f = 1 THEN Listen ELSE Closed]
    /\ conn = [c \in Client |-> "idle"]
    /\ sent = [c \in Client |-> 0] /\ taken = [c \in Client |-> 0]
    /\ echo = [c \in Client |-> <<>>]
    /\ mem = [b \in Buffers |-> Blank]

(* A request: what to do, on which descriptor (the file it refers to is    *)
(* looked up when it is submitted), with which buffer, and its user data.  *)
Request(op, fd, buf, len, data) ==
    [op |-> op, fd |-> fd, file |-> Closed, buf |-> buf, len |-> len, data |-> data]
Nop(data)              == Request("nop", 0, NULL, 0, data)
Accept(fd, data)       == Request("accept", fd, NULL, 0, data)
Recv(fd, b, len, data) == Request("recv", fd, b, len, data)
Send(fd, b, len, data) == Request("send", fd, b, len, data)

(* io_uring_submit: the whole queue goes to the kernel. *)
Resolve(q) == [q EXCEPT !.file = fds[q.fd]]

SubmitAll ==
    /\ inflight' = [q \in DOMAIN inflight \cup {Resolve(sq[k]) : k \in DOMAIN sq} |->
                      (IF q \in DOMAIN inflight THEN inflight[q] ELSE 0)
                      + Cardinality({k \in DOMAIN sq : Resolve(sq[k]) = q})]
    /\ sq' = <<>>

-----------------------------------------------------------------------------
(* The clients. *)

ClientConnect(c) == /\ conn[c] = "idle"
                    /\ conn' = [conn EXCEPT ![c] = "pending"]
                    /\ UNCHANGED <<ring, fds, Faults, sent, taken, echo, mem>>

ClientSend(c) == /\ conn[c] = "open" /\ sent[c] < MaxBytes
                 /\ sent' = [sent EXCEPT ![c] = @ + 1]
                 /\ UNCHANGED <<ring, fds, Faults, conn, taken, echo, mem>>

ClientLeave(c) == /\ conn[c] = "open"
                  /\ \/ /\ "early_close" \in Faults \/ Len(echo[c]) = sent[c]
                        /\ conn' = [conn EXCEPT ![c] = "closed"]
                     \/ "reset" \in Faults /\ conn' = [conn EXCEPT ![c] = "reset"]
                  /\ UNCHANGED <<ring, fds, Faults, sent, taken, echo, mem>>

ClientStep(c) == ClientConnect(c) \/ ClientSend(c) \/ ClientLeave(c)

-----------------------------------------------------------------------------
(* The kernel completes one of the requests it has, in any order. *)

Post(q, r) == /\ inflight' = [p \in {p \in DOMAIN inflight : p # q \/ inflight[p] > 1} |->
                                 IF p = q THEN inflight[p] - 1 ELSE inflight[p]]
              /\ cq' = Append(cq, [data |-> q.data, res |-> r])
              /\ UNCHANGED sq

OnConn(q) == q.file \in Client

KernelNop(q) == /\ q.op = "nop"
                /\ Post(q, 0)
                /\ UNCHANGED <<fds, net, mem>>

KernelAccept(q) == /\ q.op = "accept" /\ q.file = Listen
                   /\ Free # {}
                   /\ \E c \in Client :
                         /\ conn[c] = "pending"
                         /\ conn' = [conn EXCEPT ![c] = "open"]
                         /\ fds' = [fds EXCEPT ![Lowest(Free)] = c]
                   /\ Post(q, Lowest(Free))
                   /\ UNCHANGED <<Faults, sent, taken, echo, mem>>

KernelRecv(q) ==
    /\ q.op = "recv" /\ OnConn(q)
    /\ LET c == q.file
           n == IF sent[c] - taken[c] < q.len THEN sent[c] - taken[c] ELSE q.len
       IN \/ /\ n > 0 /\ conn[c] # "reset"
             /\ Post(q, n)
             /\ taken' = [taken EXCEPT ![c] = @ + n]
             /\ mem' = [mem EXCEPT ![q.buf] =
                          [x \in 1 .. MAXLINE |-> IF x <= n THEN <<c, taken[c] + x>> ELSE @[x]]]
          \/ /\ n = 0 /\ conn[c] = "closed"
             /\ Post(q, 0) /\ UNCHANGED <<taken, mem>>
          \/ /\ conn[c] = "reset"
             /\ Post(q, ECONNRESET) /\ UNCHANGED <<taken, mem>>
    /\ UNCHANGED <<fds, Faults, conn, sent, echo>>

KernelSend(q) ==
    /\ q.op = "send" /\ OnConn(q)
    /\ LET c == q.file
       IN \/ /\ conn[c] # "reset"
             /\ \E n \in IF "short_send" \in Faults THEN 1 .. q.len ELSE {q.len} :
                   /\ echo' = [echo EXCEPT ![c] = @ \o SubSeq(mem[q.buf], 1, n)]
                   /\ Post(q, n)
          \/ conn[c] # "open" /\ Post(q, EPIPE) /\ UNCHANGED echo
    /\ UNCHANGED <<fds, Faults, conn, sent, taken, mem>>

(* Requests that cannot be carried out: an accept without a descriptor for *)
(* the connection or with an aborted connection, a request on a closed     *)
(* descriptor, a socket operation on something else.                       *)
KernelRefuse(q) ==
    /\ \/ q.op = "accept" /\ q.file = Listen /\ Free = {} /\ Post(q, EMFILE)
       \/ q.op = "accept" /\ q.file = Listen /\ "accept_error" \in Faults /\ Post(q, EMFILE)
       \/ q.op # "nop" /\ q.file = Closed /\ Post(q, EBADF)
       \/ q.op # "nop" /\ q.file = Stdin /\ Post(q, ENOTSOCK)
    /\ UNCHANGED <<fds, net, mem>>

KernelStep(q) == \/ KernelNop(q) \/ KernelAccept(q) \/ KernelRecv(q)
                 \/ KernelSend(q) \/ KernelRefuse(q)
=============================================================================
