----------------------- MODULE SocketUringServerProofs -----------------------
(***************************************************************************)
(* Theorems about SocketUringServer, for every set of clients, size of the *)
(* descriptor table and of a buffer, and every set of faults.              *)
(***************************************************************************)
EXTENDS SocketUringServer, FiniteSetTheorems, TLAPS

(* The records on the heap. *)
Live == {a \in Info : heap[a] # NULL}
Connection(a) == a \in Live /\ heap[a].event # "ACCEPT"
Peer(a) == fds[heap[a].connfd]

Cell    == (Client \X Nat) \cup {NULL}
Files   == Client \cup {Closed, Stdin, Listen}
Datum   == Info \cup {NULL}
Ops     == {"nop", "accept", "recv", "send"}
Completions == [data : Datum, res : Int]
Requests == [op : Ops, fd : Fd, file : Files, buf : Datum, len : 0 .. MAXLINE, data : Datum]

-----------------------------------------------------------------------------
(* The inductive invariant. *)

Shapes ==
    /\ sq \in Seq(Requests) /\ cq \in Seq(Completions)
    /\ DOMAIN inflight \subseteq Requests /\ inflight \in [DOMAIN inflight -> Nat \ {0}]
    /\ fds \in [Fd -> Files] /\ fds[0] = Stdin /\ fds[1] = Listen
    /\ conn \in [Client -> {"idle", "pending", "open", "closed", "reset"}]
    /\ sent \in [Client -> Nat] /\ taken \in [Client -> Nat]
    /\ \A c \in Client : taken[c] <= sent[c]
    /\ echo \in [Client -> Seq(Cell)]
    /\ mem \in [Info -> [1 .. MAXLINE -> Cell]]
    /\ heap \in [Info -> ConnInfos \cup {NULL}]
    /\ pc \in {"main", "submit", "wait", "handle", "exit"}
    /\ i \in Nat \ {0} /\ cqecount \in Nat
    /\ pc = "handle" => cqecount <= Len(cq) /\ i <= cqecount + 1
    /\ pc = "main" => Live = {}

(* A record is the user data of one request or completion. *)
Queued(a)    == \E k \in DOMAIN sq : sq[k].data = a
InKernel(a)  == \E q \in DOMAIN inflight : q.data = a
Completed(a) == \E k \in Unhandled : cq[k].data = a

Owned ==
    /\ \A j, k \in DOMAIN sq : sq[j].data = sq[k].data /\ sq[j].data # NULL => j = k
    /\ \A p, q \in DOMAIN inflight :
          p.data = q.data /\ p.data # NULL => p = q /\ inflight[q] = 1
    /\ \A j, k \in Unhandled : cq[j].data = cq[k].data /\ cq[j].data # NULL => j = k
    /\ \A a \in Info : /\ ~(Queued(a) /\ InKernel(a))
                       /\ ~(Queued(a) /\ Completed(a))
                       /\ ~(InKernel(a) /\ Completed(a))
                       /\ a \in Live <=> Queued(a) \/ InKernel(a) \/ Completed(a)

(* A request is the one its record tells. *)
Told(q) ==
    /\ q.fd = heap[q.data].connfd
    /\ heap[q.data].event = "ACCEPT" => q.op = "accept"
    /\ heap[q.data].event = "READ" => q.op = "recv"
    /\ heap[q.data].event = "WRITE" => q.op = "send"
    /\ heap[q.data].event # "ACCEPT" =>
          q.buf = q.data /\ q.len = heap[q.data].buffer_length

Asked ==
    /\ \A k \in DOMAIN sq : IF sq[k].data = NULL THEN sq[k].op = "nop" ELSE Told(sq[k])
    /\ \A q \in DOMAIN inflight : IF q.data = NULL THEN q.op = "nop"
                                  ELSE Told(q) /\ q.file = fds[q.fd]
    /\ \A a \in Live : IF Connection(a) THEN heap[a].buffer_length > 0
                       ELSE heap[a].connfd = 1

(* Completion k is that of an accept that made a connection. *)
Made(k) == cq[k].data # NULL /\ heap[cq[k].data].event = "ACCEPT" /\ cq[k].res >= 0

Descriptors ==
    /\ \A a, b \in Live : heap[a].event = "ACCEPT" /\ heap[b].event = "ACCEPT" => a = b
    /\ \A a \in Info : Connection(a) => Peer(a) \in Client
    /\ \A a, b \in Info : Connection(a) /\ Connection(b) /\ heap[a].connfd = heap[b].connfd
                             => a = b
    /\ \A k \in Unhandled : Made(k) =>
          /\ cq[k].res \in Fd /\ fds[cq[k].res] \in Client
          /\ \A a \in Info : Connection(a) => heap[a].connfd # cq[k].res
    /\ \A f \in Fd : fds[f] \in Client =>
          \/ \E a \in Info : Connection(a) /\ heap[a].connfd = f
          \/ \E k \in Unhandled : Made(k) /\ cq[k].res = f
    /\ \A f, g \in Fd : fds[f] \in Client /\ fds[f] = fds[g] => f = g
    /\ \A f \in Fd : fds[f] \in Client => conn[fds[f]] \notin {"idle", "pending"}

(* Client c has got the bytes before the last n that were received, or     *)
(* when sends are cut short some of them.                                  *)
Behind(c, n) ==
    /\ n <= taken[c]
    /\ \A k \in DOMAIN echo[c] : echo[c][k][2] <= taken[c] - n
    /\ "short_send" \notin Faults => Len(echo[c]) = taken[c] - n

(* The buffer of record a has the last n bytes of its client. *)
Holds(a, n) == /\ n \in 1 .. MAXLINE /\ Behind(Peer(a), n)
               /\ \A x \in 1 .. n : mem[a][x] = <<Peer(a), taken[Peer(a)] - n + x>>

(* What client c has got, and how a connection stands while its request is *)
(* on its way and once it is answered with n bytes.                        *)
Echoed(c) ==
    /\ \A k \in DOMAIN echo[c] :
          /\ echo[c][k] \in {c} \X (1 .. taken[c])
          /\ \A j \in 1 .. k - 1 : echo[c][j][2] < echo[c][k][2]
          /\ "short_send" \notin Faults => echo[c][k] = <<c, k>>
    /\ conn[c] \in {"idle", "pending"} => taken[c] = 0 /\ echo[c] = <<>>
Waiting(a) ==
    IF heap[a].event = "READ" THEN Behind(Peer(a), 0) ELSE Holds(a, heap[a].buffer_length)
Answered(a, n) == /\ heap[a].event = "READ" => Holds(a, n)
                  /\ heap[a].event = "WRITE" => Behind(Peer(a), 0)

Echoes ==
    /\ \A c \in Client : Echoed(c)
    /\ \A k \in Unhandled : Made(k) => Behind(fds[cq[k].res], 0)
    /\ \A a \in Info : Connection(a) /\ ~Completed(a) => Waiting(a)
    /\ \A k \in Unhandled : cq[k].data # NULL /\ cq[k].res > 0 => Answered(cq[k].data, cq[k].res)

ServerInv == Shapes /\ Owned /\ Asked /\ Descriptors /\ Echoes

-----------------------------------------------------------------------------
(* What the steps do to the ring. *)

LEMMA Requested ==
    ASSUME NEW fd \in Fd, NEW b \in Datum, NEW n \in 0 .. MAXLINE, NEW d \in Datum, Shapes
    PROVE  /\ Recv(fd, b, n, d) \in Requests /\ Send(fd, b, n, d) \in Requests
           /\ Accept(fd, d) \in Requests /\ Nop(d) \in Requests
BY RingAssumption DEF Recv, Send, Accept, Nop, Request, Requests, Datum, Ops, Files, Fd

(* The kernel posts the completion of request q. *)
LEMMA Posted ==
    ASSUME Shapes, NEW q \in DOMAIN inflight, NEW r \in Int, Post(q, r), UNCHANGED <<pc, i>>
    PROVE  /\ sq' = sq
           /\ cq' \in Seq(Completions) /\ Len(cq') = Len(cq) + 1
           /\ Unhandled' = Unhandled \cup {Len(cq) + 1} /\ Len(cq) + 1 \notin Unhandled
           /\ \A k \in Unhandled : cq'[k] = cq[k]
           /\ cq'[Len(cq) + 1] = [data |-> q.data, res |-> r]
           /\ DOMAIN inflight' \subseteq DOMAIN inflight
           /\ \A p \in DOMAIN inflight : p # q => p \in DOMAIN inflight' /\ inflight'[p] = inflight[p]
           /\ inflight' \in [DOMAIN inflight' -> Nat \ {0}]
           /\ inflight[q] = 1 => q \notin DOMAIN inflight'
<1>1. q.data \in Datum /\ [data |-> q.data, res |-> r] \in Completions
  BY DEF Shapes, Requests, Completions
<1>2. /\ cq' \in Seq(Completions) /\ Len(cq') = Len(cq) + 1
      /\ \A k \in 1 .. Len(cq) : cq'[k] = cq[k]
      /\ cq'[Len(cq) + 1] = [data |-> q.data, res |-> r]
  BY <1>1 DEF Shapes, Post
<1>3. /\ Unhandled' = Unhandled \cup {Len(cq) + 1} /\ Len(cq) + 1 \notin Unhandled
      /\ Unhandled \subseteq 1 .. Len(cq)
  BY <1>2 DEF Shapes, Unhandled
<1>4. /\ DOMAIN inflight' \subseteq DOMAIN inflight
      /\ \A p \in DOMAIN inflight : p # q => p \in DOMAIN inflight' /\ inflight'[p] = inflight[p]
      /\ inflight' \in [DOMAIN inflight' -> Nat \ {0}]
      /\ inflight[q] = 1 => q \notin DOMAIN inflight'
  BY DEF Post, Shapes
<1> QED
  BY <1>2, <1>3, <1>4 DEF Post

(* The kernel takes what is queued. *)
LEMMA Submitted ==
    ASSUME Shapes, Owned, SubmitAll
    PROVE  /\ DOMAIN inflight' = DOMAIN inflight \cup {Resolve(sq[k]) : k \in DOMAIN sq}
           /\ inflight' \in [DOMAIN inflight' -> Nat \ {0}]
           /\ \A q \in DOMAIN inflight' : q.data # NULL => inflight'[q] = 1
           /\ \A k \in DOMAIN sq : /\ Resolve(sq[k]) \in Requests
                                   /\ Resolve(sq[k]).data = sq[k].data
                                   /\ Resolve(sq[k]).op = sq[k].op
                                   /\ Resolve(sq[k]).fd = sq[k].fd
                                   /\ Resolve(sq[k]).buf = sq[k].buf
                                   /\ Resolve(sq[k]).len = sq[k].len
                                   /\ Resolve(sq[k]).file = fds[sq[k].fd]
           /\ sq' = <<>>
<1> DEFINE Of(q) == {k \in DOMAIN sq : Resolve(sq[k]) = q}
           R == {Resolve(sq[k]) : k \in DOMAIN sq}
<1>1. \A k \in DOMAIN sq : /\ Resolve(sq[k]) \in Requests
                           /\ Resolve(sq[k]).data = sq[k].data
                           /\ Resolve(sq[k]).op = sq[k].op
                           /\ Resolve(sq[k]).fd = sq[k].fd
                           /\ Resolve(sq[k]).buf = sq[k].buf
                           /\ Resolve(sq[k]).len = sq[k].len
                           /\ Resolve(sq[k]).file = fds[sq[k].fd]
  <2>1. ASSUME NEW q \in Requests
        PROVE  /\ Resolve(q) \in Requests
               /\ Resolve(q).data = q.data /\ Resolve(q).op = q.op /\ Resolve(q).fd = q.fd
               /\ Resolve(q).buf = q.buf /\ Resolve(q).len = q.len /\ Resolve(q).file = fds[q.fd]
    <3>1. q.fd \in Fd /\ fds[q.fd] \in Files
      BY DEF Shapes, Requests
    <3> DEFINE f == fds[q.fd]
    <3>2. f \in Files /\ Resolve(q) = [q EXCEPT !.file = f]
      BY <3>1, Zenon DEF Resolve
    <3> HIDE DEF f
    <3>3. /\ [q EXCEPT !.file = f] \in Requests
          /\ [q EXCEPT !.file = f].data = q.data /\ [q EXCEPT !.file = f].op = q.op
          /\ [q EXCEPT !.file = f].fd = q.fd /\ [q EXCEPT !.file = f].buf = q.buf
          /\ [q EXCEPT !.file = f].len = q.len /\ [q EXCEPT !.file = f].file = f
      BY <3>2 DEF Requests
    <3> QED
      BY <3>2, <3>3 DEF f
  <2>2. \A k \in DOMAIN sq : sq[k] \in Requests
    BY DEF Shapes
  <2> QED
    BY <2>1, <2>2
<1>2. \A q : Cardinality(Of(q)) \in Nat /\ (Cardinality(Of(q)) = 0 <=> q \notin R)
  <2> SUFFICES ASSUME NEW q
               PROVE  Cardinality(Of(q)) \in Nat /\ (Cardinality(Of(q)) = 0 <=> q \notin R)
    OBVIOUS
  <2>1. DOMAIN sq = 1 .. Len(sq) /\ Len(sq) \in Nat
    BY DEF Shapes
  <2>2. (Of(q) = {} <=> q \notin R) /\ Of(q) \in SUBSET (1 .. Len(sq))
    BY <2>1
  <2> HIDE DEF Of, R
  <2>3. IsFiniteSet(Of(q))
    <3>1. IsFiniteSet(1 .. Len(sq))
      BY <2>1, FS_Interval
    <3> QED
      BY <2>2, <3>1, FS_Subset
  <2> QED
    BY <2>2, <2>3, FS_EmptySet, FS_CardinalityType
<1>3. \A q \in R : q.data # NULL => Cardinality(Of(q)) = 1
  <2> SUFFICES ASSUME NEW k \in DOMAIN sq, sq[k].data # NULL
               PROVE  Cardinality(Of(Resolve(sq[k]))) = 1
    BY <1>1
  <2>1. \A j \in DOMAIN sq : Resolve(sq[j]) = Resolve(sq[k]) => j = k
    BY <1>1 DEF Owned
  <2>2. Of(Resolve(sq[k])) = {k}
    BY <2>1
  <2> HIDE DEF Of
  <2> QED
    BY <2>2, FS_Singleton
<1>4. inflight' = [q \in DOMAIN inflight \cup R |->
                     (IF q \in DOMAIN inflight THEN inflight[q] ELSE 0) + Cardinality(Of(q))]
  BY DEF SubmitAll
<1>5. \A q \in R : q.data # NULL => q \notin DOMAIN inflight
  <2> SUFFICES ASSUME NEW k \in DOMAIN sq, sq[k].data # NULL, Resolve(sq[k]) \in DOMAIN inflight
               PROVE  FALSE
    BY <1>1
  <2>1. sq[k].data \in Info
    BY <1>1 DEF Requests, Datum
  <2> QED
    BY <1>1, <2>1 DEF Owned, Queued, InKernel
<1> HIDE DEF Of, R
<1>6. /\ DOMAIN inflight' = DOMAIN inflight \cup R
      /\ \A q \in DOMAIN inflight' :
            inflight'[q] = (IF q \in DOMAIN inflight THEN inflight[q] ELSE 0)
                           + Cardinality(Of(q))
  BY <1>4
<1>7. inflight' \in [DOMAIN inflight' -> Nat \ {0}]
  <2>1. \A q \in DOMAIN inflight' : inflight'[q] \in Nat \ {0}
    <3> SUFFICES ASSUME NEW q \in DOMAIN inflight' PROVE inflight'[q] \in Nat \ {0}
      OBVIOUS
    <3>1. Cardinality(Of(q)) \in Nat /\ (Cardinality(Of(q)) = 0 <=> q \notin R)
      BY <1>2
    <3> QED
      BY <1>6, <3>1 DEF Shapes
  <2>2. inflight' = [q \in DOMAIN inflight' |-> inflight'[q]]
    BY <1>4
  <2> QED
    BY <2>1, <2>2
<1>8. \A q \in DOMAIN inflight' : q.data # NULL => inflight'[q] = 1
  <2> SUFFICES ASSUME NEW q \in DOMAIN inflight', q.data # NULL PROVE inflight'[q] = 1
    OBVIOUS
  <2>1. CASE q \in R
    BY <1>3, <1>5, <1>6, <2>1
  <2>2. CASE q \notin R
    <3>1. Cardinality(Of(q)) = 0
      BY <1>2, <2>2
    <3> QED
      BY <1>6, <2>2, <3>1 DEF Owned
  <2> QED
    BY <2>1, <2>2
<1> QED
  BY <1>1, <1>6, <1>7, <1>8 DEF R, SubmitAll

(* The completions of a batch are given back. *)
LEMMA Advanced ==
    ASSUME Shapes, Advance
    PROVE  /\ cq' \in Seq(Completions)
           /\ \A k \in Unhandled' : k + cqecount \in Unhandled /\ cq'[k] = cq[k + cqecount]
           /\ \A k \in Unhandled : k - cqecount \in Unhandled' /\ cq'[k - cqecount] = cq[k]
<1>1. i = cqecount + 1 /\ cqecount \in 0 .. Len(cq) /\ cq \in Seq(Completions)
  BY DEF Advance, Shapes
<1>2. cq' = SubSeq(cq, cqecount + 1, Len(cq)) /\ pc = "handle" /\ pc' = "submit"
  BY DEF Advance
<1>3. /\ cq' \in Seq(Completions) /\ Len(cq') = Len(cq) - cqecount
      /\ \A k \in 1 .. Len(cq) - cqecount : cq'[k] = cq[k + cqecount]
  <2>1. cq \in Seq(Completions) /\ cqecount \in 0 .. Len(cq) /\ cq' = SubSeq(cq, cqecount + 1, Len(cq))
    BY <1>1, <1>2
  <2>2. /\ cq' \in Seq(Completions) /\ Len(cq') = Len(cq) - cqecount
        /\ \A k \in 1 .. Len(cq) - cqecount : cq'[k] = cq[k + cqecount]
    BY <2>1
  <2> QED
    BY <2>2
<1>4. Unhandled = cqecount + 1 .. Len(cq) /\ Unhandled' = 1 .. Len(cq) - cqecount
  BY <1>1, <1>2, <1>3 DEF Unhandled
<1>5. ASSUME NEW k \in Unhandled'
      PROVE  k + cqecount \in Unhandled /\ cq'[k] = cq[k + cqecount]
  <2>1. k \in 1 .. Len(cq) - cqecount /\ k + cqecount \in Unhandled
    BY <1>1, <1>4
  <2> QED
    BY <1>3, <2>1
<1>6. ASSUME NEW k \in Unhandled
      PROVE  k - cqecount \in Unhandled' /\ cq'[k - cqecount] = cq[k]
  <2>1. k - cqecount \in 1 .. Len(cq) - cqecount /\ (k - cqecount) + cqecount = k
    BY <1>1, <1>4
  <2> QED
    BY <1>3, <1>4, <2>1
<1> QED
  BY <1>3, <1>5, <1>6

(* One completion is handled. *)
LEMMA Handles ==
    ASSUME Shapes, Handling, Handled
    PROVE  /\ i \in Unhandled /\ Unhandled' = Unhandled \ {i} /\ cq' = cq
           /\ ci \in Datum /\ res \in Int
<1>1. i \in 1 .. Len(cq) /\ pc = "handle" /\ pc' = "handle" /\ i' = i + 1 /\ cq' = cq /\ Len(cq) \in Nat
  BY DEF Shapes, Handling, Handled
<1>2. i \in Unhandled /\ Unhandled' = Unhandled \ {i}
  BY <1>1 DEF Unhandled
<1>3. cq[i] \in Completions
  BY <1>1 DEF Shapes
<1> QED
  BY <1>1, <1>2, <1>3 DEF ci, res, Completions

(* The record of the completion at hand is on the heap. *)
LEMMA AtHand ==
    ASSUME Shapes, Owned, Handling, Handled, ci # NULL
    PROVE  /\ ci \in Info /\ ci \in Live /\ heap[ci] \in ConnInfos /\ Completed(ci)
           /\ ~Queued(ci) /\ ~InKernel(ci)
           /\ \A k \in Unhandled' : cq[k].data # ci
           /\ \A k \in Unhandled : k # i => cq[k].data # ci
<1>1. i \in Unhandled /\ Unhandled' = Unhandled \ {i} /\ ci \in Info
  BY Handles DEF Datum
<1>2. Completed(ci)
  BY <1>1 DEF Completed, ci
<1>3. ci \in Live /\ ~Queued(ci) /\ ~InKernel(ci)
  BY <1>1, <1>2 DEF Owned
<1>4. \A k \in Unhandled : k # i => cq[k].data # ci
  BY <1>1, EnoughMemory DEF Owned, ci
<1> QED
  BY <1>1, <1>2, <1>3, <1>4 DEF Live, Shapes

(* When a connection was made there are two free records: the clients that *)
(* have one and the one that was accepted now are different clients.       *)
LEMMA RoomForTwo ==
    ASSUME Shapes, Owned, Descriptors, Event("ACCEPT"), res >= 0, Handled,
           NEW a, a = Malloc(Info), NEW b, b = Malloc(Info \ {a})
    PROVE  a \in Info /\ b \in Info /\ a # b /\ heap[a] = NULL /\ heap[b] = NULL
<1> DEFINE f == [x \in Live |-> IF heap[x].event = "ACCEPT" THEN fds[res] ELSE Peer(x)]
<1>1. ci \in Live /\ i \in Unhandled /\ Made(i) /\ res = cq[i].res
  BY AtHand, Handles DEF Event, Made, ci, res
<1>2. /\ res \in Fd /\ fds[res] \in Client
      /\ \A x \in Live : heap[x].event # "ACCEPT" => Peer(x) \in Client /\ heap[x].connfd # res
                                                   /\ heap[x].connfd \in Fd
  BY <1>1 DEF Descriptors, Connection, Live, Shapes, ConnInfos
<1>3. f \in [Live -> Client]
  BY <1>2
<1>4. ASSUME NEW x \in Live, NEW y \in Live, f[x] = f[y]
      PROVE  x = y
  <2>1. CASE heap[x].event = "ACCEPT" /\ heap[y].event = "ACCEPT"
    BY <2>1 DEF Descriptors
  <2>2. CASE heap[x].event # "ACCEPT" /\ heap[y].event # "ACCEPT"
    <3>1. Peer(x) = Peer(y)
      BY <1>4, <2>2
    <3>2. heap[x].connfd = heap[y].connfd
      BY <1>2, <2>2, <3>1 DEF Descriptors, Peer
    <3> QED
      BY <2>2, <3>2 DEF Descriptors, Connection, Live
  <2>3. CASE heap[x].event = "ACCEPT" /\ heap[y].event # "ACCEPT"
    BY <1>2, <1>4, <2>3 DEF Descriptors, Peer
  <2>4. CASE heap[x].event # "ACCEPT" /\ heap[y].event = "ACCEPT"
    BY <1>2, <1>4, <2>4 DEF Descriptors, Peer
  <2> QED
    BY <2>1, <2>2, <2>3, <2>4
<1>5. IsFiniteSet(Live) /\ Cardinality(Live) <= Cardinality(Client)
  <2>1. IsFiniteSet(Client) /\ IsFiniteSet(Live)
    <3>1. Live \in SUBSET Info /\ IsFiniteSet(Info)
      BY EnoughMemory DEF Live
    <3> QED
      BY <3>1, RingAssumption, FS_Subset
  <2>2. Cardinality(Client) \in Nat /\ Cardinality(Live) \in Nat
    BY <2>1, FS_CardinalityType
  <2> HIDE DEF f
  <2>3. ~(Cardinality(Client) < Cardinality(Live))
    BY <1>3, <1>4, <2>1, FS_PigeonHole
  <2> QED
    BY <2>1, <2>2, <2>3
<1> HIDE DEF f
<1>6. /\ Cardinality(Info) \in Nat /\ Cardinality(Client) \in Nat /\ Cardinality(Live) \in Nat
      /\ Cardinality(Info) >= Cardinality(Client) + 2
  BY <1>5, FS_CardinalityType, RingAssumption, EnoughMemory
<1>7. \E x \in Info : heap[x] = NULL
  <2>1. ASSUME \A x \in Info : heap[x] # NULL PROVE FALSE
    <3>1. Info = Live
      BY <2>1 DEF Live
    <3> QED
      BY <1>5, <1>6, <3>1
  <2> QED
    BY <2>1
<1>8. a \in Info /\ heap[a] = NULL
  BY <1>7 DEF Malloc
<1>9. \E x \in Info \ {a} : heap[x] = NULL
  <2>1. ASSUME \A x \in Info \ {a} : heap[x] # NULL PROVE FALSE
    <3>1. Info = Live \cup {a}
      BY <1>8, <2>1 DEF Live
    <3>2. Cardinality(Live \cup {a}) <= Cardinality(Live) + 1
      <4>1. a \notin Live
        BY <1>8 DEF Live
      <4>2. Cardinality(Live \cup {a}) = Cardinality(Live) + 1
        BY <1>5, <4>1, FS_AddElement
      <4> QED
        BY <1>6, <4>2
    <3>3. Cardinality(Info) <= Cardinality(Live) + 1
      BY <3>1, <3>2
    <3> QED
      BY <1>5, <1>6, <3>3
  <2> QED
    BY <2>1
<1>10. b \in Info \ {a} /\ heap[b] = NULL
  BY <1>9 DEF Malloc
<1> QED
  BY <1>8, <1>10

(* There is memory for the first accept. *)
LEMMA RoomForOne ==
    ASSUME Live = {}, NEW a, a = Malloc(Info)
    PROVE  a \in Info
<1>1. Info # {}
  <2>1. Cardinality(Info) # 0
    BY EnoughMemory, RingAssumption, FS_CardinalityType
  <2> QED
    BY <2>1, FS_EmptySet
<1>2. \E x \in Info : heap[x] = NULL
  BY <1>1 DEF Live
<1> QED
  BY <1>2 DEF Malloc

-----------------------------------------------------------------------------
(* Ownership of the records. *)

LEMMA PostOwned ==
    ASSUME Shapes, Owned, NEW q \in DOMAIN inflight, NEW r \in Int, Post(q, r),
           UNCHANGED <<pc, i, heap>>
    PROVE  Owned'
<1> DEFINE n == Len(cq) + 1
<1>1. /\ sq' = sq
      /\ Unhandled' = Unhandled \cup {n} /\ n \notin Unhandled
      /\ \A k \in Unhandled : cq'[k] = cq[k]
      /\ cq'[n].data = q.data
      /\ DOMAIN inflight' \subseteq DOMAIN inflight
      /\ \A p \in DOMAIN inflight : p # q => p \in DOMAIN inflight' /\ inflight'[p] = inflight[p]
      /\ inflight[q] = 1 => q \notin DOMAIN inflight'
  <2>1. cq'[n] = [data |-> q.data, res |-> r]
    BY Posted
  <2>2. cq'[n].data = q.data
    BY <2>1
  <2> QED
    BY Posted, <2>2
<1> HIDE DEF n
<1>2. q.data \in Datum /\ (q.data # NULL => q \notin DOMAIN inflight' /\ q.data \in Info /\ InKernel(q.data))
  BY <1>1 DEF Shapes, Requests, Datum, Owned, InKernel
<1>3. \A a \in Info : /\ Queued(a)' <=> Queued(a)
                      /\ InKernel(a)' <=> InKernel(a) /\ a # q.data
                      /\ Completed(a)' <=> Completed(a) \/ a = q.data
                      /\ a \in Live' <=> a \in Live
  <2> SUFFICES ASSUME NEW a \in Info
               PROVE  /\ Queued(a)' <=> Queued(a)
                      /\ InKernel(a)' <=> InKernel(a) /\ a # q.data
                      /\ Completed(a)' <=> Completed(a) \/ a = q.data
                      /\ a \in Live' <=> a \in Live
    OBVIOUS
  <2>1. Queued(a)' <=> Queued(a)
    BY <1>1 DEF Queued
  <2>2. InKernel(a)' <=> InKernel(a) /\ a # q.data
    BY <1>1, <1>2, EnoughMemory DEF InKernel, Owned
  <2>3. Completed(a)' <=> Completed(a) \/ a = q.data
    BY <1>1 DEF Completed
  <2>4. a \in Live' <=> a \in Live
    BY DEF Live
  <2> QED
    BY <2>1, <2>2, <2>3, <2>4
<1>4. (\A a \in Info : /\ ~(Queued(a) /\ InKernel(a))
                       /\ ~(Queued(a) /\ Completed(a))
                       /\ ~(InKernel(a) /\ Completed(a))
                       /\ a \in Live <=> Queued(a) \/ InKernel(a) \/ Completed(a))'
  BY <1>2, <1>3, EnoughMemory DEF Owned
<1>5. (\A j, k \in DOMAIN sq : sq[j].data = sq[k].data /\ sq[j].data # NULL => j = k)'
  BY <1>1 DEF Owned
<1>6. (\A p, t \in DOMAIN inflight :
          p.data = t.data /\ p.data # NULL => p = t /\ inflight[t] = 1)'
  BY <1>1, <1>2 DEF Owned
<1>7. (\A j, k \in Unhandled : cq[j].data = cq[k].data /\ cq[j].data # NULL => j = k)'
  <2>1. \A k \in Unhandled : cq[k].data = q.data => q.data = NULL
    BY <1>2 DEF Owned, Completed
  <2> QED
    BY <1>1, <2>1 DEF Owned
<1> QED
  BY <1>4, <1>5, <1>6, <1>7 DEF Owned

LEMMA SubmitOwned ==
    ASSUME Shapes, Owned, Submit
    PROVE  Owned'
<1>1. /\ DOMAIN inflight' = DOMAIN inflight \cup {Resolve(sq[k]) : k \in DOMAIN sq}
      /\ \A q \in DOMAIN inflight' : q.data # NULL => inflight'[q] = 1
      /\ \A k \in DOMAIN sq : Resolve(sq[k]).data = sq[k].data /\ sq[k] \in Requests
      /\ sq' = <<>>
  BY Submitted DEF Submit, Shapes
<1>2. Unhandled' = Unhandled /\ cq' = cq /\ heap' = heap
  BY DEF Submit, Unhandled
<1>3. DOMAIN sq' = {}
  BY <1>1
<1>4. \A a \in Info : /\ ~Queued(a)'
                      /\ InKernel(a)' <=> InKernel(a) \/ Queued(a)
                      /\ Completed(a)' <=> Completed(a)
                      /\ a \in Live' <=> a \in Live
  <2> SUFFICES ASSUME NEW a \in Info
               PROVE  /\ ~Queued(a)'
                      /\ InKernel(a)' <=> InKernel(a) \/ Queued(a)
                      /\ Completed(a)' <=> Completed(a)
                      /\ a \in Live' <=> a \in Live
    OBVIOUS
  <2>1. ~Queued(a)'
    BY <1>3 DEF Queued
  <2>2. InKernel(a)' <=> InKernel(a) \/ Queued(a)
    BY <1>1 DEF InKernel, Queued
  <2>3. Completed(a)' <=> Completed(a)
    BY <1>2 DEF Completed
  <2>4. a \in Live' <=> a \in Live
    BY <1>2 DEF Live
  <2> QED
    BY <2>1, <2>2, <2>3, <2>4
<1>5. (\A a \in Info : /\ ~(Queued(a) /\ InKernel(a))
                       /\ ~(Queued(a) /\ Completed(a))
                       /\ ~(InKernel(a) /\ Completed(a))
                       /\ a \in Live <=> Queued(a) \/ InKernel(a) \/ Completed(a))'
  BY <1>4 DEF Owned
<1>6. (\A p, t \in DOMAIN inflight :
          p.data = t.data /\ p.data # NULL => p = t /\ inflight[t] = 1)'
  <2> SUFFICES ASSUME NEW p \in DOMAIN inflight', NEW t \in DOMAIN inflight',
                      p.data = t.data, p.data # NULL
               PROVE  p = t
    BY <1>1
  <2>1. p.data \in Info
    BY <1>1 DEF Shapes, Requests, Datum
  <2>2. CASE p \in DOMAIN inflight /\ t \in DOMAIN inflight
    BY <2>2 DEF Owned
  <2>3. ~(\E k \in DOMAIN sq : sq[k].data = p.data) \/ ~(\E q \in DOMAIN inflight : q.data = p.data)
    BY <2>1 DEF Owned, Queued, InKernel
  <2>4. CASE \E j, k \in DOMAIN sq : p = Resolve(sq[j]) /\ t = Resolve(sq[k])
    BY <1>1, <2>4 DEF Owned
  <2> QED
    BY <1>1, <2>2, <2>3, <2>4
<1> QED
  BY <1>2, <1>3, <1>5, <1>6 DEF Owned

LEMMA AdvanceOwned ==
    ASSUME Shapes, Owned, Advance
    PROVE  Owned' /\ \A a \in Info : Completed(a)' <=> Completed(a)
<1>1. /\ \A k \in Unhandled' : k + cqecount \in Unhandled /\ cq'[k] = cq[k + cqecount]
      /\ \A k \in Unhandled : k - cqecount \in Unhandled' /\ cq'[k - cqecount] = cq[k]
  BY Advanced
<1>2. sq' = sq /\ inflight' = inflight /\ heap' = heap
  BY DEF Advance
<1>3. \A a \in Info : Completed(a)' <=> Completed(a)
  BY <1>1 DEF Completed
<1>4. \A a \in Info : (Queued(a)' <=> Queued(a)) /\ (InKernel(a)' <=> InKernel(a)) /\ (a \in Live' <=> a \in Live)
  BY <1>2 DEF Queued, InKernel, Live
<1>5. (\A j, k \in Unhandled : cq[j].data = cq[k].data /\ cq[j].data # NULL => j = k)'
  <2> SUFFICES ASSUME NEW j \in Unhandled', NEW k \in Unhandled',
                      cq'[j].data = cq'[k].data, cq'[j].data # NULL
               PROVE  j = k
    OBVIOUS
  <2>1. j + cqecount = k + cqecount
    BY <1>1 DEF Owned
  <2>2. j \in Int /\ k \in Int /\ cqecount \in Int
    BY DEF Unhandled, Shapes
  <2> QED
    BY <2>1, <2>2
<1>6. (\A a \in Info : /\ ~(Queued(a) /\ InKernel(a))
                       /\ ~(Queued(a) /\ Completed(a))
                       /\ ~(InKernel(a) /\ Completed(a))
                       /\ a \in Live <=> Queued(a) \/ InKernel(a) \/ Completed(a))'
  BY <1>3, <1>4 DEF Owned
<1> QED
  BY <1>2, <1>3, <1>5, <1>6 DEF Owned

LEMMA FreeOwned ==
    ASSUME Shapes, Owned, Handling, Handled, sq' = sq,
           IF ci = NULL THEN heap' = heap ELSE heap' = [heap EXCEPT ![ci] = NULL]
    PROVE  Owned'
<1>1. i \in Unhandled /\ Unhandled' = Unhandled \ {i} /\ cq' = cq /\ ci \in Datum /\ inflight' = inflight
  BY Handles DEF Handled
<1>2. ci # NULL => /\ ci \in Info /\ ~Queued(ci) /\ ~InKernel(ci)
                   /\ \A k \in Unhandled' : cq[k].data # ci
  BY AtHand
<1>3. ASSUME NEW a \in Info
      PROVE  /\ Queued(a)' <=> Queued(a)
             /\ InKernel(a)' <=> InKernel(a)
             /\ Completed(a)' <=> Completed(a) /\ a # ci
             /\ a \in Live' <=> a \in Live /\ a # ci
  <2>1. (Queued(a)' <=> Queued(a)) /\ (InKernel(a)' <=> InKernel(a))
    BY <1>1 DEF Queued, InKernel
  <2>2. Completed(a)' <=> Completed(a) /\ a # ci
    BY <1>1, <1>2, EnoughMemory DEF Completed, ci
  <2>3. a \in Live' <=> a \in Live /\ a # ci
    BY <1>2, EnoughMemory DEF Live, Shapes
  <2> QED
    BY <2>1, <2>2, <2>3
<1>4. (\A a \in Info : /\ ~(Queued(a) /\ InKernel(a))
                       /\ ~(Queued(a) /\ Completed(a))
                       /\ ~(InKernel(a) /\ Completed(a))
                       /\ a \in Live <=> Queued(a) \/ InKernel(a) \/ Completed(a))'
  BY <1>2, <1>3, EnoughMemory DEF Owned
<1> QED
  BY <1>1, <1>4 DEF Owned

LEMMA RequeueOwned ==
    ASSUME Shapes, Owned, Handling, Handled, ci # NULL, Live' = Live,
           NEW q \in Requests, q.data = ci, sq' = Append(sq, q)
    PROVE  Owned'
<1>1. i \in Unhandled /\ Unhandled' = Unhandled \ {i} /\ cq' = cq /\ inflight' = inflight
  BY Handles DEF Handled
<1>2. /\ ci \in Info /\ ci \in Live /\ ~Queued(ci) /\ ~InKernel(ci)
      /\ \A k \in Unhandled' : cq[k].data # ci
  BY AtHand
<1> DEFINE n == Len(sq) + 1
<1>3. /\ DOMAIN sq' = DOMAIN sq \cup {n} /\ n \notin DOMAIN sq
      /\ \A k \in DOMAIN sq : sq'[k] = sq[k]
      /\ sq'[n] = q
  BY DEF Shapes
<1> HIDE DEF n
<1>4. ASSUME NEW a \in Info
      PROVE  /\ Queued(a)' <=> Queued(a) \/ a = ci
             /\ InKernel(a)' <=> InKernel(a)
             /\ Completed(a)' <=> Completed(a) /\ a # ci
  <2>1. Queued(a)' <=> Queued(a) \/ a = ci
    BY <1>3 DEF Queued
  <2>2. InKernel(a)' <=> InKernel(a)
    BY <1>1 DEF InKernel
  <2>3. Completed(a)' <=> Completed(a) /\ a # ci
    BY <1>1, <1>2 DEF Completed, ci
  <2> QED
    BY <2>1, <2>2, <2>3
<1>5. (\A a \in Info : /\ ~(Queued(a) /\ InKernel(a))
                       /\ ~(Queued(a) /\ Completed(a))
                       /\ ~(InKernel(a) /\ Completed(a))
                       /\ a \in Live <=> Queued(a) \/ InKernel(a) \/ Completed(a))'
  BY <1>2, <1>4 DEF Owned
<1>6. (\A j, k \in DOMAIN sq : sq[j].data = sq[k].data /\ sq[j].data # NULL => j = k)'
  BY <1>2, <1>3 DEF Owned, Queued
<1> QED
  BY <1>1, <1>5, <1>6 DEF Owned

(* The two records of a new connection, and what is queued for them. *)
LEMMA NewRecords ==
    ASSUME Shapes, Owned, Asked, Descriptors, Accepted
    PROVE  \E a, b \in Info :
              /\ a # b /\ a # ci /\ b # ci /\ heap[a] = NULL /\ heap[b] = NULL
              /\ ci \in Live /\ heap[ci].event = "ACCEPT" /\ heap[ci].connfd = 1
              /\ heap' = [heap EXCEPT ![a] = ConnInfo(res, "READ", MAXLINE),
                                      ![b] = ConnInfo(1, "ACCEPT", 0), ![ci] = NULL]
              /\ mem' = [mem EXCEPT ![a] = Blank, ![b] = Blank]
              /\ sq' \in Seq(Requests) /\ DOMAIN sq' = DOMAIN sq \cup {Len(sq) + 1, Len(sq) + 2}
              /\ Len(sq) + 1 \notin DOMAIN sq /\ Len(sq) + 2 \notin DOMAIN sq
              /\ \A k \in DOMAIN sq : sq'[k] = sq[k]
              /\ sq'[Len(sq) + 1] = Recv(res, a, MAXLINE, a)
              /\ sq'[Len(sq) + 2] = Accept(1, b)
              /\ res \in Fd /\ i \in Unhandled /\ Made(i) /\ res = cq[i].res
<1> DEFINE a == Malloc(Info)
           b == Malloc(Info \ {a})
<1>1. Handling /\ Handled /\ ci # NULL /\ heap[ci].event = "ACCEPT" /\ Event("ACCEPT") /\ res >= 0
  BY DEF Accepted, Event
<1>2. a \in Info /\ b \in Info /\ a # b /\ heap[a] = NULL /\ heap[b] = NULL
  BY <1>1, RoomForTwo
<1>3. ci \in Live /\ i \in Unhandled
  BY <1>1, AtHand, Handles
<1>4. a # ci /\ b # ci
  BY <1>2, <1>3 DEF Live
<1>5. heap[ci].connfd = 1
  BY <1>1, <1>3 DEF Asked, Connection
<1>6. Made(i) /\ res = cq[i].res /\ res \in Fd
  BY <1>1, <1>3 DEF Made, ci, res, Descriptors
<1>7. /\ heap' = [heap EXCEPT ![a] = ConnInfo(res, "READ", MAXLINE),
                              ![b] = ConnInfo(1, "ACCEPT", 0), ![ci] = NULL]
      /\ mem' = [mem EXCEPT ![a] = Blank, ![b] = Blank]
      /\ sq' = sq \o <<Recv(res, a, MAXLINE, a), Accept(1, b)>>
  BY <1>5 DEF Accepted
<1> HIDE DEF a, b
<1>8. Recv(res, a, MAXLINE, a) \in Requests /\ Accept(1, b) \in Requests
  <2>1. a \in Datum /\ b \in Datum /\ MAXLINE \in 0 .. MAXLINE /\ 1 \in Fd /\ 0 \in 0 .. MAXLINE
    BY <1>2, RingAssumption DEF Datum, Fd
  <2> QED
    BY <1>6, <2>1, Requested
<1> DEFINE x == Recv(res, a, MAXLINE, a)
           y == Accept(1, b)
<1>9. x \in Requests /\ y \in Requests /\ sq' = sq \o <<x, y>> /\ sq \in Seq(Requests)
  BY <1>7, <1>8 DEF Shapes
<1> HIDE DEF x, y
<1>10. /\ sq' \in Seq(Requests) /\ DOMAIN sq' = DOMAIN sq \cup {Len(sq) + 1, Len(sq) + 2}
       /\ Len(sq) + 1 \notin DOMAIN sq /\ Len(sq) + 2 \notin DOMAIN sq
       /\ \A k \in DOMAIN sq : sq'[k] = sq[k]
       /\ sq'[Len(sq) + 1] = x
       /\ sq'[Len(sq) + 2] = y
  BY <1>9
<1> QED
  BY <1>1, <1>2, <1>3, <1>4, <1>5, <1>6, <1>7, <1>10 DEF x, y

LEMMA AcceptedOwned ==
    ASSUME Shapes, Owned, Asked, Descriptors, Accepted
    PROVE  Owned'
<1>1. Handling /\ Handled /\ ci # NULL
  BY DEF Accepted, Event
<1>2. i \in Unhandled /\ Unhandled' = Unhandled \ {i} /\ cq' = cq /\ inflight' = inflight
  BY <1>1, Handles DEF Handled
<1>3. /\ ci \in Info /\ ci \in Live /\ ~Queued(ci) /\ ~InKernel(ci)
      /\ \A k \in Unhandled' : cq[k].data # ci
  BY <1>1, AtHand
<1>4. PICK a, b \in Info :
              /\ a # b /\ a # ci /\ b # ci /\ heap[a] = NULL /\ heap[b] = NULL
              /\ heap' = [heap EXCEPT ![a] = ConnInfo(res, "READ", MAXLINE),
                                      ![b] = ConnInfo(1, "ACCEPT", 0), ![ci] = NULL]
              /\ DOMAIN sq' = DOMAIN sq \cup {Len(sq) + 1, Len(sq) + 2}
              /\ Len(sq) + 1 \notin DOMAIN sq /\ Len(sq) + 2 \notin DOMAIN sq
              /\ \A k \in DOMAIN sq : sq'[k] = sq[k]
              /\ sq'[Len(sq) + 1] = Recv(res, a, MAXLINE, a)
              /\ sq'[Len(sq) + 2] = Accept(1, b)
              /\ res \in Fd
  BY NewRecords
<1> DEFINE m == Len(sq) + 1
           n == Len(sq) + 2
<1>5. /\ DOMAIN sq' = DOMAIN sq \cup {m, n} /\ m \notin DOMAIN sq /\ n \notin DOMAIN sq
      /\ \A k \in DOMAIN sq : sq'[k] = sq[k]
      /\ sq'[m].data = a /\ sq'[n].data = b
  BY <1>4 DEF Recv, Accept, Request
<1> HIDE DEF m, n
<1>6. ConnInfo(res, "READ", MAXLINE) \in ConnInfos /\ ConnInfo(1, "ACCEPT", 0) \in ConnInfos
  BY <1>4, RingAssumption DEF ConnInfo, ConnInfos, Fd
<1>7. ~Queued(a) /\ ~InKernel(a) /\ ~Completed(a) /\ ~Queued(b) /\ ~InKernel(b) /\ ~Completed(b)
  BY <1>4 DEF Owned, Live
<1>8. ASSUME NEW x \in Info
      PROVE  /\ Queued(x)' <=> Queued(x) \/ x \in {a, b}
             /\ InKernel(x)' <=> InKernel(x)
             /\ Completed(x)' <=> Completed(x) /\ x # ci
             /\ x \in Live' <=> (x \in Live /\ x # ci) \/ x \in {a, b}
  <2>1. Queued(x)' <=> Queued(x) \/ x \in {a, b}
    BY <1>5 DEF Queued
  <2>2. InKernel(x)' <=> InKernel(x)
    BY <1>2 DEF InKernel
  <2>3. Completed(x)' <=> Completed(x) /\ x # ci
    BY <1>2, <1>3 DEF Completed, ci
  <2>4. x \in Live' <=> (x \in Live /\ x # ci) \/ x \in {a, b}
    BY <1>3, <1>4, <1>6, EnoughMemory DEF Live, Shapes
  <2> QED
    BY <2>1, <2>2, <2>3, <2>4
<1>9. (\A x \in Info : /\ ~(Queued(x) /\ InKernel(x))
                       /\ ~(Queued(x) /\ Completed(x))
                       /\ ~(InKernel(x) /\ Completed(x))
                       /\ x \in Live <=> Queued(x) \/ InKernel(x) \/ Completed(x))'
  BY <1>3, <1>4, <1>7, <1>8 DEF Owned
<1>10. (\A j, k \in DOMAIN sq : sq[j].data = sq[k].data /\ sq[j].data # NULL => j = k)'
  <2>1. a # b /\ \A k \in DOMAIN sq : sq[k].data # a /\ sq[k].data # b
    BY <1>4, <1>7 DEF Queued
  <2>2. \A j, k \in DOMAIN sq : sq[j].data = sq[k].data /\ sq[j].data # NULL => j = k
    BY DEF Owned
  <2> QED
    BY <1>5, <2>1, <2>2
<1> QED
  BY <1>2, <1>9, <1>10 DEF Owned

LEMMA SameOwned ==
    ASSUME Owned, UNCHANGED <<sq, inflight, cq, heap>>, Unhandled' = Unhandled
    PROVE  Owned'
BY DEF Owned, Queued, InKernel, Completed, Live

LEMMA SetupOwned ==
    ASSUME Shapes, Owned, Setup
    PROVE  Owned'
<1> DEFINE a == Malloc(Info)
<1>1. pc = "main" /\ pc' = "submit" /\ Live = {} /\ inflight' = inflight /\ cq' = cq
  BY DEF Setup, Shapes
<1>2. a \in Info
  BY <1>1, RoomForOne
<1>3. heap' = [heap EXCEPT ![a] = ConnInfo(1, "ACCEPT", 0)] /\ sq' = <<Nop(NULL), Accept(1, a)>>
  BY DEF Setup
<1> HIDE DEF a
<1>4. ConnInfo(1, "ACCEPT", 0) # NULL
  <2>1. ConnInfo(1, "ACCEPT", 0) \in ConnInfos
    BY RingAssumption DEF ConnInfo, ConnInfos, Fd
  <2> QED
    BY <2>1, EnoughMemory
<1>5. DOMAIN sq' = {1, 2} /\ sq'[1].data = NULL /\ sq'[2].data = a
  BY <1>3 DEF Nop, Accept, Request
<1>6. Unhandled' = Unhandled
  BY <1>1 DEF Unhandled
<1>7. \A x \in Info : ~Queued(x) /\ ~InKernel(x) /\ ~Completed(x)
  BY <1>1 DEF Owned
<1>8. ASSUME NEW x \in Info
      PROVE  /\ Queued(x)' <=> x = a
             /\ ~InKernel(x)' /\ ~Completed(x)'
             /\ x \in Live' <=> x = a
  <2>1. Queued(x)' <=> x = a
    BY <1>5, EnoughMemory DEF Queued
  <2>2. ~InKernel(x)' /\ ~Completed(x)'
    BY <1>1, <1>6, <1>7 DEF InKernel, Completed
  <2>3. x \in Live' <=> x = a
    BY <1>1, <1>2, <1>3, <1>4 DEF Live, Shapes
  <2> QED
    BY <2>1, <2>2, <2>3
<1>9. (\A x \in Info : /\ ~(Queued(x) /\ InKernel(x))
                       /\ ~(Queued(x) /\ Completed(x))
                       /\ ~(InKernel(x) /\ Completed(x))
                       /\ x \in Live <=> Queued(x) \/ InKernel(x) \/ Completed(x))'
  BY <1>8
<1>10. (\A j, k \in DOMAIN sq : sq[j].data = sq[k].data /\ sq[j].data # NULL => j = k)'
  BY <1>2, <1>5, EnoughMemory
<1> QED
  BY <1>1, <1>6, <1>9, <1>10 DEF Owned

LEMMA LeastExists ==
    ASSUME NEW S \in SUBSET Nat, S # {}
    PROVE  \E x \in S : \A y \in S : x <= y
<1> DEFINE R == {ss \in Nat \X Nat : ss[1] < ss[2]}
<1>1. IsWellFoundedOn(R, Nat)
  BY NatLessThanWellFounded, Zenon DEF OpToRel
<1>2. \A x, y \in Nat : <<y, x>> \notin R => x <= y
  <2>1. ASSUME NEW x \in Nat, NEW y \in Nat, y < x PROVE <<y, x>> \in R
    BY <2>1
  <2> QED
    BY <2>1
<1> HIDE DEF R
<1>3. PICK x \in S : \A y \in S : ~(<<y, x>> \in R)
  BY <1>1, WFMin
<1> QED
  BY <1>2, <1>3

(* The lowest free descriptor is free. *)
LEMMA LowestFree ==
    ASSUME Shapes, Free # {}
    PROVE  Lowest(Free) \in Fd /\ fds[Lowest(Free)] = Closed
<1>1. Free \subseteq Nat
  BY DEF Free, Fd
<1>3. \E f \in Free : \A g \in Free : f <= g
  BY <1>1, LeastExists
<1>4. Lowest(Free) \in Free
  BY <1>3 DEF Lowest
<1> QED
  BY <1>4 DEF Free

LEMMA KernelPosts ==
    ASSUME Shapes, NEW q \in DOMAIN inflight, KernelStep(q)
    PROVE  \E r \in Int : Post(q, r)
<1>1. q.len \in 0 .. MAXLINE /\ MAXLINE \in Nat
  BY RingAssumption DEF Shapes, Requests
<1>2. CASE KernelNop(q)
  BY <1>2 DEF KernelNop
<1>3. CASE KernelAccept(q)
  <2>1. Lowest(Free) \in Int
    BY <1>3, LowestFree DEF KernelAccept, Fd
  <2> QED
    BY <1>3, <2>1 DEF KernelAccept
<1>4. CASE KernelRecv(q)
  <2>1. q.file \in Client /\ sent[q.file] \in Int /\ taken[q.file] \in Int /\ ECONNRESET \in Int
    BY <1>4 DEF KernelRecv, OnConn, Shapes, ECONNRESET
  <2>2. PICK n : n = IF sent[q.file] - taken[q.file] < q.len THEN sent[q.file] - taken[q.file] ELSE q.len
    OBVIOUS
  <2>3. n \in Int
    BY <1>1, <2>1, <2>2
  <2>4. Post(q, n) \/ Post(q, 0) \/ Post(q, ECONNRESET)
    BY <1>4, <2>2 DEF KernelRecv
  <2> QED
    BY <2>1, <2>3, <2>4
<1>5. CASE KernelSend(q)
  <2>1. \/ \E n \in IF "short_send" \in Faults THEN 1 .. q.len ELSE {q.len} : Post(q, n)
        \/ Post(q, EPIPE)
    BY <1>5 DEF KernelSend
  <2>2. EPIPE \in Int
    BY DEF EPIPE
  <2> QED
    BY <1>1, <2>1, <2>2
<1>6. CASE KernelRefuse(q)
  BY <1>6 DEF KernelRefuse, EMFILE, EBADF, ENOTSOCK
<1> QED
  BY <1>2, <1>3, <1>4, <1>5, <1>6 DEF KernelStep

(* A record whose completion was good is used again. *)
LEMMA Rewritten ==
    ASSUME ServerInv, ReadDone \/ WriteDone
    PROVE  /\ Handling /\ Handled /\ ci \in Info /\ ci # NULL /\ ci \in Live
           /\ \E r \in ConnInfos :
                 /\ r # NULL /\ heap' = [heap EXCEPT ![ci] = r]
                 /\ r.connfd = heap[ci].connfd
                 /\ IF ReadDone THEN r.event = "WRITE" /\ r.buffer_length = res
                    ELSE r.event = "READ" /\ r.buffer_length = heap[ci].buffer_length
           /\ heap' \in [Info -> ConnInfos \cup {NULL}] /\ Live' = Live
<1> USE DEF ServerInv
<1>1. Handling /\ Handled /\ ci # NULL /\ ci \in Info /\ ci \in Live /\ heap[ci] \in ConnInfos
  BY AtHand DEF ReadDone, WriteDone, Event
<1>2. heap[ci].connfd \in Fd /\ heap[ci].buffer_length \in 0 .. MAXLINE
  BY <1>1 DEF ConnInfos
<1>3. ReadDone => res \in 1 .. MAXLINE
  <2>1. ReadDone => Holds(ci, res)
    BY <1>1, Handles DEF ReadDone, Event, Echoes, Answered, ci, res
  <2> QED
    BY <2>1 DEF Holds
<1>4. ASSUME NEW fd \in Fd, NEW e \in {"READ", "WRITE"}, NEW n \in 0 .. MAXLINE
      PROVE  /\ ConnInfo(fd, e, n) \in ConnInfos /\ ConnInfo(fd, e, n) # NULL
             /\ ConnInfo(fd, e, n).connfd = fd /\ ConnInfo(fd, e, n).event = e
             /\ ConnInfo(fd, e, n).buffer_length = n
  <2>1. ConnInfo(fd, e, n) \in ConnInfos
    BY DEF ConnInfo, ConnInfos
  <2> QED
    BY <2>1, EnoughMemory DEF ConnInfo
<1>5. \E r \in ConnInfos :
         /\ r # NULL /\ heap' = [heap EXCEPT ![ci] = r]
         /\ r.connfd = heap[ci].connfd
         /\ IF ReadDone THEN r.event = "WRITE" /\ r.buffer_length = res
            ELSE r.event = "READ" /\ r.buffer_length = heap[ci].buffer_length
  <2>1. CASE ReadDone
    <3> DEFINE r == ConnInfo(heap[ci].connfd, "WRITE", res)
    <3>1. heap' = [heap EXCEPT ![ci] = r]
      BY <1>1, <2>1 DEF ReadDone, Shapes
    <3>2. r \in ConnInfos /\ r # NULL /\ r.connfd = heap[ci].connfd /\ r.event = "WRITE" /\ r.buffer_length = res
      BY <1>2, <1>3, <1>4, <2>1
    <3> HIDE DEF r
    <3> QED
      BY <2>1, <3>1, <3>2
  <2>2. CASE ~ReadDone
    <3> DEFINE r == ConnInfo(heap[ci].connfd, "READ", heap[ci].buffer_length)
    <3>1. heap' = [heap EXCEPT ![ci] = r]
      BY <1>1, <2>2 DEF WriteDone, Shapes
    <3>2. r \in ConnInfos /\ r # NULL /\ r.connfd = heap[ci].connfd /\ r.event = "READ" /\ r.buffer_length = heap[ci].buffer_length
      BY <1>2, <1>4
    <3> HIDE DEF r
    <3> QED
      BY <2>2, <3>1, <3>2
  <2> QED
    BY <2>1, <2>2
<1>6. heap' \in [Info -> ConnInfos \cup {NULL}] /\ Live' = Live
  BY <1>1, <1>5 DEF Live, Shapes
<1> QED
  BY <1>1, <1>5, <1>6

(* The request that follows a good completion. *)
LEMMA Again ==
    ASSUME ServerInv, ReadDone \/ WriteDone
    PROVE  \E q \in Requests :
              /\ q.data = ci /\ q.buf = ci /\ q.fd = heap[ci].connfd
              /\ sq' = Append(sq, q)
              /\ IF ReadDone THEN q.op = "send" /\ q.len = res
                 ELSE q.op = "recv" /\ q.len = heap[ci].buffer_length
<1> USE DEF ServerInv
<1>1. Handling /\ Handled /\ ci # NULL /\ ci \in Info /\ heap[ci] \in ConnInfos
  BY AtHand DEF ReadDone, WriteDone, Event
<1>2. ci \in Datum /\ heap[ci].connfd \in Fd /\ heap[ci].buffer_length \in 0 .. MAXLINE
  BY <1>1 DEF Datum, ConnInfos
<1>3. CASE ReadDone
  <2>1. res \in 0 .. MAXLINE
    <3>1. Holds(ci, res)
      BY <1>1, <1>3, Handles DEF ReadDone, Event, Echoes, Answered, ci, res
    <3> QED
      BY <3>1 DEF Holds
  <2>2. Send(heap[ci].connfd, ci, res, ci) \in Requests
    BY <1>2, <2>1, Requested
  <2> QED
    BY <1>3, <2>2 DEF ReadDone, Send, Request
<1>4. CASE ~ReadDone
  <2>1. Recv(heap[ci].connfd, ci, heap[ci].buffer_length, ci) \in Requests
    BY <1>2, Requested
  <2> QED
    BY <1>4, <2>1 DEF WriteDone, Recv, Request
<1> QED
  BY <1>3, <1>4

LEMMA StepOwned ==
    ASSUME ServerInv, [Next]_vars
    PROVE  Owned'
<1> USE DEF ServerInv
<1>1. CASE SetupFails
  BY <1>1, SameOwned DEF SetupFails, env, ring, Unhandled
<1>2. CASE Setup
  BY <1>2, SetupOwned
<1>3. CASE Submit
  BY <1>3, SubmitOwned
<1>4. CASE PeekBatch
  <2>1. UNCHANGED <<sq, inflight, cq, heap>> /\ Unhandled' = Unhandled
    BY <1>4 DEF PeekBatch, env, ring, Unhandled
  <2> QED
    BY <2>1, SameOwned
<1>5. CASE Advance
  BY <1>5, AdvanceOwned
<1>6. CASE HandleNull
  BY <1>6, FreeOwned DEF HandleNull
<1>7. CASE AcceptFailed
  BY <1>7, FreeOwned DEF AcceptFailed, Event
<1>8. CASE Accepted
  BY <1>8, AcceptedOwned
<1>9. CASE ReadEnded
  BY <1>9, FreeOwned DEF ReadEnded, Drop, Event
<1>10. CASE ReadDone \/ WriteDone
  <2>1. Handling /\ Handled /\ ci # NULL /\ ci \in Info /\ heap[ci] \in ConnInfos
    BY <1>10, AtHand DEF ReadDone, WriteDone, Event
  <2>2. \E q \in Requests : q.data = ci /\ sq' = Append(sq, q)
    BY <1>10, Again
  <2>3. Live' = Live
    BY <1>10, Rewritten
  <2> QED
    BY <2>1, <2>2, <2>3, RequeueOwned
<1>11. CASE WriteFailed
  BY <1>11, FreeOwned DEF WriteFailed, Drop, Event
<1>12. CASE Kernel
  BY <1>12, KernelPosts, PostOwned DEF Kernel
<1>13. CASE Clients
  <2>1. UNCHANGED <<sq, inflight, cq, heap, pc, i>>
    BY <1>13 DEF Clients, ClientStep, ClientConnect, ClientSend, ClientLeave, ring
  <2> QED
    BY <2>1, SameOwned DEF Unhandled
<1>14. CASE UNCHANGED vars
  BY <1>14, SameOwned DEF vars, env, ring, Unhandled
<1> QED
  BY <1>1, <1>2, <1>3, <1>4, <1>5, <1>6, <1>7, <1>8, <1>9, <1>10, <1>11, <1>12, <1>13, <1>14
     DEF Next, Server

-----------------------------------------------------------------------------
(* Types. *)

LEMMA BlankBuffer == Blank \in [1 .. MAXLINE -> Cell]
BY DEF Blank, Cell

(* The record at hand is that of a connection. *)
LEMMA Dropped ==
    ASSUME ServerInv, NEW e \in {"READ", "WRITE"}, Event(e), Handled
    PROVE  /\ ci \in Info /\ Connection(ci) /\ heap[ci].connfd \in Fd \ {0, 1} /\ Peer(ci) \in Client
           /\ heap[ci].buffer_length \in 1 .. MAXLINE
<1> USE DEF ServerInv
<1>1. ci \in Info /\ ci \in Live /\ heap[ci] \in ConnInfos
  BY AtHand DEF Event
<1>2. Connection(ci)
  BY <1>1 DEF Event, Connection
<1>3. Peer(ci) \in Client /\ heap[ci].connfd \in Fd
  BY <1>1, <1>2 DEF Descriptors, ConnInfos
<1>4. heap[ci].connfd \notin {0, 1}
  BY <1>3, RingAssumption DEF Peer, Shapes
<1>5. heap[ci].buffer_length \in 0 .. MAXLINE /\ heap[ci].buffer_length > 0
  BY <1>1, <1>2 DEF Asked, ConnInfos
<1> QED
  BY <1>1, <1>2, <1>3, <1>4, <1>5, RingAssumption

LEMMA KernelShapes ==
    ASSUME ServerInv, NEW q \in DOMAIN inflight, KernelStep(q), UNCHANGED <<pc, heap, cqecount, i>>
    PROVE  Shapes'
<1> USE DEF ServerInv
<1>1. q \in Requests /\ q.len \in 0 .. MAXLINE /\ MAXLINE \in Nat \ {0}
  BY RingAssumption DEF Shapes, Requests
<1>2. /\ sq' \in Seq(Requests) /\ cq' \in Seq(Completions) /\ Len(cq') = Len(cq) + 1
      /\ DOMAIN inflight' \subseteq Requests /\ inflight' \in [DOMAIN inflight' -> Nat \ {0}]
  BY KernelPosts, Posted DEF Shapes
<1>3. /\ heap' \in [Info -> ConnInfos \cup {NULL}] /\ pc' \in {"main", "submit", "wait", "handle", "exit"}
      /\ i' \in Nat \ {0} /\ cqecount' \in Nat
      /\ pc' = "handle" => cqecount' <= Len(cq') /\ i' <= cqecount' + 1
      /\ pc' = "main" => Live' = {}
  BY <1>2 DEF Shapes, Live
<1>4. /\ fds' \in [Fd -> Files] /\ fds'[0] = Stdin /\ fds'[1] = Listen
      /\ conn' \in [Client -> {"idle", "pending", "open", "closed", "reset"}]
  <2>1. CASE KernelAccept(q)
    <3>1. PICK c \in Client : /\ conn' = [conn EXCEPT ![c] = "open"]
                              /\ fds' = [fds EXCEPT ![Lowest(Free)] = c]
      BY <2>1 DEF KernelAccept
    <3>2. Lowest(Free) \in Fd /\ fds[Lowest(Free)] = Closed
      BY <2>1, LowestFree DEF KernelAccept
    <3>3. Lowest(Free) # 0 /\ Lowest(Free) # 1 /\ c \in Files
      BY <3>2, RingAssumption DEF Shapes, Files
    <3> QED
      BY <3>1, <3>2, <3>3 DEF Shapes
  <2>2. CASE ~KernelAccept(q)
    <3>1. fds' = fds /\ conn' = conn
      BY <2>2 DEF KernelStep, KernelNop, KernelRecv, KernelSend, KernelRefuse, net
    <3> QED
      BY <3>1 DEF Shapes
  <2> QED
    BY <2>1, <2>2
<1>5. /\ sent' \in [Client -> Nat] /\ taken' \in [Client -> Nat]
      /\ \A c \in Client : taken'[c] <= sent'[c]
      /\ mem' \in [Info -> [1 .. MAXLINE -> Cell]]
  <2>1. CASE UNCHANGED <<sent, taken, mem>>
    BY <2>1 DEF Shapes
  <2>2. CASE ~UNCHANGED <<sent, taken, mem>>
    <3>1. KernelRecv(q)
      BY <2>2 DEF KernelStep, KernelNop, KernelAccept, KernelRecv, KernelSend, KernelRefuse, net
    <3>2. q.file \in Client /\ sent' = sent
      BY <3>1 DEF KernelRecv, OnConn
    <3>3. PICK n : n = IF sent[q.file] - taken[q.file] < q.len THEN sent[q.file] - taken[q.file] ELSE q.len
      OBVIOUS
    <3>4. /\ n > 0
          /\ taken' = [taken EXCEPT ![q.file] = @ + n]
          /\ mem' = [mem EXCEPT ![q.buf] =
                       [x \in 1 .. MAXLINE |-> IF x <= n THEN <<q.file, taken[q.file] + x>> ELSE @[x]]]
      BY <2>2, <3>1, <3>2, <3>3 DEF KernelRecv
    <3>5. n \in Nat /\ n <= sent[q.file] - taken[q.file]
      BY <1>1, <3>2, <3>3, <3>4 DEF Shapes
    <3>6. taken' \in [Client -> Nat] /\ \A c \in Client : taken'[c] <= sent'[c]
      BY <3>2, <3>4, <3>5 DEF Shapes
    <3>7. mem' \in [Info -> [1 .. MAXLINE -> Cell]]
      <4> DEFINE g == [x \in 1 .. MAXLINE |-> IF x <= n THEN <<q.file, taken[q.file] + x>> ELSE mem[q.buf][x]]
      <4>1. CASE q.buf \in Info
        <5>1. \A x \in 1 .. MAXLINE : mem[q.buf][x] \in Cell /\ <<q.file, taken[q.file] + x>> \in Cell
          <6>1. taken[q.file] \in Nat /\ \A x \in 1 .. MAXLINE : mem[q.buf][x] \in Cell
            BY <3>2, <4>1 DEF Shapes
          <6>2. \A x \in 1 .. MAXLINE : <<q.file, taken[q.file] + x>> \in Cell
            BY <3>2, <6>1 DEF Cell
          <6> QED
            BY <6>1, <6>2
        <5>2. g \in [1 .. MAXLINE -> Cell]
          BY <5>1
        <5>3. mem' = [mem EXCEPT ![q.buf] = g]
          BY <3>4, <4>1 DEF Shapes
        <5> HIDE DEF g
        <5> QED
          BY <5>2, <5>3 DEF Shapes
      <4>2. CASE q.buf \notin Info
        BY <3>4, <4>2 DEF Shapes
      <4> QED
        BY <4>1, <4>2
    <3> QED
      BY <3>2, <3>6, <3>7 DEF Shapes
  <2> QED
    BY <2>1, <2>2
<1>6. echo' \in [Client -> Seq(Cell)]
  <2>1. CASE echo' = echo
    BY <2>1 DEF Shapes
  <2>2. CASE echo' # echo
    <3>1. KernelSend(q)
      BY <2>2 DEF KernelStep, KernelNop, KernelAccept, KernelRecv, KernelSend, KernelRefuse, net
    <3>2. PICK n \in IF "short_send" \in Faults THEN 1 .. q.len ELSE {q.len} :
             echo' = [echo EXCEPT ![q.file] = @ \o SubSeq(mem[q.buf], 1, n)]
      BY <2>2, <3>1 DEF KernelSend
    <3>3. q.file \in Client /\ n \in 0 .. MAXLINE
      BY <1>1, <3>1, <3>2 DEF KernelSend, OnConn
    <3>4. q.data # NULL /\ q.buf \in Info
      <4>1. q.data # NULL /\ Told(q) /\ q.op = "send"
        BY <3>1 DEF Asked, KernelSend
      <4>2. q.data \in Info /\ q.data \in Live /\ heap[q.data] \in ConnInfos
        BY <4>1, <1>1 DEF Requests, Datum, Owned, InKernel, Live, Shapes
      <4> QED
        BY <4>1, <4>2 DEF Told, ConnInfos
    <3>5. SubSeq(mem[q.buf], 1, n) \in Seq(Cell)
      <4>1. mem[q.buf] \in [1 .. MAXLINE -> Cell]
        BY <3>4 DEF Shapes
      <4>2. mem[q.buf] \in Seq(Cell) /\ Len(mem[q.buf]) = MAXLINE
        BY <1>1, <4>1
      <4> QED
        BY <3>3, <4>2
    <3>6. echo[q.file] \o SubSeq(mem[q.buf], 1, n) \in Seq(Cell)
      BY <3>3, <3>5 DEF Shapes
    <3> QED
      BY <3>2, <3>3, <3>6 DEF Shapes
  <2> QED
    BY <2>1, <2>2
<1> QED
  BY <1>2, <1>3, <1>4, <1>5, <1>6 DEF Shapes

LEMMA StepShapes ==
    ASSUME ServerInv, [Next]_vars
    PROVE  Shapes'
<1> USE DEF ServerInv
<1>1. CASE SetupFails
  BY <1>1 DEF SetupFails, Shapes, env, ring, net, Live
<1>2. CASE Setup
  <2> DEFINE a == Malloc(Info)
  <2>1. pc = "main" /\ pc' = "submit" /\ Live = {}
    BY <1>2 DEF Setup, Shapes
  <2>2. a \in Info
    BY <2>1, RoomForOne
  <2>3. heap' = [heap EXCEPT ![a] = ConnInfo(1, "ACCEPT", 0)] /\ sq' = <<Nop(NULL), Accept(1, a)>>
    BY <1>2 DEF Setup
  <2> HIDE DEF a
  <2>4. Nop(NULL) \in Requests /\ Accept(1, a) \in Requests
    <3>1. NULL \in Datum /\ a \in Datum /\ 1 \in Fd /\ 0 \in 0 .. MAXLINE
      BY <2>2, RingAssumption DEF Datum, Fd
    <3> QED
      BY <3>1, Requested
  <2>5. sq' \in Seq(Requests)
    BY <2>3, <2>4
  <2>6. ConnInfo(1, "ACCEPT", 0) \in ConnInfos
    BY RingAssumption DEF ConnInfo, ConnInfos, Fd
  <2>7. heap' \in [Info -> ConnInfos \cup {NULL}]
    BY <2>2, <2>3, <2>6 DEF Shapes
  <2> QED
    BY <1>2, <2>1, <2>5, <2>7 DEF Setup, Shapes, net
<1>3. CASE Submit
  <2>1. /\ DOMAIN inflight' \subseteq Requests
        /\ inflight' \in [DOMAIN inflight' -> Nat \ {0}] /\ sq' \in Seq(Requests)
    <3>1. /\ DOMAIN inflight' = DOMAIN inflight \cup {Resolve(sq[k]) : k \in DOMAIN sq}
          /\ \A k \in DOMAIN sq : Resolve(sq[k]) \in Requests
          /\ inflight' \in [DOMAIN inflight' -> Nat \ {0}] /\ sq' = <<>>
      BY <1>3, Submitted DEF Submit
    <3>2. DOMAIN inflight \subseteq Requests
      BY DEF Shapes
    <3> QED
      BY <3>1, <3>2
  <2> QED
    BY <1>3, <2>1 DEF Submit, Shapes, net, Live
<1>4. CASE PeekBatch
  <2>1. cqecount' \in Nat /\ cqecount' <= Len(cq') /\ i' = 1 /\ pc' = "handle" /\ cq' = cq
    BY <1>4, EnoughMemory DEF PeekBatch, Shapes, env, ring
  <2> QED
    BY <1>4, <2>1 DEF PeekBatch, Shapes, env, ring, net
<1>5. CASE Advance
  <2>1. cq' \in Seq(Completions)
    BY <1>5, Advanced
  <2> QED
    BY <1>5, <2>1 DEF Advance, Shapes, net
<1>6. CASE HandleNull \/ AcceptFailed \/ ReadEnded \/ WriteFailed
  <2>1. /\ Handling /\ Handled /\ sq' = sq /\ mem' = mem
        /\ \/ heap' = heap
           \/ ci # NULL /\ heap' = [heap EXCEPT ![ci] = NULL]
    BY <1>6 DEF HandleNull, AcceptFailed, ReadEnded, WriteFailed, Event, Drop
  <2>2. heap' \in [Info -> ConnInfos \cup {NULL}]
    BY <2>1 DEF Shapes
  <2>3. fds' \in [Fd -> Files] /\ fds'[0] = Stdin /\ fds'[1] = Listen
    <3>1. CASE fds' = fds
      BY <3>1 DEF Shapes
    <3>2. CASE fds' = [fds EXCEPT ![heap[ci].connfd] = Closed] /\ heap[ci].connfd \in Fd \ {0, 1}
      BY <3>2, RingAssumption DEF Shapes, Files
    <3>3. ReadEnded => heap[ci].connfd \in Fd \ {0, 1}
      BY Dropped DEF ReadEnded
    <3>4. WriteFailed => heap[ci].connfd \in Fd \ {0, 1}
      BY Dropped DEF WriteFailed
    <3> QED
      BY <1>6, <3>1, <3>2, <3>3, <3>4 DEF HandleNull, AcceptFailed, ReadEnded, WriteFailed, Drop
  <2>4. pc' = "handle" /\ cqecount' <= Len(cq') /\ i' <= cqecount' + 1 /\ i' \in Nat \ {0} /\ cqecount' \in Nat
    BY <2>1 DEF Handling, Handled, Shapes
  <2> QED
    BY <2>1, <2>2, <2>3, <2>4 DEF Handled, Shapes, net
<1>7. CASE Accepted
  <2>1. PICK a, b \in Info :
              /\ heap' = [heap EXCEPT ![a] = ConnInfo(res, "READ", MAXLINE),
                                      ![b] = ConnInfo(1, "ACCEPT", 0), ![ci] = NULL]
              /\ mem' = [mem EXCEPT ![a] = Blank, ![b] = Blank]
              /\ sq' \in Seq(Requests) /\ res \in Fd
    BY <1>7, NewRecords
  <2>2. ConnInfo(res, "READ", MAXLINE) \in ConnInfos /\ ConnInfo(1, "ACCEPT", 0) \in ConnInfos
    BY <2>1, RingAssumption DEF ConnInfo, ConnInfos, Fd
  <2>3. heap' \in [Info -> ConnInfos \cup {NULL}]
    BY <2>1, <2>2 DEF Shapes
  <2>4. mem' \in [Info -> [1 .. MAXLINE -> Cell]]
    BY <2>1, BlankBuffer DEF Shapes
  <2>5. Handling /\ Handled /\ fds' = fds
    BY <1>7 DEF Accepted, Event
  <2>6. pc' = "handle" /\ cqecount' <= Len(cq') /\ i' <= cqecount' + 1 /\ i' \in Nat \ {0} /\ cqecount' \in Nat
    BY <2>5 DEF Handling, Handled, Shapes
  <2> QED
    BY <2>1, <2>3, <2>4, <2>5, <2>6 DEF Handled, Shapes, net
<1>8. CASE ReadDone \/ WriteDone
  <2>1. Handling /\ Handled /\ heap' \in [Info -> ConnInfos \cup {NULL}]
    BY <1>8, Rewritten
  <2>2. fds' = fds /\ mem' = mem
    BY <1>8 DEF ReadDone, WriteDone
  <2>3. \E q \in Requests : sq' = Append(sq, q)
    BY <1>8, Again
  <2>4. sq' \in Seq(Requests)
    BY <2>3 DEF Shapes
  <2>5. pc' = "handle" /\ cqecount' <= Len(cq') /\ i' <= cqecount' + 1 /\ i' \in Nat \ {0} /\ cqecount' \in Nat
    BY <2>1 DEF Handling, Handled, Shapes
  <2> QED
    BY <2>1, <2>2, <2>4, <2>5 DEF Handled, Shapes, net
<1>9. CASE Kernel
  BY <1>9, KernelShapes DEF Kernel
<1>10. CASE Clients
  <2>1. PICK c \in Client : ClientStep(c)
    BY <1>10 DEF Clients
  <2>2. UNCHANGED <<pc, heap, cqecount, i>>
    BY <1>10 DEF Clients
  <2>3. CASE ClientConnect(c)
    BY <2>2, <2>3 DEF ClientConnect, Shapes, ring, Live
  <2>4. CASE ClientSend(c)
    BY <2>2, <2>4 DEF ClientSend, Shapes, ring, Live
  <2>5. CASE ClientLeave(c)
    BY <2>2, <2>5 DEF ClientLeave, Shapes, ring, Live
  <2> QED
    BY <2>1, <2>3, <2>4, <2>5 DEF ClientStep
<1>11. CASE UNCHANGED vars
  BY <1>11 DEF vars, env, ring, net, Shapes, Live
<1> QED
  BY <1>1, <1>2, <1>3, <1>4, <1>5, <1>6, <1>7, <1>8, <1>9, <1>10, <1>11 DEF Next, Server

-----------------------------------------------------------------------------
(* Requests and their records. *)

LEMMA OfRecord ==
    ASSUME Shapes, Owned
    PROVE  /\ \A k \in DOMAIN sq : sq[k].data # NULL =>
                 sq[k].data \in Info /\ sq[k].data \in Live /\ Queued(sq[k].data)
           /\ \A q \in DOMAIN inflight : q.data # NULL =>
                 q.data \in Info /\ q.data \in Live /\ InKernel(q.data)
           /\ \A k \in Unhandled : cq[k].data # NULL =>
                 cq[k].data \in Info /\ cq[k].data \in Live /\ Completed(cq[k].data)
           /\ \A a \in Live : a \in Info /\ heap[a] \in ConnInfos /\ heap[a].connfd \in Fd
<1>1. ASSUME NEW k \in DOMAIN sq, sq[k].data # NULL
      PROVE  sq[k].data \in Info /\ sq[k].data \in Live /\ Queued(sq[k].data)
  <2>0. sq[k] \in Requests
    BY DEF Shapes
  <2>1. sq[k].data \in Info
    BY <1>1, <2>0 DEF Requests, Datum
  <2> QED
    BY <2>1 DEF Owned, Queued
<1>2. ASSUME NEW q \in DOMAIN inflight, q.data # NULL
      PROVE  q.data \in Info /\ q.data \in Live /\ InKernel(q.data)
  <2>1. q.data \in Info
    BY <1>2 DEF Shapes, Requests, Datum
  <2> QED
    BY <2>1 DEF Owned, InKernel
<1>3. ASSUME NEW k \in Unhandled, cq[k].data # NULL
      PROVE  cq[k].data \in Info /\ cq[k].data \in Live /\ Completed(cq[k].data)
  <2>1. k \in 1 .. Len(cq) /\ cq \in Seq(Completions)
    BY DEF Unhandled, Shapes
  <2>2. cq[k] \in Completions
    BY <2>1
  <2>3. cq[k].data \in Info
    BY <1>3, <2>2 DEF Completions, Datum
  <2> QED
    BY <2>3 DEF Owned, Completed
<1>4. \A a \in Live : a \in Info /\ heap[a] \in ConnInfos /\ heap[a].connfd \in Fd
  BY DEF Live, Shapes, ConnInfos
<1> QED
  BY <1>1, <1>2, <1>3, <1>4

(* No request of another record uses the descriptor of record a. *)
LEMMA OtherDescriptor ==
    ASSUME ServerInv, NEW a \in Info, Connection(a), NEW b \in Live, b # a
    PROVE  heap[b].connfd # heap[a].connfd
<1> USE DEF ServerInv
<1>1. CASE Connection(b)
  BY <1>1, OfRecord DEF Descriptors
<1>2. CASE ~Connection(b)
  <2>1. heap[b].connfd = 1 /\ fds[1] = Listen /\ Peer(a) \in Client
    BY <1>2 DEF Asked, Shapes, Descriptors
  <2> QED
    BY <2>1, RingAssumption DEF Peer
<1> QED
  BY <1>1, <1>2

LEMMA SameAsked ==
    ASSUME ServerInv, heap' = heap, sq' = sq, DOMAIN inflight' \subseteq DOMAIN inflight,
           \A a \in Live : fds'[heap[a].connfd] = fds[heap[a].connfd]
    PROVE  Asked'
<1> USE DEF ServerInv
<1>1. \A q : Told(q)' <=> Told(q)
  BY DEF Told
<1>2. \A q \in DOMAIN inflight : q.data # NULL => q.data \in Live /\ q.fd = heap[q.data].connfd
  BY OfRecord DEF Asked, Told
<1>3. \A a : Connection(a)' <=> Connection(a)
  BY DEF Connection, Live
<1>4. (\A k \in DOMAIN sq : IF sq[k].data = NULL THEN sq[k].op = "nop" ELSE Told(sq[k]))'
  BY DEF Asked, Told
<1>5. (\A q \in DOMAIN inflight : IF q.data = NULL THEN q.op = "nop"
                                  ELSE Told(q) /\ q.file = fds[q.fd])'
  BY <1>1, <1>2 DEF Asked
<1>6. (\A a \in Live : IF Connection(a) THEN heap[a].buffer_length > 0
                       ELSE heap[a].connfd = 1)'
  BY <1>3 DEF Asked, Live
<1> QED
  BY <1>4, <1>5, <1>6 DEF Asked

LEMMA FreeAsked ==
    ASSUME ServerInv, Handling, Handled, ci # NULL, sq' = sq, heap' = [heap EXCEPT ![ci] = NULL],
           \/ fds' = fds
           \/ Connection(ci) /\ fds' = [fds EXCEPT ![heap[ci].connfd] = Closed]
    PROVE  Asked'
<1> USE DEF ServerInv
<1>1. ci \in Info /\ ~Queued(ci) /\ ~InKernel(ci) /\ inflight' = inflight
  BY AtHand DEF Handled
<1>2. \A a \in Info : a # ci => heap'[a] = heap[a]
  BY DEF Shapes
<1>3. \A a \in Live' : a \in Live /\ a # ci
  BY <1>1, EnoughMemory DEF Live, Shapes
<1>4. \A a \in Live : a # ci => fds'[heap[a].connfd] = fds[heap[a].connfd]
  BY <1>1, OtherDescriptor, OfRecord DEF Shapes
<1>5. (\A k \in DOMAIN sq : IF sq[k].data = NULL THEN sq[k].op = "nop" ELSE Told(sq[k]))'
  <2> SUFFICES ASSUME NEW k \in DOMAIN sq
               PROVE  IF sq[k].data = NULL THEN sq[k].op = "nop" ELSE Told(sq[k])'
    BY DEF Told
  <2>1. sq[k].data # NULL => sq[k].data \in Info /\ sq[k].data # ci
    BY <1>1, OfRecord
  <2> QED
    BY <1>2, <2>1 DEF Asked, Told
<1>6. (\A q \in DOMAIN inflight : IF q.data = NULL THEN q.op = "nop"
                                  ELSE Told(q) /\ q.file = fds[q.fd])'
  <2> SUFFICES ASSUME NEW q \in DOMAIN inflight
               PROVE  IF q.data = NULL THEN q.op = "nop" ELSE Told(q)' /\ q.file = fds'[q.fd]
    BY <1>1
  <2>1. q.data # NULL => q.data \in Info /\ q.data # ci /\ q.data \in Live
    BY <1>1, OfRecord
  <2> QED
    BY <1>2, <1>4, <2>1 DEF Asked, Told
<1>7. (\A a \in Live : IF Connection(a) THEN heap[a].buffer_length > 0
                       ELSE heap[a].connfd = 1)'
  <2> SUFFICES ASSUME NEW a \in Live'
               PROVE  IF Connection(a)' THEN heap'[a].buffer_length > 0 ELSE heap'[a].connfd = 1
    OBVIOUS
  <2>1. a \in Live /\ a # ci /\ a \in Info /\ heap'[a] = heap[a]
    BY <1>2, <1>3, OfRecord
  <2>2. Connection(a)' <=> Connection(a)
    BY <2>1 DEF Connection, Live
  <2> QED
    BY <2>1, <2>2 DEF Asked
<1> QED
  BY <1>5, <1>6, <1>7 DEF Asked

LEMMA SetupAsked ==
    ASSUME ServerInv, Setup
    PROVE  Asked'
<1> USE DEF ServerInv
<1> DEFINE a == Malloc(Info)
<1>1. pc = "main" /\ Live = {} /\ inflight' = inflight
  BY DEF Setup, Shapes
<1>2. a \in Info
  BY <1>1, RoomForOne
<1>3. heap' = [heap EXCEPT ![a] = ConnInfo(1, "ACCEPT", 0)] /\ sq' = <<Nop(NULL), Accept(1, a)>>
  BY DEF Setup
<1> HIDE DEF a
<1>4. /\ DOMAIN sq' = {1, 2} /\ sq'[1].data = NULL /\ sq'[1].op = "nop"
      /\ sq'[2].data = a /\ sq'[2].op = "accept" /\ sq'[2].fd = 1
  BY <1>3 DEF Nop, Accept, Request
<1>5. heap'[a].connfd = 1 /\ heap'[a].event = "ACCEPT"
  BY <1>2, <1>3 DEF Shapes, ConnInfo
<1>6. \A x \in Live' : x = a
  BY <1>1, <1>2, <1>3 DEF Live, Shapes
<1>7. \A q \in DOMAIN inflight : q.data = NULL
  BY <1>1, OfRecord
<1>8. (\A k \in DOMAIN sq : IF sq[k].data = NULL THEN sq[k].op = "nop" ELSE Told(sq[k]))'
  <2>1. sq'[2].data # NULL
    BY <1>2, <1>4, EnoughMemory
  <2>2. Told(sq[2])'
    BY <1>4, <1>5 DEF Told
  <2> QED
    BY <1>4, <2>1, <2>2
<1>9. (\A q \in DOMAIN inflight : IF q.data = NULL THEN q.op = "nop"
                                  ELSE Told(q) /\ q.file = fds[q.fd])'
  BY <1>1, <1>7 DEF Asked
<1>10. (\A x \in Live : IF Connection(x) THEN heap[x].buffer_length > 0
                        ELSE heap[x].connfd = 1)'
  BY <1>5, <1>6 DEF Connection
<1> QED
  BY <1>8, <1>9, <1>10 DEF Asked

LEMMA SubmitAsked ==
    ASSUME ServerInv, Submit
    PROVE  Asked'
<1> USE DEF ServerInv
<1>1. /\ DOMAIN inflight' = DOMAIN inflight \cup {Resolve(sq[k]) : k \in DOMAIN sq}
      /\ \A k \in DOMAIN sq : /\ Resolve(sq[k]).data = sq[k].data
                              /\ Resolve(sq[k]).op = sq[k].op
                              /\ Resolve(sq[k]).fd = sq[k].fd
                              /\ Resolve(sq[k]).buf = sq[k].buf
                              /\ Resolve(sq[k]).len = sq[k].len
                              /\ Resolve(sq[k]).file = fds[sq[k].fd]
      /\ DOMAIN sq' = {}
  BY Submitted DEF Submit
<1>2. heap' = heap /\ fds' = fds
  BY DEF Submit
<1>3. \A q : Told(q)' <=> Told(q)
  BY <1>2 DEF Told
<1>4. \A q \in DOMAIN inflight' : IF q.data = NULL THEN q.op = "nop" ELSE Told(q) /\ q.file = fds[q.fd]
  <2>1. \A q \in DOMAIN inflight : IF q.data = NULL THEN q.op = "nop" ELSE Told(q) /\ q.file = fds[q.fd]
    BY DEF Asked
  <2>2. ASSUME NEW k \in DOMAIN sq, NEW q, q = Resolve(sq[k])
        PROVE  IF q.data = NULL THEN q.op = "nop" ELSE Told(q) /\ q.file = fds[q.fd]
    BY <1>1, <2>2 DEF Asked, Told
  <2> QED
    BY <1>1, <2>1, <2>2
<1>5. (\A q \in DOMAIN inflight : IF q.data = NULL THEN q.op = "nop"
                                  ELSE Told(q) /\ q.file = fds[q.fd])'
  BY <1>2, <1>3, <1>4
<1>6. (\A a \in Live : IF Connection(a) THEN heap[a].buffer_length > 0
                       ELSE heap[a].connfd = 1)'
  BY <1>2 DEF Asked, Live, Connection
<1> QED
  BY <1>1, <1>5, <1>6 DEF Asked

LEMMA RequeueAsked ==
    ASSUME ServerInv, ReadDone \/ WriteDone
    PROVE  Asked'
<1> USE DEF ServerInv
<1>1. PICK q \in Requests :
              /\ q.data = ci /\ q.buf = ci /\ q.fd = heap[ci].connfd
              /\ sq' = Append(sq, q)
              /\ IF ReadDone THEN q.op = "send" /\ q.len = res
                 ELSE q.op = "recv" /\ q.len = heap[ci].buffer_length
  BY Again
<1>2. Handling /\ Handled /\ ci \in Info /\ ci # NULL /\ ci \in Live /\ Live' = Live
  BY Rewritten
<1>3. PICK r \in ConnInfos :
                 /\ r # NULL /\ heap' = [heap EXCEPT ![ci] = r]
                 /\ r.connfd = heap[ci].connfd
                 /\ IF ReadDone THEN r.event = "WRITE" /\ r.buffer_length = res
                    ELSE r.event = "READ" /\ r.buffer_length = heap[ci].buffer_length
  BY Rewritten
<1>4. heap'[ci] = r /\ \A a \in Info : a # ci => heap'[a] = heap[a]
  BY <1>2, <1>3 DEF Shapes
<1>5. ~Queued(ci) /\ ~InKernel(ci) /\ inflight' = inflight /\ fds' = fds
  BY <1>2, AtHand DEF Handled, ReadDone, WriteDone
<1>6. /\ DOMAIN sq' = DOMAIN sq \cup {Len(sq) + 1}
      /\ \A k \in DOMAIN sq : sq'[k] = sq[k]
      /\ sq'[Len(sq) + 1] = q
  BY <1>1 DEF Shapes
<1>7. (\A k \in DOMAIN sq : IF sq[k].data = NULL THEN sq[k].op = "nop" ELSE Told(sq[k]))'
  <2>1. ASSUME NEW k \in DOMAIN sq
        PROVE  IF sq'[k].data = NULL THEN sq'[k].op = "nop" ELSE Told(sq[k])'
    <3>1. sq[k].data # NULL => sq[k].data \in Info /\ sq[k].data # ci
      BY <1>5, OfRecord
    <3> QED
      BY <1>4, <1>6, <3>1 DEF Asked, Told
  <2>2. Told(q)'
    BY <1>1, <1>3, <1>4 DEF Told
  <2> QED
    BY <1>6, <2>1, <2>2, <1>2, <1>1 DEF Told
<1>8. (\A p \in DOMAIN inflight : IF p.data = NULL THEN p.op = "nop"
                                  ELSE Told(p) /\ p.file = fds[p.fd])'
  <2> SUFFICES ASSUME NEW p \in DOMAIN inflight
               PROVE  IF p.data = NULL THEN p.op = "nop" ELSE Told(p)' /\ p.file = fds[p.fd]
    BY <1>5
  <2>1. p.data # NULL => p.data \in Info /\ p.data # ci
    BY <1>5, OfRecord
  <2> QED
    BY <1>4, <2>1 DEF Asked, Told
<1>9. (\A a \in Live : IF Connection(a) THEN heap[a].buffer_length > 0
                       ELSE heap[a].connfd = 1)'
  <2> SUFFICES ASSUME NEW a \in Live
               PROVE  IF Connection(a)' THEN heap'[a].buffer_length > 0 ELSE heap'[a].connfd = 1
    BY <1>2
  <2>1. CASE a = ci
    <3>1. ReadDone => res > 0
      BY DEF ReadDone
    <3>2. ~ReadDone => heap[ci].buffer_length > 0
      BY <1>2, Dropped DEF WriteDone
    <3> QED
      BY <1>2, <1>3, <1>4, <2>1, <3>1, <3>2 DEF Connection
  <2>2. CASE a # ci
    BY <1>2, <1>4, <2>2, OfRecord DEF Asked, Connection
  <2> QED
    BY <2>1, <2>2
<1> QED
  BY <1>7, <1>8, <1>9 DEF Asked

LEMMA AcceptedAsked ==
    ASSUME ServerInv, Accepted
    PROVE  Asked'
<1> USE DEF ServerInv
<1>1. Handling /\ Handled /\ ci # NULL
  BY DEF Accepted, Event
<1>2. ~Queued(ci) /\ ~InKernel(ci) /\ inflight' = inflight /\ fds' = fds /\ ci \in Info
  BY <1>1, AtHand DEF Handled, Accepted
<1>3. PICK a, b \in Info :
              /\ a # b /\ a # ci /\ b # ci /\ heap[a] = NULL /\ heap[b] = NULL
              /\ heap' = [heap EXCEPT ![a] = ConnInfo(res, "READ", MAXLINE),
                                      ![b] = ConnInfo(1, "ACCEPT", 0), ![ci] = NULL]
              /\ DOMAIN sq' = DOMAIN sq \cup {Len(sq) + 1, Len(sq) + 2}
              /\ \A k \in DOMAIN sq : sq'[k] = sq[k]
              /\ sq'[Len(sq) + 1] = Recv(res, a, MAXLINE, a)
              /\ sq'[Len(sq) + 2] = Accept(1, b)
  BY NewRecords
<1>4. /\ heap'[a].connfd = res /\ heap'[a].event = "READ" /\ heap'[a].buffer_length = MAXLINE
      /\ heap'[b].connfd = 1 /\ heap'[b].event = "ACCEPT" /\ heap'[ci] = NULL
      /\ \A x \in Info : x \notin {a, b, ci} => heap'[x] = heap[x]
  BY <1>2, <1>3 DEF Shapes, ConnInfo
<1>5. a \notin Live /\ b \notin Live
  BY <1>3 DEF Live
<1>6. (\A k \in DOMAIN sq : IF sq[k].data = NULL THEN sq[k].op = "nop" ELSE Told(sq[k]))'
  <2>1. ASSUME NEW k \in DOMAIN sq
        PROVE  IF sq'[k].data = NULL THEN sq'[k].op = "nop" ELSE Told(sq[k])'
    <3>1. sq[k].data # NULL => sq[k].data \in Info /\ sq[k].data \notin {a, b, ci}
      BY <1>2, <1>5, OfRecord
    <3>2. sq'[k] = sq[k] /\ IF sq[k].data = NULL THEN sq[k].op = "nop" ELSE Told(sq[k])
      BY <1>3 DEF Asked
    <3>3. CASE sq[k].data = NULL
      BY <3>2, <3>3
    <3>4. CASE sq[k].data # NULL
      <4>1. heap'[sq[k].data] = heap[sq[k].data]
        BY <1>4, <3>1, <3>4
      <4> QED
        BY <3>2, <3>4, <4>1 DEF Told
    <3> QED
      BY <3>3, <3>4
  <2>2. /\ sq'[Len(sq) + 1].data = a /\ sq'[Len(sq) + 1].fd = res /\ sq'[Len(sq) + 1].op = "recv"
        /\ sq'[Len(sq) + 1].buf = a /\ sq'[Len(sq) + 1].len = MAXLINE
        /\ sq'[Len(sq) + 2].data = b /\ sq'[Len(sq) + 2].fd = 1 /\ sq'[Len(sq) + 2].op = "accept"
    BY <1>3 DEF Recv, Accept, Request
  <2>3. a # NULL /\ b # NULL
    BY EnoughMemory
  <2> DEFINE m == Len(sq) + 1
             n == Len(sq) + 2
  <2>4. DOMAIN sq' = DOMAIN sq \cup {m, n}
    BY <1>3
  <2>5. /\ sq'[m].data = a /\ sq'[m].fd = res /\ sq'[m].op = "recv"
        /\ sq'[m].buf = a /\ sq'[m].len = MAXLINE
        /\ sq'[n].data = b /\ sq'[n].fd = 1 /\ sq'[n].op = "accept"
    BY <2>2
  <2> HIDE DEF m, n
  <2> SUFFICES ASSUME NEW k \in DOMAIN sq'
               PROVE  IF sq'[k].data = NULL THEN sq'[k].op = "nop" ELSE Told(sq[k])'
    OBVIOUS
  <2>6. CASE k = m
    BY <1>4, <2>3, <2>5, <2>6 DEF Told
  <2>7. CASE k = n
    BY <1>4, <2>3, <2>5, <2>7 DEF Told
  <2> QED
    BY <2>1, <2>4, <2>6, <2>7
<1>7. (\A p \in DOMAIN inflight : IF p.data = NULL THEN p.op = "nop"
                                  ELSE Told(p) /\ p.file = fds[p.fd])'
  <2> SUFFICES ASSUME NEW p \in DOMAIN inflight
               PROVE  IF p.data = NULL THEN p.op = "nop" ELSE Told(p)' /\ p.file = fds[p.fd]
    BY <1>2
  <2>1. p.data # NULL => p.data \in Info /\ p.data \notin {a, b, ci}
    BY <1>2, <1>5, OfRecord
  <2> QED
    BY <1>4, <2>1 DEF Asked, Told
<1>8. (\A x \in Live : IF Connection(x) THEN heap[x].buffer_length > 0
                       ELSE heap[x].connfd = 1)'
  <2> SUFFICES ASSUME NEW x \in Live'
               PROVE  IF Connection(x)' THEN heap'[x].buffer_length > 0 ELSE heap'[x].connfd = 1
    OBVIOUS
  <2>1. x \in Info /\ x # ci
    BY <1>4 DEF Live
  <2>2. CASE x \in {a, b}
    BY <1>4, <2>2, RingAssumption DEF Connection
  <2>3. CASE x \notin {a, b}
    <3>1. heap'[x] = heap[x] /\ x \in Live
      BY <1>4, <2>1, <2>3 DEF Live
    <3> QED
      BY <3>1 DEF Asked, Connection
  <2> QED
    BY <2>2, <2>3
<1> QED
  BY <1>6, <1>7, <1>8 DEF Asked

LEMMA LiveOpen ==
    ASSUME ServerInv
    PROVE  \A a \in Live : fds[heap[a].connfd] # Closed
<1> USE DEF ServerInv
<1> SUFFICES ASSUME NEW a \in Live PROVE fds[heap[a].connfd] # Closed
  OBVIOUS
<1>1. CASE Connection(a)
  BY <1>1, OfRecord, RingAssumption DEF Descriptors, Peer
<1>2. CASE ~Connection(a)
  BY <1>2, RingAssumption DEF Asked, Shapes
<1> QED
  BY <1>1, <1>2

LEMMA StepAsked ==
    ASSUME ServerInv, [Next]_vars
    PROVE  Asked'
<1> USE DEF ServerInv
<1>1. CASE heap' = heap /\ sq' = sq /\ inflight' = inflight /\ fds' = fds
  BY <1>1, SameAsked
<1>2. CASE SetupFails \/ PeekBatch \/ Advance \/ HandleNull \/ UNCHANGED vars
  BY <1>1, <1>2 DEF SetupFails, PeekBatch, Advance, HandleNull, Handled, vars, env, ring
<1>3. CASE Setup
  BY <1>3, SetupAsked
<1>4. CASE Submit
  BY <1>4, SubmitAsked
<1>5. CASE AcceptFailed
  BY <1>5, FreeAsked DEF AcceptFailed, Event
<1>6. CASE Accepted
  BY <1>6, AcceptedAsked
<1>7. CASE ReadEnded
  BY <1>7, FreeAsked, Dropped DEF ReadEnded, Drop, Event
<1>8. CASE WriteFailed
  BY <1>8, FreeAsked, Dropped DEF WriteFailed, Drop, Event
<1>9. CASE ReadDone \/ WriteDone
  BY <1>9, RequeueAsked
<1>10. CASE Kernel
  <2>1. PICK q \in DOMAIN inflight : KernelStep(q)
    BY <1>10 DEF Kernel
  <2>2. heap' = heap /\ sq' = sq /\ DOMAIN inflight' \subseteq DOMAIN inflight
    BY <1>10, <2>1, KernelPosts, Posted DEF Kernel
  <2>3. \A a \in Live : fds'[heap[a].connfd] = fds[heap[a].connfd]
    <3>1. CASE KernelAccept(q)
      <4>1. \E c \in Client : fds' = [fds EXCEPT ![Lowest(Free)] = c]
        BY <3>1 DEF KernelAccept
      <4>2. fds[Lowest(Free)] = Closed
        BY <3>1, LowestFree DEF KernelAccept
      <4> QED
        BY <4>1, <4>2, LiveOpen, OfRecord DEF Shapes
    <3>2. CASE ~KernelAccept(q)
      BY <2>1, <3>2 DEF KernelStep, KernelNop, KernelRecv, KernelSend, KernelRefuse
    <3> QED
      BY <3>1, <3>2
  <2> QED
    BY <2>2, <2>3, SameAsked
<1>11. CASE Clients
  BY <1>1, <1>11 DEF Clients, ClientStep, ClientConnect, ClientSend, ClientLeave, ring
<1> QED
  BY <1>2, <1>3, <1>4, <1>5, <1>6, <1>7, <1>8, <1>9, <1>10, <1>11 DEF Next, Server

-----------------------------------------------------------------------------
(* Descriptors and their owners. *)

LEMMA SameDescriptors ==
    ASSUME ServerInv, fds' = fds,
           \A f \in Fd : fds[f] \in Client => conn'[fds[f]] \notin {"idle", "pending"},
           \A a \in Info : /\ Connection(a)' <=> Connection(a)
                           /\ Connection(a) => heap'[a].connfd = heap[a].connfd,
           \A a, b \in Live' : heap'[a].event = "ACCEPT" /\ heap'[b].event = "ACCEPT" => a = b,
           \A k \in Unhandled' : Made(k)' => \E j \in Unhandled : Made(j) /\ cq[j].res = cq'[k].res,
           \A j \in Unhandled : Made(j) => \E k \in Unhandled' : Made(k)' /\ cq'[k].res = cq[j].res
    PROVE  Descriptors'
<1> USE DEF ServerInv
<1>1. (\A a \in Info : Connection(a) => Peer(a) \in Client)'
  BY DEF Descriptors, Peer
<1>2. (\A a, b \in Info : Connection(a) /\ Connection(b) /\ heap[a].connfd = heap[b].connfd => a = b)'
  BY DEF Descriptors
<1>3. (\A k \in Unhandled : Made(k) =>
          /\ cq[k].res \in Fd /\ fds[cq[k].res] \in Client
          /\ \A a \in Info : Connection(a) => heap[a].connfd # cq[k].res)'
  <2> SUFFICES ASSUME NEW k \in Unhandled', Made(k)'
               PROVE  /\ cq'[k].res \in Fd /\ fds[cq'[k].res] \in Client
                      /\ \A a \in Info : Connection(a)' => heap'[a].connfd # cq'[k].res
    BY DEF Fd
  <2>1. PICK j \in Unhandled : Made(j) /\ cq[j].res = cq'[k].res
    OBVIOUS
  <2>2. /\ cq[j].res \in Fd /\ fds[cq[j].res] \in Client
        /\ \A a \in Info : Connection(a) => heap[a].connfd # cq[j].res
    BY <2>1 DEF Descriptors
  <2> QED
    BY <2>1, <2>2
<1>4. (\A f \in Fd : fds[f] \in Client =>
          \/ \E a \in Info : Connection(a) /\ heap[a].connfd = f
          \/ \E k \in Unhandled : Made(k) /\ cq[k].res = f)'
  <2> SUFFICES ASSUME NEW f \in Fd, fds[f] \in Client
               PROVE  \/ \E a \in Info : Connection(a)' /\ heap'[a].connfd = f
                      \/ \E k \in Unhandled' : Made(k)' /\ cq'[k].res = f
    BY DEF Fd
  <2>1. \/ \E a \in Info : Connection(a) /\ heap[a].connfd = f
        \/ \E k \in Unhandled : Made(k) /\ cq[k].res = f
    BY DEF Descriptors
  <2> QED
    BY <2>1
<1>5. (\A f, g \in Fd : fds[f] \in Client /\ fds[f] = fds[g] => f = g)'
  BY DEF Descriptors, Fd
<1>6. (\A f \in Fd : fds[f] \in Client => conn[fds[f]] \notin {"idle", "pending"})'
  BY DEF Fd
<1> QED
  BY <1>1, <1>2, <1>3, <1>4, <1>5, <1>6 DEF Descriptors

(* What a step makes of the accepts that are completed. *)
LEMMA NewlyMade ==
    ASSUME ServerInv, NEW q \in DOMAIN inflight, NEW r \in Int, Post(q, r), UNCHANGED <<pc, i, heap>>,
           NEW n, n = Len(cq) + 1
    PROVE  /\ \A k \in Unhandled : k \in Unhandled' /\ (Made(k)' <=> Made(k)) /\ cq'[k] = cq[k]
           /\ \A k \in Unhandled' : k \in Unhandled \/ k = n
           /\ n \in Unhandled' /\ cq'[n].res = r /\ cq'[n].data = q.data
           /\ Made(n)' <=> q.op = "accept" /\ r >= 0
<1> USE DEF ServerInv
<1>1. /\ Unhandled' = Unhandled \cup {n}
      /\ \A k \in Unhandled : cq'[k] = cq[k]
      /\ cq'[n] = [data |-> q.data, res |-> r]
  BY Posted
<1>2. cq'[n].data = q.data /\ cq'[n].res = r
  BY <1>1
<1>3. \A k \in Unhandled : Made(k)' <=> Made(k)
  BY <1>1 DEF Made
<1>4. q.data # NULL /\ heap[q.data].event = "ACCEPT" <=> q.op = "accept"
  <2>1. q.data # NULL => heap[q.data].event \in {"ACCEPT", "READ", "WRITE"}
    BY OfRecord DEF ConnInfos
  <2>2. IF q.data = NULL THEN q.op = "nop" ELSE Told(q)
    BY DEF Asked
  <2> QED
    BY <2>1, <2>2 DEF Told
<1>5. Made(n)' <=> q.data # NULL /\ heap[q.data].event = "ACCEPT" /\ r >= 0
  BY <1>2 DEF Made
<1> QED
  BY <1>1, <1>2, <1>3, <1>4, <1>5

LEMMA KernelDescriptors ==
    ASSUME ServerInv, NEW q \in DOMAIN inflight, KernelStep(q), UNCHANGED <<pc, i, heap>>
    PROVE  Descriptors'
<1> USE DEF ServerInv
<1>1. PICK n : n = Len(cq) + 1
  OBVIOUS
<1>2. \A a : (a \in Live' <=> a \in Live) /\ (Connection(a)' <=> Connection(a))
  BY DEF Live, Connection
<1>3. \A a, b \in Live : heap[a].event = "ACCEPT" /\ heap[b].event = "ACCEPT" => a = b
  BY DEF Descriptors
<1>4. CASE ~KernelAccept(q)
  <2>1. fds' = fds /\ conn' = conn
    BY <1>4 DEF KernelStep, KernelNop, KernelRecv, KernelSend, KernelRefuse, net
  <2>2. \E r \in Int : Post(q, r) /\ ~(q.op = "accept" /\ r >= 0)
    <3>1. CASE q.op # "accept"
      BY <3>1, KernelPosts
    <3>2. CASE KernelRefuse(q)
      BY <3>2 DEF KernelRefuse, EMFILE, EBADF, ENOTSOCK
    <3> QED
      BY <1>4, <3>1, <3>2 DEF KernelStep, KernelNop, KernelRecv, KernelSend
  <2>3. /\ \A k \in Unhandled : k \in Unhandled' /\ (Made(k)' <=> Made(k)) /\ cq'[k] = cq[k]
        /\ \A k \in Unhandled' : k \in Unhandled \/ k = n
        /\ ~Made(n)'
    BY <1>1, <2>2, NewlyMade
  <2>4. \A f \in Fd : fds[f] \in Client => conn'[fds[f]] \notin {"idle", "pending"}
    BY <2>1 DEF Descriptors
  <2>5. \A k \in Unhandled' : Made(k)' => \E j \in Unhandled : Made(j) /\ cq[j].res = cq'[k].res
    BY <2>3
  <2>6. \A j \in Unhandled : Made(j) => \E k \in Unhandled' : Made(k)' /\ cq'[k].res = cq[j].res
    BY <2>3
  <2> QED
    BY <1>2, <1>3, <2>1, <2>4, <2>5, <2>6, SameDescriptors
<1>5. CASE KernelAccept(q)
  <2>1. PICK f : f = Lowest(Free)
    OBVIOUS
  <2>2. f \in Fd /\ fds[f] = Closed /\ Post(q, f) /\ f \in Int /\ f >= 0 /\ q.op = "accept"
    BY <1>5, <2>1, LowestFree DEF KernelAccept, Fd
  <2>3. PICK c \in Client : /\ conn[c] = "pending"
                            /\ conn' = [conn EXCEPT ![c] = "open"]
                            /\ fds' = [fds EXCEPT ![f] = c]
    BY <1>5, <2>1 DEF KernelAccept
  <2>4. /\ \A k \in Unhandled : k \in Unhandled' /\ (Made(k)' <=> Made(k)) /\ cq'[k] = cq[k]
        /\ \A k \in Unhandled' : k \in Unhandled \/ k = n
        /\ n \in Unhandled' /\ cq'[n].res = f /\ Made(n)'
    BY <1>1, <2>2, NewlyMade
  <2>5. fds'[f] = c /\ \A g \in Fd : g # f => fds'[g] = fds[g]
    BY <2>2, <2>3 DEF Shapes
  <2>6. \A a \in Info : Connection(a) => heap[a].connfd \in Fd /\ heap[a].connfd # f /\ Peer(a) \in Client
    BY <2>2, LiveOpen, OfRecord DEF Descriptors, Connection
  <2>7. (\A a \in Info : Connection(a) => Peer(a) \in Client)'
    BY <1>2, <2>5, <2>6 DEF Peer
  <2>8. (\A a, b \in Info : Connection(a) /\ Connection(b) /\ heap[a].connfd = heap[b].connfd => a = b)'
    BY <1>2 DEF Descriptors
  <2>9. (\A k \in Unhandled : Made(k) =>
            /\ cq[k].res \in Fd /\ fds[cq[k].res] \in Client
            /\ \A a \in Info : Connection(a) => heap[a].connfd # cq[k].res)'
    <3> SUFFICES ASSUME NEW k \in Unhandled', Made(k)'
                 PROVE  /\ cq'[k].res \in Fd /\ fds'[cq'[k].res] \in Client
                        /\ \A a \in Info : Connection(a) => heap[a].connfd # cq'[k].res
      BY <1>2 DEF Fd
    <3>1. CASE k = n
      BY <2>2, <2>4, <2>5, <2>6, <3>1
    <3>2. CASE k \in Unhandled
      <4>1. /\ cq[k].res \in Fd /\ fds[cq[k].res] \in Client
            /\ \A a \in Info : Connection(a) => heap[a].connfd # cq[k].res
        BY <2>4, <3>2 DEF Descriptors
      <4>2. cq[k].res # f
        BY <2>2, <4>1, RingAssumption
      <4> QED
        BY <2>4, <2>5, <3>2, <4>1, <4>2
    <3> QED
      BY <2>4, <3>1, <3>2
  <2>10. (\A g \in Fd : fds[g] \in Client =>
            \/ \E a \in Info : Connection(a) /\ heap[a].connfd = g
            \/ \E k \in Unhandled : Made(k) /\ cq[k].res = g)'
    <3> SUFFICES ASSUME NEW g \in Fd, fds'[g] \in Client
                 PROVE  \/ \E a \in Info : Connection(a) /\ heap[a].connfd = g
                        \/ \E k \in Unhandled' : Made(k)' /\ cq'[k].res = g
      BY <1>2 DEF Fd
    <3>1. CASE g = f
      BY <2>4, <3>1
    <3>2. CASE g # f
      <4>1. \/ \E a \in Info : Connection(a) /\ heap[a].connfd = g
            \/ \E k \in Unhandled : Made(k) /\ cq[k].res = g
        BY <2>5, <3>2 DEF Descriptors
      <4> QED
        BY <2>4, <4>1
    <3> QED
      BY <3>1, <3>2
  <2>11. \A g \in Fd : fds[g] # c
    BY <2>3 DEF Descriptors
  <2>12. (\A g, h \in Fd : fds[g] \in Client /\ fds[g] = fds[h] => g = h)'
    <3> SUFFICES ASSUME NEW g \in Fd, NEW h \in Fd, fds'[g] \in Client, fds'[g] = fds'[h]
                 PROVE  g = h
      BY DEF Fd
    <3> QED
      BY <2>5, <2>11 DEF Descriptors
  <2>13. (\A g \in Fd : fds[g] \in Client => conn[fds[g]] \notin {"idle", "pending"})'
    <3> SUFFICES ASSUME NEW g \in Fd, fds'[g] \in Client
                 PROVE  conn'[fds'[g]] \notin {"idle", "pending"}
      BY DEF Fd
    <3>1. \A d \in Client : conn'[d] = IF d = c THEN "open" ELSE conn[d]
      BY <2>3 DEF Shapes
    <3> QED
      BY <2>5, <3>1 DEF Descriptors
  <2> QED
    BY <1>2, <1>3, <2>7, <2>8, <2>9, <2>10, <2>12, <2>13 DEF Descriptors
<1> QED
  BY <1>4, <1>5

LEMMA AcceptedDescriptors ==
    ASSUME ServerInv, Accepted
    PROVE  Descriptors'
<1> USE DEF ServerInv
<1>1. Handling /\ Handled /\ ci # NULL /\ fds' = fds /\ conn' = conn
  BY DEF Accepted, Event, Handled, net
<1>2. /\ i \in Unhandled /\ Unhandled' = Unhandled \ {i} /\ cq' = cq
      /\ \A k \in Unhandled' : cq[k].data # ci
  BY <1>1, Handles, AtHand
<1>3. PICK a, b \in Info :
              /\ a # b /\ a # ci /\ b # ci /\ heap[a] = NULL /\ heap[b] = NULL
              /\ ci \in Live /\ heap[ci].event = "ACCEPT"
              /\ heap' = [heap EXCEPT ![a] = ConnInfo(res, "READ", MAXLINE),
                                      ![b] = ConnInfo(1, "ACCEPT", 0), ![ci] = NULL]
              /\ res \in Fd /\ Made(i) /\ res = cq[i].res
  BY NewRecords
<1>4. PICK f : f = res
  OBVIOUS
<1>5. /\ f \in Fd /\ fds[f] \in Client /\ f = cq[i].res
      /\ \A x \in Info : Connection(x) => heap[x].connfd # f
  BY <1>2, <1>3, <1>4 DEF Descriptors
<1>6. /\ heap'[a].connfd = f /\ heap'[a].event = "READ" /\ heap'[a] # NULL
      /\ heap'[b].connfd = 1 /\ heap'[b].event = "ACCEPT" /\ heap'[b] # NULL /\ heap'[ci] = NULL
      /\ \A x \in Info : x \notin {a, b, ci} => heap'[x] = heap[x]
  <2>1. ConnInfo(f, "READ", MAXLINE) \in ConnInfos /\ ConnInfo(1, "ACCEPT", 0) \in ConnInfos
    BY <1>5, RingAssumption DEF ConnInfo, ConnInfos, Fd
  <2>2. heap'[a] = ConnInfo(f, "READ", MAXLINE) /\ heap'[b] = ConnInfo(1, "ACCEPT", 0)
        /\ heap'[ci] = NULL /\ \A x \in Info : x \notin {a, b, ci} => heap'[x] = heap[x]
    BY <1>3, <1>4, OfRecord DEF Shapes
  <2> QED
    BY <2>1, <2>2, EnoughMemory DEF ConnInfo
<1>7. ASSUME NEW x \in Info
      PROVE  /\ Connection(x)' <=> Connection(x) \/ x = a
             /\ Connection(x) => heap'[x] = heap[x] /\ x # a
             /\ x \in Live' /\ heap'[x].event = "ACCEPT" => x = b
  <2>1. \A y \in Live : heap[y].event = "ACCEPT" => y = ci
    BY <1>3 DEF Descriptors
  <2>2. CASE x = a
    BY <1>3, <1>6, <2>2 DEF Connection, Live
  <2>3. CASE x = b
    BY <1>3, <1>6, <2>3 DEF Connection, Live
  <2>4. CASE x = ci
    BY <1>3, <1>6, <2>4 DEF Connection, Live
  <2>5. CASE x \notin {a, b, ci}
    BY <1>6, <2>1, <2>5 DEF Connection, Live
  <2> QED
    BY <2>2, <2>3, <2>4, <2>5
<1>8. \A k \in Unhandled' : ~Made(k)'
  <2> SUFFICES ASSUME NEW k \in Unhandled', Made(k)' PROVE FALSE
    OBVIOUS
  <2>1. k \in Unhandled /\ cq[k].data # NULL /\ cq[k].data # ci /\ heap'[cq[k].data].event = "ACCEPT"
    BY <1>2 DEF Made
  <2>2. cq[k].data \in Info /\ cq[k].data \in Live
    BY <2>1, OfRecord
  <2>3. cq[k].data # b /\ cq[k].data # a
    BY <1>3, <2>2 DEF Live
  <2> QED
    BY <1>6, <1>7, <2>1, <2>2, <2>3 DEF Live
<1>9. (\A x, y \in Live : heap[x].event = "ACCEPT" /\ heap[y].event = "ACCEPT" => x = y)'
  BY <1>7 DEF Live
<1>10. (\A x \in Info : Connection(x) => Peer(x) \in Client)'
  <2> SUFFICES ASSUME NEW x \in Info, Connection(x)' PROVE fds[heap'[x].connfd] \in Client
    BY <1>1 DEF Peer
  <2> QED
    BY <1>5, <1>6, <1>7 DEF Descriptors, Peer
<1>11. (\A x, y \in Info : Connection(x) /\ Connection(y) /\ heap[x].connfd = heap[y].connfd => x = y)'
  <2> SUFFICES ASSUME NEW x \in Info, NEW y \in Info, Connection(x)', Connection(y)',
                      heap'[x].connfd = heap'[y].connfd
               PROVE  x = y
    OBVIOUS
  <2> QED
    BY <1>5, <1>6, <1>7 DEF Descriptors
<1>12. (\A g \in Fd : fds[g] \in Client =>
          \/ \E x \in Info : Connection(x) /\ heap[x].connfd = g
          \/ \E k \in Unhandled : Made(k) /\ cq[k].res = g)'
  <2> SUFFICES ASSUME NEW g \in Fd, fds[g] \in Client
               PROVE  \E x \in Info : Connection(x)' /\ heap'[x].connfd = g
    BY <1>1 DEF Fd
  <2>1. CASE \E x \in Info : Connection(x) /\ heap[x].connfd = g
    BY <1>7, <2>1
  <2>2. CASE \E k \in Unhandled : Made(k) /\ cq[k].res = g
    <3>1. PICK k \in Unhandled : Made(k) /\ cq[k].res = g
      BY <2>2
    <3>2. cq[k].data \in Live /\ heap[cq[k].data].event = "ACCEPT" /\ cq[k].data # NULL
      BY <3>1, OfRecord DEF Made
    <3>3. cq[k].data = ci
      BY <1>3, <3>2 DEF Descriptors
    <3>4. k = i
      BY <1>2, <3>3
    <3> QED
      BY <1>5, <1>6, <1>7, <3>1, <3>4
  <2> QED
    BY <2>1, <2>2 DEF Descriptors
<1> QED
  BY <1>1, <1>8, <1>9, <1>10, <1>11, <1>12 DEF Descriptors, Fd

LEMMA DropDescriptors ==
    ASSUME ServerInv, NEW e \in {"READ", "WRITE"}, Event(e), Drop, Handled
    PROVE  Descriptors'
<1> USE DEF ServerInv
<1>1. /\ ci # NULL /\ conn' = conn
      /\ i \in Unhandled /\ Unhandled' = Unhandled \ {i} /\ cq' = cq
      /\ \A k \in Unhandled' : cq[k].data # ci
  BY Handles, AtHand DEF Event, Handled, net
<1>2. ci \in Info /\ Connection(ci) /\ heap[ci].connfd \in Fd
  BY Dropped
<1>3. PICK f : f = heap[ci].connfd
  OBVIOUS
<1>4. heap'[ci] = NULL /\ \A x \in Info : x # ci => heap'[x] = heap[x]
  BY <1>2 DEF Drop, Shapes
<1>5. fds'[f] = Closed /\ Closed \notin Client /\ \A g \in Fd : g # f => fds'[g] = fds[g]
  BY <1>2, <1>3, RingAssumption DEF Drop, Shapes
<1>6. \A x \in Info : /\ Connection(x)' <=> Connection(x) /\ x # ci
                      /\ x \in Live' <=> x \in Live /\ x # ci
  BY <1>4 DEF Connection, Live
<1>7. ~Made(i) /\ \A k \in Unhandled' : Made(k)' <=> Made(k)
  <2>1. ~Made(i)
    BY DEF Made, Event, ci
  <2>2. ASSUME NEW k \in Unhandled'
        PROVE  Made(k)' <=> Made(k)
    <3>1. cq[k].data # NULL => cq[k].data \in Info /\ cq[k].data # ci
      BY <1>1, OfRecord
    <3> QED
      BY <1>1, <1>4, <3>1 DEF Made
  <2> QED
    BY <2>1, <2>2
<1>8. (\A x, y \in Live : heap[x].event = "ACCEPT" /\ heap[y].event = "ACCEPT" => x = y)'
  <2> SUFFICES ASSUME NEW x \in Live', NEW y \in Live', heap'[x].event = "ACCEPT", heap'[y].event = "ACCEPT"
               PROVE  x = y
    OBVIOUS
  <2>1. x \in Info /\ y \in Info
    BY DEF Live
  <2> QED
    BY <1>4, <1>6, <2>1 DEF Descriptors
<1>9. (\A x \in Info : Connection(x) => Peer(x) \in Client)'
  <2> SUFFICES ASSUME NEW x \in Info, Connection(x)' PROVE fds'[heap'[x].connfd] \in Client
    BY DEF Peer
  <2>1. Connection(x) /\ x # ci /\ heap'[x] = heap[x] /\ x \in Live
    BY <1>4, <1>6 DEF Connection
  <2>2. heap[x].connfd # f /\ heap[x].connfd \in Fd
    BY <1>2, <1>3, <2>1, OtherDescriptor, OfRecord
  <2> QED
    BY <1>5, <2>1, <2>2 DEF Descriptors, Peer
<1>10. (\A x, y \in Info : Connection(x) /\ Connection(y) /\ heap[x].connfd = heap[y].connfd => x = y)'
  BY <1>4, <1>6 DEF Descriptors
<1>11. (\A k \in Unhandled : Made(k) =>
            /\ cq[k].res \in Fd /\ fds[cq[k].res] \in Client
            /\ \A a \in Info : Connection(a) => heap[a].connfd # cq[k].res)'
  <2> SUFFICES ASSUME NEW k \in Unhandled', Made(k)'
               PROVE  /\ cq[k].res \in Fd /\ fds'[cq[k].res] \in Client
                      /\ \A a \in Info : Connection(a)' => heap'[a].connfd # cq[k].res
    BY <1>1 DEF Fd
  <2>1. /\ cq[k].res \in Fd /\ fds[cq[k].res] \in Client
        /\ \A a \in Info : Connection(a) => heap[a].connfd # cq[k].res
    BY <1>1, <1>7 DEF Descriptors
  <2> QED
    BY <1>2, <1>3, <1>4, <1>5, <1>6, <2>1
<1>12. (\A g \in Fd : fds[g] \in Client =>
          \/ \E x \in Info : Connection(x) /\ heap[x].connfd = g
          \/ \E k \in Unhandled : Made(k) /\ cq[k].res = g)'
  <2> SUFFICES ASSUME NEW g \in Fd, fds'[g] \in Client
               PROVE  \/ \E x \in Info : Connection(x)' /\ heap'[x].connfd = g
                      \/ \E k \in Unhandled' : Made(k)' /\ cq[k].res = g
    BY <1>1 DEF Fd
  <2>1. g # f /\ fds[g] \in Client
    BY <1>5
  <2>2. CASE \E x \in Info : Connection(x) /\ heap[x].connfd = g
    BY <1>3, <1>4, <1>6, <2>1, <2>2
  <2>3. CASE \E k \in Unhandled : Made(k) /\ cq[k].res = g
    BY <1>1, <1>7, <2>3
  <2> QED
    BY <2>1, <2>2, <2>3 DEF Descriptors
<1>13. (\A g, h \in Fd : fds[g] \in Client /\ fds[g] = fds[h] => g = h)'
  <2> SUFFICES ASSUME NEW g \in Fd, NEW h \in Fd, fds'[g] \in Client, fds'[g] = fds'[h]
               PROVE  g = h
    BY DEF Fd
  <2> QED
    BY <1>5 DEF Descriptors
<1>14. (\A g \in Fd : fds[g] \in Client => conn[fds[g]] \notin {"idle", "pending"})'
  <2> SUFFICES ASSUME NEW g \in Fd, fds'[g] \in Client
               PROVE  conn[fds'[g]] \notin {"idle", "pending"}
    BY <1>1 DEF Fd
  <2> QED
    BY <1>5 DEF Descriptors
<1> QED
  BY <1>8, <1>9, <1>10, <1>11, <1>12, <1>13, <1>14 DEF Descriptors

LEMMA StepDescriptors ==
    ASSUME ServerInv, [Next]_vars
    PROVE  Descriptors'
<1> USE DEF ServerInv
<1>1. /\ \A f \in Fd : fds[f] \in Client => conn[fds[f]] \notin {"idle", "pending"}
      /\ \A a, b \in Live : heap[a].event = "ACCEPT" /\ heap[b].event = "ACCEPT" => a = b
  BY DEF Descriptors
<1>2. CASE heap' = heap /\ cq' = cq /\ Unhandled' = Unhandled /\ fds' = fds /\ conn' = conn
  <2>1. \A a : (Connection(a)' <=> Connection(a)) /\ (a \in Live' <=> a \in Live)
    BY <1>2 DEF Connection, Live
  <2>2. \A k : Made(k)' <=> Made(k)
    BY <1>2 DEF Made
  <2> QED
    BY <1>1, <1>2, <2>1, <2>2, SameDescriptors
<1>3. CASE SetupFails \/ Submit \/ PeekBatch \/ UNCHANGED vars
  <2>1. heap' = heap /\ cq' = cq /\ fds' = fds /\ conn' = conn
    BY <1>3 DEF SetupFails, Submit, PeekBatch, vars, env, ring, net
  <2>2. Unhandled' = Unhandled
    BY <1>3 DEF SetupFails, Submit, PeekBatch, vars, env, ring, Unhandled
  <2> QED
    BY <1>2, <2>1, <2>2
<1>4. CASE Setup
  <2> DEFINE a == Malloc(Info)
  <2>1. pc = "main" /\ pc' = "submit" /\ Live = {} /\ fds' = fds /\ cq' = cq /\ conn' = conn
    BY <1>4 DEF Setup, Shapes, net
  <2>2. a \in Info
    BY <2>1, RoomForOne
  <2>3. heap' = [heap EXCEPT ![a] = ConnInfo(1, "ACCEPT", 0)]
    BY <1>4 DEF Setup
  <2> HIDE DEF a
  <2>4. \A x \in Live' : x = a /\ heap'[x].event = "ACCEPT"
    BY <2>1, <2>2, <2>3 DEF Live, Shapes, ConnInfo
  <2>5. \A x : ~Connection(x) /\ ~Connection(x)'
    BY <2>1, <2>4 DEF Connection
  <2>6. \A k \in Unhandled : cq[k].data = NULL
    BY <2>1, OfRecord
  <2>7. Unhandled' = Unhandled
    BY <2>1 DEF Unhandled
  <2>8. \A k \in Unhandled : ~Made(k) /\ ~Made(k)'
    BY <2>1, <2>6 DEF Made
  <2> QED
    BY <1>1, <2>1, <2>4, <2>5, <2>7, <2>8, SameDescriptors
<1>5. CASE Advance
  <2>1. /\ \A k \in Unhandled' : k + cqecount \in Unhandled /\ cq'[k] = cq[k + cqecount]
        /\ \A k \in Unhandled : k - cqecount \in Unhandled' /\ cq'[k - cqecount] = cq[k]
    BY <1>5, Advanced
  <2>2. heap' = heap /\ fds' = fds /\ conn' = conn
    BY <1>5 DEF Advance, net
  <2>3. \A a : (Connection(a)' <=> Connection(a)) /\ (a \in Live' <=> a \in Live)
    BY <2>2 DEF Connection, Live
  <2>4. \A k \in Unhandled' : Made(k)' => \E j \in Unhandled : Made(j) /\ cq[j].res = cq'[k].res
    BY <2>1, <2>2 DEF Made
  <2>5. \A j \in Unhandled : Made(j) => \E k \in Unhandled' : Made(k)' /\ cq'[k].res = cq[j].res
    BY <2>1, <2>2 DEF Made
  <2> QED
    BY <1>1, <2>2, <2>3, <2>4, <2>5, SameDescriptors
<1>6. CASE HandleNull \/ AcceptFailed \/ ReadDone \/ WriteDone
  <2>1. Handling /\ Handled /\ fds' = fds /\ conn' = conn
    BY <1>6 DEF HandleNull, AcceptFailed, ReadDone, WriteDone, Event, Handled, net
  <2>2. i \in Unhandled /\ Unhandled' = Unhandled \ {i} /\ cq' = cq
    BY <2>1, Handles
  <2>3. ~Made(i)
    BY <1>6, <2>1, Handles DEF HandleNull, AcceptFailed, ReadDone, WriteDone, Event, Made, ci, res
  <2>4. /\ \A a \in Info : a # ci => heap'[a] = heap[a]
        /\ ci # NULL => ci \in Info /\ \A k \in Unhandled' : cq[k].data # ci
    <3>1. CASE HandleNull
      BY <3>1 DEF HandleNull
    <3>2. CASE AcceptFailed
      BY <2>1, <3>2, AtHand DEF AcceptFailed, Shapes
    <3>3. CASE ReadDone \/ WriteDone
      BY <2>1, <3>3, AtHand DEF ReadDone, WriteDone, Shapes
    <3> QED
      BY <1>6, <3>1, <3>2, <3>3
  <2>0. PICK d : d = ci
    OBVIOUS
  <2>5. ASSUME d # NULL
        PROVE  \/ Connection(d) /\ Connection(d)' /\ heap'[d].connfd = heap[d].connfd
               \/ ~Connection(d) /\ heap'[d] = NULL
    <3>1. CASE AcceptFailed
      BY <2>0, <2>4, <2>5, <3>1 DEF AcceptFailed, Event, Connection, Shapes
    <3>2. CASE ReadDone \/ WriteDone
      <4>1. Connection(ci)
        BY <3>2, Rewritten DEF ReadDone, WriteDone, Event, Connection
      <4>2. PICK r \in ConnInfos :
               /\ r # NULL /\ heap' = [heap EXCEPT ![ci] = r] /\ r.connfd = heap[ci].connfd
               /\ r.event # "ACCEPT"
        BY <3>2, Rewritten
      <4>3. heap'[ci] = r
        BY <2>0, <2>4, <2>5, <4>2 DEF Shapes
      <4>4. d \in Info /\ heap'[d] = r
        BY <2>0, <2>4, <2>5, <4>3
      <4>5. Connection(d)'
        BY <4>2, <4>4 DEF Connection, Live
      <4> QED
        BY <2>0, <4>1, <4>2, <4>4, <4>5
    <3> QED
      BY <1>6, <2>0, <2>5, <3>1, <3>2 DEF HandleNull
  <2>6. \A a \in Info : /\ Connection(a)' <=> Connection(a)
                        /\ Connection(a) => heap'[a].connfd = heap[a].connfd
    <3> SUFFICES ASSUME NEW a \in Info
                 PROVE  /\ Connection(a)' <=> Connection(a)
                        /\ Connection(a) => heap'[a].connfd = heap[a].connfd
      OBVIOUS
    <3>1. CASE a = ci
      <4>1. ci # NULL
        BY <3>1, EnoughMemory
      <4> QED
        BY <2>0, <2>5, <3>1, <4>1 DEF Connection, Live
    <3>2. CASE a # ci
      BY <2>4, <3>2 DEF Connection, Live
    <3> QED
      BY <3>1, <3>2
  <2>7. \A a, b \in Live' : heap'[a].event = "ACCEPT" /\ heap'[b].event = "ACCEPT" => a = b
    <3>1. ASSUME NEW a \in Live', heap'[a].event = "ACCEPT"
          PROVE  a \in Live /\ heap[a].event = "ACCEPT"
      <4>1. a \in Info /\ heap'[a] # NULL /\ a # NULL
        BY EnoughMemory DEF Live
      <4>2. a # ci
        BY <2>0, <2>5, <3>1, <4>1 DEF Connection
      <4> QED
        BY <2>4, <3>1, <4>1, <4>2 DEF Live
    <3> QED
      BY <1>1, <3>1
  <2>8. \A k \in Unhandled' : Made(k)' <=> Made(k)
    <3> SUFFICES ASSUME NEW k \in Unhandled' PROVE Made(k)' <=> Made(k)
      OBVIOUS
    <3>1. cq[k].data # NULL => cq[k].data \in Info /\ cq[k].data # ci
      BY <2>2, <2>4, OfRecord
    <3> QED
      BY <2>2, <2>4, <3>1 DEF Made
  <2> QED
    BY <1>1, <2>1, <2>2, <2>3, <2>6, <2>7, <2>8, SameDescriptors
<1>7. CASE Accepted
  BY <1>7, AcceptedDescriptors
<1>8. CASE ReadEnded
  BY <1>8, DropDescriptors DEF ReadEnded
<1>9. CASE WriteFailed
  BY <1>9, DropDescriptors DEF WriteFailed
<1>10. CASE Kernel
  BY <1>10, KernelDescriptors DEF Kernel
<1>11. CASE Clients
  <2>1. PICK c \in Client : ClientStep(c)
    BY <1>11 DEF Clients
  <2>2. UNCHANGED <<pc, heap, i, cq, fds>>
    BY <1>11, <2>1 DEF Clients, ClientStep, ClientConnect, ClientSend, ClientLeave, ring
  <2>3. \A f \in Fd : fds[f] \in Client => conn'[fds[f]] \notin {"idle", "pending"}
    <3> SUFFICES ASSUME NEW f \in Fd, fds[f] \in Client PROVE conn'[fds[f]] \notin {"idle", "pending"}
      OBVIOUS
    <3>1. conn[fds[f]] \notin {"idle", "pending"}
      BY <1>1
    <3> QED
      BY <2>1, <3>1 DEF ClientStep, ClientConnect, ClientSend, ClientLeave, Shapes
  <2>4. Unhandled' = Unhandled
    BY <2>2 DEF Unhandled
  <2>5. \A a : (Connection(a)' <=> Connection(a)) /\ (a \in Live' <=> a \in Live)
    BY <2>2 DEF Connection, Live
  <2>6. \A k : Made(k)' <=> Made(k)
    BY <2>2 DEF Made
  <2> QED
    BY <1>1, <2>2, <2>3, <2>4, <2>5, <2>6, SameDescriptors
<1> QED
  BY <1>3, <1>4, <1>5, <1>6, <1>7, <1>8, <1>9, <1>10, <1>11 DEF Next, Server

-----------------------------------------------------------------------------
(* Echoes is kept. *)

(* A connection stands as before when its record, its buffer, its          *)
(* descriptor and its client do.                                           *)
LEMMA KeptRecord ==
    ASSUME NEW a, Faults' = Faults, heap'[a] = heap[a], mem'[a] = mem[a],
           fds'[heap[a].connfd] = fds[heap[a].connfd],
           taken'[Peer(a)] = taken[Peer(a)], echo'[Peer(a)] = echo[Peer(a)]
    PROVE  /\ Waiting(a)' <=> Waiting(a)
           /\ \A n : Answered(a, n)' <=> Answered(a, n)
<1>1. PICK c : c = Peer(a)
  OBVIOUS
<1>2. Peer(a) = c /\ Peer(a)' = c
  BY <1>1 DEF Peer
<1>3. \A n : Behind(c, n)' <=> Behind(c, n)
  BY <1>1 DEF Behind
<1>4. ASSUME NEW n PROVE Holds(a, n)' <=> Holds(a, n)
  <2>1. Behind(Peer(a), n)' <=> Behind(Peer(a), n)
    BY <1>2, <1>3
  <2>2. taken'[c] = taken[c]
    BY <1>1
  <2> QED
    BY <1>2, <2>1, <2>2 DEF Holds
<1>5. Behind(Peer(a), 0)' <=> Behind(Peer(a), 0)
  BY <1>2, <1>3
<1>6. PICK m : m = heap[a].buffer_length
  OBVIOUS
<1>7. Holds(a, heap[a].buffer_length)' <=> Holds(a, heap[a].buffer_length)
  BY <1>4, <1>6
<1>8. Waiting(a)' <=> Waiting(a)
  BY <1>5, <1>7 DEF Waiting
<1>9. \A n : Answered(a, n)' <=> Answered(a, n)
  BY <1>4, <1>5 DEF Answered
<1> QED
  BY <1>8, <1>9

(* A client about whom nothing changes but that it may have connected or   *)
(* left.                                                                   *)
LEMMA KeptClient ==
    ASSUME NEW c, Echoed(c), Faults' = Faults, taken'[c] = taken[c], echo'[c] = echo[c],
           conn'[c] \in {"idle", "pending"} => conn[c] \in {"idle", "pending"}
    PROVE  Echoed(c)'
BY DEF Echoed

(* A completion is handled: what was at hand changes, all else is kept. *)
LEMMA HandledEchoes ==
    ASSUME ServerInv, Handling, Handled,
           \A a \in Info : a # ci /\ a \in Live =>
              /\ heap'[a] = heap[a] /\ mem'[a] = mem[a]
              /\ Connection(a) => fds'[heap[a].connfd] = fds[heap[a].connfd],
           \A a \in Info : a = ci \/ a \notin Live => (Connection(a)' => Waiting(a)'),
           \A k \in Unhandled' : Made(k) => fds'[cq[k].res] = fds[cq[k].res]
    PROVE  Echoes'
<1> USE DEF ServerInv
<1>1. i \in Unhandled /\ Unhandled' = Unhandled \ {i} /\ cq' = cq /\ UNCHANGED <<Faults, conn, taken, echo>>
  BY Handles DEF Handled, net
<1>2. ci # NULL => \A k \in Unhandled' : cq[k].data # ci
  BY AtHand
<1>3. \A c \in Client : Echoed(c)'
  BY <1>1, KeptClient DEF Echoes
<1>4. \A k \in Unhandled' : cq[k].data # NULL =>
         /\ cq[k].data \in Info /\ cq[k].data \in Live /\ cq[k].data # ci
         /\ heap'[cq[k].data] = heap[cq[k].data] /\ mem'[cq[k].data] = mem[cq[k].data]
  BY <1>1, <1>2, OfRecord
<1>5. ASSUME NEW k \in Unhandled', Made(k)'
      PROVE  Behind(fds[cq[k].res], 0)'
  <2>1. Made(k) /\ k \in Unhandled
    BY <1>1, <1>4, <1>5 DEF Made
  <2>2. PICK c : c = fds[cq[k].res]
    OBVIOUS
  <2>3. Behind(c, 0)
    BY <2>1, <2>2 DEF Echoes
  <2>4. Behind(c, 0)'
    BY <1>1, <2>3 DEF Behind
  <2>5. fds'[cq'[k].res] = c
    BY <1>1, <2>1, <2>2
  <2> QED
    BY <2>4, <2>5
<1>6. ASSUME NEW a \in Info, Connection(a)', ~Completed(a)'
      PROVE  Waiting(a)'
  <2>1. CASE a = ci \/ a \notin Live
    BY <1>6, <2>1
  <2>2. CASE a # ci /\ a \in Live
    <3>1. Connection(a) /\ heap'[a] = heap[a] /\ mem'[a] = mem[a] /\ fds'[heap[a].connfd] = fds[heap[a].connfd]
      BY <1>6, <2>2 DEF Connection
    <3>2. ~Completed(a)
      BY <1>1, <1>6, <2>2 DEF Completed, ci
    <3>3. Waiting(a)
      BY <3>1, <3>2 DEF Echoes
    <3> QED
      BY <1>1, <3>1, <3>3, KeptRecord
  <2> QED
    BY <2>1, <2>2
<1>7. ASSUME NEW k \in Unhandled', cq'[k].data # NULL, cq'[k].res > 0
      PROVE  Answered(cq[k].data, cq[k].res)'
  <2>1. PICK a, n : a = cq[k].data /\ n = cq[k].res
    OBVIOUS
  <2>2. a \in Info /\ a \in Live /\ a # ci /\ heap'[a] = heap[a] /\ mem'[a] = mem[a]
    BY <1>1, <1>4, <1>7, <2>1
  <2>3. Answered(a, n)
    BY <1>1, <1>7, <2>1 DEF Echoes
  <2>4. Answered(a, n)'
    <3>1. CASE Connection(a)
      BY <1>1, <2>2, <2>3, <3>1, KeptRecord
    <3>2. CASE ~Connection(a)
      BY <2>2, <3>2 DEF Connection, Answered
    <3> QED
      BY <3>1, <3>2
  <2>5. cq'[k].data = a /\ cq'[k].res = n
    BY <1>1, <2>1
  <2> QED
    BY <2>4, <2>5
<1> QED
  BY <1>3, <1>5, <1>6, <1>7 DEF Echoes


(* Two connections are never of the same client, nor one that was made and *)
(* one that has a record.                                                  *)
LEMMA OtherPeer ==
    ASSUME ServerInv, NEW a \in Info, Connection(a)
    PROVE  /\ \A b \in Info : Connection(b) /\ b # a => Peer(b) # Peer(a)
           /\ \A k \in Unhandled : Made(k) => fds[cq[k].res] # Peer(a)
<1> USE DEF ServerInv
<1>1. heap[a].connfd \in Fd /\ Peer(a) \in Client /\ a \in Live
  BY OfRecord DEF Descriptors, Connection
<1>2. \A f \in Fd : fds[f] = Peer(a) => f = heap[a].connfd
  BY <1>1 DEF Descriptors, Peer
<1>3. ASSUME NEW b \in Info, Connection(b), b # a PROVE Peer(b) # Peer(a)
  <2>1. heap[b].connfd \in Fd /\ heap[b].connfd # heap[a].connfd
    BY <1>1, <1>3, OfRecord, OtherDescriptor DEF Connection
  <2> QED
    BY <1>2, <2>1 DEF Peer
<1>4. ASSUME NEW k \in Unhandled, Made(k) PROVE fds[cq[k].res] # Peer(a)
  <2>1. cq[k].res \in Fd /\ heap[a].connfd # cq[k].res
    BY <1>4 DEF Descriptors
  <2> QED
    BY <1>2, <2>1
<1> QED
  BY <1>3, <1>4

LEMMA DropEchoes ==
    ASSUME ServerInv, NEW e \in {"READ", "WRITE"}, Event(e), Drop, Handled
    PROVE  Echoes'
<1> USE DEF ServerInv
<1>1. Handling /\ ci # NULL /\ Unhandled' \subseteq Unhandled /\ cq' = cq
  BY Handles DEF Event
<1>2. ci \in Info /\ Connection(ci) /\ heap[ci].connfd \in Fd
  BY Dropped
<1>3. /\ heap'[ci] = NULL /\ mem' = mem
      /\ \A a \in Info : a # ci => heap'[a] = heap[a]
      /\ \A f \in Fd : f # heap[ci].connfd => fds'[f] = fds[f]
  BY <1>2 DEF Drop, Shapes
<1>4. \A a \in Info : a # ci /\ a \in Live =>
              /\ heap'[a] = heap[a] /\ mem'[a] = mem[a]
              /\ Connection(a) => fds'[heap[a].connfd] = fds[heap[a].connfd]
  BY <1>2, <1>3, OtherDescriptor, OfRecord
<1>5. \A a \in Info : a = ci \/ a \notin Live => ~Connection(a)'
  BY <1>3 DEF Connection, Live
<1>6. \A k \in Unhandled' : Made(k) => fds'[cq[k].res] = fds[cq[k].res]
  BY <1>1, <1>2, <1>3 DEF Descriptors
<1> QED
  BY <1>1, <1>4, <1>5, <1>6, HandledEchoes

LEMMA AcceptedEchoes ==
    ASSUME ServerInv, Accepted
    PROVE  Echoes'
<1> USE DEF ServerInv
<1>1. Handling /\ Handled /\ fds' = fds /\ UNCHANGED <<Faults, taken, echo>>
  BY DEF Accepted, Event, Handled, net
<1>2. PICK a, b \in Info :
              /\ a # b /\ a # ci /\ b # ci /\ heap[a] = NULL /\ heap[b] = NULL /\ ci \in Live
              /\ heap' = [heap EXCEPT ![a] = ConnInfo(res, "READ", MAXLINE),
                                      ![b] = ConnInfo(1, "ACCEPT", 0), ![ci] = NULL]
              /\ mem' = [mem EXCEPT ![a] = Blank, ![b] = Blank]
              /\ res \in Fd /\ i \in Unhandled /\ Made(i) /\ res = cq[i].res
  BY NewRecords
<1>3. PICK f : f = res
  OBVIOUS
<1>4. /\ heap'[a] = ConnInfo(f, "READ", MAXLINE) /\ heap'[b] = ConnInfo(1, "ACCEPT", 0)
      /\ heap'[ci] = NULL
      /\ \A x \in Info : x \notin {a, b, ci} => heap'[x] = heap[x] /\ mem'[x] = mem[x]
  BY <1>2, <1>3, OfRecord DEF Shapes
<1>5. \A x \in Info : x # ci /\ x \in Live => heap'[x] = heap[x] /\ mem'[x] = mem[x]
  BY <1>2, <1>4 DEF Live
<1>6. Waiting(a)'
  <2>1. PICK c : c = fds[f]
    OBVIOUS
  <2>2. Behind(c, 0)
    BY <1>2, <1>3, <2>1 DEF Echoes
  <2>3. Behind(c, 0)'
    BY <1>1, <2>2 DEF Behind
  <2>4. fds'[heap'[a].connfd] = c /\ heap'[a].event = "READ"
    BY <1>1, <1>4, <2>1 DEF ConnInfo
  <2> QED
    BY <2>3, <2>4 DEF Waiting, Peer
<1>7. ~Connection(b)' /\ \A x \in Info : x = ci \/ (x \notin Live /\ x \notin {a, b}) => ~Connection(x)'
  BY <1>4 DEF Connection, Live, ConnInfo
<1> QED
  BY <1>1, <1>5, <1>6, <1>7, HandledEchoes

LEMMA RequeueEchoes ==
    ASSUME ServerInv, ReadDone \/ WriteDone
    PROVE  Echoes'
<1> USE DEF ServerInv
<1>1. PICK d : d = ci
  OBVIOUS
<1>2. /\ Handling /\ Handled /\ d \in Info /\ d # NULL /\ d \in Live
      /\ UNCHANGED <<fds, mem, Faults, taken, echo>> /\ Live' = Live
  BY <1>1, Rewritten DEF ReadDone, WriteDone, Handled, net
<1>3. PICK r \in ConnInfos :
                 /\ heap' = [heap EXCEPT ![d] = r]
                 /\ r.connfd = heap[d].connfd
                 /\ IF ReadDone THEN r.event = "WRITE" /\ r.buffer_length = res
                    ELSE r.event = "READ" /\ r.buffer_length = heap[d].buffer_length
  BY <1>1, Rewritten
<1>4. heap'[d] = r /\ \A x \in Info : x # d => heap'[x] = heap[x]
  BY <1>2, <1>3 DEF Shapes
<1>5. PICK c, n : c = Peer(d) /\ n = res
  OBVIOUS
<1>6. n > 0 /\ Answered(d, n) /\ (ReadDone => heap[d].event = "READ")
      /\ (~ReadDone => heap[d].event = "WRITE")
  BY <1>1, <1>2, <1>5, Handles DEF ReadDone, WriteDone, Event, Echoes, ci, res
<1>7. Peer(d)' = c
  BY <1>2, <1>3, <1>4, <1>5 DEF Peer
<1>8. Waiting(d)'
  <2>1. CASE ReadDone
    <3>1. Holds(d, n)
      BY <1>6, <2>1 DEF Answered
    <3>2. /\ n \in 1 .. MAXLINE /\ Behind(c, n)
          /\ \A x \in 1 .. n : mem[d][x] = <<c, taken[c] - n + x>>
      BY <1>5, <3>1 DEF Holds
    <3>3. Behind(c, n)'
      BY <1>2, <3>2 DEF Behind
    <3>4. Holds(d, n)'
      BY <1>2, <1>7, <3>2, <3>3 DEF Holds
    <3>5. heap'[d].event = "WRITE" /\ heap'[d].buffer_length = n
      BY <1>3, <1>4, <1>5, <2>1
    <3> QED
      BY <3>4, <3>5 DEF Waiting
  <2>2. CASE ~ReadDone
    <3>1. Behind(c, 0)
      BY <1>5, <1>6, <2>2 DEF Answered
    <3>2. Behind(c, 0)'
      BY <1>2, <3>1 DEF Behind
    <3>3. heap'[d].event = "READ"
      BY <1>3, <1>4, <2>2
    <3> QED
      BY <1>7, <3>2, <3>3 DEF Waiting
  <2> QED
    BY <2>1, <2>2
<1>9. \A x \in Info : x = d \/ x \notin Live => (Connection(x)' => Waiting(x)')
  BY <1>2, <1>8 DEF Connection
<1> QED
  BY <1>1, <1>2, <1>4, <1>9, HandledEchoes

(* The kernel posts a completion. *)
LEMMA PostedEchoes ==
    ASSUME ServerInv, NEW q \in DOMAIN inflight, NEW r \in Int, Post(q, r), UNCHANGED <<pc, i, heap>>,
           Faults' = Faults,
           \A b \in Info : Connection(b) /\ b # q.data =>
              /\ mem'[b] = mem[b] /\ fds'[heap[b].connfd] = fds[heap[b].connfd]
              /\ taken'[Peer(b)] = taken[Peer(b)] /\ echo'[Peer(b)] = echo[Peer(b)],
           \A k \in Unhandled : Made(k) =>
              /\ fds'[cq[k].res] = fds[cq[k].res]
              /\ taken'[fds[cq[k].res]] = taken[fds[cq[k].res]]
              /\ echo'[fds[cq[k].res]] = echo[fds[cq[k].res]],
           \A c \in Client : Echoed(c)',
           q.op = "accept" /\ r >= 0 => Behind(fds[r], 0)',
           q.data # NULL /\ r > 0 => Answered(q.data, r)'
    PROVE  Echoes'
<1> USE DEF ServerInv
<1>1. PICK n : n = Len(cq) + 1
  OBVIOUS
<1>2. /\ \A k \in Unhandled : k \in Unhandled' /\ (Made(k)' <=> Made(k)) /\ cq'[k] = cq[k]
      /\ \A k \in Unhandled' : k \in Unhandled \/ k = n
      /\ n \in Unhandled' /\ cq'[n].res = r /\ cq'[n].data = q.data
      /\ Made(n)' <=> q.op = "accept" /\ r >= 0
  BY <1>1, NewlyMade
<1>3. ASSUME NEW k \in Unhandled', Made(k)'
      PROVE  Behind(fds[cq[k].res], 0)'
  <2>1. CASE k = n
    BY <1>2, <1>3, <2>1
  <2>2. CASE k \in Unhandled
    <3>1. Made(k) /\ cq'[k] = cq[k]
      BY <1>2, <1>3, <2>2
    <3>2. PICK c : c = fds[cq[k].res]
      OBVIOUS
    <3>3. Behind(c, 0) /\ fds'[cq'[k].res] = c /\ taken'[c] = taken[c] /\ echo'[c] = echo[c]
      BY <2>2, <3>1, <3>2 DEF Echoes
    <3>4. Behind(c, 0)'
      BY <3>3 DEF Behind
    <3> QED
      BY <3>3, <3>4
  <2> QED
    BY <1>2, <2>1, <2>2
<1>4. ASSUME NEW a \in Info, Connection(a)', ~Completed(a)'
      PROVE  Waiting(a)'
  <2>1. Connection(a)
    BY <1>4 DEF Connection, Live
  <2>2. a # q.data /\ ~Completed(a)
    BY <1>2, <1>4 DEF Completed
  <2>3. Waiting(a)
    BY <2>1, <2>2 DEF Echoes
  <2> QED
    BY <2>1, <2>2, <2>3, KeptRecord
<1>5. ASSUME NEW k \in Unhandled', cq'[k].data # NULL, cq'[k].res > 0
      PROVE  Answered(cq[k].data, cq[k].res)'
  <2>1. CASE k = n
    BY <1>2, <1>5, <2>1
  <2>2. CASE k \in Unhandled
    <3>1. PICK a, m : a = cq[k].data /\ m = cq[k].res
      OBVIOUS
    <3>2. cq'[k].data = a /\ cq'[k].res = m /\ a # NULL /\ m > 0
      BY <1>2, <1>5, <2>2, <3>1
    <3>3. Answered(a, m)
      BY <2>2, <3>1, <3>2 DEF Echoes
    <3>4. a \in Info /\ a \in Live /\ Completed(a)
      BY <2>2, <3>1, <3>2, OfRecord
    <3>5. a # q.data
      BY <3>4 DEF Owned, InKernel
    <3>6. Answered(a, m)'
      <4>1. CASE Connection(a)
        BY <3>3, <3>4, <3>5, <4>1, KeptRecord
      <4>2. CASE ~Connection(a)
        BY <3>4, <4>2 DEF Connection, Answered
      <4> QED
        BY <4>1, <4>2
    <3> QED
      BY <3>2, <3>6
  <2> QED
    BY <1>2, <2>1, <2>2
<1> QED
  BY <1>3, <1>4, <1>5 DEF Echoes


(* A request on a connection that the kernel has. *)
LEMMA OnItsWay ==
    ASSUME ServerInv, NEW q \in DOMAIN inflight, q.op \in {"recv", "send"}
    PROVE  /\ q.data \in Info /\ q.data # NULL /\ Connection(q.data) /\ q.buf = q.data
           /\ q.len = heap[q.data].buffer_length /\ q.len \in 1 .. MAXLINE
           /\ q.file = Peer(q.data) /\ q.file \in Client
           /\ conn[q.file] \notin {"idle", "pending"}
           /\ IF q.op = "recv" THEN Behind(q.file, 0) ELSE Holds(q.data, q.len)
<1> USE DEF ServerInv
<1>1. q.data # NULL /\ Told(q) /\ q.file = fds[q.fd]
  BY DEF Asked
<1>2. q.data \in Info /\ q.data \in Live /\ heap[q.data] \in ConnInfos /\ InKernel(q.data)
  BY <1>1, OfRecord
<1>3. heap[q.data].event \in {"ACCEPT", "READ", "WRITE"} /\ heap[q.data].buffer_length \in 0 .. MAXLINE
  BY <1>2 DEF ConnInfos
<1>4. heap[q.data].event = IF q.op = "recv" THEN "READ" ELSE "WRITE"
  BY <1>1, <1>3 DEF Told
<1>5. Connection(q.data) /\ q.buf = q.data /\ q.len = heap[q.data].buffer_length /\ q.file = Peer(q.data)
  BY <1>1, <1>2, <1>4 DEF Connection, Told, Peer
<1>6. q.len \in 1 .. MAXLINE
  <2>1. heap[q.data].buffer_length > 0
    BY <1>2, <1>5 DEF Asked
  <2> QED
    BY <1>3, <1>5, <2>1, RingAssumption
<1>7. q.file \in Client /\ conn[q.file] \notin {"idle", "pending"}
  BY <1>2, <1>5, OfRecord DEF Descriptors, Peer
<1>8. Waiting(q.data)
  BY <1>2, <1>5 DEF Owned, Echoes
<1> QED
  BY <1>1, <1>2, <1>4, <1>5, <1>6, <1>7, <1>8 DEF Waiting

LEMMA RecvEchoes ==
    ASSUME ServerInv, NEW q \in DOMAIN inflight, KernelRecv(q), UNCHANGED <<pc, i, heap>>,
           ~UNCHANGED <<taken, mem>>
    PROVE  Echoes'
<1> USE DEF ServerInv
<1>1. PICK a, c : a = q.data /\ c = q.file
  OBVIOUS
<1>2. /\ a \in Info /\ a # NULL /\ Connection(a) /\ q.buf = a /\ q.len \in 1 .. MAXLINE
      /\ c = Peer(a) /\ c \in Client /\ conn[c] \notin {"idle", "pending"}
      /\ Behind(c, 0) /\ q.op = "recv"
  BY <1>1, OnItsWay DEF KernelRecv
<1>3. PICK n : n = IF sent[c] - taken[c] < q.len THEN sent[c] - taken[c] ELSE q.len
  OBVIOUS
<1>4. /\ n > 0 /\ Post(q, n) /\ taken' = [taken EXCEPT ![c] = @ + n]
      /\ mem' = [mem EXCEPT ![a] =
                   [x \in 1 .. MAXLINE |-> IF x <= n THEN <<c, taken[c] + x>> ELSE @[x]]]
      /\ UNCHANGED <<fds, Faults, conn, sent, echo>>
  BY <1>1, <1>2, <1>3 DEF KernelRecv
<1>5. n \in 1 .. MAXLINE /\ taken[c] \in Nat
  BY <1>2, <1>3, <1>4, RingAssumption DEF Shapes
<1>6. /\ taken'[c] = taken[c] + n /\ \A d \in Client : d # c => taken'[d] = taken[d]
      /\ \A x \in 1 .. n : mem'[a][x] = <<c, taken[c] + x>>
      /\ \A b \in Info : b # a => mem'[b] = mem[b]
  <2>1. taken'[c] = taken[c] + n /\ \A d \in Client : d # c => taken'[d] = taken[d]
    BY <1>2, <1>4 DEF Shapes
  <2>2. /\ mem'[a] = [x \in 1 .. MAXLINE |-> IF x <= n THEN <<c, taken[c] + x>> ELSE mem[a][x]]
        /\ \A b \in Info : b # a => mem'[b] = mem[b]
    BY <1>2, <1>4 DEF Shapes
  <2>3. \A x \in 1 .. n : mem'[a][x] = <<c, taken[c] + x>>
    <3> DEFINE m == taken[c]
               B(x) == IF x <= n THEN <<c, m + x>> ELSE mem[a][x]
    <3>1. mem'[a] = [x \in 1 .. MAXLINE |-> B(x)]
      BY <2>2
    <3>2. \A x \in 1 .. n : x \in 1 .. MAXLINE /\ B(x) = <<c, m + x>>
      BY <1>5, RingAssumption
    <3> HIDE DEF m, B
    <3>3. \A x \in 1 .. n : mem'[a][x] = B(x)
      BY <3>1, <3>2
    <3> QED
      BY <3>2, <3>3 DEF m
  <2> QED
    BY <2>1, <2>2, <2>3
<1>7. Peer(a)' = c
  BY <1>2, <1>4 DEF Peer
<1>8. \A b \in Info : Connection(b) /\ b # q.data =>
              /\ mem'[b] = mem[b] /\ fds'[heap[b].connfd] = fds[heap[b].connfd]
              /\ taken'[Peer(b)] = taken[Peer(b)] /\ echo'[Peer(b)] = echo[Peer(b)]
  BY <1>1, <1>2, <1>4, <1>6, OtherPeer DEF Descriptors
<1>9. \A k \in Unhandled : Made(k) =>
              /\ fds'[cq[k].res] = fds[cq[k].res]
              /\ taken'[fds[cq[k].res]] = taken[fds[cq[k].res]]
              /\ echo'[fds[cq[k].res]] = echo[fds[cq[k].res]]
  BY <1>2, <1>4, <1>6, OtherPeer DEF Descriptors
<1>10. Behind(c, n)'
  <2>1. taken'[c] - n = taken[c] /\ n <= taken'[c]
    BY <1>5, <1>6
  <2>2. /\ \A k \in DOMAIN echo[c] : echo[c][k][2] <= taken[c]
        /\ "short_send" \notin Faults => Len(echo[c]) = taken[c]
    BY <1>2, <1>5 DEF Behind
  <2> QED
    BY <1>4, <2>1, <2>2 DEF Behind
<1>11. Answered(a, n)'
  <2>1. \A x \in 1 .. n : mem'[a][x] = <<c, taken'[c] - n + x>>
    BY <1>5, <1>6
  <2>2. Holds(a, n)'
    BY <1>5, <1>7, <1>10, <2>1 DEF Holds
  <2>3. heap[a].event = "READ"
    <3>1. heap[a] \in ConnInfos
      BY <1>2, OfRecord DEF Connection
    <3> QED
      BY <1>1, <1>2, <3>1 DEF Asked, Told, ConnInfos, Connection
  <2> QED
    BY <2>2, <2>3 DEF Answered
<1>12. \A d \in Client : Echoed(d)'
  <2> SUFFICES ASSUME NEW d \in Client PROVE Echoed(d)'
    OBVIOUS
  <2>1. Echoed(d)
    BY DEF Echoes
  <2>2. CASE d = c
    <3>1. \A k \in DOMAIN echo[c] : echo[c][k] \in {c} \X (1 .. taken'[c])
      BY <1>5, <1>6, <2>1, <2>2 DEF Echoed
    <3> QED
      BY <1>2, <1>4, <2>1, <2>2, <3>1 DEF Echoed
  <2>3. CASE d # c
    BY <1>4, <1>6, <2>1, <2>3, KeptClient
  <2> QED
    BY <2>2, <2>3
<1> QED
  BY <1>1, <1>2, <1>4, <1>5, <1>8, <1>9, <1>11, <1>12, PostedEchoes


(* A send goes out, perhaps cut short. *)
SentOut(q) ==
    \E n \in IF "short_send" \in Faults THEN 1 .. q.len ELSE {q.len} :
       echo' = [echo EXCEPT ![q.file] = @ \o SubSeq(mem[q.buf], 1, n)] /\ Post(q, n)

LEMMA SendEchoes ==
    ASSUME ServerInv, NEW q \in DOMAIN inflight, KernelSend(q), UNCHANGED <<pc, i, heap>>,
           SentOut(q)
    PROVE  Echoes'
<1> USE DEF ServerInv
<1>1. PICK a, c, L : a = q.data /\ c = q.file /\ L = q.len
  OBVIOUS
<1>2. /\ a \in Info /\ a # NULL /\ Connection(a) /\ q.buf = a /\ L \in 1 .. MAXLINE
      /\ c = Peer(a) /\ c \in Client /\ conn[c] \notin {"idle", "pending"}
      /\ Holds(a, L) /\ q.op = "send"
  BY <1>1, OnItsWay DEF KernelSend
<1>3. UNCHANGED <<fds, Faults, conn, sent, taken, mem>>
  BY DEF KernelSend
<1>4. PICK n \in IF "short_send" \in Faults THEN 1 .. q.len ELSE {q.len} :
         echo' = [echo EXCEPT ![c] = @ \o SubSeq(mem[a], 1, n)] /\ Post(q, n)
  BY <1>1, <1>2 DEF SentOut
<1>5. n \in 1 .. L /\ n \in 1 .. MAXLINE /\ ("short_send" \notin Faults => n = L)
  BY <1>1, <1>2, <1>4, RingAssumption
<1>6. PICK t, m : t = taken[c] /\ m = Len(echo[c])
  OBVIOUS
<1>7. /\ t \in Nat /\ L <= t /\ m \in Nat /\ echo[c] \in Seq(Cell) /\ DOMAIN echo[c] = 1 .. m
      /\ \A k \in 1 .. m : echo[c][k][2] <= t - L
      /\ "short_send" \notin Faults => m = t - L
      /\ \A x \in 1 .. L : mem[a][x] = <<c, t - L + x>>
  <2>1. Behind(c, L) /\ \A x \in 1 .. L : mem[a][x] = <<c, t - L + x>>
    BY <1>2, <1>6 DEF Holds
  <2>2. t \in Nat /\ echo[c] \in Seq(Cell)
    BY <1>2, <1>6 DEF Shapes
  <2>3. m \in Nat /\ DOMAIN echo[c] = 1 .. m
    BY <1>6, <2>2
  <2> QED
    BY <1>6, <2>1, <2>2, <2>3 DEF Behind
<1>8. /\ echo'[c] \in Seq(Cell) /\ DOMAIN echo'[c] = 1 .. m + n /\ Len(echo'[c]) = m + n
      /\ \A k \in 1 .. m : echo'[c][k] = echo[c][k]
      /\ \A x \in 1 .. n : echo'[c][m + x] = <<c, t - L + x>>
      /\ \A d \in Client : d # c => echo'[d] = echo[d]
  <2>1. /\ echo'[c] = echo[c] \o SubSeq(mem[a], 1, n)
        /\ \A d \in Client : d # c => echo'[d] = echo[d]
    BY <1>2, <1>4 DEF Shapes
  <2>2. mem[a] \in Seq(Cell) /\ Len(mem[a]) = MAXLINE
    <3>1. mem[a] \in [1 .. MAXLINE -> Cell]
      BY <1>2 DEF Shapes
    <3> QED
      BY <3>1, RingAssumption
  <2>3. PICK s : s = SubSeq(mem[a], 1, n)
    OBVIOUS
  <2>4. s \in Seq(Cell) /\ Len(s) = n /\ \A x \in 1 .. n : s[x] = mem[a][x]
    BY <1>5, <2>2, <2>3, RingAssumption
  <2>5. PICK e : e = echo[c]
    OBVIOUS
  <2>6. /\ e \o s \in Seq(Cell) /\ Len(e \o s) = m + n
        /\ \A k \in 1 .. m : (e \o s)[k] = e[k]
        /\ \A x \in 1 .. n : (e \o s)[m + x] = s[x]
    <3>1. e \in Seq(Cell) /\ Len(e) = m /\ s \in Seq(Cell) /\ Len(s) = n /\ m \in Nat /\ n \in Nat
      BY <1>5, <1>6, <1>7, <2>4, <2>5
    <3> QED
      BY <3>1
  <2>7. echo'[c] = e \o s
    BY <2>1, <2>3, <2>5
  <2>8. DOMAIN (e \o s) = 1 .. m + n
    BY <2>6
  <2>9. \A x \in 1 .. n : s[x] = <<c, t - L + x>>
    <3>1. \A x \in 1 .. n : x \in 1 .. L
      BY <1>2, <1>5, RingAssumption
    <3>2. \A x \in 1 .. L : mem[a][x] = <<c, t - L + x>>
      BY <1>7
    <3> QED
      BY <2>4, <3>1, <3>2
  <2> QED
    BY <2>1, <2>5, <2>6, <2>7, <2>8, <2>9
<1>9. ASSUME NEW k \in 1 .. m + n
      PROVE  \/ k \in 1 .. m
             \/ \E x \in 1 .. n : k = m + x
  <2>1. CASE k > m
    <3>1. k - m \in 1 .. n /\ k = m + (k - m)
      BY <1>5, <1>7, <2>1
    <3> QED
      BY <3>1
  <2> QED
    BY <1>5, <1>7, <2>1
<1>10. \A b \in Info : Connection(b) /\ b # q.data =>
              /\ mem'[b] = mem[b] /\ fds'[heap[b].connfd] = fds[heap[b].connfd]
              /\ taken'[Peer(b)] = taken[Peer(b)] /\ echo'[Peer(b)] = echo[Peer(b)]
  BY <1>1, <1>2, <1>3, <1>8, OtherPeer DEF Descriptors
<1>11. \A k \in Unhandled : Made(k) =>
              /\ fds'[cq[k].res] = fds[cq[k].res]
              /\ taken'[fds[cq[k].res]] = taken[fds[cq[k].res]]
              /\ echo'[fds[cq[k].res]] = echo[fds[cq[k].res]]
  BY <1>2, <1>3, <1>8, OtherPeer DEF Descriptors
<1>12. \A k \in 1 .. m : echo'[c][k][2] <= t - L
  BY <1>7, <1>8
<1>13. \A x \in 1 .. n : echo'[c][m + x][2] = t - L + x
  BY <1>8
<1>14. Behind(c, 0)'
  <2>1. taken'[c] = t /\ Faults' = Faults
    BY <1>3, <1>6
  <2>2. ASSUME NEW k \in 1 .. m + n PROVE echo'[c][k][2] <= t
    <3>1. CASE k \in 1 .. m
      <4>1. echo'[c][k] = echo[c][k] /\ echo[c][k][2] <= t - L
        BY <1>7, <1>8, <3>1
      <4>2. echo[c][k][2] \in Int
        <5>1. echo[c][k] \in {c} \X (1 .. taken[c])
          BY <1>2, <1>7, <3>1 DEF Echoes, Echoed
        <5> QED
          BY <5>1
      <4> QED
        BY <1>2, <1>7, <4>1, <4>2
    <3>2. CASE \E x \in 1 .. n : k = m + x
      <4>1. PICK x \in 1 .. n : k = m + x
        BY <3>2
      <4> QED
        <5>1. echo'[c][k][2] = t - L + x
          BY <1>13, <4>1
        <5>2. x \in Int /\ x <= L /\ L \in Int /\ t \in Int
          BY <1>2, <1>5, <1>7, <4>1
        <5> QED
          BY <5>1, <5>2
    <3> QED
      BY <1>9, <3>1, <3>2
  <2>3. "short_send" \notin Faults => m + n = t
    BY <1>2, <1>5, <1>7
  <2> QED
    BY <1>7, <1>8, <2>1, <2>2, <2>3 DEF Behind
<1>15. Answered(a, n)'
  <2>1. Peer(a)' = c
    BY <1>2, <1>3 DEF Peer
  <2>2. heap[a].event = "WRITE"
    <3>1. heap[a] \in ConnInfos
      BY <1>2, OfRecord DEF Connection
    <3> QED
      BY <1>1, <1>2, <3>1 DEF Asked, Told, ConnInfos, Connection
  <2> QED
    BY <1>14, <2>1, <2>2 DEF Answered
<1>16. \A d \in Client : Echoed(d)'
  <2> SUFFICES ASSUME NEW d \in Client PROVE Echoed(d)'
    OBVIOUS
  <2>1. Echoed(d)
    BY DEF Echoes
  <2>2. CASE d = c
    <3>1. ASSUME NEW k \in 1 .. m + n
          PROVE  /\ echo'[c][k] \in {c} \X (1 .. t)
                 /\ \A j \in 1 .. k - 1 : echo'[c][j][2] < echo'[c][k][2]
                 /\ "short_send" \notin Faults => echo'[c][k] = <<c, k>>
      <4>1. CASE k \in 1 .. m
        <5>1. /\ echo[c][k] \in {c} \X (1 .. t)
              /\ \A j \in 1 .. k - 1 : echo[c][j][2] < echo[c][k][2]
              /\ "short_send" \notin Faults => echo[c][k] = <<c, k>>
          BY <1>6, <1>7, <2>1, <2>2, <4>1 DEF Echoed
        <5>2. \A j \in 1 .. k - 1 : j \in 1 .. m
          BY <1>7, <4>1
        <5> QED
          BY <1>8, <4>1, <5>1, <5>2
      <4>2. CASE \E x \in 1 .. n : k = m + x
        <5>1. PICK x \in 1 .. n : k = m + x
          BY <4>2
        <5>2. echo'[c][k] = <<c, t - L + x>> /\ echo'[c][k][2] = t - L + x
          BY <1>8, <5>1
        <5>3. t - L + x \in 1 .. t
          BY <1>2, <1>5, <1>7
        <5>4. ASSUME NEW j \in 1 .. k - 1 PROVE echo'[c][j][2] < t - L + x
          <6>1. CASE j \in 1 .. m
            <7>1. echo'[c][j][2] <= t - L
              BY <1>12, <6>1
            <7>2. echo[c][j] \in {c} \X (1 .. t)
              BY <1>6, <1>7, <2>1, <2>2, <6>1 DEF Echoed
            <7>3. echo'[c][j][2] \in Int
              BY <1>8, <6>1, <7>2
            <7> QED
              BY <1>2, <1>7, <7>1, <7>3
          <6>2. CASE \E y \in 1 .. n : j = m + y
            <7>1. PICK y \in 1 .. n : j = m + y
              BY <6>2
            <7>2. y < x /\ echo'[c][j][2] = t - L + y
              BY <1>7, <1>13, <5>1, <7>1
            <7> QED
              BY <1>2, <1>5, <1>7, <7>2
          <6>3. j \in 1 .. m + n
            BY <1>5, <1>7
          <6> QED
            BY <1>9, <6>1, <6>2, <6>3
        <5>5. "short_send" \notin Faults => t - L + x = k
          BY <1>7, <5>1
        <5> QED
          BY <5>2, <5>3, <5>4, <5>5
      <4> QED
        BY <1>9, <4>1, <4>2
    <3>2. conn'[c] \notin {"idle", "pending"} /\ taken'[c] = t /\ Faults' = Faults
      BY <1>2, <1>3, <1>6
    <3> QED
      BY <1>8, <2>2, <3>1, <3>2 DEF Echoed
  <2>3. CASE d # c
    BY <1>3, <1>8, <2>1, <2>3, KeptClient
  <2> QED
    BY <2>2, <2>3
<1> QED
  BY <1>1, <1>2, <1>3, <1>4, <1>5, <1>10, <1>11, <1>15, <1>16, PostedEchoes


LEMMA KernelEchoes ==
    ASSUME ServerInv, NEW q \in DOMAIN inflight, KernelStep(q), UNCHANGED <<pc, i, heap>>
    PROVE  Echoes'
<1> USE DEF ServerInv
<1>1. CASE KernelAccept(q)
  <2>1. PICK f : f = Lowest(Free)
    OBVIOUS
  <2>2. /\ f \in Fd /\ fds[f] = Closed /\ Post(q, f) /\ f \in Int /\ f >= 0 /\ q.op = "accept"
        /\ UNCHANGED <<Faults, taken, echo, mem>>
    BY <1>1, <2>1, LowestFree DEF KernelAccept, Fd
  <2>3. PICK c \in Client : /\ conn[c] = "pending"
                            /\ conn' = [conn EXCEPT ![c] = "open"]
                            /\ fds' = [fds EXCEPT ![f] = c]
    BY <1>1, <2>1 DEF KernelAccept
  <2>4. fds'[f] = c /\ \A g \in Fd : fds[g] # Closed => fds'[g] = fds[g]
    BY <2>2, <2>3 DEF Shapes
  <2>5. \A b \in Info : Connection(b) => fds'[heap[b].connfd] = fds[heap[b].connfd]
    BY <2>4, LiveOpen, OfRecord DEF Connection
  <2>6. \A k \in Unhandled : Made(k) => fds'[cq[k].res] = fds[cq[k].res]
    BY <2>4, RingAssumption DEF Descriptors
  <2>7. \A d \in Client : Echoed(d)'
    <3> SUFFICES ASSUME NEW d \in Client PROVE Echoed(d)'
      OBVIOUS
    <3>1. conn'[d] \in {"idle", "pending"} => conn[d] \in {"idle", "pending"}
      BY <2>3 DEF Shapes
    <3>2. Echoed(d)
      BY DEF Echoes
    <3> QED
      BY <2>2, <3>1, <3>2, KeptClient
  <2>8. Behind(fds[f], 0)'
    <3>1. taken[c] = 0 /\ echo[c] = <<>>
      BY <2>3 DEF Echoes, Echoed
    <3>2. Behind(c, 0)'
      BY <2>2, <3>1 DEF Behind
    <3> QED
      BY <2>4, <3>2
  <2>9. q.data # NULL => Answered(q.data, f)'
    <3> SUFFICES ASSUME q.data # NULL PROVE Answered(q.data, f)'
      OBVIOUS
    <3>1. Told(q) /\ heap[q.data] \in ConnInfos
      BY OfRecord DEF Asked
    <3>2. heap'[q.data].event = "ACCEPT"
      BY <2>2, <3>1 DEF Told, ConnInfos
    <3> QED
      BY <3>2 DEF Answered
  <2> QED
    BY <2>2, <2>5, <2>6, <2>7, <2>8, <2>9, PostedEchoes
<1>2. CASE KernelRecv(q) /\ ~UNCHANGED <<taken, mem>>
  BY <1>2, RecvEchoes
<1>3. CASE KernelSend(q) /\ SentOut(q)
  BY <1>3, SendEchoes
<1>4. CASE \E r \in Int : r <= 0 /\ (q.op = "accept" => r < 0) /\ Post(q, r)
                          /\ UNCHANGED <<fds, Faults, conn, taken, echo, mem>>
  <2>1. PICK r \in Int : /\ r <= 0 /\ (q.op = "accept" => r < 0) /\ Post(q, r)
                         /\ UNCHANGED <<fds, Faults, conn, taken, echo, mem>>
    BY <1>4
  <2>2. \A d \in Client : Echoed(d)'
    BY <2>1, KeptClient DEF Echoes
  <2>3. ~(q.op = "accept" /\ r >= 0) /\ ~(q.data # NULL /\ r > 0)
    BY <2>1
  <2> QED
    BY <2>1, <2>2, <2>3, PostedEchoes
<1>5. CASE KernelNop(q)
  BY <1>4, <1>5 DEF KernelNop, net
<1>6. CASE KernelRefuse(q)
  BY <1>4, <1>6 DEF KernelRefuse, net, EMFILE, EBADF, ENOTSOCK
<1>7. CASE KernelRecv(q) /\ UNCHANGED <<taken, mem>>
  <2>1. q.op = "recv" /\ q.file \in Client /\ UNCHANGED <<fds, Faults, conn, echo>>
    BY <1>7 DEF KernelRecv, OnConn
  <2>2. PICK c, n : c = q.file /\ n = IF sent[c] - taken[c] < q.len THEN sent[c] - taken[c] ELSE q.len
    <3>1. PICK c : c = q.file
      OBVIOUS
    <3> QED
      BY <3>1
  <2>3. n \in Int /\ taken[c] \in Nat /\ c \in Client
    BY <2>1, <2>2, OnItsWay DEF Shapes
  <2>4. \/ n > 0 /\ taken' = [taken EXCEPT ![c] = @ + n]
        \/ Post(q, 0) \/ Post(q, ECONNRESET)
    BY <1>7, <2>2 DEF KernelRecv
  <2>5. ~(n > 0 /\ taken' = [taken EXCEPT ![c] = @ + n])
    <3> SUFFICES ASSUME n > 0, taken' = [taken EXCEPT ![c] = @ + n] PROVE FALSE
      OBVIOUS
    <3>1. taken'[c] = taken[c] + n
      BY <2>3 DEF Shapes
    <3> QED
      BY <1>7, <2>3, <3>1
  <2> QED
    BY <1>4, <1>7, <2>1, <2>4, <2>5 DEF ECONNRESET
<1>8. CASE KernelSend(q)
  <2>1. UNCHANGED <<fds, Faults, conn, taken, mem>> /\ q.op = "send"
    BY <1>8 DEF KernelSend
  <2>2. SentOut(q) \/ (Post(q, EPIPE) /\ UNCHANGED echo)
    BY <1>8 DEF KernelSend, SentOut
  <2>3. CASE Post(q, EPIPE) /\ UNCHANGED echo
    BY <1>4, <2>1, <2>3 DEF EPIPE
  <2> QED
    BY <1>3, <1>8, <2>2, <2>3
<1> QED
  BY <1>1, <1>2, <1>5, <1>6, <1>7, <1>8 DEF KernelStep

LEMMA StepEchoes ==
    ASSUME ServerInv, [Next]_vars
    PROVE  Echoes'
<1> USE DEF ServerInv
<1>1. ASSUME UNCHANGED <<heap, cq, fds, mem, Faults, taken, echo>>, Unhandled' = Unhandled,
             \A c \in Client : conn'[c] \in {"idle", "pending"} => conn[c] \in {"idle", "pending"}
      PROVE  Echoes'
  <2>1. \A c \in Client : Echoed(c)'
    BY <1>1, KeptClient DEF Echoes
  <2>2. \A a \in Info : Waiting(a)' <=> Waiting(a)
    BY <1>1, KeptRecord
  <2>3. \A a, n : Answered(a, n)' <=> Answered(a, n)
    BY <1>1, KeptRecord
  <2>4. \A c, n : Behind(c, n)' <=> Behind(c, n)
    BY <1>1 DEF Behind
  <2>5. \A a : (Connection(a)' <=> Connection(a)) /\ (Completed(a)' <=> Completed(a))
    BY <1>1 DEF Connection, Live, Completed
  <2>6. ASSUME NEW k \in Unhandled', Made(k)' PROVE Behind(fds[cq[k].res], 0)'
    <3>1. PICK c : c = fds[cq[k].res]
      OBVIOUS
    <3>2. Behind(c, 0) /\ fds'[cq'[k].res] = c
      BY <1>1, <2>6, <3>1 DEF Echoes, Made
    <3> QED
      BY <2>4, <3>2
  <2>7. ASSUME NEW k \in Unhandled', cq'[k].data # NULL, cq'[k].res > 0
        PROVE  Answered(cq[k].data, cq[k].res)'
    <3>1. PICK a, n : a = cq[k].data /\ n = cq[k].res
      OBVIOUS
    <3>2. Answered(a, n) /\ cq'[k].data = a /\ cq'[k].res = n
      BY <1>1, <2>7, <3>1 DEF Echoes
    <3> QED
      BY <2>3, <3>2
  <2> QED
    BY <2>1, <2>2, <2>5, <2>6, <2>7 DEF Echoes
<1>2. CASE SetupFails \/ Submit \/ PeekBatch \/ UNCHANGED vars
  <2>1. UNCHANGED <<heap, cq, fds, mem, Faults, taken, echo, conn>>
    BY <1>2 DEF SetupFails, Submit, PeekBatch, vars, env, ring, net
  <2>2. Unhandled' = Unhandled
    BY <1>2 DEF SetupFails, Submit, PeekBatch, vars, env, ring, Unhandled
  <2> QED
    BY <1>1, <2>1, <2>2
<1>3. CASE Setup
  <2> DEFINE a == Malloc(Info)
  <2>1. /\ pc = "main" /\ pc' = "submit" /\ Live = {}
        /\ UNCHANGED <<cq, Faults, taken, echo, conn>>
    BY <1>3 DEF Setup, Shapes, net
  <2>2. a \in Info
    BY <2>1, RoomForOne
  <2>3. heap' = [heap EXCEPT ![a] = ConnInfo(1, "ACCEPT", 0)]
    BY <1>3 DEF Setup
  <2> HIDE DEF a
  <2>4. \A x \in Live' : heap'[x].event = "ACCEPT"
    BY <2>1, <2>2, <2>3 DEF Live, Shapes, ConnInfo
  <2>5. \A x : ~Connection(x)'
    BY <2>4 DEF Connection
  <2>6. \A k \in Unhandled : cq[k].data = NULL
    BY <2>1, OfRecord
  <2>7. Unhandled' = Unhandled
    BY <2>1 DEF Unhandled
  <2>8. \A c \in Client : Echoed(c)'
    BY <2>1, KeptClient DEF Echoes
  <2> QED
    BY <2>1, <2>5, <2>6, <2>7, <2>8 DEF Echoes, Made
<1>4. CASE Advance
  <2>1. \A k \in Unhandled' : k + cqecount \in Unhandled /\ cq'[k] = cq[k + cqecount]
    BY <1>4, Advanced
  <2>2. UNCHANGED <<heap, fds, mem, Faults, taken, echo, conn>>
    BY <1>4 DEF Advance, net
  <2>3. \A c \in Client : Echoed(c)'
    BY <2>2, KeptClient DEF Echoes
  <2>4. \A a \in Info : Waiting(a)' <=> Waiting(a)
    BY <2>2, KeptRecord
  <2>5. \A a, n : Answered(a, n)' <=> Answered(a, n)
    BY <2>2, KeptRecord
  <2>6. \A c, n : Behind(c, n)' <=> Behind(c, n)
    BY <2>2 DEF Behind
  <2>7. \A a \in Info : (Connection(a)' <=> Connection(a)) /\ (Completed(a)' <=> Completed(a))
    BY <1>4, <2>2, AdvanceOwned DEF Connection, Live
  <2>8. ASSUME NEW k \in Unhandled', Made(k)' PROVE Behind(fds[cq[k].res], 0)'
    <3>1. PICK j \in Unhandled : cq'[k] = cq[j]
      BY <2>1
    <3>2. Made(j)
      BY <2>2, <2>8, <3>1 DEF Made
    <3>3. PICK c : c = fds[cq[j].res]
      OBVIOUS
    <3>4. Behind(c, 0) /\ fds'[cq'[k].res] = c
      BY <2>2, <3>1, <3>2, <3>3 DEF Echoes
    <3> QED
      BY <2>6, <3>4
  <2>9. ASSUME NEW k \in Unhandled', cq'[k].data # NULL, cq'[k].res > 0
        PROVE  Answered(cq[k].data, cq[k].res)'
    <3>1. PICK j \in Unhandled : cq'[k] = cq[j]
      BY <2>1
    <3>2. PICK a, n : a = cq[j].data /\ n = cq[j].res
      OBVIOUS
    <3>3. Answered(a, n) /\ cq'[k].data = a /\ cq'[k].res = n
      BY <2>9, <3>1, <3>2 DEF Echoes
    <3> QED
      BY <2>5, <3>3
  <2> QED
    BY <2>3, <2>4, <2>7, <2>8, <2>9 DEF Echoes
<1>5. CASE HandleNull
  <2>1. Handling /\ Handled /\ UNCHANGED <<heap, fds, mem>>
    BY <1>5 DEF HandleNull
  <2>2. \A a \in Info : a # ci
    BY <1>5, EnoughMemory DEF HandleNull
  <2>3. \A a \in Info : a \notin Live => ~Connection(a)'
    BY <2>1 DEF Connection, Live
  <2> QED
    BY <2>1, <2>2, <2>3, HandledEchoes
<1>6. CASE AcceptFailed
  <2>1. /\ Handling /\ Handled /\ UNCHANGED <<fds, mem>>
        /\ heap' = [heap EXCEPT ![ci] = NULL]
    BY <1>6 DEF AcceptFailed, Event
  <2>2. /\ \A a \in Info : a # ci => heap'[a] = heap[a]
        /\ ci \in Info => heap'[ci] = NULL
    BY <2>1 DEF Shapes
  <2>3. \A a \in Info : a = ci \/ a \notin Live => ~Connection(a)'
    BY <2>2 DEF Connection, Live
  <2> QED
    BY <2>1, <2>2, <2>3, HandledEchoes
<1>7. CASE Accepted
  BY <1>7, AcceptedEchoes
<1>8. CASE ReadEnded
  BY <1>8, DropEchoes DEF ReadEnded
<1>9. CASE WriteFailed
  BY <1>9, DropEchoes DEF WriteFailed
<1>10. CASE ReadDone \/ WriteDone
  BY <1>10, RequeueEchoes
<1>11. CASE Kernel
  BY <1>11, KernelEchoes DEF Kernel
<1>12. CASE Clients
  <2>1. PICK c \in Client : ClientStep(c)
    BY <1>12 DEF Clients
  <2>2. UNCHANGED <<pc, heap, i, cq, fds, mem, Faults, taken, echo>>
    BY <1>12, <2>1 DEF Clients, ClientStep, ClientConnect, ClientSend, ClientLeave, ring
  <2>3. \A d \in Client : conn'[d] \in {"idle", "pending"} => conn[d] \in {"idle", "pending"}
    BY <2>1 DEF ClientStep, ClientConnect, ClientSend, ClientLeave, Shapes
  <2>4. Unhandled' = Unhandled
    BY <2>2 DEF Unhandled
  <2> QED
    BY <1>1, <2>2, <2>3, <2>4
<1> QED
  BY <1>2, <1>3, <1>4, <1>5, <1>6, <1>7, <1>8, <1>9, <1>10, <1>11, <1>12 DEF Next, Server


-----------------------------------------------------------------------------
(* The theorems. *)

LEMMA InitInv == Init => ServerInv
<1> SUFFICES ASSUME Init PROVE ServerInv
  OBVIOUS
<1>1. /\ sq = <<>> /\ cq = <<>> /\ DOMAIN inflight = {} /\ Unhandled = {}
      /\ heap = [a \in Info |-> NULL] /\ pc = "main" /\ i = 1 /\ cqecount = 0
  BY DEF Init, EnvInit, Unhandled
<1>2. Live = {} /\ \A a : ~Connection(a)
  BY <1>1 DEF Live, Connection
<1>3. fds \in [Fd -> Files] /\ fds[0] = Stdin /\ fds[1] = Listen /\ \A f \in Fd : fds[f] \notin Client
  BY RingAssumption DEF Init, EnvInit, Files, Fd
<1>4. /\ conn = [c \in Client |-> "idle"] /\ sent = [c \in Client |-> 0]
      /\ taken = [c \in Client |-> 0] /\ echo = [c \in Client |-> <<>>]
      /\ mem = [b \in Info |-> Blank] /\ inflight = [q \in {} |-> 0]
  BY DEF Init, EnvInit
<1>5. Shapes
  <2>1. sq \in Seq(Requests) /\ cq \in Seq(Completions) /\ Len(cq) = 0
    BY <1>1
  <2>2. DOMAIN inflight \subseteq Requests /\ inflight \in [DOMAIN inflight -> Nat \ {0}]
    BY <1>1, <1>4
  <2>3. /\ conn \in [Client -> {"idle", "pending", "open", "closed", "reset"}]
        /\ sent \in [Client -> Nat] /\ taken \in [Client -> Nat]
        /\ \A c \in Client : taken[c] <= sent[c]
        /\ echo \in [Client -> Seq(Cell)]
    BY <1>4
  <2>4. mem \in [Info -> [1 .. MAXLINE -> Cell]]
    BY <1>4, BlankBuffer
  <2> QED
    BY <1>1, <1>2, <1>3, <2>1, <2>2, <2>3, <2>4 DEF Shapes
<1>6. Owned
  BY <1>1, <1>2 DEF Owned, Queued, InKernel, Completed
<1>7. Asked
  BY <1>1, <1>2 DEF Asked
<1>8. Descriptors
  BY <1>1, <1>2, <1>3 DEF Descriptors
<1>9. Echoes
  <2>1. \A c \in Client : Echoed(c)
    BY <1>4 DEF Echoed
  <2> QED
    BY <1>1, <1>2, <2>1 DEF Echoes
<1> QED
  BY <1>5, <1>6, <1>7, <1>8, <1>9 DEF ServerInv

(* What the server's state always is like: the records, the requests, the  *)
(* descriptors and the bytes belong together.                              *)
THEOREM ServerInvHolds == Spec => []ServerInv
<1>1. ServerInv /\ [Next]_vars => ServerInv'
  BY StepShapes, StepOwned, StepAsked, StepDescriptors, StepEchoes DEF ServerInv
<1> QED
  BY <1>1, InitInv, PTL DEF Spec

(* Every ConnInfo on the heap is the user data of exactly one request or   *)
(* completion still to be handled, and a free one of none: the server      *)
(* neither leaks nor frees twice nor uses one after free.                  *)
THEOREM InfoOwnershipHolds == Spec => []InfoOwnership
<1>1. ASSUME ServerInv, NEW a \in Info
      PROVE  Outstanding(a) = IF heap[a] = NULL THEN 0 ELSE 1
  <2> USE <1>1 DEF ServerInv
  <2> DEFINE A == {k \in DOMAIN sq : sq[k].data = a}
             B == UNION {{q} \X (1 .. inflight[q]) : q \in {q \in DOMAIN inflight : q.data = a}}
             C == {k \in Unhandled : cq[k].data = a}
  <2>1. Outstanding(a) = Cardinality(A) + Cardinality(B) + Cardinality(C)
    BY DEF Outstanding
  <2>2. a # NULL /\ (heap[a] # NULL <=> Queued(a) \/ InKernel(a) \/ Completed(a))
    BY EnoughMemory DEF Owned, Live
  <2>3. IF Queued(a) THEN \E k : A = {k} ELSE A = {}
    BY <2>2 DEF Owned, Queued
  <2>4. IF Completed(a) THEN \E k : C = {k} ELSE C = {}
    BY <2>2 DEF Owned, Completed
  <2>5. IF InKernel(a) THEN \E k : B = {k} ELSE B = {}
    <3>1. CASE ~InKernel(a)
      BY <3>1 DEF InKernel
    <3>2. CASE InKernel(a)
      <4>1. PICK q \in DOMAIN inflight : q.data = a
        BY <3>2 DEF InKernel
      <4>2. inflight[q] = 1 /\ {p \in DOMAIN inflight : p.data = a} = {q}
        BY <2>2, <4>1 DEF Owned
      <4>3. B = {q} \X (1 .. 1)
        BY <4>2
      <4>4. {q} \X (1 .. 1) = {<<q, 1>>}
        OBVIOUS
      <4> QED
        BY <3>2, <4>3, <4>4
    <3> QED
      BY <3>1, <3>2
  <2>6. Cardinality({}) = 0 /\ \A k : Cardinality({k}) = 1
    BY FS_EmptySet, FS_Singleton
  <2> HIDE DEF A, B, C
  <2>7. /\ Cardinality(A) = IF Queued(a) THEN 1 ELSE 0
        /\ Cardinality(B) = IF InKernel(a) THEN 1 ELSE 0
        /\ Cardinality(C) = IF Completed(a) THEN 1 ELSE 0
    BY <2>3, <2>4, <2>5, <2>6
  <2> QED
    BY <2>1, <2>2, <2>7 DEF Owned
<1>2. ServerInv => InfoOwnership
  BY <1>1 DEF InfoOwnership
<1> QED
  BY <1>2, ServerInvHolds, PTL

(* A ConnInfo never refers to a descriptor that was closed, and every open *)
(* connection's descriptor is that of exactly one ConnInfo or of one       *)
(* accept whose completion is still to be handled.                         *)
THEOREM FdOwnershipHolds == Spec => []FdOwnership
<1>1. ASSUME ServerInv, NEW a \in Info, heap[a] # NULL
      PROVE  fds[heap[a].connfd] \in IF heap[a].event = "ACCEPT" THEN {Listen} ELSE Client
  BY <1>1 DEF ServerInv, Asked, Shapes, Descriptors, Connection, Live, Peer
<1>2. ASSUME ServerInv, NEW f \in Fd, fds[f] \in Client
      PROVE  1 = Cardinality({a \in Info : heap[a] # NULL /\ heap[a].connfd = f})
                 + Cardinality({k \in Unhandled : /\ cq[k].data # NULL
                                                  /\ heap[cq[k].data].event = "ACCEPT"
                                                  /\ cq[k].res = f})
  <2> USE <1>2 DEF ServerInv
  <2> DEFINE A == {a \in Info : heap[a] # NULL /\ heap[a].connfd = f}
             B == {k \in Unhandled : /\ cq[k].data # NULL
                                     /\ heap[cq[k].data].event = "ACCEPT"
                                     /\ cq[k].res = f}
  <2>1. f # 1 /\ f >= 0
    BY RingAssumption DEF Shapes, Fd
  <2>2. \A a : a \in A <=> a \in Info /\ Connection(a) /\ heap[a].connfd = f
    BY <2>1 DEF Asked, Connection, Live
  <2>3. \A k : k \in B <=> k \in Unhandled /\ Made(k) /\ cq[k].res = f
    BY <2>1 DEF Made
  <2> HIDE DEF A, B
  <2>4. \A a, b \in A : a = b
    BY <2>2 DEF Descriptors
  <2>5. ASSUME NEW j \in B, NEW k \in B PROVE j = k
    <3>1. /\ j \in Unhandled /\ cq[j].data # NULL /\ heap[cq[j].data].event = "ACCEPT"
          /\ k \in Unhandled /\ cq[k].data # NULL /\ heap[cq[k].data].event = "ACCEPT"
      BY <2>3 DEF Made
    <3>2. cq[j].data \in Live /\ cq[k].data \in Live
      BY <3>1, OfRecord
    <3>3. cq[j].data = cq[k].data
      BY <3>1, <3>2 DEF Descriptors
    <3> QED
      BY <3>1, <3>3 DEF Owned
  <2>6. A # {} \/ B # {}
    BY <2>2, <2>3 DEF Descriptors
  <2>7. A = {} \/ B = {}
    BY <2>2, <2>3 DEF Descriptors
  <2>8. (A # {} => \E a : A = {a}) /\ (B # {} => \E k : B = {k})
    BY <2>4, <2>5
  <2>9. Cardinality({}) = 0 /\ \A k : Cardinality({k}) = 1
    BY FS_EmptySet, FS_Singleton
  <2>10. 1 = Cardinality(A) + Cardinality(B)
    <3>1. CASE A # {}
      <4>1. Cardinality(A) = 1 /\ Cardinality(B) = 0
        BY <2>7, <2>8, <2>9, <3>1
      <4> QED
        BY <4>1
    <3>2. CASE A = {}
      <4>1. Cardinality(A) = 0 /\ Cardinality(B) = 1
        BY <2>6, <2>8, <2>9, <3>2
      <4> QED
        BY <4>1
    <3> QED
      BY <3>1, <3>2
  <2> QED
    BY <2>10 DEF A, B
<1>3. ServerInv => FdOwnership
  BY <1>1, <1>2 DEF FdOwnership
<1> QED
  BY <1>3, ServerInvHolds, PTL

(* A client only ever gets its own bytes back, in the order it sent them,  *)
(* also when sends are cut short.                                          *)
THEOREM EchoInOrderHolds == Spec => []EchoInOrder
<1>1. ASSUME ServerInv, NEW c \in Client, NEW k \in DOMAIN echo[c]
      PROVE  echo[c][k][1] = c /\ (k > 1 => echo[c][k - 1][2] < echo[c][k][2])
  <2>1. /\ echo[c][k] \in {c} \X (1 .. taken[c])
        /\ \A j \in 1 .. k - 1 : echo[c][j][2] < echo[c][k][2]
    BY <1>1 DEF ServerInv, Echoes, Echoed
  <2>2. k \in Nat
    BY <1>1 DEF ServerInv, Shapes
  <2> QED
    BY <2>1, <2>2
<1>2. ServerInv => EchoInOrder
  BY <1>1 DEF EchoInOrder
<1> QED
  BY <1>2, ServerInvHolds, PTL

(* While no send is cut short, what a client has got is a prefix of what   *)
(* it sent.                                                                *)
THEOREM EchoIntegrityHolds == Spec => []EchoIntegrity
<1>1. ServerInv => EchoIntegrity
  BY DEF ServerInv, Echoes, Echoed, EchoIntegrity
<1> QED
  BY <1>1, ServerInvHolds, PTL

=============================================================================
