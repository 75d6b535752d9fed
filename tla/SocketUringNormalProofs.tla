----------------------- MODULE SocketUringNormalProofs -----------------------
(***************************************************************************)
(* Theorems about the two servers with one buffer, SocketUringNormal and   *)
(* SocketUringHttp, for every set of clients, size of the descriptor table *)
(* and of the buffer, and every set of faults.                             *)
(***************************************************************************)
EXTENDS MCSocketUringNormal, FiniteSetTheorems, TLAPS

Files  == Client \cup {Closed, Stdin, Listen}
Data   == [connfd : Fd, event : {"ACCEPT", "READ", "WRITE"}]
Cell   == (Client \X Nat) \cup {NULL}
Buffer == [1 .. MAXLINE -> Cell]

(* The requests the servers make, and the completions they get. *)
Proper(q) == /\ q.data.connfd = q.fd
             /\ q.op \in {"nop", "accept"} <=> q.data.event = "ACCEPT"
             /\ q.op = "recv" <=> q.data.event = "READ"
             /\ q.op = "nop" => q.fd = 0
             /\ q.op \in {"recv", "send"} => q.buf = "buffer" /\ q.fd # 1
             /\ q.op = "send" => q.len > 0
Requests == {q \in [op : {"nop", "accept", "recv", "send"}, fd : Fd, file : Files,
                    buf : {"buffer", NULL}, len : 0 .. MAXLINE, data : Data] : Proper(q)}

Likely(e) == IF e.data.event = "ACCEPT"
             THEN e.res < 0 \/ (/\ e.res \in Fd \ {1}
                                /\ e.data.connfd = 1 \/ (e.data.connfd = 0 /\ e.res = 0))
             ELSE e.data.connfd # 1 /\ e.res <= MAXLINE
Completions == {e \in [data : Data, res : Int] : Likely(e)}

(* The requests on their way, and the completions not yet handled. *)
Unseen == FirstUnhandled .. Len(cq)
Asked  == {sq[k] : k \in DOMAIN sq} \cup DOMAIN inflight
Told   == {cq[k] : k \in Unseen}

(* The descriptor a request or a completion is about, or a negative number *)
(* for an accept: the one it receives from or sends to, or the new one.    *)
(* The no-op passes for the accept of a connection on descriptor 0.        *)
Target(q)  == IF q.op = "nop" THEN 0 ELSE IF q.op = "accept" THEN -1 ELSE q.fd
Subject(e) == IF e.data.event = "ACCEPT" THEN e.res ELSE e.data.connfd

-----------------------------------------------------------------------------
(* What holds whatever happens. *)
Shapes ==
    /\ sq \in Seq(Requests) /\ cq \in Seq(Completions)
    /\ DOMAIN inflight \subseteq Requests /\ inflight \in [DOMAIN inflight -> Nat \ {0}]
    /\ \A q \in DOMAIN inflight : q.file = Listen => q.fd = 1
    /\ fds \in [Fd -> Files] /\ \A f \in Fd : fds[f] = Listen <=> f = 1
    /\ conn \in [Client -> {"idle", "pending", "open", "closed", "reset"}]
    /\ sent \in [Client -> Nat] /\ taken \in [Client -> Nat]
    /\ \A c \in Client : taken[c] <= sent[c]
    /\ mem \in [{"buffer"} -> Buffer]
    /\ pc \in {"main", "submit", "wait", "handle", "exit"}
    /\ i \in Nat \ {0} /\ cqecount \in Nat
    /\ pc = "handle" => cqecount <= Len(cq) /\ i <= cqecount + 1
    /\ pc = "main" => sq = <<>> /\ cq = <<>> /\ DOMAIN inflight = {} /\ fds[0] = Stdin

(* At most one request or completion is about descriptor f. *)
Queued(f)   == {k \in DOMAIN sq : Target(sq[k]) = f}
InKernel(f) == {q \in DOMAIN inflight : Target(q) = f}
Answered(f) == {k \in Unseen : Subject(cq[k]) = f}

AtMostOne(f) ==
    /\ \A j, k \in Queued(f) : j = k
    /\ \A p, q \in InKernel(f) : p = q /\ inflight[p] = 1
    /\ \A j, k \in Answered(f) : j = k
    /\ Queued(f) = {} \/ InKernel(f) = {}
    /\ Queued(f) = {} \/ Answered(f) = {}
    /\ InKernel(f) = {} \/ Answered(f) = {}

Unique == \A f \in Fd : AtMostOne(f)

Busy(f) == (\E q \in Asked : Target(q) = f) \/ (\E e \in Told : Subject(e) = f)

(* It is about a connection, or about the standard input before that is    *)
(* closed; each connection has one descriptor.                             *)
Descriptors ==
    /\ Unique
    /\ \A f \in Fd : Busy(f) => fds[f] \in Client \/ (f = 0 /\ fds[f] = Stdin)
    /\ \A q \in Asked : q.op = "nop" => fds[0] = Stdin
    /\ \A e \in Told : e.data = ConnInfo(0, "ACCEPT") /\ e.res >= 0 => fds[0] = Stdin
    /\ \A q \in DOMAIN inflight : q.op \in {"recv", "send"} => q.file = fds[q.fd]
    /\ \A f, g \in Fd : fds[f] \in Client /\ fds[f] = fds[g] => f = g
    /\ \A f \in Fd : fds[f] \in Client => conn[fds[f]] \notin {"idle", "pending"}

(* Who is sent to, or was received from, has sent something; a connection  *)
(* ends when its client has gone.                                          *)
Spoke(f) == fds[f] \in Client /\ sent[fds[f]] > 0

Heard ==
    /\ \A q \in Asked : q.op = "send" => Spoke(q.fd)
    /\ \A e \in Told :
          /\ e.data.event = "WRITE" => Spoke(e.data.connfd)
          /\ e.data.event = "READ" =>
                IF e.res > 0 THEN Spoke(e.data.connfd)
                ELSE fds[e.data.connfd] \in Client => conn[fds[e.data.connfd]] # "open"

Kept == Descriptors /\ Heard

-----------------------------------------------------------------------------
(* The echo server. *)

Alone(c) == "short_send" \notin Faults /\ \A d \in Client \ {c} : sent[d] = 0

(* Client c has got all but the last n bytes that were received from it,   *)
(* and these are in the buffer if nobody else has sent anything; if        *)
(* somebody has, the buffer still holds so many bytes of clients.          *)
Owes(c, n) == /\ Len(echo[c]) = taken[c] - n
              /\ \A x \in 1 .. n : Genuine(mem["buffer"][x])
              /\ Alone(c) => \A x \in 1 .. n : mem["buffer"][x] = <<c, taken[c] - n + x>>

ToSend(q)   == IF q.op = "send" THEN q.len ELSE 0
Received(e) == IF e.data.event = "READ" /\ e.res > 0 THEN e.res ELSE 0
Failed(e)   == e.data.event = "WRITE" /\ e.res < 0

Ledger ==
    /\ \A q \in Asked : q.op \in {"recv", "send"} /\ fds[q.fd] \in Client =>
          Owes(fds[q.fd], ToSend(q))
    /\ \A e \in Told : Subject(e) \in Fd /\ fds[Subject(e)] \in Client /\ ~Failed(e) =>
          Owes(fds[Subject(e)], Received(e))
    /\ \A c \in Client : conn[c] \in {"idle", "pending"} => taken[c] = 0 /\ echo[c] = <<>>

EchoKept == /\ Kept /\ Ledger
            /\ \A f \in Fd : fds[f] \in Client => Busy(f)

(* Nothing is sent to client c any more. *)
Gone(c) == /\ conn[c] \notin {"idle", "pending"}
           /\ \A f \in Fd : fds[f] # c
           /\ \A q \in DOMAIN inflight : q.op = "send" => q.file # c

(* Without faults no send fails. *)
Settled == /\ \A c \in Client : /\ conn[c] # "reset"
                                /\ conn[c] = "closed" => Len(echo[c]) = sent[c]
           /\ \A e \in Told : ~Failed(e)

Traced == \A c \in Client : /\ Len(echo[c]) <= taken[c]
                             /\ \A k \in DOMAIN echo[c] : Genuine(echo[c][k])

Echoed(c) == \A k \in DOMAIN echo[c] : echo[c][k] = <<c, k>>

EchoInv ==
    /\ Shapes
    /\ echo \in [Client -> Seq(Cell)]
    /\ Faults = {} => EchoKept /\ Settled /\ Traced
    /\ \A c \in Client : Alone(c) => (Gone(c) \/ EchoKept) /\ Echoed(c)

-----------------------------------------------------------------------------
(* The HTTP server. *)
Silent(c) == \A d \in Client \ {c} : sent[d] = 0

(* A request is received from a client once, and answered once. *)
Pages ==
    /\ \A c, d \in sending : c = d
    /\ \A f \in Fd : fds[f] \in Client /\ fds[f] \notin sending => echo[fds[f]] = <<>>
    /\ \A c \in Client : conn[c] \in {"idle", "pending"} => taken[c] = 0 /\ echo[c] = <<>>
    /\ \A q \in Asked : q.op = "recv" /\ fds[q.fd] \in Client => taken[fds[q.fd]] = 0
    /\ \A e \in Told : Subject(e) \in Fd /\ fds[Subject(e)] \in Client =>
          IF e.data.event = "ACCEPT" THEN taken[fds[Subject(e)]] = 0
          ELSE e.res > 0 /\ Silent(fds[Subject(e)]) =>
                  mem["buffer"][1] = <<fds[Subject(e)], 1>>

HttpKept == /\ Kept /\ Pages
            /\ \A f \in Fd : fds[f] \in Client => Busy(f) \/ conn[fds[f]] # "open"

HttpInv ==
    /\ Shapes
    /\ echo \in [Client -> Seq(Buffer)]
    /\ \A q \in Asked : q.op # "send"
    /\ pc # "exit" => HttpKept
    /\ OwnAnswer

OneBufferInv == which \in {"echo", "http"} /\ IF which = "echo" THEN EchoInv ELSE HttpInv

-----------------------------------------------------------------------------
(* What the steps do to the ring. *)

LEMMA RequestFacts ==
    ASSUME NEW q \in Requests
    PROVE  /\ q.op \in {"nop", "accept", "recv", "send"} /\ q.fd \in Fd /\ q.file \in Files
           /\ q.len \in 0 .. MAXLINE /\ q.data \in Data /\ Proper(q)
           /\ q.data.connfd = q.fd /\ q.data.event \in {"ACCEPT", "READ", "WRITE"}
           /\ Target(q) \in Int
BY DEF Requests, Target, Data, Fd, Proper

LEMMA CompletionFacts ==
    ASSUME NEW e \in Completions
    PROVE  /\ e.data \in Data /\ e.res \in Int /\ Likely(e)
           /\ e.data.connfd \in Fd /\ e.data.event \in {"ACCEPT", "READ", "WRITE"}
           /\ Subject(e) \in Int
BY RingAssumption DEF Completions, Data, Subject, Fd

(* The kernel posts a completion of request q. *)
LEMMA Posted ==
    ASSUME Shapes, NEW q \in DOMAIN inflight, NEW r \in Int, Post(q, r), UNCHANGED <<pc, i>>,
           Likely([data |-> q.data, res |-> r])
    PROVE  /\ sq' = sq /\ cq' \in Seq(Completions) /\ Len(cq') = Len(cq) + 1
           /\ Unseen' = Unseen \cup {Len(cq) + 1} /\ Len(cq) + 1 \notin Unseen
           /\ \A k \in Unseen : cq'[k] = cq[k]
           /\ cq'[Len(cq) + 1] = [data |-> q.data, res |-> r]
           /\ Told' = Told \cup {[data |-> q.data, res |-> r]}
           /\ DOMAIN inflight' \subseteq DOMAIN inflight
           /\ \A p \in DOMAIN inflight : p # q => p \in DOMAIN inflight' /\ inflight'[p] = inflight[p]
           /\ inflight' \in [DOMAIN inflight' -> Nat \ {0}]
           /\ inflight[q] = 1 => q \notin DOMAIN inflight'
           /\ Asked' \subseteq Asked /\ \A p \in Asked : p # q => p \in Asked'
<1> DEFINE e == [data |-> q.data, res |-> r]
<1>1. e \in Completions
  BY RequestFacts DEF Shapes, Completions
<1> HIDE DEF e
<1>2. cq' = Append(cq, e) /\ sq' = sq
  BY DEF Post, e
<1>3. /\ cq' \in Seq(Completions) /\ Len(cq') = Len(cq) + 1 /\ Len(cq) \in Nat
      /\ \A k \in 1 .. Len(cq) : cq'[k] = cq[k]
      /\ cq'[Len(cq) + 1] = e
  BY <1>1, <1>2 DEF Shapes
<1>4. FirstUnhandled' = FirstUnhandled /\ FirstUnhandled \in Nat \ {0} /\ FirstUnhandled <= Len(cq) + 1
  BY <1>3 DEF FirstUnhandled, Shapes
<1>5. /\ Unseen' = Unseen \cup {Len(cq) + 1} /\ Len(cq) + 1 \notin Unseen
      /\ Unseen \subseteq 1 .. Len(cq)
  BY <1>3, <1>4 DEF Unseen
<1>6. Told' = Told \cup {e}
  BY <1>3, <1>5 DEF Told
<1>7. /\ DOMAIN inflight' \subseteq DOMAIN inflight
      /\ \A p \in DOMAIN inflight : p # q => p \in DOMAIN inflight' /\ inflight'[p] = inflight[p]
      /\ inflight' \in [DOMAIN inflight' -> Nat \ {0}]
      /\ inflight[q] = 1 => q \notin DOMAIN inflight'
  BY DEF Post, Shapes
<1>8. Asked' \subseteq Asked /\ \A p \in Asked : p # q => p \in Asked'
  BY <1>2, <1>7 DEF Asked
<1> QED
  BY <1>2, <1>3, <1>5, <1>6, <1>7, <1>8 DEF e

(* It is a no-op, a receive or a send: its descriptor has the completion   *)
(* now, and nothing else.                                                  *)
LEMMA PostedOne ==
    ASSUME Shapes, Unique, NEW q \in DOMAIN inflight, NEW r \in Int, Post(q, r),
           UNCHANGED <<pc, i>>, Likely([data |-> q.data, res |-> r]),
           q.op # "accept", q.op = "nop" => r = 0
    PROVE  /\ Unique' /\ \A f \in Fd : Busy(f)' <=> Busy(f)
           /\ Target(q) \in Fd /\ Subject([data |-> q.data, res |-> r]) = Target(q)
           /\ \A p \in Asked' : Target(p) # Target(q)
           /\ \A e \in Told : Subject(e) # Target(q)
<1> DEFINE t == Target(q)
           n == [data |-> q.data, res |-> r]
<1>1. /\ t \in Fd /\ Subject(n) = t
  BY RequestFacts, RingAssumption DEF Shapes, Target, Subject, Proper, Fd
<1>2. q \in InKernel(t) /\ InKernel(t) = {q} /\ inflight[q] = 1 /\ Queued(t) = {} /\ Answered(t) = {}
  BY <1>1 DEF Unique, AtMostOne, InKernel
<1> HIDE DEF t, n
<1>3. /\ sq' = sq /\ Unseen' = Unseen \cup {Len(cq) + 1} /\ Len(cq) + 1 \notin Unseen
      /\ \A k \in Unseen : cq'[k] = cq[k]
      /\ cq'[Len(cq) + 1] = n /\ Told' = Told \cup {n}
      /\ DOMAIN inflight' = DOMAIN inflight \ {q}
      /\ \A p \in DOMAIN inflight' : inflight'[p] = inflight[p]
  BY <1>2, Posted, Zenon DEF n
<1>4. \A f \in Fd : f # t => /\ Queued(f)' = Queued(f) /\ InKernel(f)' = InKernel(f)
                             /\ Answered(f)' = Answered(f)
  <2>1. \A f : Queued(f)' = Queued(f)
    BY <1>3 DEF Queued
  <2>2. \A f \in Fd : f # t => InKernel(f)' = InKernel(f)
    BY <1>3 DEF InKernel, t
  <2>3. \A f \in Fd : f # t => Answered(f)' = Answered(f)
    BY <1>1, <1>3 DEF Answered
  <2> QED
    BY <2>1, <2>2, <2>3
<1>5. Queued(t)' = {} /\ InKernel(t)' = {} /\ Answered(t)' = {Len(cq) + 1}
  <2>1. Queued(t)' = {} /\ InKernel(t)' = {}
    BY <1>2, <1>3 DEF Queued, InKernel
  <2>2. Answered(t)' = {Len(cq) + 1}
    BY <1>1, <1>2, <1>3 DEF Answered
  <2> QED
    BY <2>1, <2>2
<1>6. ASSUME NEW f \in Fd
      PROVE  AtMostOne(f)'
  <2>1. CASE f = t
    BY <1>5, <2>1 DEF AtMostOne
  <2>2. CASE f # t
    BY <1>3, <1>4, <2>2 DEF AtMostOne, Unique, InKernel
  <2> QED
    BY <2>1, <2>2
<1>7. \A p \in Asked' : Target(p) # t
  BY <1>5 DEF Asked, Queued, InKernel
<1>8. \A e \in Told : Subject(e) # t
  BY <1>2 DEF Told, Answered
<1>9. \A f \in Fd : Busy(f)' <=> Busy(f)
  <2>1. \A p : p \in Asked <=> p \in Asked' \/ p = q
    BY <1>2, <1>3 DEF Asked, Queued, t
  <2> QED
    BY <1>1, <1>3, <2>1 DEF Busy, t
<1> QED
  BY <1>1, <1>6, <1>7, <1>8, <1>9 DEF Unique, t, n

(* It is an accept: a new connection is about its descriptor. *)
LEMMA PostedAccept ==
    ASSUME Shapes, Unique, NEW q \in DOMAIN inflight, NEW r \in Int, Post(q, r),
           UNCHANGED <<pc, i>>, Likely([data |-> q.data, res |-> r]),
           q.op = "accept", r \in Fd => ~Busy(r)
    PROVE  /\ Unique' /\ \A f \in Fd : Busy(f)' <=> Busy(f) \/ f = r
           /\ Subject([data |-> q.data, res |-> r]) = r
<1> DEFINE n == [data |-> q.data, res |-> r]
<1>1. q.data.event = "ACCEPT" /\ Subject(n) = r /\ Target(q) = -1
  BY RequestFacts DEF Shapes, Target, Subject, Proper
<1> HIDE DEF n
<1>2. /\ sq' = sq /\ Unseen' = Unseen \cup {Len(cq) + 1} /\ Len(cq) + 1 \notin Unseen
      /\ \A k \in Unseen : cq'[k] = cq[k]
      /\ cq'[Len(cq) + 1] = n /\ Told' = Told \cup {n}
      /\ DOMAIN inflight' \subseteq DOMAIN inflight
      /\ \A p \in DOMAIN inflight : p # q => p \in DOMAIN inflight' /\ inflight'[p] = inflight[p]
      /\ Asked' \subseteq Asked /\ \A p \in Asked : p # q => p \in Asked'
  BY Posted, Zenon DEF n
<1>3. ASSUME NEW f \in Fd
      PROVE  /\ Queued(f)' = Queued(f) /\ InKernel(f)' = InKernel(f)
             /\ Answered(f)' = IF f = r THEN Answered(f) \cup {Len(cq) + 1} ELSE Answered(f)
  <2>0. f # -1
    BY RingAssumption DEF Fd
  <2>1. Queued(f)' = Queued(f)
    BY <1>2 DEF Queued
  <2>2. InKernel(f)' = InKernel(f)
    BY <1>1, <1>2, <2>0 DEF InKernel
  <2>3. Answered(f)' = IF f = r THEN Answered(f) \cup {Len(cq) + 1} ELSE Answered(f)
    BY <1>1, <1>2 DEF Answered
  <2> QED
    BY <2>1, <2>2, <2>3
<1>4. ASSUME NEW f \in Fd
      PROVE  AtMostOne(f)'
  <2>1. \A p \in InKernel(f) : inflight'[p] = inflight[p]
    BY <1>1, <1>2, RingAssumption DEF InKernel, Fd
  <2>2. CASE f = r
    <3>1. Queued(f) = {} /\ InKernel(f) = {} /\ Answered(f) = {}
      BY <2>2 DEF Busy, Asked, Told, Queued, InKernel, Answered
    <3> QED
      BY <1>3, <2>2, <3>1 DEF AtMostOne
  <2>3. CASE f # r
    BY <1>3, <2>1, <2>3 DEF AtMostOne, Unique
  <2> QED
    BY <2>2, <2>3
<1>5. \A f \in Fd : Busy(f)' <=> Busy(f) \/ f = r
  BY <1>1, <1>2, RingAssumption DEF Busy, Fd
<1> QED
  BY <1>1, <1>4, <1>5 DEF Unique, n

(* The kernel takes what is queued. *)
LEMMA Resolves ==
    ASSUME Shapes, NEW q \in Requests
    PROVE  /\ Resolve(q) \in Requests /\ Target(Resolve(q)) = Target(q)
           /\ Resolve(q).data = q.data /\ Resolve(q).op = q.op /\ Resolve(q).fd = q.fd
           /\ Resolve(q).len = q.len /\ Resolve(q).file = fds[q.fd]
<1>1. q.fd \in Fd /\ fds[q.fd] \in Files
  BY RequestFacts DEF Shapes
<1> DEFINE f == fds[q.fd]
<1>2. f \in Files /\ Resolve(q) = [q EXCEPT !.file = f]
  BY <1>1, Zenon DEF Resolve
<1> HIDE DEF f
<1>3. /\ [q EXCEPT !.file = f] \in Requests
      /\ [q EXCEPT !.file = f].data = q.data /\ [q EXCEPT !.file = f].op = q.op
      /\ [q EXCEPT !.file = f].fd = q.fd
      /\ [q EXCEPT !.file = f].len = q.len /\ [q EXCEPT !.file = f].file = f
  BY <1>2 DEF Requests, Proper
<1> QED
  BY <1>2, <1>3 DEF f, Target

LEMMA Submitted ==
    ASSUME Shapes, SubmitAll, UNCHANGED cq, UNCHANGED i, pc # "handle", pc' # "handle"
    PROVE  /\ DOMAIN inflight' = DOMAIN inflight \cup {Resolve(sq[k]) : k \in DOMAIN sq}
           /\ inflight' \in [DOMAIN inflight' -> Nat \ {0}]
           /\ sq' = <<>> /\ Unseen' = Unseen /\ Told' = Told
           /\ Asked' = DOMAIN inflight'
           /\ \A k \in DOMAIN sq : sq[k] \in Requests
<1> DEFINE Of(q) == {k \in DOMAIN sq : Resolve(sq[k]) = q}
           R == {Resolve(sq[k]) : k \in DOMAIN sq}
<1>1. \A q : Cardinality(Of(q)) \in Nat /\ (Cardinality(Of(q)) = 0 <=> q \notin R)
  <2> SUFFICES ASSUME NEW q
               PROVE  Cardinality(Of(q)) \in Nat /\ (Cardinality(Of(q)) = 0 <=> q \notin R)
    OBVIOUS
  <2>1. DOMAIN sq = 1 .. Len(sq) /\ Len(sq) \in Nat
    BY DEF Shapes
  <2>2. (Of(q) = {} <=> q \notin R) /\ Of(q) \in SUBSET (1 .. Len(sq))
    BY <2>1
  <2> HIDE DEF Of, R
  <2>3. IsFiniteSet(Of(q))
    <3>1. IsFiniteSet(1 .. Len(sq))
      BY <2>1, FS_Interval
    <3> QED
      BY <2>2, <3>1, FS_Subset
  <2> QED
    BY <2>2, <2>3, FS_EmptySet, FS_CardinalityType
<1>2. inflight' = [q \in DOMAIN inflight \cup R |->
                     (IF q \in DOMAIN inflight THEN inflight[q] ELSE 0) + Cardinality(Of(q))]
  BY DEF SubmitAll
<1> HIDE DEF Of, R
<1>3. DOMAIN inflight' = DOMAIN inflight \cup R /\ inflight' \in [DOMAIN inflight' -> Nat \ {0}]
  <2>1. \A q \in DOMAIN inflight' : inflight'[q] \in Nat \ {0}
    <3> SUFFICES ASSUME NEW q \in DOMAIN inflight' PROVE inflight'[q] \in Nat \ {0}
      OBVIOUS
    <3>1. Cardinality(Of(q)) \in Nat /\ (Cardinality(Of(q)) = 0 <=> q \notin R)
      BY <1>1
    <3> QED
      BY <1>2, <3>1 DEF Shapes
  <2>2. inflight' = [q \in DOMAIN inflight' |-> inflight'[q]] /\ DOMAIN inflight' = DOMAIN inflight \cup R
    BY <1>2
  <2> QED
    BY <2>1, <2>2
<1>4. sq' = <<>> /\ Unseen' = Unseen /\ Told' = Told
  BY DEF SubmitAll, Unseen, FirstUnhandled, Told
<1>5. Asked' = DOMAIN inflight'
  <2>1. {sq'[k] : k \in DOMAIN sq'} = {}
    BY <1>4
  <2> QED
    BY <2>1 DEF Asked
<1>6. \A k \in DOMAIN sq : sq[k] \in Requests
  BY DEF Shapes
<1> QED
  BY <1>3, <1>4, <1>5, <1>6 DEF R

(* Nothing is added and nothing lost by it. *)
LEMMA SubmittedOne ==
    ASSUME Shapes, Unique, SubmitAll, UNCHANGED cq, UNCHANGED i, pc # "handle", pc' # "handle"
    PROVE  /\ Unique' /\ \A f \in Fd : Busy(f)' <=> Busy(f)
           /\ \A q \in Asked' : q \in Asked \/ \E p \in Asked : q = Resolve(p) /\ p \in Requests
           /\ Asked' = DOMAIN inflight' /\ Told' = Told
<1> DEFINE R == {Resolve(sq[k]) : k \in DOMAIN sq}
           Of(q) == {k \in DOMAIN sq : Resolve(sq[k]) = q}
<1>1. /\ DOMAIN inflight' = DOMAIN inflight \cup R
      /\ sq' = <<>> /\ Unseen' = Unseen /\ Told' = Told
      /\ Asked' = DOMAIN inflight' /\ cq' = cq
      /\ \A k \in DOMAIN sq : sq[k] \in Requests
  BY Submitted
<1>2. \A k \in DOMAIN sq : Target(Resolve(sq[k])) = Target(sq[k])
  BY <1>1, Resolves
<1>3. ASSUME NEW f \in Fd
      PROVE  /\ Queued(f)' = {} /\ Answered(f)' = Answered(f)
             /\ InKernel(f)' = InKernel(f) \cup {Resolve(sq[k]) : k \in Queued(f)}
  <2>1. Queued(f)' = {} /\ Answered(f)' = Answered(f)
    BY <1>1 DEF Queued, Answered
  <2>2. InKernel(f)' = InKernel(f) \cup {Resolve(sq[k]) : k \in Queued(f)}
    BY <1>1, <1>2 DEF InKernel, Queued
  <2> QED
    BY <2>1, <2>2
<1>4. ASSUME NEW f \in Fd, NEW q \in InKernel(f)'
      PROVE  inflight'[q] = 1
  <2>1. inflight'[q] = (IF q \in DOMAIN inflight THEN inflight[q] ELSE 0) + Cardinality(Of(q))
    <3>1. inflight' = [p \in DOMAIN inflight \cup R |->
                         (IF p \in DOMAIN inflight THEN inflight[p] ELSE 0) + Cardinality(Of(p))]
      BY DEF SubmitAll
    <3>2. q \in DOMAIN inflight \cup R
      BY <1>1 DEF InKernel
    <3> HIDE DEF Of, R
    <3> QED
      BY <3>1, <3>2
  <2>2. CASE q \in InKernel(f)
    <3>1. Queued(f) = {} /\ inflight[q] = 1 /\ q \in DOMAIN inflight
      BY <2>2 DEF Unique, AtMostOne, InKernel
    <3>2. Of(q) = {}
      BY <1>2, <2>2, <3>1 DEF Queued, InKernel
    <3> HIDE DEF Of
    <3>3. Cardinality(Of(q)) = 0
      BY <3>2, FS_EmptySet
    <3> QED
      BY <2>1, <3>1, <3>3
  <2>3. CASE q \notin InKernel(f)
    <3>1. PICK k \in Queued(f) : q = Resolve(sq[k])
      BY <1>3, <2>3
    <3>2. Target(q) = f /\ q \notin DOMAIN inflight
      BY <1>2, <2>3, <3>1 DEF Queued, InKernel
    <3>3. \A j \in Of(q) : j \in Queued(f)
      BY <1>2, <3>2 DEF Queued
    <3>4. Of(q) = {k}
      BY <3>1, <3>3 DEF Unique, AtMostOne, Queued
    <3> HIDE DEF Of
    <3>5. Cardinality(Of(q)) = 1
      BY <3>4, FS_Singleton
    <3> QED
      BY <2>1, <3>2, <3>5
  <2> QED
    BY <2>2, <2>3
<1>5. ASSUME NEW f \in Fd
      PROVE  AtMostOne(f)'
  <2>1. \A p, q \in InKernel(f)' : p = q
    BY <1>3 DEF Unique, AtMostOne
  <2>2. InKernel(f)' = {} \/ Answered(f)' = {}
    BY <1>3 DEF Unique, AtMostOne
  <2> QED
    BY <1>3, <1>4, <2>1, <2>2 DEF Unique, AtMostOne
<1>6. \A q \in Asked' : q \in Asked \/ \E p \in Asked : q = Resolve(p) /\ p \in Requests
  BY <1>1 DEF Asked
<1>7. \A f \in Fd : Busy(f)' <=> Busy(f)
  BY <1>1, <1>2 DEF Busy, Asked
<1> QED
  BY <1>1, <1>5, <1>6, <1>7 DEF Unique

(* A batch is begun, or given back. *)
LEMMA Batched ==
    ASSUME Shapes, PeekBatch
    PROVE  /\ Unseen' = Unseen /\ Told' = Told /\ Asked' = Asked
           /\ Unique' = Unique /\ \A f \in Fd : Busy(f)' = Busy(f)
<1>1. Unseen' = Unseen /\ UNCHANGED <<sq, inflight, cq>>
  BY DEF PeekBatch, Unseen, FirstUnhandled, env, ring
<1> QED
  BY <1>1 DEF Told, Asked, Unique, AtMostOne, Queued, InKernel, Answered, Busy

LEMMA Advanced ==
    ASSUME Shapes, Advance
    PROVE  /\ cq' \in Seq(Completions) /\ Told' = Told /\ Asked' = Asked
           /\ Unique => Unique'
           /\ \A f \in Fd : Busy(f)' = Busy(f)
<1>1. i = cqecount + 1 /\ cqecount \in 0 .. Len(cq) /\ cq \in Seq(Completions)
  BY DEF Advance, Shapes
<1>2. /\ cq' = SubSeq(cq, cqecount + 1, Len(cq)) /\ pc = "handle" /\ pc' = "submit"
      /\ UNCHANGED <<sq, inflight>>
  BY DEF Advance
<1>3. /\ cq' \in Seq(Completions) /\ Len(cq') = Len(cq) - cqecount
      /\ \A k \in 1 .. Len(cq) - cqecount : cq'[k] = cq[k + cqecount]
  <2>1. cq \in Seq(Completions) /\ cqecount \in 0 .. Len(cq) /\ cq' = SubSeq(cq, cqecount + 1, Len(cq))
    BY <1>1, <1>2
  <2> QED
    BY <2>1
<1>4. Unseen = cqecount + 1 .. Len(cq) /\ Unseen' = 1 .. Len(cq) - cqecount
  BY <1>1, <1>2, <1>3 DEF Unseen, FirstUnhandled
<1>5. ASSUME NEW k \in Unseen'
      PROVE  k + cqecount \in Unseen /\ cq'[k] = cq[k + cqecount]
  <2>1. k \in 1 .. Len(cq) - cqecount /\ k + cqecount \in Unseen
    BY <1>1, <1>4
  <2> QED
    BY <1>3, <2>1
<1>6. ASSUME NEW k \in Unseen
      PROVE  k - cqecount \in Unseen' /\ cq'[k - cqecount] = cq[k]
  <2>1. k - cqecount \in 1 .. Len(cq) - cqecount /\ (k - cqecount) + cqecount = k
    BY <1>1, <1>4
  <2> QED
    BY <1>3, <1>4, <2>1
<1>7. Told' = Told
  <2>1. \A e \in Told' : e \in Told
    BY <1>5 DEF Told
  <2>2. \A e \in Told : e \in Told'
    BY <1>6 DEF Told
  <2> QED
    BY <2>1, <2>2
<1>8. Asked' = Asked
  BY <1>2 DEF Asked
<1>9. ASSUME Unique PROVE Unique'
  <2> SUFFICES ASSUME NEW f \in Fd PROVE AtMostOne(f)'
    BY DEF Unique
  <2>1. Queued(f)' = Queued(f) /\ InKernel(f)' = InKernel(f)
    BY <1>2 DEF Queued, InKernel
  <2>2. \A k \in Answered(f)' : k \in Int /\ k + cqecount \in Answered(f)
    BY <1>4, <1>5 DEF Answered
  <2>3. AtMostOne(f)
    BY <1>9 DEF Unique
  <2>4. \A j, k \in Answered(f)' : j = k
    <3> SUFFICES ASSUME NEW j \in Answered(f)', NEW k \in Answered(f)' PROVE j = k
      OBVIOUS
    <3>1. j + cqecount = k + cqecount
      BY <2>2, <2>3 DEF AtMostOne
    <3> QED
      BY <1>1, <2>2, <3>1
  <2> QED
    BY <1>2, <2>1, <2>2, <2>3, <2>4 DEF AtMostOne
<1> QED
  BY <1>3, <1>7, <1>8, <1>9 DEF Busy

(* A completion is handled, and the requests in s are queued; only the     *)
(* first of them is about a descriptor.                                    *)
LEMMA Handles ==
    ASSUME Shapes, Handling
    PROVE  i \in Unseen /\ ci = cq[i].data /\ res = cq[i].res /\ cq[i] \in Told /\ cq[i] \in Completions
           /\ i \in 1 .. Len(cq)
BY DEF Shapes, Handling, Unseen, FirstUnhandled, Told, ci, res

LEMMA HandledOne ==
    ASSUME Shapes, Unique, Handling, i' = i + 1, UNCHANGED <<pc, inflight, cq>>,
           NEW s \in Seq(Requests), sq' = sq \o s,
           NEW t \in Int, t \in Fd => t = Subject(cq[i]) \/ ~Busy(t),
           \A k \in DOMAIN s : Target(s[k]) = IF k = 1 THEN t ELSE -1
    PROVE  /\ Unique'
           /\ Asked' = Asked \cup {s[k] : k \in DOMAIN s}
           /\ Told' \subseteq Told /\ \A e \in Told : e # cq[i] => e \in Told'
           /\ Subject(cq[i]) \in Fd =>
                 /\ \A q \in Asked : Target(q) # Subject(cq[i])
                 /\ \A e \in Told' : Subject(e) # Subject(cq[i])
           /\ \A f \in Fd : Busy(f)' <=> \/ Busy(f) /\ f # Subject(cq[i])
                                         \/ f = t /\ s # <<>>
<1> DEFINE u == Subject(cq[i])
<1>0. i \in Unseen /\ Unseen' = Unseen \ {i} /\ cq' = cq /\ inflight' = inflight
  BY DEF Shapes, Handling, Unseen, FirstUnhandled
<1>1. /\ Len(sq) \in Nat /\ Len(s) \in Nat /\ DOMAIN sq = 1 .. Len(sq) /\ DOMAIN s = 1 .. Len(s)
      /\ DOMAIN sq' = 1 .. Len(sq) + Len(s)
      /\ \A k \in DOMAIN sq : sq'[k] = sq[k]
      /\ \A k \in DOMAIN s : sq'[Len(sq) + k] = s[k]
      /\ \A k \in DOMAIN sq' : k \in DOMAIN sq \/ k - Len(sq) \in DOMAIN s
  BY DEF Shapes
<1>2. \A k \in DOMAIN sq' : k \in DOMAIN sq \/ sq'[k] = s[k - Len(sq)]
  <2> SUFFICES ASSUME NEW k \in DOMAIN sq', k \notin DOMAIN sq PROVE sq'[k] = s[k - Len(sq)]
    OBVIOUS
  <2>1. k - Len(sq) \in DOMAIN s /\ Len(sq) + (k - Len(sq)) = k
    BY <1>1
  <2> QED
    BY <1>1, <2>1
<1>3. Asked' = Asked \cup {s[k] : k \in DOMAIN s}
  <2>1. \A k \in DOMAIN sq : sq[k] \in Asked' /\ sq[k] \in Asked
    <3>1. \A k \in DOMAIN sq : k \in DOMAIN sq'
      BY <1>1
    <3> QED
      BY <1>1, <3>1 DEF Asked
  <2>2. \A k \in DOMAIN s : s[k] \in Asked'
    <3>1. \A k \in DOMAIN s : Len(sq) + k \in DOMAIN sq'
      BY <1>1
    <3> QED
      BY <1>1, <3>1 DEF Asked
  <2>3. \A k \in DOMAIN sq' : sq'[k] \in Asked \cup {s[j] : j \in DOMAIN s}
    BY <1>1, <1>2, <2>1
  <2>4. \A q \in DOMAIN inflight : q \in Asked /\ q \in Asked'
    BY <1>0 DEF Asked
  <2>5. \A q \in Asked : q \in Asked'
    BY <2>1, <2>4 DEF Asked
  <2>6. \A q \in Asked' : q \in Asked \cup {s[j] : j \in DOMAIN s}
    BY <1>0, <2>3, <2>4 DEF Asked
  <2> QED
    BY <2>2, <2>5, <2>6
<1>4. Told' \subseteq Told /\ \A e \in Told : e # cq[i] => e \in Told'
  BY <1>0 DEF Told
<1>5. ASSUME u \in Fd
      PROVE  /\ Queued(u) = {} /\ InKernel(u) = {} /\ Answered(u) = {i}
             /\ \A q \in Asked : Target(q) # u
             /\ \A e \in Told' : Subject(e) # u
  <2>1. Queued(u) = {} /\ InKernel(u) = {} /\ Answered(u) = {i}
    BY <1>0, <1>5 DEF Unique, AtMostOne, Answered
  <2>2. \A q \in Asked : Target(q) # u
    BY <2>1 DEF Asked, Queued, InKernel
  <2>3. \A e \in Told' : Subject(e) # u
    BY <1>0, <2>1 DEF Told, Answered
  <2> QED
    BY <2>1, <2>2, <2>3
<1>6. ASSUME NEW f \in Fd
      PROVE  /\ InKernel(f)' = InKernel(f)
             /\ Answered(f)' = IF f = u THEN {} ELSE Answered(f)
             /\ Queued(f)' = IF f = t /\ s # <<>> THEN Queued(f) \cup {Len(sq) + 1} ELSE Queued(f)
  <2>0. f # -1
    BY RingAssumption DEF Fd
  <2>1. InKernel(f)' = InKernel(f)
    BY <1>0 DEF InKernel
  <2>2. Answered(f)' = IF f = u THEN {} ELSE Answered(f)
    <3>1. CASE f = u
      BY <1>0, <1>5, <3>1 DEF Answered
    <3>2. CASE f # u
      BY <1>0, <3>2 DEF Answered
    <3> QED
      BY <3>1, <3>2
  <2>3. s # <<>> <=> 1 \in DOMAIN s
    BY <1>1
  <2>4. \A k \in DOMAIN sq : k \in DOMAIN sq' /\ Target(sq'[k]) = Target(sq[k])
    BY <1>1
  <2>5. \A k \in DOMAIN sq' : k \notin DOMAIN sq =>
           (Target(sq'[k]) = f <=> k = Len(sq) + 1 /\ f = t)
    <3> SUFFICES ASSUME NEW k \in DOMAIN sq', k \notin DOMAIN sq
                 PROVE  Target(sq'[k]) = f <=> k = Len(sq) + 1 /\ f = t
      OBVIOUS
    <3>1. k - Len(sq) \in DOMAIN s /\ k \in Nat
      BY <1>1
    <3>2. Target(sq'[k]) = IF k - Len(sq) = 1 THEN t ELSE -1
      BY <1>2, <3>1
    <3> QED
      BY <1>1, <2>0, <3>1, <3>2
  <2>6. 1 \in DOMAIN s => Len(sq) + 1 \in DOMAIN sq' /\ Len(sq) + 1 \notin DOMAIN sq
    BY <1>1
  <2>7. Len(sq) + 1 \in DOMAIN sq' => 1 \in DOMAIN s
    BY <1>1
  <2>8. Queued(f)' = {k \in DOMAIN sq' : Target(sq'[k]) = f}
    BY DEF Queued
  <2> QED
    BY <2>1, <2>2, <2>3, <2>4, <2>5, <2>6, <2>7, <2>8 DEF Queued
<1>7. ASSUME NEW f \in Fd
      PROVE  AtMostOne(f)'
  <2>1. CASE f = t /\ s # <<>>
    <3>1. Queued(f) = {} /\ InKernel(f) = {} /\ Answered(f)' = {}
      <4>1. CASE t = u
        BY <1>5, <1>6, <2>1, <4>1
      <4>2. CASE ~Busy(t)
        BY <1>6, <2>1, <4>2 DEF Busy, Asked, Told, Queued, InKernel, Answered
      <4> QED
        BY <2>1, <4>1, <4>2
    <3> QED
      BY <1>6, <2>1, <3>1 DEF AtMostOne
  <2>2. CASE ~(f = t /\ s # <<>>)
    <3>1. /\ Queued(f)' = Queued(f) /\ InKernel(f)' = InKernel(f)
          /\ Answered(f)' = {} \/ Answered(f)' = Answered(f)
      BY <1>6, <2>2
    <3>2. AtMostOne(f)
      BY DEF Unique
    <3> QED
      BY <1>0, <3>1, <3>2 DEF AtMostOne
  <2> QED
    BY <2>1, <2>2
<1>8. \A f \in Fd : Busy(f)' <=> (Busy(f) /\ f # u) \/ (f = t /\ s # <<>>)
  <2> SUFFICES ASSUME NEW f \in Fd
               PROVE  Busy(f)' <=> (Busy(f) /\ f # u) \/ (f = t /\ s # <<>>)
    OBVIOUS
  <2>1. Busy(f) <=> Queued(f) # {} \/ InKernel(f) # {} \/ Answered(f) # {}
    BY DEF Busy, Asked, Told, Queued, InKernel, Answered
  <2>2. Busy(f)' <=> Queued(f)' # {} \/ InKernel(f)' # {} \/ Answered(f)' # {}
    BY DEF Busy, Asked, Told, Queued, InKernel, Answered
  <2> QED
    BY <1>5, <1>6, <2>1, <2>2
<1> QED
  BY <1>3, <1>4, <1>5, <1>7, <1>8 DEF Unique

-----------------------------------------------------------------------------
(* The shapes of things are kept by every step. *)

LEMMA Made ==
    ASSUME NEW fd \in Fd
    PROVE  /\ set_accept_event(fd) \in Requests /\ set_accept_event(fd).op = "accept"
           /\ fd # 1 => /\ set_recv_event(fd) \in Requests /\ Target(set_recv_event(fd)) = fd
                        /\ set_recv_event(fd).op = "recv" /\ set_recv_event(fd).fd = fd
           /\ fd # 1 => \A n \in 1 .. MAXLINE :
                           /\ set_send_event(fd, n) \in Requests
                           /\ Target(set_send_event(fd, n)) = fd
                           /\ set_send_event(fd, n).op = "send"
                           /\ set_send_event(fd, n).fd = fd
                           /\ set_send_event(fd, n).len = n
BY RingAssumption
   DEF set_accept_event, set_recv_event, set_send_event, Accept, Recv, Send, Request, ConnInfo,
       Requests, Proper, Files, Data, Target

LEMMA MadeNop ==
    /\ Nop(ConnInfo(0, "ACCEPT")) \in Requests /\ Nop(ConnInfo(0, "ACCEPT")).op = "nop"
    /\ 0 \in Fd /\ 1 \in Fd
BY RingAssumption DEF Nop, Request, ConnInfo, Requests, Proper, Files, Data, Fd

(* Completion i is handled, and a descriptor perhaps closed. *)
LEMMA HandledShapes ==
    ASSUME Shapes, Handling, i' = i + 1,
           UNCHANGED <<pc, cqecount, inflight, cq, Faults, conn, sent, taken, mem>>,
           sq' \in Seq(Requests),
           fds' = fds \/ (Close(ci.connfd) /\ ci.event # "ACCEPT")
    PROVE  Shapes'
<1>1. cq[i] \in Completions /\ ci = cq[i].data /\ pc = "handle" /\ i <= cqecount
  BY Handles DEF Handling
<1>2. fds' \in [Fd -> Files] /\ \A f \in Fd : fds'[f] = Listen <=> f = 1
  <2>1. CASE fds' = fds
    BY <2>1 DEF Shapes
  <2>2. CASE Close(ci.connfd) /\ ci.event # "ACCEPT"
    <3>1. ci.connfd \in Fd /\ ci.connfd # 1
      BY <1>1, <2>2, CompletionFacts DEF Likely
    <3> QED
      BY <2>2, <3>1, RingAssumption DEF Close, Shapes, Files
  <2> QED
    BY <2>1, <2>2
<1> QED
  BY <1>1, <1>2 DEF Shapes

LEMMA StartShapes == ASSUME Shapes, SetupFails \/ Setup PROVE Shapes'
<1>1. CASE SetupFails
  BY <1>1 DEF SetupFails, Shapes, env, ring, net
<1>2. CASE Setup
  <2>1. sq' \in Seq(Requests)
    BY <1>2, Made, MadeNop DEF Setup
  <2> QED
    BY <1>2, <2>1 DEF Setup, Shapes, net
<1> QED
  BY <1>1, <1>2

LEMMA LoopShapes == ASSUME Shapes, Submit \/ PeekBatch \/ Advance PROVE Shapes'
<1>1. CASE Submit
  <2>1. SubmitAll /\ UNCHANGED <<cq, i>> /\ pc = "submit" /\ pc' = "wait"
    BY <1>1 DEF Submit
  <2>2. /\ DOMAIN inflight' = DOMAIN inflight \cup {Resolve(sq[k]) : k \in DOMAIN sq}
        /\ inflight' \in [DOMAIN inflight' -> Nat \ {0}]
        /\ sq' = <<>> /\ \A k \in DOMAIN sq : sq[k] \in Requests
    BY <2>1, Submitted
  <2>3. \A k \in DOMAIN sq : Resolve(sq[k]) \in Requests /\ (Resolve(sq[k]).file = Listen => Resolve(sq[k]).fd = 1)
    <3> SUFFICES ASSUME NEW k \in DOMAIN sq
                 PROVE  /\ Resolve(sq[k]) \in Requests
                        /\ Resolve(sq[k]).file = Listen => Resolve(sq[k]).fd = 1
      OBVIOUS
    <3>1. sq[k] \in Requests /\ sq[k].fd \in Fd
      BY <2>2, RequestFacts
    <3>2. /\ Resolve(sq[k]) \in Requests /\ Resolve(sq[k]).fd = sq[k].fd
          /\ Resolve(sq[k]).file = fds[sq[k].fd]
      BY <3>1, Resolves
    <3> QED
      BY <3>1, <3>2 DEF Shapes
  <2>4. DOMAIN inflight' \subseteq Requests /\ \A q \in DOMAIN inflight' : q.file = Listen => q.fd = 1
    BY <2>2, <2>3 DEF Shapes
  <2>5. sq' \in Seq(Requests)
    BY <2>2
  <2> QED
    BY <1>1, <2>1, <2>2, <2>4, <2>5 DEF Submit, Shapes, net
<1>2. CASE PeekBatch
  BY <1>2, BatchAssumption DEF PeekBatch, Shapes, env, ring, net
<1>3. CASE Advance
  BY <1>3, Advanced DEF Advance, Shapes, net
<1> QED
  BY <1>1, <1>2, <1>3

LEMMA HandlerShapes ==
    ASSUME Shapes,
           \/ AcceptFailed \/ Accepted \/ ReadEnded \/ ReadDone \/ WriteFailed \/ WriteDone
           \/ ReadNothing \/ renderDone
    PROVE  Shapes'
<1>1. /\ Handling /\ i' = i + 1
      /\ UNCHANGED <<pc, cqecount, inflight, cq, Faults, conn, sent, taken, mem>>
  BY DEF AcceptFailed, Accepted, ReadEnded, ReadDone, WriteFailed, WriteDone, ReadNothing, renderDone,
         Event, Handled, net, ring
<1>2. fds' = fds \/ (Close(ci.connfd) /\ ci.event # "ACCEPT")
  <2>1. CASE ReadEnded \/ WriteFailed \/ renderDone
    BY <2>1 DEF ReadEnded, WriteFailed, renderDone, Event
  <2>2. CASE AcceptFailed \/ Accepted \/ ReadDone \/ WriteDone \/ ReadNothing
    <3>1. fds' = fds
      BY <2>2 DEF AcceptFailed, Accepted, ReadDone, WriteDone, ReadNothing
    <3> QED
      BY <3>1
  <2> QED
    BY <2>1, <2>2
<1>3. cq[i] \in Completions /\ ci = cq[i].data /\ res = cq[i].res
  BY <1>1, Handles
<1>4. /\ ci.connfd \in Fd /\ res \in Int
      /\ ci.event # "ACCEPT" => ci.connfd # 1 /\ res <= MAXLINE
      /\ ci.event = "ACCEPT" /\ res >= 0 => res \in Fd /\ res # 1
  BY <1>3, CompletionFacts DEF Likely
<1>5. sq \in Seq(Requests)
  BY DEF Shapes
<1>6. sq' \in Seq(Requests)
  <2>1. CASE Accepted
    <3>1. set_recv_event(res) \in Requests /\ set_accept_event(ci.connfd) \in Requests
      BY <1>4, <2>1, Made DEF Accepted, Event
    <3>2. sq' = sq \o <<set_recv_event(res), set_accept_event(ci.connfd)>>
      BY <2>1 DEF Accepted
    <3> QED
      BY <1>5, <3>1, <3>2
  <2>2. CASE ReadDone
    <3>1. set_send_event(ci.connfd, res) \in Requests
      <4>1. res \in 1 .. MAXLINE /\ ci.connfd # 1
        BY <1>4, <2>2, RingAssumption DEF ReadDone, Event
      <4> QED
        BY <1>4, <4>1, Made
    <3>2. sq' = Append(sq, set_send_event(ci.connfd, res))
      BY <2>2 DEF ReadDone
    <3> QED
      BY <1>5, <3>1, <3>2
  <2>3. CASE WriteFailed \/ WriteDone
    <3>1. set_recv_event(ci.connfd) \in Requests
      BY <1>4, <2>3, Made DEF WriteFailed, WriteDone, Event
    <3>2. sq' = Append(sq, set_recv_event(ci.connfd))
      BY <2>3 DEF WriteFailed, WriteDone
    <3> QED
      BY <1>5, <3>1, <3>2
  <2>4. CASE AcceptFailed \/ ReadEnded \/ ReadNothing \/ renderDone
    BY <1>5, <2>4 DEF AcceptFailed, ReadEnded, ReadNothing, renderDone, ring
  <2> QED
    BY <2>1, <2>2, <2>3, <2>4
<1> QED
  BY <1>1, <1>2, <1>6, HandledShapes

-----------------------------------------------------------------------------
(* The steps of the kernel on request q: a connection is made, some bytes  *)
(* are received or sent, or nothing happens but the completion.            *)

Completes(q, r) == /\ r \in Int /\ Post(q, r) /\ UNCHANGED Faults
                   /\ Likely([data |-> q.data, res |-> r])
                   /\ q.op = "nop" => r = 0

Connects(q, f, c) == /\ q.op = "accept" /\ q.fd = 1 /\ Completes(q, f) /\ f \in Fd /\ fds[f] = Closed
                     /\ conn[c] = "pending" /\ conn' = [conn EXCEPT ![c] = "open"]
                     /\ fds' = [fds EXCEPT ![f] = c]
                     /\ UNCHANGED <<sent, taken, echo, mem>>

Receives(q, c, n) == /\ q.op = "recv" /\ q.file = c /\ Completes(q, n)
                     /\ n \in 1 .. MAXLINE /\ n <= sent[c] - taken[c]
                     /\ taken' = [taken EXCEPT ![c] = @ + n]
                     /\ mem' = [mem EXCEPT !["buffer"] =
                           [x \in 1 .. MAXLINE |-> IF x <= n THEN <<c, taken[c] + x>> ELSE @[x]]]
                     /\ UNCHANGED <<fds, conn, sent, echo>>

Sends(q, c, n) == /\ q.op = "send" /\ q.file = c /\ Completes(q, n) /\ n \in 1 .. q.len
                  /\ "short_send" \notin Faults => n = q.len
                  /\ echo' = [echo EXCEPT ![c] = @ \o SubSeq(mem["buffer"], 1, n)]
                  /\ UNCHANGED <<fds, conn, sent, taken, mem>>

Answers(q, r) == /\ Completes(q, r)
                 /\ \/ q.op = "nop"
                    \/ q.op = "accept" /\ r < 0
                    \/ q.op \in {"recv", "send"} /\ q.file \notin Client /\ r < 0
                    \/ q.op = "recv" /\ q.file \in Client /\ conn[q.file] # "open" /\ r <= 0
                    \/ q.op = "send" /\ q.file \in Client /\ conn[q.file] # "open" /\ r < 0
                 /\ UNCHANGED <<fds, conn, sent, taken, echo, mem>>

LEMMA LeastExists ==
    ASSUME NEW T \in SUBSET Nat, T # {}
    PROVE  \E x \in T : \A y \in T : x <= y
<1> DEFINE R == {ss \in Nat \X Nat : ss[1] < ss[2]}
<1>1. IsWellFoundedOn(R, Nat)
  BY NatLessThanWellFounded, Zenon DEF OpToRel
<1>2. \A x, y \in Nat : <<y, x>> \notin R => x <= y
  <2>1. ASSUME NEW x \in Nat, NEW y \in Nat, y < x PROVE <<y, x>> \in R
    BY <2>1
  <2> QED
    BY <2>1
<1> HIDE DEF R
<1>3. PICK x \in T : \A y \in T : ~(<<y, x>> \in R)
  BY <1>1, WFMin
<1> QED
  BY <1>2, <1>3

LEMMA LowestFree ==
    ASSUME Free # {}
    PROVE  Lowest(Free) \in Fd /\ fds[Lowest(Free)] = Closed
<1>1. Free \in SUBSET Nat
  BY DEF Free, Fd
<1>2. \E f \in Free : \A g \in Free : f <= g
  BY <1>1, LeastExists
<1>3. Lowest(Free) \in Free
  BY <1>2 DEF Lowest
<1> QED
  BY <1>3 DEF Free

LEMMA KernelCases ==
    ASSUME Shapes, NEW q \in DOMAIN inflight, KernelStep(q)
    PROVE  \/ \E f \in Fd, c \in Client : Connects(q, f, c)
           \/ \E c \in Client, n \in 1 .. MAXLINE : Receives(q, c, n) \/ Sends(q, c, n)
           \/ \E r \in Int : Answers(q, r)
<1>1. /\ q.len \in 0 .. MAXLINE /\ MAXLINE \in Nat /\ q.fd \in Fd /\ Proper(q)
      /\ q.op \in {"nop", "accept", "recv", "send"} /\ q.data.event \in {"ACCEPT", "READ", "WRITE"}
      /\ q.file = Listen => q.fd = 1
  BY RingAssumption, RequestFacts DEF Shapes
<1>2. ASSUME NEW r \in Int
      PROVE  /\ q.op = "accept" /\ (r < 0 \/ (r \in Fd \ {1} /\ q.fd = 1)) => Likely([data |-> q.data, res |-> r])
             /\ q.op = "nop" /\ r = 0 => Likely([data |-> q.data, res |-> r])
             /\ q.op \in {"recv", "send"} /\ r <= MAXLINE => Likely([data |-> q.data, res |-> r])
  BY <1>1, MadeNop DEF Likely, Proper
<1>3. CASE KernelNop(q)
  <2>1. Answers(q, 0)
    BY <1>2, <1>3 DEF KernelNop, Answers, Completes, net
  <2> QED
    BY <2>1
<1>4. CASE KernelAccept(q)
  <2> DEFINE f == Lowest(Free)
  <2>1. f \in Fd /\ fds[f] = Closed /\ f \in Int
    BY <1>4, LowestFree DEF KernelAccept, Fd
  <2>2. f # 1
    BY <2>1, RingAssumption DEF Shapes
  <2>3. PICK c \in Client : /\ conn[c] = "pending" /\ conn' = [conn EXCEPT ![c] = "open"]
                            /\ fds' = [fds EXCEPT ![f] = c]
    BY <1>4 DEF KernelAccept
  <2>4. q.op = "accept" /\ q.fd = 1 /\ Post(q, f) /\ UNCHANGED <<Faults, sent, taken, echo, mem>>
    BY <1>1, <1>4 DEF KernelAccept
  <2> HIDE DEF f
  <2>5. Connects(q, f, c)
    BY <1>2, <2>1, <2>2, <2>3, <2>4 DEF Connects, Completes
  <2> QED
    BY <2>1, <2>5
<1>5. CASE KernelRecv(q)
  <2> DEFINE c == q.file
  <2>1. /\ c \in Client /\ sent[c] \in Nat /\ taken[c] \in Nat /\ taken[c] <= sent[c]
        /\ q.op = "recv" /\ q.buf = "buffer"
    BY <1>1, <1>5 DEF KernelRecv, OnConn, Shapes, Proper
  <2>2. PICK n : n = IF sent[c] - taken[c] < q.len THEN sent[c] - taken[c] ELSE q.len
    OBVIOUS
  <2>3. n \in 0 .. MAXLINE /\ n <= sent[c] - taken[c]
    BY <1>1, <2>1, <2>2
  <2>4. UNCHANGED <<fds, Faults, conn, sent, echo>>
    BY <1>5 DEF KernelRecv
  <2>5. \/ /\ n > 0 /\ conn[c] # "reset" /\ Post(q, n)
           /\ taken' = [taken EXCEPT ![c] = @ + n]
           /\ mem' = [mem EXCEPT ![q.buf] =
                        [x \in 1 .. MAXLINE |-> IF x <= n THEN <<c, taken[c] + x>> ELSE @[x]]]
        \/ n = 0 /\ conn[c] = "closed" /\ Post(q, 0) /\ UNCHANGED <<taken, mem>>
        \/ conn[c] = "reset" /\ Post(q, ECONNRESET) /\ UNCHANGED <<taken, mem>>
    BY <1>5, <2>2 DEF KernelRecv
  <2> HIDE DEF c
  <2>6. CASE /\ n > 0 /\ conn[c] # "reset" /\ Post(q, n)
             /\ taken' = [taken EXCEPT ![c] = @ + n]
             /\ mem' = [mem EXCEPT ![q.buf] =
                          [x \in 1 .. MAXLINE |-> IF x <= n THEN <<c, taken[c] + x>> ELSE @[x]]]
    <3>1. n \in 1 .. MAXLINE /\ n \in Int /\ n <= MAXLINE
      BY <1>1, <2>3, <2>6
    <3>2. Completes(q, n)
      BY <1>2, <2>1, <2>4, <2>6, <3>1 DEF Completes
    <3>3. Receives(q, c, n)
      BY <2>1, <2>3, <2>4, <2>6, <3>1, <3>2 DEF Receives, c
    <3> QED
      BY <2>1, <3>1, <3>3
  <2>7. CASE n = 0 /\ conn[c] = "closed" /\ Post(q, 0) /\ UNCHANGED <<taken, mem>>
    <3>1. Answers(q, 0)
      BY <1>1, <1>2, <2>1, <2>4, <2>7 DEF Answers, Completes, c
    <3> QED
      BY <3>1
  <2>8. CASE conn[c] = "reset" /\ Post(q, ECONNRESET) /\ UNCHANGED <<taken, mem>>
    <3>1. ECONNRESET \in Int /\ ECONNRESET <= MAXLINE /\ ECONNRESET < 0
      BY <1>1 DEF ECONNRESET
    <3>2. Answers(q, ECONNRESET)
      BY <1>2, <2>1, <2>4, <2>8, <3>1 DEF Answers, Completes, c
    <3> QED
      BY <3>1, <3>2
  <2> QED
    BY <2>5, <2>6, <2>7, <2>8
<1>6. CASE KernelSend(q)
  <2> DEFINE c == q.file
  <2>1. c \in Client /\ q.op = "send" /\ q.buf = "buffer" /\ q.len \in 1 .. MAXLINE
    BY <1>1, <1>6 DEF KernelSend, OnConn, Proper
  <2>2. UNCHANGED <<fds, Faults, conn, sent, taken, mem>>
    BY <1>6 DEF KernelSend
  <2>3. \/ \E n \in IF "short_send" \in Faults THEN 1 .. q.len ELSE {q.len} :
              /\ echo' = [echo EXCEPT ![c] = @ \o SubSeq(mem[q.buf], 1, n)]
              /\ Post(q, n)
        \/ conn[c] # "open" /\ Post(q, EPIPE) /\ UNCHANGED echo
    BY <1>6 DEF KernelSend
  <2> HIDE DEF c
  <2>4. CASE conn[c] # "open" /\ Post(q, EPIPE) /\ UNCHANGED echo
    <3>1. EPIPE \in Int /\ EPIPE <= MAXLINE /\ EPIPE < 0
      BY <1>1 DEF EPIPE
    <3>2. Answers(q, EPIPE)
      BY <1>2, <2>1, <2>2, <2>4, <3>1 DEF Answers, Completes, c
    <3> QED
      BY <3>1, <3>2
  <2>5. CASE \E n \in IF "short_send" \in Faults THEN 1 .. q.len ELSE {q.len} :
                /\ echo' = [echo EXCEPT ![c] = @ \o SubSeq(mem[q.buf], 1, n)]
                /\ Post(q, n)
    <3>1. PICK n \in 1 .. q.len : /\ echo' = [echo EXCEPT ![c] = @ \o SubSeq(mem["buffer"], 1, n)]
                                  /\ Post(q, n)
                                  /\ "short_send" \notin Faults => n = q.len
      <4>1. CASE "short_send" \in Faults
        BY <2>1, <2>5, <4>1
      <4>2. CASE "short_send" \notin Faults
        <5>1. q.len \in 1 .. q.len
          BY <2>1
        <5> QED
          BY <2>1, <2>5, <4>2, <5>1
      <4> QED
        BY <4>1, <4>2
    <3>2. n \in 1 .. MAXLINE /\ n \in Int /\ n <= MAXLINE
      BY <1>1, <2>1
    <3>3. Completes(q, n)
      BY <1>2, <2>1, <2>2, <3>1, <3>2 DEF Completes
    <3>4. Sends(q, c, n)
      BY <2>1, <2>2, <3>1, <3>3 DEF Sends, c
    <3> QED
      BY <2>1, <3>2, <3>4
  <2> QED
    BY <2>3, <2>4, <2>5
<1>7. CASE KernelRefuse(q)
  <2>1. UNCHANGED <<fds, Faults, conn, sent, taken, echo, mem>>
    BY <1>7 DEF KernelRefuse, net
  <2>2. PICK r \in {EMFILE, EBADF, ENOTSOCK} :
           /\ Post(q, r)
           /\ q.op = "accept" \/ (q.op # "nop" /\ q.file \in {Closed, Stdin})
    BY <1>7 DEF KernelRefuse
  <2>3. r \in Int /\ r < 0 /\ r <= MAXLINE
    BY <1>1 DEF EMFILE, EBADF, ENOTSOCK
  <2>4. Answers(q, r)
    BY <1>1, <1>2, <2>1, <2>2, <2>3, RingAssumption DEF Answers, Completes
  <2> QED
    BY <2>3, <2>4
<1> QED
  BY <1>3, <1>4, <1>5, <1>6, <1>7 DEF KernelStep

LEMMA KernelShapes == ASSUME Shapes, Kernel PROVE Shapes'
<1>1. PICK q \in DOMAIN inflight : KernelStep(q)
  BY DEF Kernel
<1>2. UNCHANGED <<pc, cqecount, i>> /\ pc # "main"
  BY <1>1 DEF Kernel, Shapes
<1>3. ASSUME NEW r, Completes(q, r),
             fds' \in [Fd -> Files] /\ \A f \in Fd : fds'[f] = Listen <=> f = 1,
             conn' \in [Client -> {"idle", "pending", "open", "closed", "reset"}],
             sent' = sent, taken' \in [Client -> Nat],
             \A c \in Client : taken'[c] <= sent[c], mem' \in [{"buffer"} -> Buffer]
      PROVE  Shapes'
  <2>1. r \in Int /\ Post(q, r) /\ Likely([data |-> q.data, res |-> r])
    BY <1>3 DEF Completes
  <2>2. /\ sq' = sq /\ cq' \in Seq(Completions) /\ Len(cq') = Len(cq) + 1
        /\ DOMAIN inflight' \subseteq DOMAIN inflight
        /\ inflight' \in [DOMAIN inflight' -> Nat \ {0}]
    BY <1>2, <2>1, Posted
  <2> QED
    BY <1>2, <1>3, <2>2 DEF Shapes
<1>4. ASSUME NEW f \in Fd, NEW c \in Client, Connects(q, f, c) PROVE Shapes'
  <2>1. fds' \in [Fd -> Files] /\ \A g \in Fd : fds'[g] = Listen <=> g = 1
    BY <1>4, RingAssumption DEF Connects, Shapes, Files
  <2>2. conn' \in [Client -> {"idle", "pending", "open", "closed", "reset"}]
    BY <1>4 DEF Connects, Shapes
  <2> QED
    BY <1>3, <1>4, <2>1, <2>2 DEF Connects, Shapes
<1>5. ASSUME NEW c \in Client, NEW n \in 1 .. MAXLINE, Receives(q, c, n) PROVE Shapes'
  <2>1. /\ taken' \in [Client -> Nat] /\ \A d \in Client : taken'[d] <= sent[d]
        /\ taken[c] \in Nat
    BY <1>5 DEF Receives, Shapes
  <2>2. mem' \in [{"buffer"} -> Buffer]
    <3> DEFINE b == [x \in 1 .. MAXLINE |-> IF x <= n THEN <<c, taken[c] + x>> ELSE mem["buffer"][x]]
    <3>1. \A x \in 1 .. MAXLINE : <<c, taken[c] + x>> \in Cell
      BY <2>1 DEF Cell
    <3>2. mem["buffer"] \in [1 .. MAXLINE -> Cell]
      BY DEF Shapes, Buffer
    <3>5. b \in Buffer
      BY <3>1, <3>2 DEF Buffer
    <3> HIDE DEF b
    <3>3. mem \in [{"buffer"} -> Buffer]
      BY DEF Shapes
    <3>4. mem' = [mem EXCEPT !["buffer"] = b]
      BY <1>5, Zenon DEF Receives, b
    <3> QED
      BY <3>3, <3>4, <3>5
  <2> QED
    BY <1>3, <1>5, <2>1, <2>2 DEF Receives, Shapes
<1>6. ASSUME NEW c \in Client, NEW n \in 1 .. MAXLINE, Sends(q, c, n) PROVE Shapes'
  BY <1>3, <1>6 DEF Sends, Shapes
<1>7. ASSUME NEW r \in Int, Answers(q, r) PROVE Shapes'
  BY <1>3, <1>7 DEF Answers, Shapes
<1> QED
  BY <1>1, <1>4, <1>5, <1>6, <1>7, KernelCases

LEMMA ClientShapes == ASSUME Shapes, Clients PROVE Shapes'
<1>1. PICK c \in Client : ClientStep(c)
  BY DEF Clients
<1>2. /\ UNCHANGED <<pc, cqecount, i, sq, inflight, cq, fds, Faults, taken, echo, mem>>
  BY <1>1 DEF Clients, ClientStep, ClientConnect, ClientSend, ClientLeave, ring
<1>3. /\ conn' \in [Client -> {"idle", "pending", "open", "closed", "reset"}]
      /\ sent' \in [Client -> Nat] /\ \A d \in Client : sent[d] <= sent'[d]
  <2>1. CASE ClientConnect(c) \/ ClientLeave(c)
    <3>1. sent' = sent
      BY <2>1 DEF ClientConnect, ClientLeave
    <3>2. conn' \in [Client -> {"idle", "pending", "open", "closed", "reset"}]
      BY <2>1 DEF ClientConnect, ClientLeave, Shapes
    <3> QED
      BY <3>1, <3>2 DEF Shapes
  <2>2. CASE ClientSend(c)
    BY <2>2 DEF ClientSend, Shapes
  <2> QED
    BY <1>1, <2>1, <2>2 DEF ClientStep
<1>4. \A d \in Client : taken'[d] <= sent'[d]
  BY <1>2, <1>3 DEF Shapes
<1> QED
  BY <1>2, <1>3, <1>4 DEF Shapes

-----------------------------------------------------------------------------
(* What both servers keep.  First the steps that leave the descriptors and *)
(* the clients alone and ask for nothing but what may be asked for.        *)

LEMMA KeptFrame ==
    ASSUME Shapes, Kept, Unique', UNCHANGED <<fds, conn, sent>>,
           \A f \in Fd : Busy(f)' => Busy(f),
           \A q \in Asked' : \/ \E p \in Asked : p.op = q.op /\ p.fd = q.fd
                             \/ q.op \in {"accept", "recv"}
                             \/ q.op = "send" /\ Spoke(q.fd),
           Told' \subseteq Told,
           \A q \in DOMAIN inflight' : q.op \in {"recv", "send"} => q.file = fds[q.fd]
    PROVE  Kept'
<1>1. Descriptors'
  BY DEF Kept, Descriptors
<1>2. Heard'
  <2>1. \A q \in Asked' : q.op = "send" => Spoke(q.fd)'
    BY DEF Kept, Heard, Spoke
  <2>2. \A e \in Told : /\ e.data.event = "WRITE" => Spoke(e.data.connfd)'
                        /\ e.data.event = "READ" /\ e.res > 0 => Spoke(e.data.connfd)'
                        /\ e.data.event = "READ" /\ ~(e.res > 0) =>
                              (fds[e.data.connfd] \in Client => conn[fds[e.data.connfd]] # "open")'
    BY DEF Kept, Heard, Spoke
  <2> QED
    BY <2>1, <2>2 DEF Heard
<1> QED
  BY <1>1, <1>2 DEF Kept

LEMMA KeptLoop == ASSUME Shapes, Kept, Submit \/ PeekBatch \/ Advance PROVE Kept'
<1>0. Unique /\ \A q \in DOMAIN inflight : q.op \in {"recv", "send"} => q.file = fds[q.fd]
  BY DEF Kept, Descriptors
<1>1. CASE Submit
  <2>1. SubmitAll /\ UNCHANGED <<cq, i, fds, conn, sent>> /\ pc = "submit" /\ pc' = "wait"
    BY <1>1 DEF Submit, net
  <2>2. /\ Unique' /\ \A f \in Fd : Busy(f)' <=> Busy(f)
        /\ \A q \in Asked' : q \in Asked \/ \E p \in Asked : q = Resolve(p) /\ p \in Requests
        /\ Told' = Told /\ Asked' = DOMAIN inflight'
    BY <1>0, <2>1, SubmittedOne
  <2>3. \A q \in Asked' : \E p \in Asked : p.op = q.op /\ p.fd = q.fd
    BY <2>2, Resolves
  <2>4. \A q \in DOMAIN inflight' : q \in DOMAIN inflight \/ q.file = fds[q.fd]
    <3>1. DOMAIN inflight' = DOMAIN inflight \cup {Resolve(sq[k]) : k \in DOMAIN sq}
          /\ \A k \in DOMAIN sq : sq[k] \in Requests
      BY <2>1, Submitted
    <3>2. \A k \in DOMAIN sq : Resolve(sq[k]).file = fds[Resolve(sq[k]).fd]
      BY <3>1, Resolves
    <3> QED
      BY <3>1, <3>2
  <2> QED
    BY <1>0, <2>1, <2>2, <2>3, <2>4, KeptFrame
<1>2. CASE PeekBatch
  <2>1. UNCHANGED <<fds, conn, sent, inflight>>
    BY <1>2 DEF PeekBatch, env, ring, net
  <2> QED
    BY <1>0, <1>2, <2>1, Batched, KeptFrame
<1>3. CASE Advance
  <2>1. UNCHANGED <<fds, conn, sent, inflight>>
    BY <1>3 DEF Advance, net
  <2> QED
    BY <1>0, <1>3, <2>1, Advanced, KeptFrame
<1> QED
  BY <1>1, <1>2, <1>3

(* The first requests. *)
LEMMA Started ==
    ASSUME Shapes, Setup
    PROVE  /\ Unique' /\ Told' = {} /\ DOMAIN inflight' = {} /\ fds[0] = Stdin
           /\ Asked' = {Nop(ConnInfo(0, "ACCEPT")), set_accept_event(1)}
           /\ \A f \in Fd : Busy(f)' <=> f = 0
<1>1. /\ sq' = <<Nop(ConnInfo(0, "ACCEPT")), set_accept_event(1)>>
      /\ cq' = <<>> /\ DOMAIN inflight' = {} /\ fds[0] = Stdin /\ pc' = "submit"
  BY DEF Setup, Shapes
<1> DEFINE a == Nop(ConnInfo(0, "ACCEPT"))
           b == set_accept_event(1)
<1>2. a.op = "nop" /\ b.op = "accept"
  BY Made, MadeNop
<1>3. Target(a) = 0 /\ Target(b) = -1
  BY <1>2 DEF Target
<1> HIDE DEF a, b
<1>4. sq' = <<a, b>> /\ DOMAIN sq' = {1, 2} /\ sq'[1] = a /\ sq'[2] = b
  BY <1>1 DEF a, b
<1>5. Unseen' = {}
  BY <1>1 DEF Unseen, FirstUnhandled
<1>6. Told' = {} /\ Asked' = {a, b}
  BY <1>1, <1>4, <1>5 DEF Told, Asked
<1>7. ASSUME NEW f \in Fd PROVE AtMostOne(f)' /\ (Busy(f)' <=> f = 0)
  <2>1. f # -1
    BY RingAssumption DEF Fd
  <2>2. Queued(f)' \subseteq {1} /\ InKernel(f)' = {} /\ Answered(f)' = {}
    BY <1>1, <1>3, <1>4, <1>5, <2>1 DEF Queued, InKernel, Answered
  <2>3. AtMostOne(f)'
    BY <2>2 DEF AtMostOne
  <2>4. Busy(f)' <=> f = 0
    BY <1>3, <1>6, <2>1 DEF Busy
  <2> QED
    BY <2>3, <2>4
<1> QED
  BY <1>1, <1>6, <1>7 DEF Unique, a, b

LEMMA KeptStart == ASSUME Shapes, Kept, SetupFails \/ Setup PROVE Kept'
<1>1. CASE SetupFails
  <2>1. UNCHANGED <<sq, inflight, cq, fds, conn, sent>> /\ Unseen' = Unseen
    BY <1>1 DEF SetupFails, env, ring, net, Unseen, FirstUnhandled
  <2> QED
    BY <2>1 DEF Kept, Descriptors, Heard, Spoke, Unique, AtMostOne, Queued, InKernel, Answered,
                Busy, Asked, Told
<1>2. CASE Setup
  <2>1. UNCHANGED <<fds, conn, sent>>
    BY <1>2 DEF Setup, net
  <2>2. \A q \in Asked' : q.op \in {"nop", "accept"}
    BY <1>2, Started, Made, MadeNop
  <2>3. Descriptors'
    BY <1>2, <2>1, Started DEF Kept, Descriptors
  <2>4. Heard'
    BY <1>2, <2>2, Started DEF Heard
  <2> QED
    BY <2>3, <2>4 DEF Kept
<1> QED
  BY <1>1, <1>2

-----------------------------------------------------------------------------
(* What the handlers of a completion do. *)

Quiet == AcceptFailed \/ ReadNothing

LEMMA Handler ==
    ASSUME Shapes, Quiet \/ Accepted \/ ReadDone \/ WriteDone \/ WriteFailed \/ ReadEnded \/ renderDone
    PROVE  /\ Handling /\ i' = i + 1 /\ UNCHANGED <<pc, inflight, cq, conn, sent, taken, mem, Faults>>
           /\ ci = cq[i].data /\ res = cq[i].res /\ cq[i] \in Told /\ cq[i] \in Completions
           /\ ci.connfd \in Fd /\ res \in Int
           /\ ci.event # "ACCEPT" => ci.connfd # 1 /\ res <= MAXLINE /\ Subject(cq[i]) = ci.connfd
           /\ ci.event = "ACCEPT" => Subject(cq[i]) = res
           /\ ci.event = "ACCEPT" /\ res >= 0 => res \in Fd /\ res # 1
<1>1. Handling /\ i' = i + 1 /\ UNCHANGED <<pc, inflight, cq, conn, sent, taken, mem, Faults>>
  BY DEF Quiet, AcceptFailed, Accepted, ReadEnded, ReadDone, WriteDone, WriteFailed, ReadNothing,
         renderDone, Event, Handled, net, ring
<1>2. ci = cq[i].data /\ res = cq[i].res /\ cq[i] \in Told /\ cq[i] \in Completions
  BY <1>1, Handles
<1> QED
  BY <1>1, <1>2, CompletionFacts DEF Likely, Subject

(* A handler that queues nothing, and perhaps closes the descriptor. *)
LEMMA QuietOne ==
    ASSUME Shapes, Unique, Quiet \/ ReadEnded \/ renderDone
    PROVE  /\ Unique' /\ Asked' = Asked /\ Told' \subseteq Told
           /\ \A e \in Told : e # cq[i] => e \in Told'
           /\ Subject(cq[i]) \in Fd =>
                 /\ \A q \in Asked : Target(q) # Subject(cq[i])
                 /\ \A e \in Told' : Subject(e) # Subject(cq[i])
           /\ \A f \in Fd : Busy(f)' <=> Busy(f) /\ f # Subject(cq[i])
<1>1. sq' = sq
  BY DEF Quiet, AcceptFailed, ReadEnded, ReadNothing, renderDone, ring
<1>2. sq' = sq \o <<>> /\ <<>> \in Seq(Requests) /\ DOMAIN <<>> = {}
  BY <1>1 DEF Shapes
<1>3. -1 \in Int /\ -1 \notin Fd
  BY RingAssumption DEF Fd
<1> DEFINE s == <<>>
<1>4. Handling /\ i' = i + 1 /\ UNCHANGED <<pc, inflight, cq>>
  BY Handler
<1> HIDE DEF s
<1>5. s \in Seq(Requests) /\ sq' = sq \o s /\ DOMAIN s = {} /\ s = <<>>
  BY <1>2 DEF s
<1>6. /\ Unique'
      /\ Asked' = Asked \cup {s[k] : k \in DOMAIN s}
      /\ Told' \subseteq Told /\ \A e \in Told : e # cq[i] => e \in Told'
      /\ Subject(cq[i]) \in Fd =>
            /\ \A q \in Asked : Target(q) # Subject(cq[i])
            /\ \A e \in Told' : Subject(e) # Subject(cq[i])
      /\ \A f \in Fd : Busy(f)' <=> \/ Busy(f) /\ f # Subject(cq[i])
                                    \/ f = -1 /\ s # <<>>
  BY <1>3, <1>4, <1>5, HandledOne
<1> QED
  BY <1>5, <1>6

(* A handler that queues request q about the descriptor of the completion. *)
Next1 == IF ci.event = "READ" THEN set_send_event(ci.connfd, res)
         ELSE IF ci.event = "WRITE" THEN set_recv_event(ci.connfd) ELSE set_recv_event(res)

LEMMA QueueOne ==
    ASSUME Shapes, Unique, Accepted \/ ReadDone \/ WriteDone
    PROVE  /\ Unique' /\ Told' \subseteq Told /\ Next1 \in Asked' /\ Next1 \in Requests
           /\ Next1.fd = Subject(cq[i]) /\ Subject(cq[i]) \in Fd
           /\ Next1.op = IF ci.event = "READ" THEN "send" ELSE "recv"
           /\ ci.event = "READ" => Next1.len = res
           /\ \A q \in Asked' : q \in Asked \/ q = Next1 \/ q.op = "accept"
           /\ \A q \in Asked : q \in Asked'
           /\ \A q \in Asked : Target(q) # Subject(cq[i])
           /\ \A e \in Told' : Subject(e) # Subject(cq[i])
           /\ \A f \in Fd : Busy(f)' <=> Busy(f)
<1> DEFINE u == Subject(cq[i])
<1>1. /\ Handling /\ i' = i + 1 /\ UNCHANGED <<pc, inflight, cq>>
      /\ cq[i] \in Told /\ res \in Int /\ ci.connfd \in Fd
  BY Handler
<1>2. /\ u \in Fd /\ u # 1 /\ Next1 \in Requests /\ Target(Next1) = u /\ Next1.fd = u
      /\ Next1.op = IF ci.event = "READ" THEN "send" ELSE "recv"
      /\ ci.event = "READ" => Next1.len = res
  <2>1. CASE Accepted
    <3>1. ci.event = "ACCEPT" /\ res >= 0
      BY <2>1 DEF Accepted, Event
    <3>2. u = res /\ res \in Fd /\ res # 1
      BY <2>1, <3>1, Handler
    <3> QED
      BY <3>1, <3>2, Made DEF Next1
  <2>2. CASE ReadDone
    <3>1. ci.event = "READ" /\ res > 0
      BY <2>2 DEF ReadDone, Event
    <3>2. u = ci.connfd /\ ci.connfd # 1 /\ res <= MAXLINE
      BY <2>2, <3>1, Handler
    <3>3. res \in 1 .. MAXLINE
      BY <1>1, <3>1, <3>2, RingAssumption
    <3> QED
      BY <1>1, <3>1, <3>2, <3>3, Made DEF Next1
  <2>3. CASE WriteDone
    <3>1. ci.event = "WRITE"
      BY <2>3 DEF WriteDone, Event
    <3>2. u = ci.connfd /\ ci.connfd # 1
      BY <2>3, <3>1, Handler
    <3> QED
      BY <1>1, <3>1, <3>2, Made DEF Next1
  <2> QED
    BY <2>1, <2>2, <2>3
<1>3. PICK s \in Seq(Requests) : /\ sq' = sq \o s /\ s # <<>> /\ 1 \in DOMAIN s /\ s[1] = Next1
                                 /\ \A k \in DOMAIN s : k # 1 => s[k].op = "accept"
  <2>1. CASE Accepted
    <3> DEFINE s == <<set_recv_event(res), set_accept_event(ci.connfd)>>
    <3>1. ci.event = "ACCEPT" /\ sq' = sq \o s
      BY <2>1 DEF Accepted, Event
    <3>2. Next1 = set_recv_event(res)
      BY <3>1 DEF Next1
    <3>3. set_accept_event(ci.connfd) \in Requests /\ set_accept_event(ci.connfd).op = "accept"
      BY <1>1, Made
    <3>4. /\ s \in Seq(Requests) /\ s # <<>> /\ 1 \in DOMAIN s /\ s[1] = Next1
          /\ \A k \in DOMAIN s : k # 1 => s[k].op = "accept"
      BY <1>2, <3>2, <3>3
    <3> QED
      BY <3>1, <3>4
  <2>2. CASE ReadDone \/ WriteDone
    <3>1. sq' = Append(sq, Next1)
      BY <2>2 DEF ReadDone, WriteDone, Event, Next1
    <3> DEFINE s == <<Next1>>
    <3>2. sq' = sq \o s
      BY <1>2, <3>1 DEF Shapes
    <3>3. /\ s \in Seq(Requests) /\ s # <<>> /\ 1 \in DOMAIN s /\ s[1] = Next1
          /\ \A k \in DOMAIN s : k # 1 => s[k].op = "accept"
      BY <1>2
    <3> HIDE DEF s
    <3> QED
      BY <3>2, <3>3
  <2> QED
    BY <2>1, <2>2
<1>4. \A k \in DOMAIN s : Target(s[k]) = IF k = 1 THEN u ELSE -1
  BY <1>2, <1>3 DEF Target
<1>5. u \in Int
  BY <1>2 DEF Fd
<1>6. /\ Unique'
      /\ Asked' = Asked \cup {s[k] : k \in DOMAIN s}
      /\ Told' \subseteq Told
      /\ \A q \in Asked : Target(q) # u
      /\ \A e \in Told' : Subject(e) # u
      /\ \A f \in Fd : Busy(f)' <=> \/ Busy(f) /\ f # u
                                    \/ f = u /\ s # <<>>
  BY <1>1, <1>2, <1>3, <1>4, <1>5, HandledOne
<1>7. Busy(u)
  BY <1>1 DEF Busy
<1> HIDE DEF u
<1>8. \A f \in Fd : Busy(f)' <=> Busy(f)
  BY <1>3, <1>6, <1>7
<1>9. /\ Next1 \in Asked'
      /\ \A q \in Asked' : q \in Asked \/ q = Next1 \/ q.op = "accept"
      /\ \A q \in Asked : q \in Asked'
  BY <1>3, <1>6
<1> QED
  BY <1>2, <1>6, <1>8, <1>9 DEF u

LEMMA KeptHandler ==
    ASSUME Shapes, Kept, Quiet \/ Accepted \/ ReadDone \/ WriteDone
    PROVE  Kept'
<1>0. /\ Unique /\ \A q \in DOMAIN inflight : q.op \in {"recv", "send"} => q.file = fds[q.fd]
      /\ UNCHANGED <<inflight, conn, sent>> /\ cq[i] \in Told /\ ci = cq[i].data /\ res = cq[i].res
      /\ ci.event # "ACCEPT" => Subject(cq[i]) = ci.connfd
  BY Handler DEF Kept, Descriptors
<1>1. CASE Quiet
  <2>1. fds' = fds
    BY <1>1 DEF Quiet, AcceptFailed, ReadNothing
  <2> QED
    BY <1>0, <1>1, <2>1, QuietOne, KeptFrame
<1>2. CASE Accepted \/ ReadDone \/ WriteDone
  <2>1. fds' = fds
    BY <1>2 DEF Accepted, ReadDone, WriteDone
  <2>2. ci.event = "READ" => res > 0
    BY <1>2 DEF Accepted, ReadDone, WriteDone, Event
  <2>3. ci.event = "READ" => Spoke(Next1.fd) /\ Next1.op = "send"
    BY <1>0, <1>2, <2>2, QueueOne DEF Kept, Heard
  <2>4. ci.event # "READ" => Next1.op = "recv"
    BY <1>0, <1>2, QueueOne
  <2>5. /\ Unique' /\ Told' \subseteq Told /\ \A f \in Fd : Busy(f)' <=> Busy(f)
        /\ \A q \in Asked' : q \in Asked \/ q = Next1 \/ q.op = "accept"
    BY <1>0, <1>2, QueueOne
  <2> QED
    BY <1>0, <2>1, <2>3, <2>4, <2>5, KeptFrame
<1> QED
  BY <1>1, <1>2

(* A descriptor is closed when nothing is about it any more. *)
LEMMA KeptClose ==
    ASSUME Shapes, Kept, ReadEnded \/ renderDone
    PROVE  Kept' /\ \A f \in Fd : f # ci.connfd => fds'[f] = fds[f]
<1> DEFINE u == ci.connfd
<1>0. /\ Unique /\ UNCHANGED <<inflight, conn, sent>> /\ cq[i] \in Told /\ ci = cq[i].data
      /\ u \in Fd /\ Subject(cq[i]) = u
  <2>1. ci.event # "ACCEPT"
    BY DEF ReadEnded, renderDone, Event
  <2> QED
    BY <2>1, Handler DEF Kept, Descriptors
<1>1. fds' = [fds EXCEPT ![u] = Closed]
  BY DEF ReadEnded, renderDone, Close
<1>2. /\ Unique' /\ Asked' = Asked /\ Told' \subseteq Told
      /\ \A q \in Asked : Target(q) # u
      /\ \A e \in Told' : Subject(e) # u
      /\ \A f \in Fd : Busy(f)' <=> Busy(f) /\ f # u
  BY <1>0, QuietOne
<1> HIDE DEF u
<1>3. fds'[u] = Closed /\ \A f \in Fd : f # u => fds'[f] = fds[f]
  BY <1>0, <1>1 DEF Shapes
<1>4. Closed \notin Client
  BY RingAssumption
<1>5. \A q \in Asked : /\ q \in Requests /\ q.fd \in Fd
                       /\ q.op = "nop" => u # 0
                       /\ q.op \in {"recv", "send"} => q.fd # u
  <2>1. \A q \in Asked : q \in Requests
    BY DEF Asked, Shapes
  <2> QED
    BY <1>2, <2>1, RequestFacts DEF Target
<1>6. \A e \in Told' : /\ e \in Completions /\ e.data.connfd \in Fd
                       /\ e.data.event # "ACCEPT" => e.data.connfd # u
                       /\ e.data = ConnInfo(0, "ACCEPT") /\ e.res >= 0 => u # 0
  <2>1. \A e \in Told : e \in Completions
    BY DEF Told, Shapes, Unseen, FirstUnhandled
  <2> SUFFICES ASSUME NEW e \in Told'
               PROVE  /\ e \in Completions /\ e.data.connfd \in Fd
                      /\ e.data.event # "ACCEPT" => e.data.connfd # u
                      /\ e.data = ConnInfo(0, "ACCEPT") /\ e.res >= 0 => u # 0
    OBVIOUS
  <2>2. e \in Completions /\ Subject(e) # u
    BY <1>2, <2>1
  <2>3. e.data.connfd \in Fd /\ e.res \in Int /\ Likely(e)
    BY <2>2, CompletionFacts
  <2> QED
    BY <2>2, <2>3 DEF Subject, Likely, ConnInfo
<1>7. Descriptors'
  <2>1. \A f \in Fd : Busy(f)' => fds'[f] \in Client \/ (f = 0 /\ fds'[f] = Stdin)
    BY <1>2, <1>3 DEF Kept, Descriptors
  <2>2. \A q \in Asked' : q.op = "nop" => fds'[0] = Stdin
    BY <1>2, <1>3, <1>5, MadeNop DEF Kept, Descriptors
  <2>3. \A e \in Told' : e.data = ConnInfo(0, "ACCEPT") /\ e.res >= 0 => fds'[0] = Stdin
    BY <1>2, <1>3, <1>6, MadeNop DEF Kept, Descriptors
  <2>4. \A q \in DOMAIN inflight' : q.op \in {"recv", "send"} => q.file = fds'[q.fd]
    BY <1>0, <1>3, <1>5 DEF Kept, Descriptors, Asked
  <2>5. /\ \A f, g \in Fd : fds'[f] \in Client /\ fds'[f] = fds'[g] => f = g
        /\ \A f \in Fd : fds'[f] \in Client => conn'[fds'[f]] \notin {"idle", "pending"}
    BY <1>0, <1>3, <1>4 DEF Kept, Descriptors
  <2> QED
    BY <1>2, <2>1, <2>2, <2>3, <2>4, <2>5 DEF Descriptors
<1>8. Heard'
  <2>1. \A f \in Fd : f # u /\ Spoke(f) => Spoke(f)'
    BY <1>0, <1>3 DEF Spoke
  <2>2. \A q \in Asked' : q.op = "send" => Spoke(q.fd)'
    BY <1>2, <1>5, <2>1 DEF Kept, Heard
  <2>3. ASSUME NEW e \in Told'
        PROVE  /\ e.data.event = "WRITE" => Spoke(e.data.connfd)'
               /\ e.data.event = "READ" /\ e.res > 0 => Spoke(e.data.connfd)'
               /\ e.data.event = "READ" /\ ~(e.res > 0) =>
                     (fds[e.data.connfd] \in Client => conn[fds[e.data.connfd]] # "open")'
    BY <1>0, <1>2, <1>3, <1>6, <2>1 DEF Kept, Heard
  <2> QED
    BY <2>2, <2>3 DEF Heard
<1> QED
  BY <1>3, <1>7, <1>8 DEF Kept, u

-----------------------------------------------------------------------------
(* The kernel and the clients. *)

LEMMA InUse == ASSUME Shapes
               PROVE  /\ \A q \in Asked : q \in Requests /\ q.fd \in Fd
                      /\ \A e \in Told : e \in Completions /\ e.data.connfd \in Fd
<1>1. \A q \in Asked : q \in Requests
  BY DEF Asked, Shapes
<1>2. \A e \in Told : e \in Completions
  BY DEF Told, Shapes, Unseen, FirstUnhandled
<1> QED
  BY <1>1, <1>2, RequestFacts, CompletionFacts

(* A connection is made: nothing is about its descriptor yet. *)
LEMMA KeptConnects ==
    ASSUME Shapes, Kept, NEW q \in DOMAIN inflight, NEW f \in Fd, NEW c \in Client,
           Connects(q, f, c), UNCHANGED <<pc, i>>
    PROVE  /\ Kept' /\ fds'[f] = c /\ \A g \in Fd : fds[g] # c /\ (g # f => fds'[g] = fds[g])
           /\ \A g \in Fd : Busy(g)' <=> Busy(g) \/ g = f
           /\ \A p \in Asked' : p \in Asked /\ p.fd \in Fd /\ (p.op \in {"recv", "send"} => p.fd # f)
           /\ \A e \in Told : e.data.connfd \in Fd /\ Subject(e) # f
           /\ Told' = Told \cup {[data |-> q.data, res |-> f]}
           /\ Subject([data |-> q.data, res |-> f]) = f /\ q.data.event = "ACCEPT"
<1> DEFINE n == [data |-> q.data, res |-> f]
<1>1. /\ q.op = "accept" /\ q.fd = 1 /\ Post(q, f) /\ f \in Int /\ Likely(n) /\ fds[f] = Closed
      /\ conn[c] = "pending" /\ conn' = [conn EXCEPT ![c] = "open"]
      /\ fds' = [fds EXCEPT ![f] = c] /\ sent' = sent
  BY DEF Connects, Completes
<1>2. Unique /\ ~Busy(f)
  BY <1>1, RingAssumption DEF Kept, Descriptors
<1>3. q.data.event = "ACCEPT" /\ q.data.connfd = 1
  BY <1>1, RequestFacts DEF Shapes, Proper
<1> HIDE DEF n
<1>4. /\ Told' = Told \cup {n} /\ Asked' \subseteq Asked /\ DOMAIN inflight' \subseteq DOMAIN inflight
  BY <1>1, Posted DEF n
<1>5. /\ Unique' /\ \A g \in Fd : Busy(g)' <=> Busy(g) \/ g = f
      /\ Subject(n) = f
  BY <1>1, <1>2, PostedAccept DEF n
<1>6. fds'[f] = c /\ (\A g \in Fd : g # f => fds'[g] = fds[g]) /\ \A g \in Fd : fds[g] # c
  BY <1>1 DEF Shapes, Kept, Descriptors
<1>7. \A d \in Client : d # c => conn'[d] = conn[d]
  BY <1>1 DEF Shapes
<1>8. \A p \in Asked : /\ p \in Requests /\ p.fd \in Fd
                       /\ p.op = "nop" => f # 0
                       /\ p.op \in {"recv", "send"} => p.fd # f
  BY <1>2, InUse DEF Busy, Target
<1>9. \A e \in Told : /\ e \in Completions /\ e.data.connfd \in Fd /\ Subject(e) # f
                      /\ e.data.event # "ACCEPT" => e.data.connfd # f
                      /\ e.data = ConnInfo(0, "ACCEPT") /\ e.res >= 0 => f # 0
  <2> SUFFICES ASSUME NEW e \in Told
               PROVE  /\ e \in Completions /\ e.data.connfd \in Fd /\ Subject(e) # f
                      /\ e.data.event # "ACCEPT" => e.data.connfd # f
                      /\ e.data = ConnInfo(0, "ACCEPT") /\ e.res >= 0 => f # 0
    OBVIOUS
  <2>1. e \in Completions /\ e.data.connfd \in Fd /\ Subject(e) # f
    BY <1>2, InUse DEF Busy
  <2>2. e.res \in Int /\ Likely(e)
    BY <2>1, CompletionFacts
  <2> QED
    BY <2>1, <2>2 DEF Subject, Likely, ConnInfo
<1>10. Descriptors'
  <2>1. \A g \in Fd : Busy(g)' => fds'[g] \in Client \/ (g = 0 /\ fds'[g] = Stdin)
    BY <1>5, <1>6 DEF Kept, Descriptors
  <2>2. \A p \in Asked' : p.op = "nop" => fds'[0] = Stdin
    BY <1>4, <1>6, <1>8, MadeNop DEF Kept, Descriptors
  <2>3. \A e \in Told' : e.data = ConnInfo(0, "ACCEPT") /\ e.res >= 0 => fds'[0] = Stdin
    <3>1. n.data # ConnInfo(0, "ACCEPT")
      BY <1>3 DEF ConnInfo, n
    <3> QED
      BY <1>4, <1>6, <1>9, <3>1, MadeNop DEF Kept, Descriptors
  <2>4. \A p \in DOMAIN inflight' : p.op \in {"recv", "send"} => p.file = fds'[p.fd]
    BY <1>4, <1>6, <1>8 DEF Kept, Descriptors, Asked
  <2>5. \A g, h \in Fd : fds'[g] \in Client /\ fds'[g] = fds'[h] => g = h
    BY <1>6 DEF Kept, Descriptors
  <2>6. \A g \in Fd : fds'[g] \in Client => conn'[fds'[g]] \notin {"idle", "pending"}
    <3>1. conn'[c] = "open"
      BY <1>1 DEF Shapes
    <3> QED
      BY <1>6, <1>7, <3>1 DEF Kept, Descriptors
  <2> QED
    BY <1>5, <2>1, <2>2, <2>3, <2>4, <2>5, <2>6 DEF Descriptors
<1>11. Heard'
  <2>1. \A g \in Fd : g # f /\ Spoke(g) => Spoke(g)'
    BY <1>1, <1>6 DEF Spoke
  <2>2. \A p \in Asked' : p.op = "send" => Spoke(p.fd)'
    BY <1>4, <1>8, <2>1 DEF Kept, Heard
  <2>3. ASSUME NEW e \in Told
        PROVE  /\ e.data.event = "WRITE" => Spoke(e.data.connfd)'
               /\ e.data.event = "READ" /\ e.res > 0 => Spoke(e.data.connfd)'
               /\ e.data.event = "READ" /\ ~(e.res > 0) =>
                     (fds[e.data.connfd] \in Client => conn[fds[e.data.connfd]] # "open")'
    BY <1>6, <1>7, <1>9, <2>1 DEF Kept, Heard
  <2>4. n.data.event = "ACCEPT"
    BY <1>3 DEF n
  <2> QED
    BY <1>4, <2>2, <2>3, <2>4 DEF Heard
<1> QED
  BY <1>3, <1>4, <1>5, <1>6, <1>8, <1>9, <1>10, <1>11 DEF Kept, n

(* Every other completion. *)
LEMMA KeptPosted ==
    ASSUME Shapes, Kept, NEW q \in DOMAIN inflight, NEW r, Completes(q, r), UNCHANGED <<pc, i>>,
           UNCHANGED <<fds, conn, sent>>, q.op = "accept" => r < 0,
           q.op = "recv" => IF r > 0 THEN Spoke(q.fd)
                            ELSE fds[q.fd] \in Client => conn[fds[q.fd]] # "open"
    PROVE  /\ Kept' /\ \A f \in Fd : Busy(f)' <=> Busy(f)
           /\ \A p \in Asked' : p \in Asked /\ p \in Requests /\ p.fd \in Fd
           /\ Told' = Told \cup {[data |-> q.data, res |-> r]}
           /\ \A e \in Told : e \in Completions /\ e.data.connfd \in Fd
           /\ q.op \in {"recv", "send"} =>
                 /\ Subject([data |-> q.data, res |-> r]) = q.fd
                 /\ \A p \in Asked' : p.op \in {"recv", "send"} => p.fd # q.fd
                 /\ \A e \in Told : Subject(e) # q.fd
<1> DEFINE n == [data |-> q.data, res |-> r]
<1>1. r \in Int /\ Post(q, r) /\ Likely(n) /\ (q.op = "nop" => r = 0) /\ Unique
  BY DEF Completes, Kept, Descriptors
<1>2. /\ q \in Requests /\ q.data.connfd = q.fd /\ q.fd \in Fd /\ Proper(q) /\ q \in Asked
      /\ q.data.event \in {"ACCEPT", "READ", "WRITE"}
  BY RequestFacts DEF Shapes, Asked
<1> HIDE DEF n
<1>3. /\ Told' = Told \cup {n} /\ Asked' \subseteq Asked /\ DOMAIN inflight' \subseteq DOMAIN inflight
  BY <1>1, Posted DEF n
<1>4. /\ \A p \in Asked : p \in Requests /\ p.fd \in Fd
      /\ \A e \in Told : e \in Completions /\ e.data.connfd \in Fd
  BY InUse
<1>5. /\ Unique' /\ \A f \in Fd : Busy(f)' <=> Busy(f)
      /\ q.op # "accept" => /\ Subject(n) = Target(q)
                            /\ \A p \in Asked' : Target(p) # Target(q)
                            /\ \A e \in Told : Subject(e) # Target(q)
  <2>1. CASE q.op = "accept"
    <3>1. r \notin Fd /\ r < 0
      BY <1>1, <2>1 DEF Fd
    <3> QED
      BY <1>1, <2>1, <3>1, PostedAccept DEF n
  <2>2. CASE q.op # "accept"
    BY <1>1, <2>2, PostedOne DEF n
  <2> QED
    BY <2>1, <2>2
<1>6. n.data = q.data /\ n.res = r
  BY DEF n
<1>7. Descriptors'
  <2>1. n.data = ConnInfo(0, "ACCEPT") /\ n.res >= 0 => fds[0] = Stdin
    <3>1. CASE q.op = "nop"
      BY <1>2, <3>1 DEF Kept, Descriptors
    <3>2. CASE q.op = "accept"
      BY <1>1, <1>6, <3>2
    <3>3. CASE q.op \in {"recv", "send"}
      BY <1>2, <1>6, <3>3 DEF ConnInfo, Proper
    <3> QED
      BY <1>2, <3>1, <3>2, <3>3, RequestFacts
  <2> QED
    BY <1>3, <1>5, <2>1 DEF Kept, Descriptors
<1>8. Heard'
  <2>1. \A f : Spoke(f)' <=> Spoke(f)
    BY DEF Spoke
  <2>2. \A p \in Asked' : p.op = "send" => Spoke(p.fd)'
    BY <1>3, <2>1 DEF Kept, Heard
  <2>3. ASSUME NEW e \in Told
        PROVE  /\ e.data.event = "WRITE" => Spoke(e.data.connfd)'
               /\ e.data.event = "READ" /\ e.res > 0 => Spoke(e.data.connfd)'
               /\ e.data.event = "READ" /\ ~(e.res > 0) =>
                     (fds[e.data.connfd] \in Client => conn[fds[e.data.connfd]] # "open")'
    BY <2>1 DEF Kept, Heard
  <2>4. n.data.event = "WRITE" => Spoke(n.data.connfd)'
    <3>1. n.data.event = "WRITE" => q.op = "send"
      BY <1>2, <1>6, RequestFacts DEF Proper
    <3> QED
      BY <1>2, <1>6, <2>1, <3>1 DEF Kept, Heard
  <2>5. n.data.event = "READ" =>
           IF n.res > 0 THEN Spoke(n.data.connfd)'
           ELSE (fds[n.data.connfd] \in Client => conn[fds[n.data.connfd]] # "open")'
    <3>1. n.data.event = "READ" => q.op = "recv"
      BY <1>2, <1>6 DEF Proper
    <3> QED
      BY <1>2, <1>6, <2>1, <3>1
  <2> QED
    BY <1>3, <2>2, <2>3, <2>4, <2>5 DEF Heard
<1>9. q.op \in {"recv", "send"} =>
         /\ Subject(n) = q.fd
         /\ \A p \in Asked' : p.op \in {"recv", "send"} => p.fd # q.fd
         /\ \A e \in Told : Subject(e) # q.fd
  BY <1>5 DEF Target
<1> QED
  BY <1>3, <1>4, <1>5, <1>7, <1>8, <1>9 DEF Kept, n

(* Which completions these are. *)
LEMMA KeptReceives ==
    ASSUME Shapes, Kept, NEW q \in DOMAIN inflight, NEW c \in Client, NEW n \in 1 .. MAXLINE,
           Receives(q, c, n) \/ Sends(q, c, n), UNCHANGED <<pc, i>>
    PROVE  /\ Kept' /\ \A f \in Fd : Busy(f)' <=> Busy(f)
           /\ \A p \in Asked' : p \in Asked /\ p.fd \in Fd
           /\ Told' = Told \cup {[data |-> q.data, res |-> n]}
           /\ \A e \in Told : e \in Completions /\ e.data.connfd \in Fd
           /\ Subject([data |-> q.data, res |-> n]) = q.fd /\ q.fd \in Fd /\ fds[q.fd] = c
           /\ \A p \in Asked' : p.op \in {"recv", "send"} => p.fd # q.fd
           /\ \A e \in Told : Subject(e) # q.fd
           /\ \A f \in Fd : fds[f] = c => f = q.fd
           /\ q \in Asked /\ q.data.connfd = q.fd
           /\ q.data.event = IF q.op = "recv" THEN "READ" ELSE "WRITE"
<1>1. /\ q.op \in {"recv", "send"} /\ q.file = c /\ Completes(q, n) /\ UNCHANGED <<fds, conn, sent>>
      /\ q.op = "recv" => Receives(q, c, n)
  BY DEF Receives, Sends
<1>2. /\ q.fd \in Fd /\ q \in Asked /\ q.data.connfd = q.fd
      /\ q.data.event = IF q.op = "recv" THEN "READ" ELSE "WRITE"
  BY <1>1, RequestFacts DEF Asked, Shapes, Proper
<1>3. fds[q.fd] = c /\ \A f \in Fd : fds[f] = c => f = q.fd
  BY <1>1, <1>2 DEF Kept, Descriptors
<1>4. q.op = "recv" => sent[c] > 0
  BY <1>1 DEF Receives, Shapes
<1>5. q.op = "recv" => IF n > 0 THEN Spoke(q.fd)
                       ELSE fds[q.fd] \in Client => conn[fds[q.fd]] # "open"
  BY <1>3, <1>4 DEF Spoke
<1> QED
  BY <1>1, <1>2, <1>3, <1>5, KeptPosted

LEMMA KeptAnswers ==
    ASSUME Shapes, Kept, NEW q \in DOMAIN inflight, NEW r \in Int, Answers(q, r), UNCHANGED <<pc, i>>
    PROVE  /\ Kept' /\ \A f \in Fd : Busy(f)' <=> Busy(f)
           /\ \A p \in Asked' : p \in Asked /\ p.fd \in Fd
           /\ Told' = Told \cup {[data |-> q.data, res |-> r]}
           /\ \A e \in Told : e \in Completions /\ e.data.connfd \in Fd
           /\ q.fd \in Fd /\ q \in Asked /\ q.data.connfd = q.fd /\ Proper(q)
           /\ q.op = "send" => r < 0 /\ fds[q.fd] \in Client /\ conn[fds[q.fd]] # "open"
           /\ q.op = "recv" => r <= 0
           /\ q.op = "nop" => r = 0 /\ fds[0] = Stdin
           /\ q.op = "accept" => r < 0
           /\ q.op \in {"nop", "accept", "recv", "send"}
           /\ q.op \in {"recv", "send"} => Subject([data |-> q.data, res |-> r]) = q.fd
<1>1. /\ Completes(q, r) /\ UNCHANGED <<fds, conn, sent>>
      /\ q.op = "accept" => r < 0
      /\ q.op = "nop" => r = 0
      /\ q.op = "recv" => r <= 0
      /\ q.op = "send" => r < 0
  BY DEF Answers, Completes
<1>2. /\ q.fd \in Fd /\ q \in Asked /\ q.data.connfd = q.fd /\ Proper(q)
      /\ q.op \in {"nop", "accept", "recv", "send"}
  BY RequestFacts DEF Asked, Shapes
<1>3. q.op \in {"recv", "send"} => q.file = fds[q.fd]
  BY DEF Kept, Descriptors
<1>4. /\ q.op = "send" => fds[q.fd] \in Client
      /\ q.op = "nop" => fds[0] = Stdin
  BY <1>2 DEF Kept, Descriptors, Heard, Spoke
<1>5. q.op \in {"recv", "send"} => (fds[q.fd] \in Client => conn[fds[q.fd]] # "open")
  BY <1>3 DEF Answers
<1>6. q.op = "recv" => IF r > 0 THEN Spoke(q.fd)
                       ELSE fds[q.fd] \in Client => conn[fds[q.fd]] # "open"
  BY <1>1, <1>5
<1> QED
  BY <1>1, <1>2, <1>4, <1>5, <1>6, KeptPosted

LEMMA KeptClients ==
    ASSUME Shapes, Kept, Clients
    PROVE  /\ Kept' /\ \A f \in Fd : Busy(f)' <=> Busy(f)
           /\ Asked' = Asked /\ Told' = Told
<1>1. PICK c \in Client : ClientStep(c)
  BY DEF Clients
<1>2. UNCHANGED <<pc, i, sq, inflight, cq, fds>>
  BY <1>1 DEF Clients, ClientStep, ClientConnect, ClientSend, ClientLeave, ring
<1>3. Unseen' = Unseen
  BY <1>2 DEF Unseen, FirstUnhandled
<1>4. /\ Asked' = Asked /\ Told' = Told /\ (Unique' <=> Unique)
      /\ \A f \in Fd : Busy(f)' <=> Busy(f)
  BY <1>2, <1>3 DEF Asked, Told, Unique, AtMostOne, Queued, InKernel, Answered, Busy
<1>5. \A d \in Client : /\ sent[d] > 0 => sent'[d] > 0
                        /\ conn[d] \notin {"idle", "pending"} => conn'[d] \notin {"idle", "pending"}
                        /\ conn[d] \notin {"idle", "pending"} /\ conn[d] # "open" => conn'[d] # "open"
  <2>1. CASE ClientConnect(c) \/ ClientLeave(c)
    BY <2>1 DEF ClientConnect, ClientLeave, Shapes
  <2>2. CASE ClientSend(c)
    BY <2>2 DEF ClientSend, Shapes
  <2> QED
    BY <1>1, <2>1, <2>2 DEF ClientStep
<1>6. Descriptors'
  BY <1>2, <1>4, <1>5 DEF Kept, Descriptors
<1>7. Heard'
  <2>1. \A f \in Fd : Spoke(f) => Spoke(f)'
    BY <1>2, <1>5 DEF Spoke
  <2>2. \A q \in Asked : q.fd \in Fd
    BY InUse
  <2>3. ASSUME NEW e \in Told
        PROVE  /\ e.data.event = "WRITE" => Spoke(e.data.connfd)'
               /\ e.data.event = "READ" /\ e.res > 0 => Spoke(e.data.connfd)'
               /\ e.data.event = "READ" /\ ~(e.res > 0) =>
                     (fds[e.data.connfd] \in Client => conn[fds[e.data.connfd]] # "open")'
    <3>1. e.data.connfd \in Fd
      BY InUse
    <3> QED
      BY <1>2, <1>5, <2>1, <3>1 DEF Kept, Heard, Descriptors
  <2> QED
    BY <1>4, <2>1, <2>2, <2>3 DEF Kept, Heard
<1> QED
  BY <1>4, <1>6, <1>7 DEF Kept

-----------------------------------------------------------------------------
(* The echo server: what is owed to the clients. *)

(* Steps of the server that queue nothing, or what follows a completion.   *)
LEMMA LedgerFrame ==
    ASSUME Ledger, UNCHANGED <<fds, conn, sent, taken, echo, mem, Faults>>,
           \A q \in Asked' : \/ \E p \in Asked : p.op = q.op /\ p.fd = q.fd /\ p.len = q.len
                             \/ q.op \in {"nop", "accept"}
                             \/ fds[q.fd] \in Client => Owes(fds[q.fd], ToSend(q)),
           Told' \subseteq Told
    PROVE  Ledger'
<1>1. \A c, n : Owes(c, n)' <=> Owes(c, n)
  BY DEF Owes, Alone, Genuine
<1>2. ASSUME NEW q \in Asked', q.op \in {"recv", "send"}, fds'[q.fd] \in Client
      PROVE  Owes(fds[q.fd], ToSend(q))
  BY <1>2 DEF Ledger, ToSend
<1>3. ASSUME NEW e \in Told', Subject(e) \in Fd, fds'[Subject(e)] \in Client, ~Failed(e)
      PROVE  Owes(fds[Subject(e)], Received(e))
  BY <1>3 DEF Ledger
<1>4. \A c \in Client : conn'[c] \in {"idle", "pending"} => taken'[c] = 0 /\ echo'[c] = <<>>
  BY DEF Ledger
<1> QED
  BY <1>1, <1>2, <1>3, <1>4 DEF Ledger

LEMMA EchoKeptServer ==
    ASSUME Shapes, EchoKept,
           \/ SetupFails \/ Setup \/ Submit \/ PeekBatch \/ Advance
           \/ AcceptFailed \/ Accepted \/ ReadDone \/ WriteDone
    PROVE  EchoKept'
<1>0. Kept /\ Ledger /\ Unique /\ \A f \in Fd : fds[f] \in Client => Busy(f)
  BY DEF EchoKept, Kept, Descriptors
<1>1. UNCHANGED <<fds, conn, sent, taken, echo, mem, Faults>>
  BY DEF SetupFails, Setup, Submit, PeekBatch, Advance, AcceptFailed, Accepted, ReadDone, WriteDone,
         Handled, env, net
<1>2. CASE SetupFails
  <2>1. Asked' = Asked /\ Told' = Told
    BY <1>2 DEF SetupFails, env, ring, Asked, Told, Unseen, FirstUnhandled
  <2>2. \A f \in Fd : Busy(f)' <=> Busy(f)
    BY <2>1 DEF Busy
  <2> QED
    BY <1>0, <1>1, <1>2, <2>1, <2>2, KeptStart, LedgerFrame DEF EchoKept
<1>3. CASE Setup
  <2>1. \A q \in Asked' : q.op \in {"nop", "accept"}
    BY <1>3, Started, Made, MadeNop
  <2>2. Told' = {} /\ \A f \in Fd : ~Busy(f)
    <3>1. Asked = {} /\ Told = {}
      BY <1>3 DEF Setup, Shapes, Asked, Told, Unseen, FirstUnhandled
    <3> QED
      BY <1>3, <3>1, Started DEF Busy
  <2>3. Ledger'
    BY <1>0, <1>1, <2>1, <2>2, LedgerFrame
  <2> QED
    BY <1>0, <1>1, <1>3, <2>2, <2>3, KeptStart DEF EchoKept
<1>4. CASE Submit
  <2>1. SubmitAll /\ UNCHANGED <<cq, i>> /\ pc = "submit" /\ pc' = "wait"
    BY <1>4 DEF Submit
  <2>2. /\ \A f \in Fd : Busy(f)' <=> Busy(f)
        /\ \A q \in Asked' : q \in Asked \/ \E p \in Asked : q = Resolve(p) /\ p \in Requests
        /\ Told' = Told
    BY <1>0, <2>1, SubmittedOne
  <2>3. \A q \in Asked' : \E p \in Asked : p.op = q.op /\ p.fd = q.fd /\ p.len = q.len
    BY <2>2, Resolves
  <2> QED
    BY <1>0, <1>1, <1>4, <2>2, <2>3, KeptLoop, LedgerFrame DEF EchoKept
<1>5. CASE PeekBatch \/ Advance
  <2>1. Asked' = Asked /\ Told' = Told /\ \A f \in Fd : Busy(f)' = Busy(f)
    BY <1>5, Batched, Advanced
  <2> QED
    BY <1>0, <1>1, <1>5, <2>1, KeptLoop, LedgerFrame DEF EchoKept
<1>6. CASE AcceptFailed
  <2>0. Quiet
    BY <1>6 DEF Quiet
  <2>1. /\ Asked' = Asked /\ Told' \subseteq Told
        /\ \A f \in Fd : Busy(f)' <=> Busy(f) /\ f # Subject(cq[i])
    BY <1>0, <2>0, QuietOne
  <2>2. Subject(cq[i]) \notin Fd
    <3>1. ci.event = "ACCEPT" /\ res < 0
      BY <1>6 DEF AcceptFailed, Event
    <3>2. Subject(cq[i]) = res
      BY <2>0, <3>1, Handler
    <3> QED
      BY <3>1, <3>2 DEF Fd
  <2> QED
    BY <1>0, <1>1, <2>0, <2>1, <2>2, KeptHandler, LedgerFrame DEF EchoKept
<1>7. CASE Accepted \/ ReadDone \/ WriteDone
  <2>1. /\ Told' \subseteq Told /\ Next1.fd = Subject(cq[i]) /\ Subject(cq[i]) \in Fd
        /\ Next1.op = IF ci.event = "READ" THEN "send" ELSE "recv"
        /\ ci.event = "READ" => Next1.len = res
        /\ \A q \in Asked' : q \in Asked \/ q = Next1 \/ q.op = "accept"
        /\ \A f \in Fd : Busy(f)' <=> Busy(f)
    BY <1>0, <1>7, QueueOne
  <2>2. ci = cq[i].data /\ res = cq[i].res /\ cq[i] \in Told
    BY <1>7, Handler
  <2>3. ~Failed(cq[i]) /\ ToSend(Next1) = Received(cq[i])
    <3>1. /\ ci.event = "READ" => res > 0
          /\ ci.event = "WRITE" => res >= 0 /\ res \in Int
      BY <1>7, Handler DEF Accepted, ReadDone, WriteDone, Event
    <3> QED
      BY <2>1, <2>2, <3>1 DEF Failed, ToSend, Received
  <2>4. fds[Next1.fd] \in Client => Owes(fds[Next1.fd], ToSend(Next1))
    BY <1>0, <2>1, <2>2, <2>3 DEF Ledger
  <2>5. Ledger'
    BY <1>0, <1>1, <2>1, <2>4, LedgerFrame
  <2> QED
    BY <1>0, <1>1, <1>7, <2>1, <2>5, KeptHandler DEF EchoKept
<1> QED
  BY <1>2, <1>3, <1>4, <1>5, <1>6, <1>7

LEMMA EchoKeptClose == ASSUME Shapes, EchoKept, ReadEnded PROVE EchoKept'
<1> DEFINE u == ci.connfd
<1>0. Kept /\ Ledger /\ Unique /\ \A f \in Fd : fds[f] \in Client => Busy(f)
  BY DEF EchoKept, Kept, Descriptors
<1>1. /\ UNCHANGED <<conn, sent, taken, echo, mem, Faults>>
      /\ fds' = [fds EXCEPT ![u] = Closed] /\ ci.event = "READ"
  BY DEF ReadEnded, Close, Event, Handled, net
<1>2. u \in Fd /\ Subject(cq[i]) = u
  BY <1>1, Handler
<1>3. /\ Asked' = Asked /\ Told' \subseteq Told
      /\ \A f \in Fd : Busy(f)' <=> Busy(f) /\ f # u
  BY <1>0, <1>2, QuietOne
<1>4. Kept' /\ \A f \in Fd : f # u => fds'[f] = fds[f]
  BY <1>0, KeptClose
<1> HIDE DEF u
<1>5. fds'[u] \notin Client
  BY <1>1, <1>2, RingAssumption DEF Shapes
<1>6. \A c, n : Owes(c, n)' <=> Owes(c, n)
  BY <1>1 DEF Owes, Alone, Genuine
<1>7. Ledger'
  <2>1. ASSUME NEW q \in Asked', q.op \in {"recv", "send"}, fds'[q.fd] \in Client
        PROVE  Owes(fds'[q.fd], ToSend(q))
    <3>1. q.fd \in Fd /\ q \in Asked
      BY <1>3, InUse
    <3>2. fds'[q.fd] = fds[q.fd]
      BY <1>4, <1>5, <2>1, <3>1
    <3> QED
      BY <1>0, <2>1, <3>1, <3>2 DEF Ledger
  <2>2. ASSUME NEW e \in Told', Subject(e) \in Fd, fds'[Subject(e)] \in Client, ~Failed(e)
        PROVE  Owes(fds'[Subject(e)], Received(e))
    <3>1. fds'[Subject(e)] = fds[Subject(e)]
      BY <1>4, <1>5, <2>2
    <3> QED
      BY <1>0, <1>3, <2>2, <3>1 DEF Ledger
  <2>3. \A c \in Client : conn'[c] \in {"idle", "pending"} => taken'[c] = 0 /\ echo'[c] = <<>>
    BY <1>0, <1>1 DEF Ledger
  <2> QED
    BY <1>6, <2>1, <2>2, <2>3 DEF Ledger
<1>8. \A f \in Fd : fds'[f] \in Client => Busy(f)'
  BY <1>0, <1>3, <1>4, <1>5
<1> QED
  BY <1>4, <1>7, <1>8 DEF EchoKept

LEMMA EchoKeptConnects ==
    ASSUME Shapes, EchoKept, NEW q \in DOMAIN inflight, NEW f \in Fd, NEW c \in Client,
           Connects(q, f, c), UNCHANGED <<pc, i>>
    PROVE  EchoKept'
<1> DEFINE n == [data |-> q.data, res |-> f]
<1>0. Kept /\ Ledger /\ \A g \in Fd : fds[g] \in Client => Busy(g)
  BY DEF EchoKept
<1>1. /\ conn[c] = "pending" /\ conn' = [conn EXCEPT ![c] = "open"]
      /\ UNCHANGED <<sent, taken, echo, mem, Faults>>
  BY DEF Connects, Completes
<1>2. /\ Kept' /\ fds'[f] = c /\ \A g \in Fd : fds[g] # c /\ (g # f => fds'[g] = fds[g])
      /\ \A g \in Fd : Busy(g)' <=> Busy(g) \/ g = f
      /\ \A p \in Asked' : p \in Asked /\ p.fd \in Fd /\ (p.op \in {"recv", "send"} => p.fd # f)
      /\ \A e \in Told : e.data.connfd \in Fd /\ Subject(e) # f
      /\ Told' = Told \cup {n} /\ Subject(n) = f /\ n.data.event = "ACCEPT"
  BY <1>0, KeptConnects
<1> HIDE DEF n
<1>3. \A d, m : Owes(d, m)' <=> Owes(d, m)
  BY <1>1 DEF Owes, Alone, Genuine
<1>4. Owes(c, 0)
  <2>1. taken[c] = 0 /\ echo[c] = <<>>
    BY <1>0, <1>1 DEF Ledger
  <2> QED
    BY <2>1 DEF Owes
<1>5. Received(n) = 0
  BY <1>2 DEF Received
<1>6. \A p \in Asked' : p.op \in {"recv", "send"} /\ fds'[p.fd] \in Client => Owes(fds'[p.fd], ToSend(p))
  BY <1>0, <1>2 DEF Ledger
<1>7. \A e \in Told' : Subject(e) \in Fd /\ fds'[Subject(e)] \in Client /\ ~Failed(e) =>
          Owes(fds'[Subject(e)], Received(e))
  BY <1>0, <1>2, <1>4, <1>5 DEF Ledger
<1>8. \A d \in Client : conn'[d] \in {"idle", "pending"} => taken'[d] = 0 /\ echo'[d] = <<>>
  BY <1>0, <1>1 DEF Ledger, Shapes
<1>9. Ledger'
  BY <1>3, <1>6, <1>7, <1>8 DEF Ledger
<1>10. \A g \in Fd : fds'[g] \in Client => Busy(g)'
  BY <1>0, <1>2
<1> QED
  BY <1>2, <1>9, <1>10 DEF EchoKept

LEMMA EchoKeptReceives ==
    ASSUME Shapes, EchoKept, NEW q \in DOMAIN inflight, NEW c \in Client, NEW n \in 1 .. MAXLINE,
           Receives(q, c, n), UNCHANGED <<pc, i>>
    PROVE  EchoKept'
<1> DEFINE x == [data |-> q.data, res |-> n]
<1>0. Kept /\ Ledger /\ \A g \in Fd : fds[g] \in Client => Busy(g)
  BY DEF EchoKept
<1>1. /\ UNCHANGED <<fds, conn, sent, echo, Faults>> /\ q.op = "recv"
      /\ taken' = [taken EXCEPT ![c] = @ + n] /\ n <= sent[c] - taken[c]
      /\ mem' = [mem EXCEPT !["buffer"] =
                   [y \in 1 .. MAXLINE |-> IF y <= n THEN <<c, taken[c] + y>> ELSE @[y]]]
  BY DEF Receives, Completes
<1>2. /\ Kept' /\ \A f \in Fd : Busy(f)' <=> Busy(f)
      /\ \A p \in Asked' : p \in Asked /\ p.fd \in Fd
      /\ Told' = Told \cup {x}
      /\ Subject(x) = q.fd /\ q.fd \in Fd /\ fds[q.fd] = c
      /\ \A p \in Asked' : p.op \in {"recv", "send"} => p.fd # q.fd
      /\ \A e \in Told : Subject(e) # q.fd
      /\ \A f \in Fd : fds[f] = c => f = q.fd
      /\ q \in Asked /\ q.data.event = "READ"
  BY <1>0, <1>1, KeptReceives
<1>3. Received(x) = n
  BY <1>2 DEF Received
<1> HIDE DEF x
<1>4. /\ taken[c] \in Nat /\ sent[c] \in Nat /\ taken'[c] = taken[c] + n
      /\ \A d \in Client : d # c => taken'[d] = taken[d]
      /\ sent[c] > 0
  BY <1>1 DEF Shapes
<1> DEFINE b == [z \in 1 .. MAXLINE |-> IF z <= n THEN <<c, taken[c] + z>> ELSE mem["buffer"][z]]
<1>11. mem'["buffer"] = b
  <2>1. mem' = [mem EXCEPT !["buffer"] = b]
    BY <1>1, Zenon
  <2> HIDE DEF b
  <2> QED
    BY <2>1 DEF Shapes
<1>12. \A y \in 1 .. n : b[y] = <<c, taken[c] + y>> /\ taken[c] + y \in 1 .. taken'[c]
  BY <1>4, RingAssumption
<1> DEFINE Real(z) == \E d \in Client : \E k \in 1 .. taken'[d] : z = <<d, k>>
<1>13. \A z : Genuine(z) => Real(z)
  <2>1. \A d \in Client : taken[d] \in Nat /\ taken'[d] \in Nat /\ taken[d] <= taken'[d]
    BY <1>4 DEF Shapes
  <2>2. \A d \in Client : \A k \in 1 .. taken[d] : k \in 1 .. taken'[d]
    BY <2>1
  <2> QED
    BY <2>2 DEF Genuine
<1>14. \A y \in 1 .. n : Real(b[y])
  BY <1>12
<1>15. \A y \in 1 .. MAXLINE : Genuine(mem["buffer"][y]) => Real(mem'["buffer"][y])
  <2> SUFFICES ASSUME NEW y \in 1 .. MAXLINE, Genuine(mem["buffer"][y])
               PROVE  Real(b[y])
    BY <1>11
  <2>1. CASE y <= n
    <3>1. y \in 1 .. n
      BY <2>1, RingAssumption
    <3> QED
      BY <1>14, <3>1
  <2>2. CASE ~(y <= n)
    <3>1. b[y] = mem["buffer"][y]
      BY <2>2
    <3> QED
      BY <1>13, <3>1
  <2> QED
    BY <2>1, <2>2
<1> HIDE DEF b
<1>5. ASSUME NEW d \in Client, d # c, NEW m \in 0 .. MAXLINE, Owes(d, m) PROVE Owes(d, m)'
  <2>1. \A y \in 1 .. m : y \in 1 .. MAXLINE
    BY RingAssumption
  <2>2. \A y \in 1 .. m : Real(mem'["buffer"][y])
    BY <1>5, <1>15, <2>1 DEF Owes
  <2>3. ~Alone(d)'
    BY <1>1, <1>4, <1>5 DEF Alone
  <2> QED
    BY <1>1, <1>4, <1>5, <2>2, <2>3 DEF Owes, Genuine
<1>6. Owes(c, n)'
  <2>1. Len(echo[c]) = taken[c] - 0
    BY <1>0, <1>1, <1>2 DEF Ledger, Owes, ToSend
  <2>2. \A y \in 1 .. n : mem'["buffer"][y] = <<c, taken[c] + y>>
    <3> SUFFICES ASSUME NEW y \in 1 .. n PROVE mem'["buffer"][y] = <<c, taken[c] + y>>
      OBVIOUS
    <3> QED
      BY <1>11, <1>12
  <2>3. \A y \in 1 .. n : taken'[c] - n + y = taken[c] + y
    BY <1>4
  <2>4. Len(echo'[c]) = taken'[c] - n
    BY <1>1, <1>4, <2>1
  <2>5. \A y \in 1 .. n : Real(mem'["buffer"][y])
    BY <1>11, <1>14
  <2> QED
    BY <2>2, <2>3, <2>4, <2>5 DEF Owes, Genuine
<1>7. ASSUME NEW p \in Asked', p.op \in {"recv", "send"}, fds'[p.fd] \in Client
      PROVE  Owes(fds[p.fd], ToSend(p))'
  <2>1. p \in Asked /\ fds[p.fd] # c /\ fds' = fds
    BY <1>1, <1>2, <1>7
  <2>2. ToSend(p) \in 0 .. MAXLINE
    BY <2>1, InUse, RequestFacts, RingAssumption DEF ToSend
  <2> QED
    BY <1>0, <1>5, <1>7, <2>1, <2>2 DEF Ledger
<1>8. ASSUME NEW e \in Told', Subject(e) \in Fd, fds'[Subject(e)] \in Client, ~Failed(e)
      PROVE  Owes(fds[Subject(e)], Received(e))'
  <2>1. CASE e = x
    BY <1>1, <1>2, <1>3, <1>6, <2>1
  <2>2. CASE e # x
    <3>1. e \in Told /\ fds[Subject(e)] # c /\ fds' = fds
      BY <1>1, <1>2, <1>8, <2>2
    <3>2. Received(e) \in 0 .. MAXLINE
      BY <3>1, InUse, CompletionFacts, RingAssumption DEF Received, Likely
    <3> QED
      BY <1>0, <1>5, <1>8, <3>1, <3>2 DEF Ledger
  <2> QED
    BY <2>1, <2>2
<1>9. \A d \in Client : conn'[d] \in {"idle", "pending"} => taken'[d] = 0 /\ echo'[d] = <<>>
  <2>1. conn[c] \notin {"idle", "pending"}
    BY <1>0, <1>2 DEF Kept, Descriptors
  <2> QED
    BY <1>0, <1>1, <1>4, <2>1 DEF Ledger
<1>10. Ledger'
  BY <1>7, <1>8, <1>9 DEF Ledger
<1> QED
  BY <1>0, <1>1, <1>2, <1>10 DEF EchoKept

LEMMA Joined ==
    ASSUME NEW S, NEW s \in Seq(S), NEW t \in Seq(S)
    PROVE  Len(s \o t) = Len(s) + Len(t)
OBVIOUS

LEMMA Offset ==
    ASSUME NEW a \in Nat, NEW n \in Nat, NEW k \in 1 .. a + n, ~(k <= a)
    PROVE  k - a \in 1 .. n /\ a + (k - a) = k
OBVIOUS

LEMMA EchoKeptSends ==
    ASSUME Shapes, EchoKept, echo \in [Client -> Seq(Cell)], "short_send" \notin Faults,
           NEW q \in DOMAIN inflight, NEW c \in Client, NEW n \in 1 .. MAXLINE,
           Sends(q, c, n), UNCHANGED <<pc, i>>
    PROVE  /\ EchoKept' /\ echo' \in [Client -> Seq(Cell)] /\ Owes(c, n)
           /\ \A d \in Client : d # c => echo'[d] = echo[d]
           /\ Alone(c) /\ Echoed(c) => Echoed(c)'
           /\ \A d \in Client : Owes(d, 0) => d # c
           /\ Traced => Traced'
           /\ q.data.event = "WRITE" /\ Told' = Told \cup {[data |-> q.data, res |-> n]}
<1> DEFINE x == [data |-> q.data, res |-> n]
<1>0. Kept /\ Ledger /\ \A g \in Fd : fds[g] \in Client => Busy(g)
  BY DEF EchoKept
<1>1. /\ UNCHANGED <<fds, conn, sent, taken, mem, Faults>> /\ q.op = "send" /\ q.len = n
      /\ echo' = [echo EXCEPT ![c] = @ \o SubSeq(mem["buffer"], 1, n)]
  BY DEF Sends, Completes
<1>2. /\ Kept' /\ \A f \in Fd : Busy(f)' <=> Busy(f)
      /\ \A p \in Asked' : p \in Asked /\ p.fd \in Fd
      /\ Told' = Told \cup {x}
      /\ Subject(x) = q.fd /\ q.fd \in Fd /\ fds[q.fd] = c
      /\ \A p \in Asked' : p.op \in {"recv", "send"} => p.fd # q.fd
      /\ \A e \in Told : Subject(e) # q.fd
      /\ \A f \in Fd : fds[f] = c => f = q.fd
      /\ q \in Asked /\ q.data.event = "WRITE"
  BY <1>0, <1>1, KeptReceives
<1>3. Received(x) = 0
  BY <1>2 DEF Received
<1> HIDE DEF x
<1>4. Owes(c, n) /\ taken[c] \in Nat
  BY <1>0, <1>1, <1>2 DEF Ledger, ToSend, Shapes
<1> DEFINE b == SubSeq(mem["buffer"], 1, n)
<1>5. b \in Seq(Cell) /\ Len(b) = n /\ \A y \in 1 .. n : b[y] = mem["buffer"][y]
  <2>1. mem["buffer"] \in [1 .. MAXLINE -> Cell]
    BY DEF Shapes, Buffer
  <2>2. mem["buffer"] \in Seq(Cell) /\ Len(mem["buffer"]) = MAXLINE
    BY <2>1, RingAssumption
  <2>3. n <= MAXLINE /\ n \in Nat
    BY RingAssumption
  <2> QED
    BY <2>2, <2>3
<1> HIDE DEF b
<1>6. /\ echo' \in [Client -> Seq(Cell)] /\ echo'[c] = echo[c] \o b
      /\ \A d \in Client : d # c => echo'[d] = echo[d]
  <2>1. echo' = [echo EXCEPT ![c] = echo[c] \o b]
    BY <1>1 DEF b
  <2>2. echo[c] \o b \in Seq(Cell)
    BY <1>5
  <2> QED
    BY <2>1, <2>2
<1>7. Len(echo'[c]) = taken[c] /\ Len(echo[c]) = taken[c] - n /\ Len(echo[c]) \in Nat
  <2>1. Len(echo[c]) \in Nat /\ Len(echo[c]) = taken[c] - n
    BY <1>4 DEF Owes
  <2>2. Len(echo[c] \o b) = Len(echo[c]) + n
    <3>1. echo[c] \in Seq(Cell)
      OBVIOUS
    <3> QED
      BY <1>5, <3>1, Joined
  <2> QED
    BY <1>4, <1>6, <2>1, <2>2
<1>8. ASSUME Alone(c), Echoed(c) PROVE Echoed(c)'
  <2> SUFFICES ASSUME NEW k \in DOMAIN echo'[c] PROVE echo'[c][k] = <<c, k>>
    BY DEF Echoed
  <2>1. k \in 1 .. Len(echo[c]) + n
    BY <1>5, <1>6
  <2>2. CASE k <= Len(echo[c])
    <3>1. k \in DOMAIN echo[c] /\ echo'[c][k] = echo[c][k]
      BY <1>5, <1>6, <1>7, <2>1, <2>2
    <3> QED
      BY <1>8, <3>1 DEF Echoed
  <2>3. CASE ~(k <= Len(echo[c]))
    <3>0. PICK y \in Int : y = k - Len(echo[c])
      BY <1>7, <2>1
    <3>1. y \in 1 .. n /\ taken[c] - n + y = k
      <4>1. n \in Nat
        BY RingAssumption
      <4>2. y \in 1 .. n /\ Len(echo[c]) + y = k
        BY <1>7, <2>1, <2>3, <3>0, <4>1, Offset
      <4> QED
        BY <1>7, <4>2
    <3>2. echo'[c][k] = b[y]
      BY <1>5, <1>6, <1>7, <2>1, <2>3, <3>0
    <3>3. mem["buffer"][y] = <<c, taken[c] - n + y>>
      BY <1>4, <1>8, <3>1 DEF Owes
    <3> QED
      BY <1>5, <3>1, <3>2, <3>3
  <2> QED
    BY <2>2, <2>3
<1>9. ASSUME NEW d \in Client, d # c, NEW m, Owes(d, m) PROVE Owes(d, m)'
  BY <1>1, <1>6, <1>9 DEF Owes, Alone, Genuine
<1>10. Owes(c, 0)'
  <2>1. Len(echo'[c]) = taken'[c] - 0
    BY <1>1, <1>4, <1>7
  <2> QED
    BY <2>1 DEF Owes
<1>11. ASSUME NEW p \in Asked', p.op \in {"recv", "send"}, fds'[p.fd] \in Client
       PROVE  Owes(fds[p.fd], ToSend(p))'
  <2>1. p \in Asked /\ fds[p.fd] # c /\ fds' = fds
    BY <1>1, <1>2, <1>11
  <2> QED
    BY <1>0, <1>9, <1>11, <2>1 DEF Ledger, ToSend
<1>12. ASSUME NEW e \in Told', Subject(e) \in Fd, fds'[Subject(e)] \in Client, ~Failed(e)
       PROVE  Owes(fds[Subject(e)], Received(e))'
  <2>1. CASE e = x
    BY <1>1, <1>2, <1>3, <1>10, <2>1
  <2>2. CASE e # x
    <3>1. e \in Told /\ fds[Subject(e)] # c /\ fds' = fds
      BY <1>1, <1>2, <1>12, <2>2
    <3> QED
      BY <1>0, <1>9, <1>12, <3>1 DEF Ledger
  <2> QED
    BY <2>1, <2>2
<1>13. \A d \in Client : conn'[d] \in {"idle", "pending"} => taken'[d] = 0 /\ echo'[d] = <<>>
  <2>1. conn[c] \notin {"idle", "pending"}
    BY <1>0, <1>2 DEF Kept, Descriptors
  <2> QED
    BY <1>0, <1>1, <1>6, <2>1 DEF Ledger
<1>14. Ledger'
  BY <1>11, <1>12, <1>13 DEF Ledger
<1>15. \A d \in Client : Owes(d, 0) => d # c
  BY <1>4, <1>7 DEF Owes
<1>16. ASSUME Traced PROVE Traced'
  <2>1. \A z : Genuine(z)' <=> Genuine(z)
    BY <1>1 DEF Genuine
  <2>2. ASSUME NEW k \in DOMAIN echo'[c] PROVE Genuine(echo'[c][k])
    <3>1. k \in 1 .. Len(echo[c]) + n
      BY <1>5, <1>6
    <3>2. CASE k <= Len(echo[c])
      <4>1. k \in DOMAIN echo[c] /\ echo'[c][k] = echo[c][k]
        BY <1>5, <1>6, <1>7, <3>1, <3>2
      <4> QED
        BY <1>16, <4>1 DEF Traced
    <3>3. CASE ~(k <= Len(echo[c]))
      <4>0. PICK y \in Int : y = k - Len(echo[c])
        BY <1>7, <3>1
      <4>1. n \in Nat
        BY RingAssumption
      <4>2. y \in 1 .. n
        BY <1>7, <3>1, <3>3, <4>0, <4>1, Offset
      <4>3. echo'[c][k] = b[y]
        BY <1>5, <1>6, <1>7, <3>1, <3>3, <4>0
      <4> QED
        BY <1>4, <1>5, <4>2, <4>3 DEF Owes
    <3> QED
      BY <3>2, <3>3
  <2>3. Len(echo'[c]) <= taken'[c]
    BY <1>1, <1>4, <1>7
  <2>4. ASSUME NEW d \in Client, d # c
        PROVE  Len(echo'[d]) <= taken'[d] /\ \A k \in DOMAIN echo'[d] : Genuine(echo'[d][k])
    BY <1>1, <1>6, <1>16, <2>4 DEF Traced
  <2> QED
    BY <2>1, <2>2, <2>3, <2>4 DEF Traced
<1> QED
  BY <1>0, <1>1, <1>2, <1>4, <1>6, <1>8, <1>14, <1>15, <1>16 DEF EchoKept, x

LEMMA EchoKeptAnswers ==
    ASSUME Shapes, EchoKept, NEW q \in DOMAIN inflight, NEW r \in Int, Answers(q, r), UNCHANGED <<pc, i>>
    PROVE  EchoKept'
<1> DEFINE x == [data |-> q.data, res |-> r]
<1>0. Kept /\ Ledger /\ \A g \in Fd : fds[g] \in Client => Busy(g)
  BY DEF EchoKept
<1>1. UNCHANGED <<fds, conn, sent, taken, echo, mem, Faults>>
  BY DEF Answers, Completes
<1>2. /\ Kept' /\ \A f \in Fd : Busy(f)' <=> Busy(f)
      /\ \A p \in Asked' : p \in Asked
      /\ Told' = Told \cup {x}
      /\ q.fd \in Fd /\ q \in Asked /\ q.data.connfd = q.fd /\ Proper(q)
      /\ q.op = "send" => r < 0
      /\ q.op = "recv" => r <= 0
      /\ q.op = "nop" => r = 0 /\ fds[0] = Stdin
      /\ q.op = "accept" => r < 0
      /\ q.op \in {"nop", "accept", "recv", "send"}
      /\ q.op \in {"recv", "send"} => Subject(x) = q.fd
  BY <1>0, KeptAnswers
<1>3. \A d, m : Owes(d, m)' <=> Owes(d, m)
  BY <1>1 DEF Owes, Alone, Genuine
<1>4. Subject(x) \in Fd /\ fds[Subject(x)] \in Client /\ ~Failed(x) =>
         Owes(fds[Subject(x)], Received(x))
  <2>1. CASE q.op = "recv"
    <3>1. Received(x) = 0 /\ ToSend(q) = 0
      BY <1>2, <2>1 DEF Received, ToSend
    <3> QED
      BY <1>0, <1>2, <2>1, <3>1 DEF Ledger
  <2>2. CASE q.op = "send"
    <3>1. q.data.event = "WRITE"
      BY <1>2, <2>2, RequestFacts DEF Proper, Shapes
    <3> QED
      BY <1>2, <2>2, <3>1 DEF Failed
  <2>3. CASE q.op = "nop"
    <3>1. Subject(x) = 0
      BY <1>2, <2>3 DEF Subject, Proper
    <3> QED
      BY <1>2, <2>3, <3>1, RingAssumption
  <2>4. CASE q.op = "accept"
    <3>1. Subject(x) = r
      BY <1>2, <2>4 DEF Subject, Proper
    <3> QED
      BY <1>2, <2>4, <3>1 DEF Fd
  <2> QED
    BY <1>2, <2>1, <2>2, <2>3, <2>4
<1> HIDE DEF x
<1>5. Ledger'
  BY <1>0, <1>1, <1>2, <1>3, <1>4 DEF Ledger
<1> QED
  BY <1>0, <1>1, <1>2, <1>5 DEF EchoKept

LEMMA EchoKeptClients ==
    ASSUME Shapes, EchoKept, Clients
    PROVE  EchoKept'
<1>0. Kept /\ Ledger /\ \A g \in Fd : fds[g] \in Client => Busy(g)
  BY DEF EchoKept
<1>1. PICK c \in Client : ClientStep(c)
  BY DEF Clients
<1>2. /\ UNCHANGED <<fds, taken, echo, mem, Faults>>
      /\ \A d \in Client : /\ conn'[d] \in {"idle", "pending"} => conn[d] \in {"idle", "pending"}
                           /\ sent'[d] = 0 => sent[d] = 0
  <2>1. CASE ClientConnect(c) \/ ClientLeave(c)
    BY <2>1 DEF ClientConnect, ClientLeave, Shapes
  <2>2. CASE ClientSend(c)
    BY <2>2 DEF ClientSend, Shapes
  <2> QED
    BY <1>1, <2>1, <2>2 DEF ClientStep
<1>3. \A d \in Client : Alone(d)' => Alone(d)
  BY <1>2 DEF Alone
<1>4. \A d \in Client : \A m : Owes(d, m) => Owes(d, m)'
  BY <1>2, <1>3 DEF Owes, Genuine
<1>5. /\ Kept' /\ \A f \in Fd : Busy(f)' <=> Busy(f)
      /\ Asked' = Asked /\ Told' = Told
  BY <1>0, KeptClients
<1>6. Ledger'
  BY <1>0, <1>2, <1>4, <1>5 DEF Ledger
<1> QED
  BY <1>0, <1>2, <1>5, <1>6 DEF EchoKept

(* What the server leaves alone, and what the clients may never do. *)
LEMMA ServerFrame ==
    ASSUME Shapes, Server
    PROVE  Shapes' /\ UNCHANGED <<conn, sent, taken, echo, mem, Faults>>
<1>1. UNCHANGED <<conn, sent, taken, echo, mem, Faults>>
  BY DEF Server, SetupFails, Setup, Submit, PeekBatch, Advance, AcceptFailed, Accepted, ReadEnded,
         ReadDone, WriteFailed, WriteDone, Handled, env, net
<1> QED
  BY <1>1, StartShapes, LoopShapes, HandlerShapes DEF Server

LEMMA ClientFrame ==
    ASSUME Shapes, Clients
    PROVE  /\ UNCHANGED <<fds, taken, echo, mem, Faults, sq, inflight, cq, pc, i>>
           /\ \A d \in Client : /\ conn'[d] \in {"idle", "pending"} => conn[d] \in {"idle", "pending"}
                                /\ sent'[d] = 0 => sent[d] = 0
                                /\ conn'[d] = "open" => conn[d] = "open"
                                /\ sent'[d] # sent[d] => conn[d] = "open" /\ conn'[d] = "open"
                                /\ conn'[d] = "reset" => conn[d] = "reset" \/ "reset" \in Faults
                                /\ conn'[d] = "closed" => \/ conn[d] = "closed"
                                                          \/ "early_close" \in Faults
                                                          \/ Len(echo[d]) = sent[d]
<1>1. PICK c \in Client : ClientStep(c)
  BY DEF Clients
<1>2. CASE ClientConnect(c)
  BY <1>2 DEF ClientConnect, Shapes, Clients, ring
<1>3. CASE ClientLeave(c)
  BY <1>3 DEF ClientLeave, Shapes, Clients, ring
<1>4. CASE ClientSend(c)
  BY <1>4 DEF ClientSend, Shapes, Clients, ring
<1> QED
  BY <1>1, <1>2, <1>3, <1>4 DEF ClientStep

(* The kernel changes only the echo of who is sent to. *)
LEMMA KernelFrame ==
    ASSUME Shapes, echo \in [Client -> Seq(Cell)], NEW q \in DOMAIN inflight, KernelStep(q)
    PROVE  /\ UNCHANGED <<Faults, sent>> /\ echo' \in [Client -> Seq(Cell)]
           /\ \A c \in Client : echo'[c] = echo[c] \/ (q.op = "send" /\ q.file = c)
           /\ DOMAIN inflight' \subseteq DOMAIN inflight
<1>1. \/ \E f \in Fd, c \in Client : Connects(q, f, c)
      \/ \E c \in Client, n \in 1 .. MAXLINE : Receives(q, c, n) \/ Sends(q, c, n)
      \/ \E r \in Int : Answers(q, r)
  BY KernelCases
<1>2. UNCHANGED <<Faults, sent>>
  BY <1>1 DEF Connects, Receives, Sends, Answers, Completes
<1>3. echo' \in [Client -> Seq(Cell)] /\ \A c \in Client : echo'[c] = echo[c] \/ (q.op = "send" /\ q.file = c)
  <2>1. CASE \E c \in Client, n \in 1 .. MAXLINE : Sends(q, c, n)
    <3>1. PICK c \in Client, n \in 1 .. MAXLINE : Sends(q, c, n)
      BY <2>1
    <3> DEFINE b == SubSeq(mem["buffer"], 1, n)
    <3>2. b \in Seq(Cell)
      <4>1. mem["buffer"] \in [1 .. MAXLINE -> Cell]
        BY DEF Shapes, Buffer
      <4>2. mem["buffer"] \in Seq(Cell) /\ Len(mem["buffer"]) = MAXLINE
        BY <4>1, RingAssumption
      <4>3. n <= MAXLINE /\ n \in Nat
        BY RingAssumption
      <4> QED
        BY <4>2, <4>3
    <3>3. echo' = [echo EXCEPT ![c] = echo[c] \o b] /\ q.op = "send" /\ q.file = c
      BY <3>1 DEF Sends
    <3> HIDE DEF b
    <3>4. echo[c] \o b \in Seq(Cell)
      BY <3>2
    <3> QED
      BY <3>3, <3>4
  <2>2. CASE ~\E c \in Client, n \in 1 .. MAXLINE : Sends(q, c, n)
    <3>1. echo' = echo
      BY <1>1, <2>2 DEF Connects, Receives, Answers
    <3> QED
      BY <3>1
  <2> QED
    BY <2>1, <2>2
<1>4. DOMAIN inflight' \subseteq DOMAIN inflight
  <2>1. PICK r : Post(q, r)
    BY <1>1 DEF Connects, Receives, Sends, Answers, Completes
  <2> QED
    BY <2>1 DEF Post
<1> QED
  BY <1>2, <1>3, <1>4

(* Every step but a failed send keeps the ledger. *)
LEMMA EchoKeptKernel ==
    ASSUME Shapes, EchoKept, echo \in [Client -> Seq(Cell)], "short_send" \notin Faults, Kernel
    PROVE  EchoKept'
<1>1. PICK q \in DOMAIN inflight : KernelStep(q)
  BY DEF Kernel
<1>2. UNCHANGED <<pc, i>>
  BY DEF Kernel
<1>3. CASE \E f \in Fd, c \in Client : Connects(q, f, c)
  BY <1>2, <1>3, EchoKeptConnects
<1>4. CASE \E c \in Client, n \in 1 .. MAXLINE : Receives(q, c, n)
  BY <1>2, <1>4, EchoKeptReceives
<1>5. CASE \E c \in Client, n \in 1 .. MAXLINE : Sends(q, c, n)
  BY <1>2, <1>5, EchoKeptSends
<1>6. CASE \E r \in Int : Answers(q, r)
  BY <1>2, <1>6, EchoKeptAnswers
<1> QED
  BY <1>1, <1>3, <1>4, <1>5, <1>6, KernelCases

LEMMA EchoKeptStep ==
    ASSUME Shapes, EchoKept, echo \in [Client -> Seq(Cell)], "short_send" \notin Faults,
           Next, ~WriteFailed
    PROVE  EchoKept'
BY EchoKeptServer, EchoKeptClose, EchoKeptKernel, EchoKeptClients DEF Next, Server

-----------------------------------------------------------------------------
(* A client that was let go is sent nothing any more. *)

LEMMA GoneStep ==
    ASSUME Shapes, echo \in [Client -> Seq(Cell)], Next, NEW c \in Client, Gone(c)
    PROVE  Gone(c)' /\ echo'[c] = echo[c]
<1>1. CASE Server
  <2>1. UNCHANGED <<conn, echo>>
    BY <1>1, ServerFrame
  <2>2. \A f \in Fd : fds'[f] # c
    <3>1. fds' = fds \/ fds' = [fds EXCEPT ![ci.connfd] = Closed]
      BY <1>1 DEF Server, SetupFails, Setup, Submit, PeekBatch, Advance, AcceptFailed, Accepted,
                  ReadEnded, ReadDone, WriteFailed, WriteDone, Close, env
    <3> QED
      BY <3>1, RingAssumption DEF Gone, Shapes
  <2>3. \A q \in DOMAIN inflight' : q.op = "send" => q.file # c
    <3>1. CASE Submit
      <4>1. /\ DOMAIN inflight' = DOMAIN inflight \cup {Resolve(sq[k]) : k \in DOMAIN sq}
            /\ \A k \in DOMAIN sq : sq[k] \in Requests
        BY <3>1, Submitted DEF Submit
      <4>2. \A k \in DOMAIN sq : sq[k].fd \in Fd /\ Resolve(sq[k]).file = fds[sq[k].fd]
        BY <4>1, Resolves, RequestFacts
      <4> QED
        BY <4>1, <4>2 DEF Gone
    <3>2. CASE ~Submit
      <4>1. inflight' = inflight
        BY <1>1, <3>2 DEF Server, SetupFails, Setup, PeekBatch, Advance, AcceptFailed, Accepted,
               ReadEnded, ReadDone, WriteFailed, WriteDone, Handled, env, ring
      <4> QED
        BY <4>1 DEF Gone
    <3> QED
      BY <3>1, <3>2
  <2> QED
    BY <2>1, <2>2, <2>3 DEF Gone
<1>2. CASE Kernel
  <2>1. PICK q \in DOMAIN inflight : KernelStep(q)
    BY <1>2 DEF Kernel
  <2>2. /\ echo'[c] = echo[c] /\ DOMAIN inflight' \subseteq DOMAIN inflight
    BY <2>1, KernelFrame DEF Gone
  <2>3. /\ conn'[c] = conn[c] /\ \A f \in Fd : fds'[f] # c
    <3>1. CASE \E f \in Fd, d \in Client : Connects(q, f, d)
      <4>1. PICK f \in Fd, d \in Client : Connects(q, f, d)
        BY <3>1
      <4>2. /\ d # c /\ conn' = [conn EXCEPT ![d] = "open"] /\ fds' = [fds EXCEPT ![f] = d]
        BY <4>1 DEF Connects, Gone
      <4> QED
        BY <4>2 DEF Gone, Shapes
    <3>2. CASE ~\E f \in Fd, d \in Client : Connects(q, f, d)
      <4>1. UNCHANGED <<conn, fds>>
        BY <2>1, <3>2, KernelCases DEF Receives, Sends, Answers
      <4> QED
        BY <4>1 DEF Gone
    <3> QED
      BY <3>1, <3>2
  <2> QED
    BY <2>2, <2>3 DEF Gone
<1>3. CASE Clients
  BY <1>3, ClientFrame DEF Gone
<1> QED
  BY <1>1, <1>2, <1>3 DEF Next

(* A send fails: when only c has sent anything, it is c that is let go. *)
LEMMA LetGo ==
    ASSUME Shapes, EchoKept, WriteFailed, NEW c \in Client, Alone(c)
    PROVE  Gone(c)'
<1> DEFINE f == ci.connfd
<1>1. /\ ci = cq[i].data /\ cq[i] \in Told /\ f \in Fd /\ ci.event = "WRITE"
      /\ Subject(cq[i]) = f /\ i \in Unseen
      /\ UNCHANGED <<inflight, conn>> /\ fds' = [fds EXCEPT ![f] = Closed]
  <2>1. ci.event = "WRITE" /\ fds' = [fds EXCEPT ![f] = Closed]
    BY DEF WriteFailed, Event, Close
  <2>2. i \in Unseen
    BY Handles DEF WriteFailed, Event
  <2> QED
    BY <2>1, <2>2, Handler
<1> HIDE DEF f
<1>2. fds[f] \in Client /\ sent[fds[f]] > 0
  BY <1>1 DEF EchoKept, Kept, Heard, Spoke, f
<1>3. fds[f] = c
  BY <1>2 DEF Alone
<1>4. \A g \in Fd : fds'[g] # c
  BY <1>1, <1>3, RingAssumption DEF Shapes, EchoKept, Kept, Descriptors
<1>5. conn'[c] \notin {"idle", "pending"}
  BY <1>1, <1>3 DEF EchoKept, Kept, Descriptors
<1>6. ASSUME NEW q \in DOMAIN inflight, q.op = "send", q.file = c PROVE FALSE
  <2>1. q.fd \in Fd /\ q.fd = f
    BY <1>1, <1>3, <1>6, RequestFacts DEF Shapes, EchoKept, Kept, Descriptors
  <2>2. q \in InKernel(f) /\ i \in Answered(f)
    BY <1>1, <1>6, <2>1 DEF InKernel, Answered, Target
  <2>3. AtMostOne(f)
    BY <1>1 DEF EchoKept, Kept, Descriptors, Unique
  <2> QED
    BY <2>2, <2>3 DEF AtMostOne
<1> QED
  BY <1>1, <1>4, <1>5, <1>6 DEF Gone

-----------------------------------------------------------------------------
(* Without faults no send fails. *)

LEMMA SettledServer ==
    ASSUME Shapes, Unique, Settled, Server, ~WriteFailed
    PROVE  Settled'
<1>1. UNCHANGED <<conn, echo, sent>>
  BY ServerFrame
<1>2. Told' \subseteq Told
  <2>1. CASE SetupFails
    <3>1. cq' = cq /\ Unseen' = Unseen
      BY <2>1 DEF SetupFails, env, ring, Unseen, FirstUnhandled
    <3> QED
      BY <3>1 DEF Told
  <2>2. CASE Setup
    BY <2>2, Started
  <2>3. CASE Submit
    BY <2>3, Submitted DEF Submit
  <2>4. CASE PeekBatch \/ Advance
    BY <2>4, Batched, Advanced
  <2>5. CASE AcceptFailed \/ ReadEnded
    BY <2>5, QuietOne DEF Quiet
  <2>6. CASE Accepted \/ ReadDone \/ WriteDone
    BY <2>6, QueueOne
  <2> QED
    BY <2>1, <2>2, <2>3, <2>4, <2>5, <2>6 DEF Server
<1> QED
  BY <1>1, <1>2 DEF Settled

(* A client that has closed its connection has got all it sent. *)
LEMMA NothingOwed ==
    ASSUME Shapes, Settled, NEW c \in Client, NEW n \in Nat \ {0}, Owes(c, n),
           conn[c] \notin {"idle", "pending"}
    PROVE  conn[c] = "open"
<1>1. taken[c] \in Nat /\ sent[c] \in Nat /\ taken[c] <= sent[c] /\ Len(echo[c]) = taken[c] - n
  BY DEF Shapes, Owes
<1>2. Len(echo[c]) # sent[c]
  BY <1>1
<1> QED
  BY <1>2 DEF Settled, Shapes

LEMMA SettledKernel ==
    ASSUME Shapes, EchoKept, Settled, echo \in [Client -> Seq(Cell)], Faults = {}, Kernel
    PROVE  Settled'
<1>1. PICK q \in DOMAIN inflight : KernelStep(q)
  BY DEF Kernel
<1>2. UNCHANGED <<pc, i>>
  BY DEF Kernel
<1>3. CASE \E f \in Fd, c \in Client : Connects(q, f, c)
  <2>1. PICK f \in Fd, c \in Client : Connects(q, f, c)
    BY <1>3
  <2>2. conn' = [conn EXCEPT ![c] = "open"] /\ UNCHANGED <<sent, echo>>
    BY <2>1 DEF Connects
  <2>3. Told' = Told \cup {[data |-> q.data, res |-> f]} /\ q.data.event = "ACCEPT"
    BY <1>2, <2>1, KeptConnects DEF EchoKept
  <2> QED
    BY <2>2, <2>3 DEF Settled, Shapes, Failed
<1>4. CASE \E c \in Client, n \in 1 .. MAXLINE : Receives(q, c, n)
  <2>1. PICK c \in Client, n \in 1 .. MAXLINE : Receives(q, c, n)
    BY <1>4
  <2>2. UNCHANGED <<conn, sent, echo>> /\ q.op = "recv"
    BY <2>1 DEF Receives
  <2>3. Told' = Told \cup {[data |-> q.data, res |-> n]} /\ q.data.event = "READ"
    BY <1>2, <2>1, <2>2, KeptReceives DEF EchoKept
  <2> QED
    BY <2>2, <2>3 DEF Settled, Failed
<1>5. CASE \E c \in Client, n \in 1 .. MAXLINE : Sends(q, c, n)
  <2>1. PICK c \in Client, n \in 1 .. MAXLINE : Sends(q, c, n)
    BY <1>5
  <2>2. UNCHANGED <<conn, sent>> /\ q.op = "send"
    BY <2>1 DEF Sends
  <2>3. /\ Owes(c, n) /\ \A d \in Client : d # c => echo'[d] = echo[d]
        /\ Told' = Told \cup {[data |-> q.data, res |-> n]}
    BY <1>2, <2>1, EchoKeptSends
  <2>4. n \in Nat \ {0}
    BY RingAssumption
  <2>5. conn[c] \notin {"idle", "pending"}
    <3>1. Kept
      BY DEF EchoKept
    <3>2. q.fd \in Fd /\ fds[q.fd] = c
      BY <1>2, <2>1, <3>1, KeptReceives
    <3> QED
      BY <3>1, <3>2 DEF Kept, Descriptors
  <2>6. conn[c] = "open"
    BY <2>3, <2>4, <2>5, NothingOwed
  <2> QED
    BY <2>2, <2>3, <2>4, <2>6 DEF Settled, Failed
<1>6. CASE \E r \in Int : Answers(q, r)
  <2>1. PICK r \in Int : Answers(q, r)
    BY <1>6
  <2>2. UNCHANGED <<conn, sent, echo>>
    BY <2>1 DEF Answers
  <2>3. /\ Told' = Told \cup {[data |-> q.data, res |-> r]}
        /\ q.fd \in Fd /\ q \in Asked /\ Proper(q) /\ q.op \in {"nop", "accept", "recv", "send"}
        /\ q.op = "send" => fds[q.fd] \in Client /\ conn[fds[q.fd]] # "open"
    BY <1>2, <2>1, KeptAnswers DEF EchoKept
  <2>4. q.op # "send"
    <3> SUFFICES ASSUME q.op = "send" PROVE FALSE
      OBVIOUS
    <3>1. q.len \in Nat \ {0}
      BY <2>3, RequestFacts, RingAssumption DEF Shapes, Proper
    <3>2. Owes(fds[q.fd], q.len)
      BY <2>3 DEF EchoKept, Ledger, ToSend
    <3>3. conn[fds[q.fd]] \notin {"idle", "pending"}
      BY <2>3 DEF EchoKept, Kept, Descriptors
    <3> QED
      BY <2>3, <3>1, <3>2, <3>3, NothingOwed
  <2>5. q.data.event # "WRITE"
    BY <2>3, <2>4 DEF Proper
  <2> QED
    BY <2>2, <2>3, <2>5 DEF Settled, Failed
<1> QED
  BY <1>1, <1>3, <1>4, <1>5, <1>6, KernelCases

LEMMA SettledStep ==
    ASSUME Shapes, EchoKept, Settled, echo \in [Client -> Seq(Cell)], Faults = {}, Next
    PROVE  EchoKept' /\ Settled'
<1>1. ~WriteFailed
  <2> SUFFICES ASSUME WriteFailed PROVE FALSE
    OBVIOUS
  <2>1. cq[i] \in Told /\ ci = cq[i].data /\ res = cq[i].res /\ ci.event = "WRITE" /\ res < 0
    BY Handler DEF WriteFailed, Event
  <2> QED
    BY <2>1 DEF Settled, Failed
<1>2. EchoKept'
  BY <1>1, EchoKeptStep
<1>3. Settled'
  <2>1. CASE Server
    BY <1>1, <2>1, SettledServer DEF EchoKept, Kept, Descriptors
  <2>2. CASE Kernel
    BY <2>2, SettledKernel
  <2>3. CASE Clients
    <3>1. Told' = Told
      BY <2>3, KeptClients DEF EchoKept
    <3>2. \A c \in Client : /\ conn'[c] # "reset"
                            /\ conn'[c] = "closed" => Len(echo'[c]) = sent'[c]
      BY <2>3, ClientFrame DEF Settled
    <3> QED
      BY <3>1, <3>2 DEF Settled
  <2> QED
    BY <2>1, <2>2, <2>3 DEF Next
<1> QED
  BY <1>2, <1>3

-----------------------------------------------------------------------------
(* The invariant of the echo server. *)

LEMMA EchoedStep ==
    ASSUME Shapes, EchoKept, echo \in [Client -> Seq(Cell)], Next, NEW c \in Client, Alone(c), Echoed(c)
    PROVE  (Gone(c)' \/ EchoKept') /\ Echoed(c)'
<1>1. Gone(c)' \/ EchoKept'
  BY LetGo, EchoKeptStep DEF Alone
<1>2. Echoed(c)'
  <2>1. CASE echo'[c] = echo[c]
    BY <2>1 DEF Echoed
  <2>2. CASE echo'[c] # echo[c]
    <3>1. Kernel
      BY <2>2, ServerFrame, ClientFrame DEF Next
    <3>2. PICK q \in DOMAIN inflight : KernelStep(q)
      BY <3>1 DEF Kernel
    <3>3. q.op = "send" /\ q.file = c
      BY <2>2, <3>2, KernelFrame
    <3>4. PICK n \in 1 .. MAXLINE : Sends(q, c, n)
      <4>1. \/ \E f \in Fd, d \in Client : Connects(q, f, d)
            \/ \E d \in Client, n \in 1 .. MAXLINE : Receives(q, d, n)
            \/ \E d \in Client, n \in 1 .. MAXLINE : Sends(q, d, n)
            \/ \E r \in Int : Answers(q, r)
        BY <3>2, KernelCases
      <4>2. \A d : \A n : Sends(q, d, n) => d = c
        BY <3>3 DEF Sends
      <4> QED
        BY <2>2, <4>1, <4>2 DEF Connects, Receives, Answers
    <3> QED
      BY <3>1, <3>4, EchoKeptSends DEF Alone, Kernel
  <2> QED
    BY <2>1, <2>2
<1> QED
  BY <1>1, <1>2

(* No more comes back than was received, and only bytes that clients sent. *)
LEMMA TracedStep ==
    ASSUME Shapes, EchoKept, Traced, echo \in [Client -> Seq(Cell)], Faults = {}, Next
    PROVE  Traced'
<1>1. CASE UNCHANGED <<taken, echo>>
  BY <1>1 DEF Traced, Genuine
<1>2. CASE ~UNCHANGED <<taken, echo>>
  <2>1. Kernel
    BY <1>2, ServerFrame, ClientFrame DEF Next
  <2>2. PICK q \in DOMAIN inflight : KernelStep(q)
    BY <2>1 DEF Kernel
  <2>3. \/ \E c \in Client, n \in 1 .. MAXLINE : Receives(q, c, n)
        \/ \E c \in Client, n \in 1 .. MAXLINE : Sends(q, c, n)
    BY <1>2, <2>2, KernelCases DEF Connects, Answers
  <2>4. ASSUME NEW c \in Client, NEW n \in 1 .. MAXLINE, Receives(q, c, n) PROVE Traced'
    <3>1. echo' = echo /\ taken' = [taken EXCEPT ![c] = @ + n]
      BY <2>4 DEF Receives
    <3>2. n \in Nat /\ taken \in [Client -> Nat]
      BY RingAssumption DEF Shapes
    <3>3. \A d \in Client : taken[d] \in Nat /\ taken'[d] \in Nat /\ taken[d] <= taken'[d]
      BY <3>1, <3>2
    <3>4. \A d \in Client : \A k \in 1 .. taken[d] : k \in 1 .. taken'[d]
      BY <3>3
    <3>5. \A z : Genuine(z) => Genuine(z)'
      BY <3>4 DEF Genuine
    <3>6. \A d \in Client : Len(echo[d]) <= taken'[d]
      <4> SUFFICES ASSUME NEW d \in Client PROVE Len(echo[d]) <= taken'[d]
        OBVIOUS
      <4>1. Len(echo[d]) \in Nat /\ Len(echo[d]) <= taken[d]
        BY DEF Traced
      <4> QED
        BY <3>3, <4>1
    <3> QED
      BY <3>1, <3>5, <3>6 DEF Traced
  <2>5. ASSUME NEW c \in Client, NEW n \in 1 .. MAXLINE, Sends(q, c, n) PROVE Traced'
    BY <2>1, <2>5, EchoKeptSends DEF Kernel
  <2> QED
    BY <2>3, <2>4, <2>5
<1> QED
  BY <1>1, <1>2

LEMMA EchoStep == ASSUME EchoInv, Next PROVE EchoInv'
<1>1. Shapes /\ echo \in [Client -> Seq(Cell)]
  BY DEF EchoInv
<1>2. /\ Shapes' /\ echo' \in [Client -> Seq(Cell)] /\ Faults' = Faults
      /\ \A c \in Client : Alone(c)' => Alone(c)
  <2>1. CASE Server
    BY <1>1, <2>1, ServerFrame DEF Alone
  <2>2. CASE Kernel
    <3>1. Shapes'
      BY <1>1, <2>2, KernelShapes
    <3>2. UNCHANGED <<Faults, sent>> /\ echo' \in [Client -> Seq(Cell)]
      BY <1>1, <2>2, KernelFrame DEF Kernel
    <3> QED
      BY <3>1, <3>2 DEF Alone
  <2>3. CASE Clients
    <3>1. Shapes'
      BY <1>1, <2>3, ClientShapes
    <3> QED
      BY <1>1, <2>3, <3>1, ClientFrame DEF Alone
  <2> QED
    BY <2>1, <2>2, <2>3 DEF Next
<1>3. Faults' = {} => EchoKept' /\ Settled' /\ Traced'
  BY <1>1, <1>2, SettledStep, TracedStep DEF EchoInv
<1>4. ASSUME NEW c \in Client, Alone(c)' PROVE (Gone(c)' \/ EchoKept') /\ Echoed(c)'
  <2>1. Alone(c) /\ Echoed(c) /\ (Gone(c) \/ EchoKept)
    BY <1>2, <1>4 DEF EchoInv
  <2>2. CASE Gone(c)
    BY <1>1, <2>1, <2>2, GoneStep DEF Echoed
  <2>3. CASE EchoKept
    BY <1>1, <2>1, <2>3, EchoedStep
  <2> QED
    BY <2>1, <2>2, <2>3
<1> QED
  BY <1>2, <1>3, <1>4 DEF EchoInv

(* Nothing has happened yet. *)
LEMMA Beginning ==
    ASSUME Init
    PROVE  /\ Shapes /\ Kept /\ Asked = {} /\ Told = {} /\ \A f \in Fd : fds[f] \notin Client
           /\ \A c \in Client : sent[c] = 0 /\ taken[c] = 0 /\ echo[c] = <<>> /\ conn[c] = "idle"
           /\ echo = [c \in Client |-> <<>>] /\ pc = "main"
<1>1. /\ sq = <<>> /\ inflight = [q \in {} |-> 0] /\ cq = <<>> /\ pc = "main" /\ cqecount = 0 /\ i = 1
      /\ fds = [f \in Fd |-> IF f = 0 THEN Stdin ELSE IF f = 1 THEN Listen ELSE Closed]
      /\ conn = [c \in Client |-> "idle"]
      /\ sent = [c \in Client |-> 0] /\ taken = [c \in Client |-> 0]
      /\ echo = [c \in Client |-> <<>>]
      /\ mem = [b \in {"buffer"} |-> Blank]
  BY DEF Init, EnvInit
<1>2. Blank \in Buffer
  BY DEF Blank, Buffer, Cell
<1>3. DOMAIN inflight = {} /\ inflight \in [DOMAIN inflight -> Nat \ {0}]
  BY <1>1
<1>4. /\ fds \in [Fd -> Files] /\ \A f \in Fd : fds[f] = Listen <=> f = 1
      /\ fds[0] = Stdin /\ \A f \in Fd : fds[f] \notin Client
  BY <1>1, MadeNop, RingAssumption DEF Files
<1>5. Shapes
  <2>1. sq \in Seq(Requests) /\ cq \in Seq(Completions)
    BY <1>1
  <2>2. mem \in [{"buffer"} -> Buffer]
    BY <1>1, <1>2
  <2> QED
    BY <1>1, <1>3, <1>4, <2>1, <2>2 DEF Shapes
<1>6. Unseen = {} /\ DOMAIN sq = {}
  BY <1>1 DEF Unseen, FirstUnhandled
<1>7. Asked = {} /\ Told = {}
  BY <1>3, <1>6 DEF Asked, Told
<1>8. Kept
  <2>1. Unique
    BY <1>3, <1>6 DEF Unique, AtMostOne, Queued, InKernel, Answered
  <2> QED
    BY <1>3, <1>4, <1>7, <2>1 DEF Kept, Descriptors, Heard, Busy
<1> QED
  BY <1>1, <1>4, <1>5, <1>7, <1>8

LEMMA EchoBegins == ASSUME Init PROVE EchoInv
<1>1. EchoKept /\ Settled /\ Traced
  BY Beginning DEF EchoKept, Ledger, Settled, Traced
<1>2. echo \in [Client -> Seq(Cell)]
  <2>1. <<>> \in Seq(Cell)
    OBVIOUS
  <2> QED
    BY <2>1, Beginning
<1>3. \A c \in Client : Echoed(c)
  BY Beginning DEF Echoed
<1> QED
  BY <1>1, <1>2, <1>3, Beginning DEF EchoInv

-----------------------------------------------------------------------------
(* The HTTP server. *)

LEMMA PagesFrame ==
    ASSUME Pages, UNCHANGED <<fds, conn, sent, taken, echo, mem, sending>>,
           \A q \in Asked' : q.op = "recv" =>
              \/ \E p \in Asked : p.op = "recv" /\ p.fd = q.fd
              \/ fds[q.fd] \in Client => taken[fds[q.fd]] = 0,
           Told' \subseteq Told
    PROVE  Pages'
<1>1. \A c : Silent(c)' <=> Silent(c)
  BY DEF Silent
<1>2. \A q \in Asked' : q.op = "recv" /\ fds'[q.fd] \in Client => taken'[fds'[q.fd]] = 0
  BY DEF Pages
<1>3. ASSUME NEW e \in Told', Subject(e) \in Fd, fds'[Subject(e)] \in Client
      PROVE  /\ e.data.event = "ACCEPT" => taken'[fds'[Subject(e)]] = 0
             /\ e.data.event # "ACCEPT" /\ e.res > 0 /\ Silent(fds[Subject(e)]) =>
                   mem'["buffer"][1] = <<fds'[Subject(e)], 1>>
  BY <1>3 DEF Pages
<1> QED
  BY <1>1, <1>2, <1>3 DEF Pages

LEMMA HttpKeptLoop ==
    ASSUME Shapes, HttpKept, Setup \/ Loop \/ AcceptDone, UNCHANGED sending
    PROVE  HttpKept'
<1>0. Kept /\ Pages /\ Unique /\ \A f \in Fd : fds[f] \in Client => Busy(f) \/ conn[fds[f]] # "open"
  BY DEF HttpKept, Kept, Descriptors
<1>1. UNCHANGED <<fds, conn, sent, taken, echo, mem, sending>>
  BY DEF Setup, Loop, Submit, PeekBatch, Advance, AcceptDone, AcceptFailed, Accepted, Handled, env, net
<1>2. CASE Setup
  <2>1. Asked' = {Nop(ConnInfo(0, "ACCEPT")), set_accept_event(1)} /\ Told' = {}
    BY <1>2, Started
  <2>2. \A q \in Asked' : q.op # "recv"
    BY <2>1, Made, MadeNop
  <2>3. Pages'
    BY <1>0, <1>1, <2>1, <2>2, PagesFrame
  <2>4. \A f \in Fd : ~Busy(f)
    <3>1. DOMAIN sq = {} /\ DOMAIN inflight = {} /\ Unseen = {}
      BY <1>2 DEF Setup, Shapes, Unseen, FirstUnhandled
    <3> QED
      BY <3>1 DEF Busy, Asked, Told
  <2> QED
    BY <1>0, <1>1, <1>2, <2>3, <2>4, KeptStart DEF HttpKept
<1>3. CASE Submit
  <2>1. /\ \A f \in Fd : Busy(f)' <=> Busy(f)
        /\ \A q \in Asked' : q \in Asked \/ \E p \in Asked : q = Resolve(p) /\ p \in Requests
        /\ Told' = Told
    BY <1>0, <1>3, SubmittedOne DEF Submit
  <2>2. \A q \in Asked' : \E p \in Asked : p.op = q.op /\ p.fd = q.fd
    BY <2>1, Resolves
  <2>3. Pages'
    BY <1>0, <1>1, <2>1, <2>2, PagesFrame
  <2> QED
    BY <1>0, <1>1, <1>3, <2>1, <2>3, KeptLoop DEF HttpKept
<1>4. CASE PeekBatch \/ Advance
  <2>1. /\ \A f \in Fd : Busy(f)' <=> Busy(f)
        /\ Asked' = Asked /\ Told' = Told
    BY <1>4, Batched, Advanced
  <2>2. Pages'
    BY <1>0, <1>1, <2>1, PagesFrame
  <2> QED
    BY <1>0, <1>1, <1>4, <2>1, <2>2, KeptLoop DEF HttpKept
<1>5. CASE AcceptFailed
  <2>1. /\ Asked' = Asked /\ Told' \subseteq Told
        /\ \A f \in Fd : Busy(f)' <=> Busy(f) /\ f # Subject(cq[i])
    BY <1>0, <1>5, QuietOne DEF Quiet
  <2>2. Subject(cq[i]) \notin Fd
    <3>1. Subject(cq[i]) = res /\ res \in Int /\ res < 0
      BY <1>5, Handler DEF Quiet, AcceptFailed, Event
    <3> QED
      BY <3>1 DEF Fd
  <2>3. Pages'
    BY <1>0, <1>1, <2>1, PagesFrame
  <2>4. Kept'
    BY <1>0, <1>5, KeptHandler DEF Quiet
  <2> QED
    BY <1>0, <1>1, <2>1, <2>2, <2>3, <2>4 DEF HttpKept
<1>6. CASE Accepted
  <2>1. /\ Told' \subseteq Told /\ Next1.fd = Subject(cq[i]) /\ Subject(cq[i]) \in Fd
        /\ \A q \in Asked' : q \in Asked \/ q = Next1 \/ q.op = "accept"
        /\ \A f \in Fd : Busy(f)' <=> Busy(f)
    BY <1>0, <1>6, QueueOne
  <2>2. cq[i] \in Told /\ cq[i].data.event = "ACCEPT"
    BY <1>6, Handler DEF Accepted, Event
  <2>3. fds[Next1.fd] \in Client => taken[fds[Next1.fd]] = 0
    BY <1>0, <2>1, <2>2 DEF Pages
  <2>4. Pages'
    BY <1>0, <1>1, <2>1, <2>3, PagesFrame
  <2> QED
    BY <1>0, <1>1, <1>6, <2>1, <2>4, KeptHandler DEF HttpKept
<1> QED
  BY <1>2, <1>3, <1>4, <1>5, <1>6 DEF Loop, AcceptDone

LEMMA HttpKeptNothing ==
    ASSUME Shapes, HttpKept, ReadNothing
    PROVE  HttpKept'
<1> DEFINE u == ci.connfd
<1>0. Kept /\ Pages /\ Unique /\ \A f \in Fd : fds[f] \in Client => Busy(f) \/ conn[fds[f]] # "open"
  BY DEF HttpKept, Kept, Descriptors
<1>1. UNCHANGED <<fds, conn, sent, taken, echo, mem, sending>> /\ ci.event = "READ" /\ res <= 0
  BY DEF ReadNothing, Handled, net, Event
<1>2. u \in Fd /\ Subject(cq[i]) = u /\ cq[i] \in Told /\ ci = cq[i].data /\ res = cq[i].res /\ res \in Int
  BY <1>1, Handler DEF Quiet
<1>3. /\ Asked' = Asked /\ Told' \subseteq Told
      /\ \A f \in Fd : Busy(f)' <=> Busy(f) /\ f # u
  BY <1>0, <1>2, QuietOne DEF Quiet
<1>4. Pages'
  BY <1>0, <1>1, <1>3, PagesFrame
<1>5. fds[u] \in Client => conn[fds[u]] # "open"
  BY <1>0, <1>1, <1>2 DEF Kept, Heard
<1>6. Kept'
  BY <1>0, KeptHandler DEF Quiet
<1> QED
  BY <1>0, <1>1, <1>3, <1>4, <1>5, <1>6 DEF HttpKept

(* An answer is given, and nothing else changes but the buffer's tail. *)
LEMMA RenderShapes ==
    ASSUME Shapes, render
    PROVE  Shapes' /\ mem'["buffer"][1] = mem["buffer"][1]
<1> DEFINE b == Url(mem["buffer"])
<1>1. UNCHANGED <<sq, inflight, cq, fds, conn, sent, taken, pc, cqecount, i>>
  BY DEF render, ring
<1>2. b \in Buffer /\ b[1] = mem["buffer"][1]
  <2>1. mem["buffer"] \in Buffer /\ 1 \in 1 .. MAXLINE
    BY RingAssumption DEF Shapes
  <2> QED
    BY <2>1 DEF Url, Buffer, Cell
<1>3. mem' = [mem EXCEPT !["buffer"] = b]
  BY DEF render
<1> HIDE DEF b
<1>4. mem' \in [{"buffer"} -> Buffer] /\ mem'["buffer"] = b
  BY <1>2, <1>3 DEF Shapes
<1> QED
  BY <1>1, <1>2, <1>4 DEF Shapes

LEMMA Rendered ==
    ASSUME Shapes, HttpKept, render, echo \in [Client -> Seq(Buffer)], OwnAnswer
    PROVE  /\ HttpKept' /\ echo' \in [Client -> Seq(Buffer)] /\ OwnAnswer'
           /\ Asked' = Asked
<1> DEFINE u == ci.connfd
           c == fds[u]
<1>0. Kept /\ Pages /\ Unique /\ \A f \in Fd : fds[f] \in Client => Busy(f) \/ conn[fds[f]] # "open"
  BY DEF HttpKept, Kept, Descriptors
<1>1. /\ UNCHANGED <<sq, inflight, cq, fds, conn, sent, taken, pc, i>>
      /\ Handling /\ ci.event = "READ" /\ res > 0 /\ sending = {} /\ sending' = {c}
      /\ echo' = IF conn[c] = "open" THEN [echo EXCEPT ![c] = Append(@, mem["buffer"])] ELSE echo
  BY DEF render, Event, Peer, ring
<1>2. u \in Fd /\ Subject(cq[i]) = u /\ cq[i] \in Told /\ ci = cq[i].data /\ res = cq[i].res
  <2>1. ci = cq[i].data /\ res = cq[i].res /\ cq[i] \in Told /\ cq[i] \in Completions
    BY <1>1, Handles
  <2> QED
    BY <1>1, <2>1, CompletionFacts DEF Subject
<1>3. /\ Unseen' = Unseen /\ Asked' = Asked /\ Told' = Told
      /\ \A f : (AtMostOne(f)' <=> AtMostOne(f)) /\ (Busy(f)' <=> Busy(f))
  BY <1>1 DEF Unseen, FirstUnhandled, Asked, Told, AtMostOne, Queued, InKernel, Answered, Busy
<1>4. Kept'
  BY <1>0, <1>1, <1>3 DEF Kept, Descriptors, Unique, Heard, Spoke
<1> HIDE DEF u
<1>5. c \in Client
  BY <1>0, <1>1, <1>2 DEF Kept, Heard, Spoke, u
<1>7. echo[c] = <<>> /\ (Silent(c) => mem["buffer"][1] = <<c, 1>>)
  BY <1>0, <1>1, <1>2, <1>5 DEF Pages
<1>8. mem'["buffer"][1] = mem["buffer"][1]
  BY RenderShapes
<1> HIDE DEF c
<1>9. /\ echo' \in [Client -> Seq(Buffer)]
      /\ \A d \in Client : d # c => echo'[d] = echo[d]
      /\ echo'[c] = <<>> \/ echo'[c] = <<mem["buffer"]>>
  <2>1. mem["buffer"] \in Buffer
    BY DEF Shapes
  <2>2. Append(<<>>, mem["buffer"]) \in Seq(Buffer) /\ Append(<<>>, mem["buffer"]) = <<mem["buffer"]>>
    BY <2>1
  <2> DEFINE s == Append(<<>>, mem["buffer"])
  <2>3. echo' = IF conn[c] = "open" THEN [echo EXCEPT ![c] = s] ELSE echo
    BY <1>1, <1>7
  <2> HIDE DEF s
  <2>4. s \in Seq(Buffer) /\ s = <<mem["buffer"]>>
    BY <2>2 DEF s
  <2> QED
    BY <1>5, <1>7, <2>3, <2>4
<1>10. Pages'
  <2>1. \A f \in Fd : fds'[f] \in Client /\ fds'[f] \notin sending' => echo'[fds'[f]] = <<>>
    BY <1>0, <1>1, <1>9 DEF Pages
  <2>2. \A d \in Client : conn'[d] \in {"idle", "pending"} => taken'[d] = 0 /\ echo'[d] = <<>>
    <3>1. conn[c] \notin {"idle", "pending"}
      BY <1>0, <1>2, <1>5 DEF Kept, Descriptors, c
    <3> QED
      BY <1>0, <1>1, <1>9, <3>1 DEF Pages
  <2>3. \A d : Silent(d)' <=> Silent(d)
    BY <1>1 DEF Silent
  <2>4. \A d, e \in sending' : d = e
    BY <1>1
  <2> QED
    BY <1>0, <1>1, <1>3, <1>8, <2>1, <2>2, <2>3, <2>4 DEF Pages
<1>11. \A f \in Fd : fds'[f] \in Client => Busy(f)' \/ conn'[fds'[f]] # "open"
  BY <1>0, <1>1, <1>3
<1>12. OwnAnswer'
  <2>1. ASSUME NEW d \in Client
        PROVE  /\ Len(echo'[d]) <= 1
               /\ echo'[d] # <<>> /\ (\A b \in Client \ {d} : sent'[b] = 0) => echo'[d][1][1] = <<d, 1>>
    <3>1. CASE d = c
      <4>1. CASE echo'[c] = <<>>
        BY <3>1, <4>1
      <4>2. CASE echo'[c] = <<mem["buffer"]>>
        <5>1. Len(echo'[c]) = 1 /\ echo'[c][1] = mem["buffer"]
          BY <4>2
        <5> QED
          BY <1>1, <1>7, <3>1, <5>1 DEF Silent
      <4> QED
        BY <1>9, <4>1, <4>2
    <3>2. CASE d # c
      BY <1>1, <1>9, <3>2 DEF OwnAnswer
    <3> QED
      BY <3>1, <3>2
  <2> QED
    BY <2>1 DEF OwnAnswer
<1> QED
  BY <1>3, <1>4, <1>9, <1>10, <1>11, <1>12 DEF HttpKept

(* The answer is complete and the descriptor closed: no open one belongs   *)
(* to a client that has an answer.                                         *)
LEMMA RenderEnds ==
    ASSUME Shapes, HttpKept, renderDone
    PROVE  HttpKept' /\ UNCHANGED <<echo, sent>> /\ Asked' = Asked
<1> DEFINE u == ci.connfd
           c == fds[u]
<1>0. Kept /\ Pages /\ Unique /\ \A f \in Fd : fds[f] \in Client => Busy(f) \/ conn[fds[f]] # "open"
  BY DEF HttpKept, Kept, Descriptors
<1>1. /\ UNCHANGED <<conn, sent, taken, mem, echo>>
      /\ fds' = [fds EXCEPT ![u] = Closed] /\ ci.event = "READ"
      /\ c \in sending /\ sending' = {}
  BY DEF renderDone, Close, Event, Peer, net
<1>2. u \in Fd /\ Subject(cq[i]) = u /\ cq[i] \in Told /\ ci = cq[i].data
  BY <1>1, Handler
<1>3. /\ Asked' = Asked /\ Told' \subseteq Told
      /\ \A f \in Fd : Busy(f)' <=> Busy(f) /\ f # u
  BY <1>0, <1>2, QuietOne
<1>4. Kept' /\ \A f \in Fd : f # u => fds'[f] = fds[f]
  BY <1>0, KeptClose
<1> HIDE DEF u
<1>6. \A f \in Fd : fds[f] \in Client /\ fds[f] = c => f = u
  BY <1>0, <1>2 DEF Kept, Descriptors
<1>8. fds'[u] \notin Client
  BY <1>1, <1>2, RingAssumption DEF Shapes
<1>9. \A d \in sending : d = c
  BY <1>0, <1>1 DEF Pages
<1> HIDE DEF c
<1>10. Pages'
  <2>1. ASSUME NEW f \in Fd, fds'[f] \in Client
        PROVE  f # u /\ fds'[f] = fds[f] /\ fds[f] # c /\ echo'[fds'[f]] = <<>>
    BY <1>0, <1>1, <1>4, <1>6, <1>8, <1>9, <2>1 DEF Pages
  <2>2. \A d \in Client : conn'[d] \in {"idle", "pending"} => taken'[d] = 0 /\ echo'[d] = <<>>
    BY <1>0, <1>1 DEF Pages
  <2>3. \A q \in Asked' : q.op = "recv" /\ fds'[q.fd] \in Client => taken'[fds'[q.fd]] = 0
    <3>1. \A q \in Asked : q.fd \in Fd
      BY InUse
    <3> QED
      BY <1>0, <1>1, <1>3, <2>1, <3>1 DEF Pages
  <2>4. ASSUME NEW e \in Told', Subject(e) \in Fd, fds'[Subject(e)] \in Client
        PROVE  /\ e.data.event = "ACCEPT" => taken'[fds'[Subject(e)]] = 0
               /\ e.data.event # "ACCEPT" /\ e.res > 0 /\ Silent(fds[Subject(e)])' =>
                     mem'["buffer"][1] = <<fds'[Subject(e)], 1>>
    <3>1. fds'[Subject(e)] = fds[Subject(e)] /\ e \in Told
      BY <1>3, <2>1, <2>4
    <3>2. Silent(fds[Subject(e)])' <=> Silent(fds[Subject(e)])
      BY <1>1, <3>1 DEF Silent
    <3> QED
      BY <1>0, <1>1, <2>4, <3>1, <3>2 DEF Pages
  <2> QED
    BY <1>1, <2>1, <2>2, <2>3, <2>4 DEF Pages
<1>11. \A f \in Fd : fds'[f] \in Client => Busy(f)' \/ conn'[fds'[f]] # "open"
  BY <1>0, <1>1, <1>3, <1>4, <1>8
<1> QED
  BY <1>1, <1>3, <1>4, <1>10, <1>11 DEF HttpKept

LEMMA HttpKeptConnects ==
    ASSUME Shapes, HttpKept, NEW q \in DOMAIN inflight, NEW f \in Fd, NEW c \in Client,
           Connects(q, f, c), UNCHANGED <<pc, i, sending>>
    PROVE  HttpKept'
<1> DEFINE n == [data |-> q.data, res |-> f]
<1>0. Kept /\ Pages /\ \A g \in Fd : fds[g] \in Client => Busy(g) \/ conn[fds[g]] # "open"
  BY DEF HttpKept
<1>1. /\ conn[c] = "pending" /\ conn' = [conn EXCEPT ![c] = "open"]
      /\ UNCHANGED <<sent, taken, echo, mem>>
  BY DEF Connects
<1>2. /\ Kept' /\ fds'[f] = c /\ \A g \in Fd : fds[g] # c /\ (g # f => fds'[g] = fds[g])
      /\ \A g \in Fd : Busy(g)' <=> Busy(g) \/ g = f
      /\ \A p \in Asked' : p \in Asked /\ p.fd \in Fd /\ (p.op \in {"recv", "send"} => p.fd # f)
      /\ \A e \in Told : e.data.connfd \in Fd /\ Subject(e) # f
      /\ Told' = Told \cup {n} /\ Subject(n) = f /\ n.data.event = "ACCEPT"
  BY <1>0, KeptConnects
<1> HIDE DEF n
<1>3. taken[c] = 0 /\ echo[c] = <<>> /\ \A d \in Client : d # c => conn'[d] = conn[d]
  BY <1>0, <1>1 DEF Pages, Shapes
<1>4. \A d : Silent(d)' <=> Silent(d)
  BY <1>1 DEF Silent
<1>5. \A g \in Fd : fds'[g] \in Client /\ fds'[g] \notin sending' => echo'[fds'[g]] = <<>>
  BY <1>0, <1>1, <1>2, <1>3 DEF Pages
<1>6. \A d \in Client : conn'[d] \in {"idle", "pending"} => taken'[d] = 0 /\ echo'[d] = <<>>
  BY <1>0, <1>1, <1>3 DEF Pages
<1>7. \A p \in Asked' : p.op = "recv" /\ fds'[p.fd] \in Client => taken'[fds'[p.fd]] = 0
  BY <1>0, <1>1, <1>2 DEF Pages
<1>8. ASSUME NEW e \in Told', Subject(e) \in Fd, fds'[Subject(e)] \in Client
      PROVE  /\ e.data.event = "ACCEPT" => taken'[fds'[Subject(e)]] = 0
             /\ e.data.event # "ACCEPT" /\ e.res > 0 /\ Silent(fds'[Subject(e)]) =>
                   mem'["buffer"][1] = <<fds'[Subject(e)], 1>>
  <2>1. CASE e = n
    BY <1>1, <1>2, <1>3, <2>1
  <2>2. CASE e # n
    <3>1. e \in Told /\ fds'[Subject(e)] = fds[Subject(e)]
      BY <1>2, <1>8, <2>2
    <3> QED
      BY <1>0, <1>1, <1>8, <3>1 DEF Pages
  <2> QED
    BY <2>1, <2>2
<1>9. Pages'
  BY <1>0, <1>4, <1>5, <1>6, <1>7, <1>8 DEF Pages
<1>10. \A g \in Fd : fds'[g] \in Client => Busy(g)' \/ conn'[fds'[g]] # "open"
  BY <1>0, <1>2, <1>3
<1> QED
  BY <1>2, <1>9, <1>10 DEF HttpKept

LEMMA HttpKeptReceives ==
    ASSUME Shapes, HttpKept, NEW q \in DOMAIN inflight, NEW c \in Client, NEW n \in 1 .. MAXLINE,
           Receives(q, c, n), UNCHANGED <<pc, i, sending>>
    PROVE  HttpKept'
<1> DEFINE x == [data |-> q.data, res |-> n]
<1>0. Kept /\ Pages /\ \A g \in Fd : fds[g] \in Client => Busy(g) \/ conn[fds[g]] # "open"
  BY DEF HttpKept
<1>1. /\ UNCHANGED <<fds, conn, sent, echo>> /\ q.op = "recv"
      /\ taken' = [taken EXCEPT ![c] = @ + n] /\ n <= sent[c] - taken[c]
      /\ mem' = [mem EXCEPT !["buffer"] =
                   [y \in 1 .. MAXLINE |-> IF y <= n THEN <<c, taken[c] + y>> ELSE @[y]]]
  BY DEF Receives
<1>2. /\ Kept' /\ \A f \in Fd : Busy(f)' <=> Busy(f)
      /\ \A p \in Asked' : p \in Asked /\ p.fd \in Fd
      /\ Told' = Told \cup {x}
      /\ Subject(x) = q.fd /\ q.fd \in Fd /\ fds[q.fd] = c
      /\ \A p \in Asked' : p.op \in {"recv", "send"} => p.fd # q.fd
      /\ \A e \in Told : Subject(e) # q.fd
      /\ \A f \in Fd : fds[f] = c => f = q.fd
      /\ q \in Asked /\ q.data.event = "READ"
  BY <1>0, <1>1, KeptReceives
<1>3. x.data.event = "READ"
  BY <1>2
<1> HIDE DEF x
<1>4. /\ taken[c] = 0 /\ sent[c] \in Nat /\ sent[c] > 0
      /\ \A d \in Client : d # c => taken'[d] = taken[d]
  BY <1>0, <1>1, <1>2 DEF Shapes, Pages
<1>5. mem'["buffer"][1] = <<c, 1>>
  <2> DEFINE b == [z \in 1 .. MAXLINE |-> IF z <= n THEN <<c, taken[c] + z>> ELSE mem["buffer"][z]]
  <2>1. 1 \in 1 .. MAXLINE /\ 1 <= n
    BY RingAssumption
  <2>2. b[1] = <<c, 1>>
    BY <1>4, <2>1
  <2>3. mem' = [mem EXCEPT !["buffer"] = b]
    BY <1>1, Zenon
  <2> HIDE DEF b
  <2>4. mem'["buffer"] = b
    BY <2>3 DEF Shapes
  <2> QED
    BY <2>2, <2>4
<1>6. \A d \in Client : d # c => ~Silent(d)'
  BY <1>1, <1>4 DEF Silent
<1>7. \A f \in Fd : fds'[f] \in Client /\ fds'[f] \notin sending' => echo'[fds'[f]] = <<>>
  BY <1>0, <1>1 DEF Pages
<1>8. \A d \in Client : conn'[d] \in {"idle", "pending"} => taken'[d] = 0 /\ echo'[d] = <<>>
  <2>1. conn[c] \notin {"idle", "pending"}
    BY <1>0, <1>2 DEF Kept, Descriptors
  <2> QED
    BY <1>0, <1>1, <1>4, <2>1 DEF Pages
<1>9. \A p \in Asked' : p.op = "recv" /\ fds'[p.fd] \in Client => taken'[fds'[p.fd]] = 0
  BY <1>0, <1>1, <1>2, <1>4 DEF Pages
<1>10. ASSUME NEW e \in Told', Subject(e) \in Fd, fds'[Subject(e)] \in Client
       PROVE  /\ e.data.event = "ACCEPT" => taken'[fds'[Subject(e)]] = 0
              /\ e.data.event # "ACCEPT" /\ e.res > 0 /\ Silent(fds[Subject(e)])' =>
                    mem'["buffer"][1] = <<fds'[Subject(e)], 1>>
  <2>1. CASE e = x
    BY <1>1, <1>2, <1>3, <1>5, <2>1
  <2>2. CASE e # x
    <3>1. e \in Told /\ fds' = fds /\ fds[Subject(e)] # c
      BY <1>1, <1>2, <1>10, <2>2
    <3>2. ~Silent(fds[Subject(e)])'
      BY <1>6, <1>10, <3>1
    <3> QED
      BY <1>0, <1>4, <1>10, <3>1, <3>2 DEF Pages
  <2> QED
    BY <2>1, <2>2
<1>11. Pages'
  BY <1>0, <1>7, <1>8, <1>9, <1>10 DEF Pages
<1> QED
  BY <1>0, <1>1, <1>2, <1>11 DEF HttpKept

LEMMA HttpKeptAnswers ==
    ASSUME Shapes, HttpKept, NEW q \in DOMAIN inflight, q.op # "send", NEW r \in Int, Answers(q, r),
           UNCHANGED <<pc, i, sending>>
    PROVE  HttpKept'
<1> DEFINE x == [data |-> q.data, res |-> r]
<1>0. Kept /\ Pages /\ \A g \in Fd : fds[g] \in Client => Busy(g) \/ conn[fds[g]] # "open"
  BY DEF HttpKept
<1>1. UNCHANGED <<fds, conn, sent, taken, echo, mem>>
  BY DEF Answers
<1>2. /\ Kept' /\ \A f \in Fd : Busy(f)' <=> Busy(f)
      /\ \A p \in Asked' : p \in Asked
      /\ Told' = Told \cup {x}
      /\ q \in Asked /\ Proper(q)
      /\ q.op = "recv" => r <= 0
      /\ q.op = "nop" => r = 0 /\ fds[0] = Stdin
      /\ q.op = "accept" => r < 0
      /\ q.op \in {"nop", "accept", "recv", "send"}
  BY <1>0, KeptAnswers
<1>3. \A d : Silent(d)' <=> Silent(d)
  BY <1>1 DEF Silent
<1>4. Subject(x) \in Fd /\ fds[Subject(x)] \in Client => x.data.event # "ACCEPT" /\ ~(x.res > 0)
  <2>1. CASE q.op = "recv"
    BY <1>2, <2>1 DEF Proper
  <2>2. CASE q.op = "nop"
    <3>1. Subject(x) = 0
      BY <1>2, <2>2 DEF Subject, Proper
    <3> QED
      BY <1>2, <2>2, <3>1, RingAssumption
  <2>3. CASE q.op = "accept"
    <3>1. Subject(x) = r
      BY <1>2, <2>3 DEF Subject, Proper
    <3> QED
      BY <1>2, <2>3, <3>1 DEF Fd
  <2> QED
    BY <1>2, <2>1, <2>2, <2>3
<1> HIDE DEF x
<1>5. ASSUME NEW e \in Told', Subject(e) \in Fd, fds'[Subject(e)] \in Client
      PROVE  /\ e.data.event = "ACCEPT" => taken'[fds'[Subject(e)]] = 0
             /\ e.data.event # "ACCEPT" /\ e.res > 0 /\ Silent(fds[Subject(e)]) =>
                   mem'["buffer"][1] = <<fds'[Subject(e)], 1>>
  <2>1. CASE e = x
    BY <1>1, <1>4, <1>5, <2>1
  <2>2. CASE e # x
    BY <1>0, <1>1, <1>2, <1>5, <2>2 DEF Pages
  <2> QED
    BY <2>1, <2>2
<1>6. Pages'
  BY <1>0, <1>1, <1>2, <1>3, <1>5 DEF Pages
<1> QED
  BY <1>0, <1>1, <1>2, <1>6 DEF HttpKept

LEMMA HttpKeptClients ==
    ASSUME Shapes, HttpKept, Clients, UNCHANGED sending
    PROVE  HttpKept'
<1>0. Kept /\ Pages /\ \A g \in Fd : fds[g] \in Client => Busy(g) \/ conn[fds[g]] # "open"
  BY DEF HttpKept
<1>1. /\ Kept' /\ \A f \in Fd : Busy(f)' <=> Busy(f)
      /\ Asked' = Asked /\ Told' = Told
  BY <1>0, KeptClients
<1>2. /\ UNCHANGED <<fds, taken, echo, mem>>
      /\ \A d \in Client : /\ conn'[d] \in {"idle", "pending"} => conn[d] \in {"idle", "pending"}
                           /\ sent'[d] = 0 => sent[d] = 0
                           /\ conn'[d] = "open" => conn[d] = "open"
  BY ClientFrame
<1>3. \A d \in Client : Silent(d)' => Silent(d)
  BY <1>2 DEF Silent
<1>4. Pages'
  BY <1>0, <1>1, <1>2, <1>3 DEF Pages
<1> QED
  BY <1>0, <1>1, <1>2, <1>4 DEF HttpKept

LEMMA HttpKeptKernel ==
    ASSUME Shapes, NEW q \in DOMAIN inflight, q.op # "send", KernelStep(q),
           UNCHANGED <<pc, i, sending>>
    PROVE  /\ UNCHANGED <<echo, sent>> /\ Asked' \subseteq Asked
           /\ HttpKept => HttpKept'
<1>1. \/ \E f \in Fd, c \in Client : Connects(q, f, c)
      \/ \E c \in Client, n \in 1 .. MAXLINE : Receives(q, c, n)
      \/ \E r \in Int : Answers(q, r)
  <2>1. \A c, n : ~Sends(q, c, n)
    BY DEF Sends
  <2> QED
    BY <2>1, KernelCases
<1>2. UNCHANGED <<echo, sent>>
  BY <1>1 DEF Connects, Receives, Answers
<1>3. PICK r \in Int : Post(q, r) /\ Likely([data |-> q.data, res |-> r])
  BY <1>1 DEF Connects, Receives, Answers, Completes
<1>4. Asked' \subseteq Asked
  BY <1>3, Posted
<1>5. ASSUME HttpKept PROVE HttpKept'
  BY <1>1, <1>5, HttpKeptConnects, HttpKeptReceives, HttpKeptAnswers
<1> QED
  BY <1>2, <1>4, <1>5

LEMMA HttpStep == ASSUME HttpInv, HttpNext PROVE HttpInv'
<1>1. Shapes /\ echo \in [Client -> Seq(Buffer)] /\ (\A q \in Asked : q.op # "send") /\ OwnAnswer
  BY DEF HttpInv
<1>2. CASE SetupFails \/ renderKilled
  <2>1. UNCHANGED <<sq, inflight, echo, sent>> /\ pc' = "exit"
    BY <1>2 DEF SetupFails, renderKilled, env, ring, net
  <2>2. Shapes'
    <3>1. CASE SetupFails
      BY <1>1, <3>1, StartShapes
    <3>2. CASE renderKilled
      BY <1>1, <3>2 DEF renderKilled, Shapes, env, ring, net
    <3> QED
      BY <1>2, <3>1, <3>2
  <2>3. Asked' = Asked /\ OwnAnswer'
    BY <1>1, <2>1 DEF Asked, OwnAnswer
  <2> QED
    BY <1>1, <2>1, <2>2, <2>3 DEF HttpInv
<1>3. CASE (Setup \/ Loop \/ AcceptDone \/ ReadNothing) /\ UNCHANGED sending
  <2>1. pc # "exit"
    BY <1>3 DEF Setup, Loop, Submit, PeekBatch, Advance, AcceptDone, AcceptFailed, Accepted,
                ReadNothing, Event, Handling
  <2>2. HttpKept /\ Unique
    BY <2>1 DEF HttpInv, HttpKept, Kept, Descriptors
  <2>3. Shapes'
    BY <1>1, <1>3, StartShapes, LoopShapes, HandlerShapes DEF Loop, AcceptDone
  <2>4. HttpKept'
    BY <1>1, <1>3, <2>2, HttpKeptLoop, HttpKeptNothing
  <2>5. UNCHANGED <<echo, sent>>
    BY <1>3 DEF Setup, Loop, Submit, PeekBatch, Advance, AcceptDone, AcceptFailed, Accepted,
                ReadNothing, Handled, env, net
  <2>6. OwnAnswer'
    BY <1>1, <2>5 DEF OwnAnswer
  <2>7. \A q \in Asked' : q.op # "send"
    <3>1. CASE Setup
      BY <1>1, <3>1, Started, Made, MadeNop
    <3>2. CASE Submit
      <4>1. \A q \in Asked' : q \in Asked \/ \E p \in Asked : q = Resolve(p) /\ p \in Requests
        BY <1>1, <2>2, <3>2, SubmittedOne DEF Submit
      <4> QED
        BY <1>1, <4>1, Resolves
    <3>3. CASE PeekBatch \/ Advance
      BY <1>1, <3>3, Batched, Advanced
    <3>4. CASE AcceptFailed \/ ReadNothing
      BY <1>1, <2>2, <3>4, QuietOne DEF Quiet
    <3>5. CASE Accepted
      <4>1. /\ Next1.op = IF ci.event = "READ" THEN "send" ELSE "recv"
            /\ \A q \in Asked' : q \in Asked \/ q = Next1 \/ q.op = "accept"
        BY <1>1, <2>2, <3>5, QueueOne
      <4>2. ci.event = "ACCEPT"
        BY <3>5 DEF Accepted, Event
      <4> QED
        BY <1>1, <4>1, <4>2
    <3> QED
      BY <1>3, <3>1, <3>2, <3>3, <3>4, <3>5 DEF Loop, AcceptDone
  <2> QED
    BY <1>1, <2>3, <2>4, <2>5, <2>6, <2>7 DEF HttpInv
<1>4. CASE render
  <2>1. HttpKept
    BY <1>4 DEF HttpInv, render, Event, Handling
  <2>2. Shapes'
    BY <1>1, <1>4, RenderShapes
  <2> QED
    BY <1>1, <1>4, <2>1, <2>2, Rendered DEF HttpInv
<1>7. CASE renderDone
  <2>1. HttpKept
    BY <1>7 DEF HttpInv, renderDone, Event, Handling
  <2>2. Shapes'
    BY <1>1, <1>7, HandlerShapes
  <2>3. HttpKept' /\ UNCHANGED <<echo, sent>> /\ Asked' = Asked
    BY <1>1, <1>7, <2>1, RenderEnds
  <2>4. OwnAnswer'
    BY <1>1, <2>3 DEF OwnAnswer
  <2> QED
    BY <1>1, <2>2, <2>3, <2>4 DEF HttpInv
<1>5. CASE Kernel /\ UNCHANGED sending
  <2>1. PICK q \in DOMAIN inflight : KernelStep(q)
    BY <1>5 DEF Kernel
  <2>2. UNCHANGED <<pc, i, sending>> /\ q.op # "send"
    BY <1>1, <1>5 DEF Kernel, Asked
  <2>3. /\ UNCHANGED <<echo, sent>> /\ Asked' \subseteq Asked
        /\ HttpKept => HttpKept'
    BY <1>1, <2>1, <2>2, HttpKeptKernel
  <2>4. Shapes'
    BY <1>1, <1>5, KernelShapes
  <2>5. OwnAnswer'
    BY <1>1, <2>3 DEF OwnAnswer
  <2> QED
    BY <1>1, <2>2, <2>3, <2>4, <2>5 DEF HttpInv
<1>6. CASE Clients /\ UNCHANGED sending
  <2>1. HttpKept /\ UNCHANGED <<sq, inflight, echo>> /\ \A d \in Client : sent'[d] = 0 => sent[d] = 0
    BY <1>1, <1>6, ClientFrame DEF HttpInv, Clients
  <2>2. HttpKept' /\ Shapes'
    BY <1>1, <1>6, <2>1, HttpKeptClients, ClientShapes
  <2>3. Asked' = Asked
    BY <2>1 DEF Asked
  <2>4. OwnAnswer'
    BY <1>1, <2>1 DEF OwnAnswer
  <2> QED
    BY <1>1, <2>1, <2>2, <2>3, <2>4 DEF HttpInv
<1> QED
  BY <1>2, <1>3, <1>4, <1>5, <1>6, <1>7 DEF HttpNext, HttpServer, StartUp, Loop, AcceptDone, ReadNothing

LEMMA HttpBegins == ASSUME HttpInit PROVE HttpInv
<1>0. Init /\ sending = {}
  BY DEF HttpInit
<1>1. HttpKept
  BY <1>0, Beginning DEF HttpKept, Pages
<1>2. echo \in [Client -> Seq(Buffer)]
  <2>1. <<>> \in Seq(Buffer)
    OBVIOUS
  <2> QED
    BY <1>0, <2>1, Beginning
<1>3. OwnAnswer
  BY <1>0, Beginning DEF OwnAnswer
<1> QED
  BY <1>0, <1>1, <1>2, <1>3, Beginning DEF HttpInv

-----------------------------------------------------------------------------
(* What OnDescriptor counts is what makes a descriptor busy. *)

LEMMA CountOne ==
    ASSUME Shapes, Kept, NEW f \in Fd, fds[f] # Stdin
    PROVE  OnDescriptor(f) = IF Busy(f) THEN 1 ELSE 0
<1> DEFINE D(d) == d.connfd = f /\ d.event # "ACCEPT"
           S1 == {k \in DOMAIN sq : D(sq[k].data)}
           S2 == UNION {{q} \X (1 .. inflight[q]) : q \in {q \in DOMAIN inflight : D(q.data)}}
           S3 == {k \in DOMAIN Unhandled :
                    \/ D(Unhandled[k].data)
                    \/ Unhandled[k].data = ConnInfo(1, "ACCEPT") /\ Unhandled[k].res = f}
<1>1. OnDescriptor(f) = Cardinality(S1) + Cardinality(S2) + Cardinality(S3)
  BY DEF OnDescriptor
<1>2. AtMostOne(f)
  BY DEF Kept, Descriptors, Unique
<1>3. Busy(f) <=> Queued(f) # {} \/ InKernel(f) # {} \/ Answered(f) # {}
  BY DEF Busy, Asked, Told, Queued, InKernel, Answered
<1>4. \A q \in Asked : D(q.data) <=> Target(q) = f
  <2> SUFFICES ASSUME NEW q \in Asked PROVE D(q.data) <=> Target(q) = f
    OBVIOUS
  <2>1. /\ q \in Requests /\ q.data.connfd = q.fd /\ q.op \in {"nop", "accept", "recv", "send"}
        /\ q.data.event \in {"ACCEPT", "READ", "WRITE"} /\ Proper(q)
    BY InUse, RequestFacts
  <2>2. q.op = "nop" => f # 0
    BY DEF Kept, Descriptors
  <2>3. f # -1
    BY RingAssumption DEF Fd
  <2> QED
    BY <2>1, <2>2, <2>3 DEF Target, Proper
<1>5. \A e \in Told : Subject(e) = f <=> D(e.data) \/ (e.data = ConnInfo(1, "ACCEPT") /\ e.res = f)
  <2> SUFFICES ASSUME NEW e \in Told
               PROVE  Subject(e) = f <=> D(e.data) \/ (e.data = ConnInfo(1, "ACCEPT") /\ e.res = f)
    OBVIOUS
  <2>1. /\ e \in Completions /\ e.data \in Data /\ e.res \in Int /\ Likely(e)
        /\ e.data.event \in {"ACCEPT", "READ", "WRITE"}
    BY InUse, CompletionFacts
  <2>2. e.data = ConnInfo(0, "ACCEPT") => e.res < 0 \/ fds[0] = Stdin
    BY <2>1 DEF Kept, Descriptors
  <2>3. e.data.event = "ACCEPT" /\ e.res = f => e.data = ConnInfo(1, "ACCEPT")
    <3> SUFFICES ASSUME e.data.event = "ACCEPT", e.res = f PROVE e.data = ConnInfo(1, "ACCEPT")
      OBVIOUS
    <3>1. ~(e.res < 0) /\ (e.data.connfd = 1 \/ (e.data.connfd = 0 /\ e.res = 0))
      BY <2>1, RingAssumption DEF Likely, Fd
    <3>2. e.data = ConnInfo(e.data.connfd, "ACCEPT")
      BY <2>1 DEF Data, ConnInfo
    <3> QED
      BY <2>2, <3>1, <3>2
  <2>4. ConnInfo(1, "ACCEPT").event = "ACCEPT"
    BY DEF ConnInfo
  <2> QED
    BY <2>3, <2>4 DEF Subject
<1> HIDE DEF D
<1>6. S1 = Queued(f)
  BY <1>4 DEF Queued, Asked
<1>7. {q \in DOMAIN inflight : D(q.data)} = InKernel(f)
  BY <1>4 DEF InKernel, Asked
<1>8. /\ InKernel(f) = {} => S2 = {}
      /\ InKernel(f) # {} => \E q : S2 = {<<q, 1>>}
  <2>1. CASE InKernel(f) = {}
    BY <1>7, <2>1
  <2>2. CASE InKernel(f) # {}
    <3>1. PICK q : InKernel(f) = {q} /\ inflight[q] = 1
      BY <1>2, <2>2 DEF AtMostOne
    <3>2. S2 = {q} \X (1 .. 1)
      BY <1>7, <3>1
    <3>3. 1 .. 1 = {1}
      OBVIOUS
    <3>4. S2 = {<<q, 1>>}
      BY <3>2, <3>3
    <3> QED
      BY <2>2, <3>4
  <2> QED
    BY <2>1, <2>2
<1> HIDE DEF S1, S2
<1> DEFINE m == FirstUnhandled - 1
<1>9. FirstUnhandled \in Nat \ {0} /\ FirstUnhandled <= Len(cq) + 1 /\ cq \in Seq(Completions) /\ Len(cq) \in Nat
  BY DEF FirstUnhandled, Shapes
<1>10. /\ DOMAIN Unhandled = 1 .. Len(cq) - m
       /\ \A k \in 1 .. Len(cq) - m : Unhandled[k] = cq[k + m]
  <2>1. Unhandled = SubSeq(cq, FirstUnhandled, Len(cq))
    BY DEF Unhandled
  <2> QED
    BY <1>9, <2>1
<1>11. \A k \in DOMAIN Unhandled : k \in Int /\ k + m \in Unseen /\ Unhandled[k] = cq[k + m]
  BY <1>9, <1>10 DEF Unseen
<1>12. \A k \in Unseen : k \in Int /\ k - m \in DOMAIN Unhandled /\ (k - m) + m = k
  BY <1>9, <1>10 DEF Unseen
<1>13. \A k \in DOMAIN Unhandled : k \in S3 <=> k + m \in Answered(f)
  BY <1>5, <1>11 DEF Told, Answered
<1>14. m \in Int /\ S3 \subseteq DOMAIN Unhandled
  BY <1>9
<1> HIDE DEF S3, m
<1>15. /\ Answered(f) = {} => S3 = {}
       /\ Answered(f) # {} => \E k : S3 = {k}
  <2>1. CASE Answered(f) = {}
    BY <1>13, <1>14, <2>1
  <2>2. CASE Answered(f) # {}
    <3>1. PICK a \in Unseen : Answered(f) = {a}
      BY <1>2, <2>2 DEF AtMostOne, Answered
    <3>2. a - m \in S3
      BY <1>12, <1>13, <3>1
    <3>3. \A k \in S3 : k = a - m
      <4> SUFFICES ASSUME NEW k \in S3 PROVE k = a - m
        OBVIOUS
      <4>1. k \in Int /\ k + m = a /\ a \in Int
        BY <1>11, <1>12, <1>13, <1>14, <3>1
      <4> QED
        BY <1>14, <4>1
    <3>4. S3 = {a - m}
      BY <3>2, <3>3
    <3> QED
      BY <2>2, <3>4
  <2> QED
    BY <2>1, <2>2
<1>16. Cardinality({}) = 0 /\ \A x : Cardinality({x}) = 1
  BY FS_EmptySet, FS_Singleton
<1>17. /\ Queued(f) = {} => S1 = {}
       /\ Queued(f) # {} => \E k : S1 = {k}
  <2>1. ASSUME NEW k \in Queued(f) PROVE Queued(f) = {k}
    BY <1>2 DEF AtMostOne
  <2> QED
    BY <1>6, <2>1
<1>18. /\ Cardinality(S1) = IF Queued(f) = {} THEN 0 ELSE 1
       /\ Cardinality(S2) = IF InKernel(f) = {} THEN 0 ELSE 1
       /\ Cardinality(S3) = IF Answered(f) = {} THEN 0 ELSE 1
  BY <1>8, <1>15, <1>16, <1>17, Zenon
<1> QED
  BY <1>1, <1>2, <1>3, <1>18 DEF AtMostOne

(* A descriptor that is not open is not busy. *)
LEMMA ClosedIdle ==
    ASSUME Shapes, Kept, NEW f \in Fd
    PROVE  /\ fds[f] = Closed => OnDescriptor(f) = 0
           /\ fds[f] \in Client => OnDescriptor(f) = IF Busy(f) THEN 1 ELSE 0
<1>1. fds[f] = Closed => ~Busy(f) /\ fds[f] # Stdin
  BY RingAssumption DEF Kept, Descriptors
<1>2. fds[f] \in Client => fds[f] # Stdin
  BY RingAssumption
<1> QED
  BY <1>1, <1>2, CountOne

(* The invariant holds at the start, and every step keeps it. *)
LEMMA OneBufferInductive ==
    /\ MCInit => OneBufferInv
    /\ OneBufferInv /\ [MCNext]_all => OneBufferInv'
<1>1. MCInit => OneBufferInv
  BY EchoBegins, HttpBegins DEF MCInit, HttpInit, OneBufferInv
<1>2. ASSUME OneBufferInv, Echo(Next) PROVE OneBufferInv'
  BY <1>2, EchoStep DEF Echo, OneBufferInv
<1>3. ASSUME OneBufferInv, Http(HttpNext) PROVE OneBufferInv'
  <2>1. which = "http" /\ which' = which /\ HttpNext
    BY <1>3 DEF Http
  <2>2. HttpInv
    BY <1>3, <2>1 DEF OneBufferInv
  <2> QED
    BY <2>1, <2>2, HttpStep DEF OneBufferInv
<1>4. ASSUME OneBufferInv, UNCHANGED all PROVE OneBufferInv'
  <2>1. UNCHANGED <<Faults, sq, inflight, cq, fds, conn, sent, taken, echo, mem, pc, cqecount, i,
                   sending, which>>
    BY <1>4 DEF all, http, vars, env, ring, net
  <2>2. /\ Unseen' = Unseen /\ Asked' = Asked /\ Told' = Told
        /\ \A f : (AtMostOne(f)' <=> AtMostOne(f)) /\ (Busy(f)' <=> Busy(f))
    BY <2>1 DEF Unseen, FirstUnhandled, Asked, Told, AtMostOne, Queued, InKernel, Answered, Busy
  <2>3. Shapes' <=> Shapes
    BY <2>1 DEF Shapes
  <2>4. Kept' <=> Kept
    BY <2>1, <2>2 DEF Kept, Descriptors, Unique, Heard, Spoke
  <2>5. /\ \A c : Alone(c)' <=> Alone(c)
        /\ \A c : Gone(c)' <=> Gone(c)
        /\ \A c : Echoed(c)' <=> Echoed(c)
        /\ \A c, n : Owes(c, n)' <=> Owes(c, n)
        /\ Settled' <=> Settled
        /\ Traced' <=> Traced
    BY <2>1, <2>2 DEF Alone, Gone, Echoed, Owes, Settled, Traced, Genuine
  <2>6. EchoKept' <=> EchoKept
    BY <2>1, <2>2, <2>4, <2>5 DEF EchoKept, Ledger
  <2>7. HttpKept' <=> HttpKept
    BY <2>1, <2>2, <2>4 DEF HttpKept, Pages, Silent
  <2>8. OwnAnswer' <=> OwnAnswer
    BY <2>1 DEF OwnAnswer
  <2>9. EchoInv' <=> EchoInv
    BY <2>1, <2>3, <2>5, <2>6 DEF EchoInv
  <2>10. HttpInv' <=> HttpInv
    BY <2>1, <2>2, <2>3, <2>7, <2>8 DEF HttpInv
  <2> QED
    BY <1>4, <2>1, <2>9, <2>10 DEF OneBufferInv
<1> QED
  BY <1>1, <1>2, <1>3, <1>4 DEF MCNext

LEMMA OneBufferHolds == MCSpec => []OneBufferInv
BY OneBufferInductive, PTL DEF MCSpec

-----------------------------------------------------------------------------
(* Whatever the clients do, the echo server has exactly one request going  *)
(* for each connection while nothing fails, the HTTP server until the      *)
(* client has gone, and neither has one on a descriptor it has closed: the *)
(* number and event in the user data always name one connection, though    *)
(* close and accept give the numbers out again.                            *)
THEOREM OneRequestHolds == MCSpec => []OneRequest
<1>1. OneBufferInv => OneRequest
  <2>1. ASSUME EchoInv PROVE OneRequestEach
    <3> SUFFICES ASSUME Faults = {}, NEW f \in Fd
                 PROVE  /\ fds[f] \in Client => OnDescriptor(f) = 1
                        /\ fds[f] = Closed => OnDescriptor(f) = 0
      BY DEF OneRequestEach
    <3>1. Shapes /\ Kept /\ (fds[f] \in Client => Busy(f))
      BY <2>1 DEF EchoInv, EchoKept
    <3> QED
      BY <3>1, ClosedIdle
  <2>2. ASSUME HttpInv PROVE HttpOneRequest
    <3> SUFFICES ASSUME pc # "exit", NEW f \in Fd
                 PROVE  /\ fds[f] \in Client => \/ OnDescriptor(f) = 1
                                                \/ OnDescriptor(f) = 0 /\ conn[fds[f]] # "open"
                        /\ fds[f] = Closed => OnDescriptor(f) = 0
      BY DEF HttpOneRequest
    <3>1. Shapes /\ Kept /\ (fds[f] \in Client => Busy(f) \/ conn[fds[f]] # "open")
      BY <2>2 DEF HttpInv, HttpKept
    <3> QED
      BY <3>1, ClosedIdle
  <2> QED
    BY <2>1, <2>2 DEF OneBufferInv, OneRequest
<1> QED
  BY <1>1, OneBufferHolds, PTL

(* When nobody else sends anything, a client of the echo server gets back  *)
(* its own bytes in their order, none missing, unless a send was cut       *)
(* short, and a client of the HTTP server at most one answer, made from    *)
(* its own request: one buffer for all is enough for one that talks.  When *)
(* several talk to the echo server and nothing fails, what a client gets   *)
(* is never more than was received from it and only bytes clients sent,    *)
(* though they may be the bytes of another client.                         *)
THEOREM OwnBytesHolds == MCSpec => []OwnBytes
<1>1. OneBufferInv => OwnBytes
  BY DEF OneBufferInv, EchoInv, HttpInv, OwnBytes, EchoIntegrity, Alone, Echoed, Traced
<1> QED
  BY <1>1, OneBufferHolds, PTL
=============================================================================
