-------------------------- MODULE OtherCopiesProofs --------------------------
(***************************************************************************)
(* Proofs about the copy programs besides file_uring2: the two that copy   *)
(* in batches, for every file, block and ring size and every environment,  *)
(* file_uring when nothing fails, and the two plain copies.                *)
(***************************************************************************)
EXTENDS MCOtherCopies, FiniteSetTheorems, TLAPS

(* The inductive invariant of the batch programs, in parts. *)

Requests    == [op : {"read", "write"}, data : Pos, len : Nat]
Completions == [data : Pos, res : Int]

BatchTypes ==
    /\ setting \in Settings
    /\ pc \in {"main", "fill", "read_recv", "write_recv", "done"}
    /\ insize \in Int /\ offset \in Nat /\ reads \in Nat /\ writes \in Nat /\ i \in Nat
    /\ live \subseteq Pos /\ got \in [Pos -> Nat] /\ dest \in [Pos -> Int]
    /\ sq \subseteq Requests /\ inflight \subseteq Requests
    /\ cq \in Seq(Completions)

(* Where the blocks are: below offset, from which on nothing is queued. *)
Place == /\ offset <= N /\ \A p \in live : p < offset
         /\ pc # "done" => insize = N - offset
         /\ pc = "main" => offset = 0

BatchRequests == sq \cup inflight

(* Every live block is in exactly one request or one completion. *)
Owned ==
    /\ sq \cap inflight = {}
    /\ \A q, r \in BatchRequests : q.data = r.data => q = r
    /\ \A q \in BatchRequests : q.data \in live /\ \A k \in DOMAIN cq : cq[k].data # q.data
    /\ \A k \in DOMAIN cq : cq[k].data \in live
    /\ \A k, l \in DOMAIN cq : cq[k].data = cq[l].data => k = l
    /\ \A p \in live : \/ \E q \in BatchRequests : q.data = p
                       \/ \E k \in DOMAIN cq : cq[k].data = p

-----------------------------------------------------------------------------
(* The steps, by what they do to the blocks. *)

LEMMA Environment ==
    ASSUME BatchTypes
    PROVE  /\ Variant \in {"single", "multi"} /\ DEPTH \in Nat \ {0} /\ N \in Nat
           /\ BUF_SIZE \in Nat \ {0}
  BY ConstantsAssumption DEF BatchTypes, Variant, DEPTH

(* Most steps leave the blocks alone. *)
Quiet == UNCHANGED <<setting, offset, live, got, sq, inflight, cq, dest>>

QuietStep == \/ MainFail \/ MainStart \/ NullDeref \/ SubmitWritesFails \/ ReadWaitFails
             \/ EndBatch \/ Terminated \/ UNCHANGED vars

LEMMA Quietly == ASSUME QuietStep PROVE Quiet
  BY DEF QuietStep, Quiet, MainFail, MainStart, NullDeref, SubmitWritesFails, ReadWaitFails,
         EndBatch, Terminated, vars, local, memory, ring, Exit

(* A submission moves requests to the kernel. *)
LEMMA Submitting ==
    ASSUME NEW Q, Submit(Q), Q \cap inflight = {}
    PROVE  /\ sq' \cup inflight' = Q \cup inflight
           /\ sq' \cap inflight' = {}
           /\ "submit" \notin Faults => sq' = {}
  BY DEF Submit, Taken

(* A new block is read. *)
NewRead == Request("read", offset, ThisSize)

Fresh == /\ pc = "fill" /\ insize > 0
         /\ live' = live \cup {offset}
         /\ got' = [got EXCEPT ![offset] = 0]
         /\ insize' = insize - ThisSize /\ offset' = offset + ThisSize
         /\ BatchRequests' = BatchRequests \cup {NewRead}
         /\ sq' \cap inflight' = {}
         /\ UNCHANGED <<setting, cq, dest>>

FreshStep == QueueRead \/ SubmitReads \/ SubmitReadsFails

LEMMA NewReadType ==
    ASSUME BatchTypes, Place, pc = "fill", insize > 0
    PROVE  /\ offset \in Pos /\ offset \notin live /\ ThisSize \in Nat \ {0}
           /\ ThisSize = Size(offset) /\ offset + ThisSize <= N
           /\ NewRead \in Requests
           /\ NewRead.op = "read" /\ NewRead.data = offset /\ NewRead.len = ThisSize
  <1>1. /\ offset \in Pos /\ offset \notin live /\ ThisSize \in Nat \ {0}
        /\ ThisSize = Size(offset) /\ offset + ThisSize <= N
    BY Environment DEF BatchTypes, Place, Pos, ThisSize, Size
  <1>2. QED
    BY <1>1 DEF NewRead, Request, Requests

LEMMA Freshly == ASSUME BatchTypes, Place, Owned, FreshStep PROVE Fresh
  <1>1. pc = "fill" /\ insize > 0 /\ NewBlock
    BY DEF FreshStep, QueueRead, SubmitReads, SubmitReadsFails, NewBlock
  <1>2. NewRead \notin BatchRequests
    BY <1>1, NewReadType DEF Owned
  <1>3. BatchRequests' = BatchRequests \cup {NewRead} /\ sq' \cap inflight' = {}
    <2>1. CASE SubmitReads
      BY <2>1, <1>2, Submitting DEF SubmitReads, NewRead, BatchRequests, Owned
    <2>2. CASE QueueRead \/ SubmitReadsFails
      BY <2>2, <1>2 DEF QueueRead, SubmitReadsFails, NewRead, BatchRequests, Owned
    <2>3. QED
      BY <2>1, <2>2 DEF FreshStep
  <1>4. QED
    BY <1>1, <1>3 DEF Fresh, NewBlock

(* What is left of the completion queue, and what is added to it. *)
LEMMA Front ==
    ASSUME BatchTypes, cq # <<>>
    PROVE  /\ Head(cq) = cq[1] /\ 1 \in DOMAIN cq /\ Head(cq) \in Completions
           /\ Head(cq).data \in Pos /\ Head(cq).res \in Int
           /\ Tail(cq) \in Seq(Completions) /\ Len(Tail(cq)) = Len(cq) - 1
           /\ \A k \in DOMAIN Tail(cq) : k + 1 \in DOMAIN cq /\ Tail(cq)[k] = cq[k + 1]
           /\ \A k \in DOMAIN cq : k = 1 \/ (k - 1 \in DOMAIN Tail(cq) /\ Tail(cq)[k - 1] = cq[k])
  <1>1. cq \in Seq(Completions)
    BY DEF BatchTypes
  <1>2. Head(cq) = cq[1] /\ 1 \in DOMAIN cq /\ Head(cq) \in Completions
    BY <1>1
  <1>3. Tail(cq) \in Seq(Completions) /\ Len(Tail(cq)) = Len(cq) - 1
    BY <1>1
  <1>4. \A k \in DOMAIN Tail(cq) : k + 1 \in DOMAIN cq /\ Tail(cq)[k] = cq[k + 1]
    BY <1>1
  <1>5. \A k \in DOMAIN cq : k = 1 \/ (k - 1 \in DOMAIN Tail(cq) /\ Tail(cq)[k - 1] = cq[k])
    BY <1>1
  <1>6. Head(cq).data \in Pos /\ Head(cq).res \in Int
    BY <1>2 DEF Completions
  <1>7. QED
    BY <1>2, <1>3, <1>4, <1>5, <1>6

LEMMA Behind ==
    ASSUME BatchTypes, NEW c \in Completions, cq' = Append(cq, c)
    PROVE  /\ cq' \in Seq(Completions)
           /\ Len(cq) \in Nat /\ DOMAIN cq = 1 .. Len(cq)
           /\ Len(cq') = Len(cq) + 1 /\ DOMAIN cq' = DOMAIN cq \cup {Len(cq) + 1}
           /\ Len(cq) + 1 \notin DOMAIN cq
           /\ cq'[Len(cq) + 1] = c /\ \A k \in DOMAIN cq : cq'[k] = cq[k]
  <1>1. cq \in Seq(Completions)
    BY DEF BatchTypes
  <1>2. cq' \in Seq(Completions) /\ Len(cq') = Len(cq) + 1
    BY <1>1
  <1>3. Len(cq) \in Nat /\ DOMAIN cq = 1 .. Len(cq) /\ DOMAIN cq' = 1 .. Len(cq) + 1
    BY <1>1, <1>2
  <1>4. cq'[Len(cq) + 1] = c /\ \A k \in DOMAIN cq : cq'[k] = cq[k]
    BY <1>1
  <1>5. DOMAIN cq' = DOMAIN cq \cup {Len(cq) + 1} /\ Len(cq) + 1 \notin DOMAIN cq
    BY <1>3
  <1>6. QED
    BY <1>2, <1>3, <1>4, <1>5

(* A completion becomes a write, or frees its block. *)
NewWrite == Request("write", Head(cq).data, WriteLength(Head(cq)))

Requeue == /\ cq # <<>> /\ Head(cq).res >= 0
           /\ pc = "read_recv" /\ i < writes /\ ~SqFull /\ i' = i + 1
           /\ sq' = sq \cup {NewWrite} /\ cq' = Tail(cq)
           /\ UNCHANGED <<setting, pc, insize, offset, reads, writes, ret, inflight,
                          live, got, dest>>

Release == /\ cq # <<>> /\ i < writes /\ i' = i + 1
           /\ \/ pc = "read_recv" /\ Head(cq).res < 0
              \/ pc = "write_recv" /\ Head(cq).res >= 0
           /\ Free(Head(cq).data) /\ cq' = Tail(cq)
           /\ UNCHANGED <<setting, pc, insize, offset, reads, writes, ret, sq, inflight, dest>>

LEMMA Receives == ASSUME BatchTypes, ReadRecv \/ WriteRecv PROVE Requeue \/ Release
  <1>1. CASE WriteRecv
    BY <1>1 DEF WriteRecv, Release, Receiving
  <1>2. CASE ReadRecv /\ Head(cq).res < 0
    BY <1>2 DEF ReadRecv, Release, Receiving
  <1>3. CASE ReadRecv /\ ~(Head(cq).res < 0)
    <2>1. cq # <<>> /\ pc = "read_recv" /\ i < writes
      BY <1>3 DEF ReadRecv, Receiving
    <2>2. QED
      BY <1>3, <2>1, Front DEF ReadRecv, Requeue, NewWrite, memory
  <1>4. QED
    BY <1>1, <1>2, <1>3

LEMMA NewWriteType ==
    ASSUME BatchTypes, cq # <<>>, Head(cq).res >= 0
    PROVE  /\ NewWrite \in Requests /\ NewWrite.op = "write"
           /\ NewWrite.data = Head(cq).data /\ NewWrite.len = WriteLength(Head(cq))
           /\ WriteLength(Head(cq)) \in Nat
  <1>1. Head(cq).data \in Pos /\ Head(cq).res \in Nat
    BY Front
  <1>2. WriteLength(Head(cq)) \in Nat
    BY <1>1, Environment DEF WriteLength, Size, Pos
  <1>3. QED
    BY <1>1, <1>2 DEF NewWrite, Request, Requests

(* The kernel completes a request, with the result r. *)
Completes(q, r) == /\ q \in inflight /\ r \in Int /\ pc # "done" /\ Post(q, r)
                   /\ KernelRead(q) \/ KernelWrite(q) \/ KernelError(q)
                   /\ \/ /\ KernelRead(q) /\ r \in 0 .. q.len
                         /\ "short_read" \notin Faults => r = q.len
                         /\ got' = [got EXCEPT ![q.data] = r] /\ UNCHANGED dest
                      \/ /\ KernelWrite(q) /\ r \in 0 .. q.len
                         /\ "short_write" \notin Faults => r = q.len
                         /\ dest' = [k \in Pos |-> IF k >= q.data /\ k < q.data + r
                                                   THEN IF k < q.data + got[q.data] THEN k ELSE Junk
                                                   ELSE dest[k]]
                         /\ UNCHANGED got
                      \/ KernelError(q) /\ r = EIO /\ UNCHANGED <<got, dest>>

LEMMA KernelCompletes ==
    ASSUME BatchTypes, Kernel
    PROVE  \E q \in inflight : \E r \in Int : Completes(q, r)
  <1>1. PICK q \in inflight : KernelRead(q) \/ KernelWrite(q) \/ KernelError(q)
    BY DEF Kernel
  <1>2. q.len \in Nat
    BY DEF BatchTypes, Requests
  <1>3. CASE KernelRead(q)
    <2>1. PICK n \in IF "short_read" \in Faults THEN 0 .. q.len ELSE {q.len} :
             got' = [got EXCEPT ![q.data] = n] /\ Post(q, n)
      BY <1>3 DEF KernelRead
    <2>2. n \in 0 .. q.len /\ n \in Int /\ ("short_read" \notin Faults => n = q.len)
      BY <1>2, <2>1
    <2>3. pc # "done" /\ UNCHANGED dest
      BY <1>3 DEF KernelRead, Running
    <2>4. QED
      BY <1>3, <2>1, <2>2, <2>3 DEF Completes
  <1>4. CASE KernelWrite(q)
    <2>1. PICK n \in IF "short_write" \in Faults THEN 0 .. q.len ELSE {q.len} :
             /\ dest' = [k \in Pos |-> IF k >= q.data /\ k < q.data + n
                                        THEN IF k < q.data + got[q.data] THEN k ELSE Junk
                                        ELSE dest[k]]
             /\ Post(q, n)
      BY <1>4 DEF KernelWrite
    <2>2. n \in 0 .. q.len /\ n \in Int /\ ("short_write" \notin Faults => n = q.len)
      BY <1>2, <2>1
    <2>3. pc # "done" /\ UNCHANGED got
      BY <1>4 DEF KernelWrite, Running
    <2>4. QED
      BY <1>4, <2>1, <2>2, <2>3 DEF Completes
  <1>5. CASE KernelError(q)
    <2>1. pc # "done" /\ Post(q, EIO) /\ UNCHANGED <<got, dest>> /\ EIO \in Int
      BY <1>5 DEF KernelError, Running, EIO
    <2>2. QED
      BY <1>5, <2>1 DEF Completes
  <1>6. QED
    BY <1>1, <1>3, <1>4, <1>5

(* The completion that is posted. *)
LEMMA Posted ==
    ASSUME BatchTypes, NEW q \in inflight, NEW r \in Int, Post(q, r)
    PROVE  /\ q \in Requests /\ q.data \in Pos /\ q.len \in Nat
           /\ [data |-> q.data, res |-> r] \in Completions
           /\ inflight' = inflight \ {q} /\ cq' = Append(cq, [data |-> q.data, res |-> r])
           /\ UNCHANGED <<setting, pc, insize, offset, reads, writes, i, ret, live, sq>>
  BY DEF BatchTypes, Requests, Completions, Post, local

(* A step is one of these. *)
LEMMA Kinds ==
    ASSUME BatchTypes, Place, Owned, [Next]_vars
    PROVE  \/ QuietStep /\ Quiet
           \/ FreshStep /\ Fresh
           \/ Requeue \/ Release \/ SubmitWrites
           \/ \E q \in inflight : \E r \in Int : Completes(q, r)
  <1>1. CASE QuietStep
    BY <1>1, Quietly
  <1>2. CASE FreshStep
    BY <1>2, Freshly
  <1>3. CASE ReadRecv \/ WriteRecv
    BY <1>3, Receives
  <1>4. CASE Kernel
    BY <1>4, KernelCompletes
  <1>5. QED
    BY <1>1, <1>2, <1>3, <1>4 DEF Next, Program, QuietStep, FreshStep

-----------------------------------------------------------------------------
(* Types and places. *)
LEMMA Fixed == Pos' = Pos /\ Requests' = Requests /\ Completions' = Completions
  BY DEF Pos, Requests, Completions

LEMMA TypesStep == ASSUME BatchTypes, Place, Owned, [Next]_vars PROVE BatchTypes'
  <1>1. CASE QuietStep /\ Quiet
    <2>1. /\ setting' \in Settings /\ offset' \in Nat /\ live' \subseteq Pos
          /\ got' \in [Pos -> Nat] /\ dest' \in [Pos -> Int]
          /\ sq' \subseteq Requests /\ inflight' \subseteq Requests
          /\ cq' \in Seq(Completions)
      BY <1>1 DEF Quiet, BatchTypes
    <2>2. /\ pc' \in {"main", "fill", "read_recv", "write_recv", "done"}
          /\ insize' \in Int /\ reads' \in Nat /\ writes' \in Nat /\ i' \in Nat
      BY <1>1 DEF QuietStep, BatchTypes, MainFail, MainStart, NullDeref, SubmitWritesFails,
                  ReadWaitFails, EndBatch, Terminated, vars, local, Exit
    <2>3. QED
      BY <2>1, <2>2, Fixed DEF BatchTypes
  <1>2. CASE FreshStep /\ Fresh
    <2>1. /\ offset \in Pos /\ ThisSize \in Nat \ {0} /\ NewRead \in Requests
      BY <1>2, NewReadType DEF Fresh
    <2>2. sq' \cup inflight' \subseteq Requests
      BY <1>2, <2>1 DEF Fresh, BatchRequests, BatchTypes
    <2>3. /\ pc' \in {"main", "fill", "read_recv", "write_recv", "done"}
          /\ reads' \in Nat /\ writes' \in Nat /\ i' \in Nat
      BY <1>2 DEF FreshStep, BatchTypes, QueueRead, SubmitReads, SubmitReadsFails, Exit
    <2>4. /\ insize' \in Int /\ offset' \in Nat /\ live' \subseteq Pos
          /\ got' \in [Pos -> Nat] /\ UNCHANGED <<setting, cq, dest>>
      BY <1>2, <2>1 DEF Fresh, BatchTypes
    <2>5. QED
      BY <2>2, <2>3, <2>4, Fixed DEF BatchTypes
  <1>3. CASE Requeue
    <2>1. Tail(cq) \in Seq(Completions)
      BY <1>3, Front DEF Requeue
    <2>2. NewWrite \in Requests
      BY <1>3, NewWriteType DEF Requeue
    <2>3. QED
      BY <1>3, <2>1, <2>2, Fixed DEF Requeue, BatchTypes
  <1>4. CASE Release
    <2>1. Tail(cq) \in Seq(Completions)
      BY <1>4, Front DEF Release
    <2>2. live' \subseteq Pos /\ got' \in [Pos -> Nat]
      BY <1>4 DEF Release, Free, BatchTypes
    <2>3. QED
      BY <1>4, <2>1, <2>2, Fixed DEF Release, BatchTypes
  <1>5. CASE SubmitWrites
    <2>1. sq' \cup inflight' = sq \cup inflight
      BY <1>5, Submitting DEF SubmitWrites, Owned
    <2>2. QED
      BY <1>5, <2>1, Fixed DEF SubmitWrites, BatchTypes, memory
  <1>6. ASSUME NEW q \in inflight, NEW r \in Int, Completes(q, r) PROVE BatchTypes'
    <2>1. /\ q.data \in Pos /\ q.len \in Nat
          /\ [data |-> q.data, res |-> r] \in Completions
          /\ inflight' = inflight \ {q} /\ cq' = Append(cq, [data |-> q.data, res |-> r])
          /\ UNCHANGED <<setting, pc, insize, offset, reads, writes, i, ret, live, sq>>
      BY <1>6, Posted DEF Completes
    <2>2. cq' \in Seq(Completions)
      BY <2>1, Behind
    <2>3. got' \in [Pos -> Nat] /\ dest' \in [Pos -> Int]
      <3>1. got \in [Pos -> Nat] /\ dest \in [Pos -> Int] /\ Pos \subseteq Int /\ Junk \in Int
        BY DEF BatchTypes, Junk, Pos
      <3>2. CASE /\ r \in 0 .. q.len /\ got' = [got EXCEPT ![q.data] = r] /\ UNCHANGED dest
        BY <2>1, <3>1, <3>2
      <3>3. CASE /\ UNCHANGED got
                 /\ dest' = [k \in Pos |-> IF k >= q.data /\ k < q.data + r
                                           THEN IF k < q.data + got[q.data] THEN k ELSE Junk
                                           ELSE dest[k]]
        BY <3>1, <3>3
      <3>4. CASE UNCHANGED <<got, dest>>
        BY <3>1, <3>4
      <3>5. QED
        BY <1>6, <3>2, <3>3, <3>4 DEF Completes
    <2>4. QED
      BY <2>1, <2>2, <2>3, Fixed DEF BatchTypes
  <1>7. QED
    BY <1>1, <1>2, <1>3, <1>4, <1>5, <1>6, Kinds

LEMMA PlaceStep == ASSUME BatchTypes, Place, Owned, [Next]_vars PROVE Place'
  <1>1. CASE QuietStep /\ Quiet
    <2>1. pc' # "done" => insize' = insize /\ pc # "done"
      BY <1>1, Environment
         DEF QuietStep, MainFail, MainStart, NullDeref, SubmitWritesFails, ReadWaitFails,
             EndBatch, Terminated, vars, local, Exit, Place
    <2>2. pc' = "main" => pc = "main"
      BY <1>1 DEF QuietStep, MainFail, MainStart, NullDeref, SubmitWritesFails, ReadWaitFails,
                  EndBatch, Terminated, vars, Exit
    <2>3. QED
      BY <1>1, <2>1, <2>2 DEF Place, Quiet
  <1>2. CASE FreshStep /\ Fresh
    <2>1. /\ offset \in Pos /\ ThisSize \in Nat \ {0} /\ offset + ThisSize <= N
      BY <1>2, NewReadType DEF Fresh
    <2>2. pc' # "main"
      BY <1>2 DEF FreshStep, Fresh, QueueRead, SubmitReads, SubmitReadsFails, Exit
    <2>3. \A p \in live' : p < offset'
      BY <1>2, <2>1 DEF Fresh, Place, BatchTypes, Pos
    <2>4. /\ offset' = offset + ThisSize /\ insize' = insize - ThisSize
          /\ insize = N - offset /\ insize \in Int /\ offset \in Nat
      BY <1>2 DEF Fresh, Place, BatchTypes
    <2>5. offset' <= N /\ insize' = N - offset'
      BY <2>1, <2>4, Environment
    <2>6. QED
      BY <2>2, <2>3, <2>5 DEF Place
  <1>3. CASE Requeue
    BY <1>3 DEF Requeue, Place
  <1>4. CASE Release
    BY <1>4 DEF Release, Free, Place
  <1>5. CASE SubmitWrites
    BY <1>5 DEF SubmitWrites, Place, memory
  <1>6. ASSUME NEW q \in inflight, NEW r \in Int, Completes(q, r) PROVE Place'
    BY <1>6, Posted DEF Completes, Place
  <1>7. QED
    BY <1>1, <1>2, <1>3, <1>4, <1>5, <1>6, Kinds

-----------------------------------------------------------------------------
(* Ownership. *)
LEMMA OwnedStep == ASSUME BatchTypes, Place, Owned, [Next]_vars PROVE Owned'
  <1>1. CASE QuietStep /\ Quiet
    BY <1>1 DEF Owned, Quiet, BatchRequests
  <1>2. CASE FreshStep /\ Fresh
    <2>1. offset \notin live /\ NewRead.data = offset
      BY <1>2, NewReadType DEF Fresh
    <2>2. QED
      BY <1>2, <2>1 DEF Owned, Fresh
  <1>3. CASE Requeue
    <2> DEFINE p == Head(cq).data
    <2>1. /\ NewWrite.data = p /\ p = cq[1].data /\ 1 \in DOMAIN cq
          /\ \A k \in DOMAIN Tail(cq) : k + 1 \in DOMAIN cq /\ Tail(cq)[k] = cq[k + 1]
          /\ \A k \in DOMAIN cq : k = 1 \/ (k - 1 \in DOMAIN Tail(cq) /\ Tail(cq)[k - 1] = cq[k])
          /\ \A k \in DOMAIN Tail(cq) : k \in Nat \ {0}
      BY <1>3, Front, NewWriteType DEF Requeue
    <2> HIDE DEF p
    <2>2. /\ BatchRequests' = BatchRequests \cup {NewWrite} /\ cq' = Tail(cq) /\ live' = live
          /\ sq' = sq \cup {NewWrite} /\ inflight' = inflight
      BY <1>3 DEF Requeue, BatchRequests
    <2>3. p \in live /\ \A q \in BatchRequests : q.data # p
      BY <2>1 DEF Owned
    <2>4. \A k \in DOMAIN Tail(cq) : Tail(cq)[k].data # p
      BY <2>1 DEF Owned
    <2>5. sq' \cap inflight' = {}
      BY <2>1, <2>2, <2>3 DEF Owned, BatchRequests
    <2>6. \A q, r \in BatchRequests' : q.data = r.data => q = r
      BY <2>1, <2>2, <2>3 DEF Owned
    <2>7. \A q \in BatchRequests' : q.data \in live' /\ \A k \in DOMAIN cq' : cq'[k].data # q.data
      BY <2>1, <2>2, <2>3, <2>4 DEF Owned
    <2>8. /\ \A k \in DOMAIN cq' : cq'[k].data \in live'
          /\ \A k, l \in DOMAIN cq' : cq'[k].data = cq'[l].data => k = l
      BY <2>1, <2>2 DEF Owned
    <2>9. ASSUME NEW x \in live'
          PROVE  \/ \E q \in BatchRequests' : q.data = x
                 \/ \E k \in DOMAIN cq' : cq'[k].data = x
      <3>1. CASE \E q \in BatchRequests : q.data = x
        BY <2>2, <3>1
      <3>2. ASSUME NEW k \in DOMAIN cq, cq[k].data = x
            PROVE  \/ \E q \in BatchRequests' : q.data = x
                   \/ \E l \in DOMAIN cq' : cq'[l].data = x
        <4>1. CASE k = 1
          BY <2>1, <2>2, <3>2, <4>1
        <4>2. CASE k # 1
          BY <2>1, <2>2, <3>2, <4>2
        <4>3. QED
          BY <4>1, <4>2
      <3>3. QED
        BY <2>2, <3>1, <3>2 DEF Owned
    <2>10. QED
      BY <2>5, <2>6, <2>7, <2>8, <2>9 DEF Owned
  <1>4. CASE Release
    <2> DEFINE p == Head(cq).data
    <2>1. /\ p = cq[1].data /\ 1 \in DOMAIN cq
          /\ \A k \in DOMAIN Tail(cq) : k + 1 \in DOMAIN cq /\ Tail(cq)[k] = cq[k + 1]
          /\ \A k \in DOMAIN cq : k = 1 \/ (k - 1 \in DOMAIN Tail(cq) /\ Tail(cq)[k - 1] = cq[k])
          /\ \A k \in DOMAIN Tail(cq) : k \in Nat \ {0}
      BY <1>4, Front DEF Release
    <2>2. /\ BatchRequests' = BatchRequests /\ cq' = Tail(cq) /\ live' = live \ {p}
          /\ UNCHANGED <<sq, inflight>>
      BY <1>4 DEF Release, Free, BatchRequests
    <2> HIDE DEF p
    <2>3. \A q \in BatchRequests : q.data # p
      BY <2>1 DEF Owned
    <2>4. \A k \in DOMAIN Tail(cq) : Tail(cq)[k].data # p
      BY <2>1 DEF Owned
    <2>5. \A q \in BatchRequests' : q.data \in live' /\ \A k \in DOMAIN cq' : cq'[k].data # q.data
      BY <2>1, <2>2, <2>3 DEF Owned
    <2>6. /\ \A k \in DOMAIN cq' : cq'[k].data \in live'
          /\ \A k, l \in DOMAIN cq' : cq'[k].data = cq'[l].data => k = l
      BY <2>1, <2>2, <2>4 DEF Owned
    <2>7. \A x \in live' : \/ \E q \in BatchRequests' : q.data = x
                           \/ \E k \in DOMAIN cq' : cq'[k].data = x
      BY <2>1, <2>2 DEF Owned
    <2>8. QED
      BY <2>2, <2>5, <2>6, <2>7 DEF Owned
  <1>5. CASE SubmitWrites
    <2>1. BatchRequests' = BatchRequests /\ sq' \cap inflight' = {}
      BY <1>5, Submitting DEF SubmitWrites, Owned, BatchRequests
    <2>2. QED
      BY <1>5, <2>1 DEF SubmitWrites, Owned, memory
  <1>6. ASSUME NEW q \in inflight, NEW r \in Int, Completes(q, r) PROVE Owned'
    <2> DEFINE c == [data |-> q.data, res |-> r]
               n == Len(cq) + 1
    <2>1. /\ c \in Completions /\ c.data = q.data
          /\ inflight' = inflight \ {q} /\ cq' = Append(cq, c)
          /\ UNCHANGED <<live, sq>>
      BY <1>6, Posted DEF Completes
    <2> HIDE DEF c
    <2>2. /\ DOMAIN cq' = DOMAIN cq \cup {n} /\ n \notin DOMAIN cq
          /\ cq'[n] = c /\ \A k \in DOMAIN cq : cq'[k] = cq[k]
      BY <2>1, Behind
    <2> HIDE DEF n
    <2>3. BatchRequests' = BatchRequests \ {q} /\ q \in BatchRequests
      BY <2>1 DEF Owned, BatchRequests
    <2>4. \A k \in DOMAIN cq : cq[k].data # q.data
      BY <2>3 DEF Owned
    <2>5. \A s \in BatchRequests' : s.data \in live' /\ \A k \in DOMAIN cq' : cq'[k].data # s.data
      BY <2>1, <2>2, <2>3 DEF Owned
    <2>6. \A k, l \in DOMAIN cq' : cq'[k].data = cq'[l].data => k = l
      BY <2>1, <2>2, <2>4 DEF Owned
    <2>7. \A k \in DOMAIN cq' : cq'[k].data \in live'
      BY <2>1, <2>2, <2>3 DEF Owned
    <2>8. \A p \in live' : \/ \E s \in BatchRequests' : s.data = p
                           \/ \E k \in DOMAIN cq' : cq'[k].data = p
      BY <2>1, <2>2, <2>3 DEF Owned
    <2>9. QED
      BY <2>1, <2>3, <2>5, <2>6, <2>7, <2>8 DEF Owned
  <1>7. QED
    BY <1>1, <1>2, <1>3, <1>4, <1>5, <1>6, Kinds

(* Counting: a request and a completion stand for one block each. *)
LEMMA Finite ==
    ASSUME BatchTypes, Owned
    PROVE  /\ IsFiniteSet(live) /\ IsFiniteSet(BatchRequests)
           /\ IsFiniteSet(sq) /\ IsFiniteSet(inflight)
  <1>1. IsFiniteSet(Pos)
    BY FS_Interval, ConstantsAssumption DEF Pos
  <1>2. live \in SUBSET Pos
    BY DEF BatchTypes
  <1>3. IsFiniteSet(live)
    BY <1>1, <1>2, FS_Subset
  <1> DEFINE f == [q \in BatchRequests |-> q.data]
  <1>4. f \in Injection(BatchRequests, live)
    BY DEF Owned, Injection, IsInjective
  <1>5. IsFiniteSet(BatchRequests)
    BY <1>3, <1>4, FS_Injection
  <1>6. QED
    BY <1>3, <1>5, FS_Subset DEF BatchRequests

LEMMA OwnedRight == ASSUME BatchTypes, Owned PROVE BlockOwnership
  <1>1. Requested = {q.data : q \in BatchRequests}
    BY DEF Requested, BatchRequests
  <1>2. live = Requested \cup Completed
    BY <1>1 DEF Owned, Completed
  <1>3. Requested \cap Completed = {}
    BY <1>1 DEF Owned, Completed
  <1>4. Cardinality(sq) + Cardinality(inflight) = Cardinality(Requested)
    <2>1. Cardinality(BatchRequests) = Cardinality(sq) + Cardinality(inflight)
      <3>1. Cardinality(sq \cap inflight) = 0
        BY FS_EmptySet DEF Owned
      <3>2. Cardinality(sq) \in Nat /\ Cardinality(inflight) \in Nat
        BY Finite, FS_CardinalityType
      <3>3. QED
        BY <3>1, <3>2, Finite, FS_Union DEF BatchRequests
    <2> DEFINE f == [q \in BatchRequests |-> q.data]
    <2>2. f \in Bijection(BatchRequests, Requested)
      BY <1>1 DEF Owned, Bijection, Injection, Surjection, IsInjective
    <2>3. ExistsBijection(BatchRequests, Requested)
      BY <2>2 DEF ExistsBijection
    <2>4. QED
      BY <2>1, <2>3, Finite, FS_Bijection
  <1>5. Len(cq) = Cardinality(Completed)
    <2>1. Len(cq) \in Nat /\ DOMAIN cq = 1 .. Len(cq)
      BY DEF BatchTypes
    <2> DEFINE f == [k \in 1 .. Len(cq) |-> cq[k].data]
    <2>2. f \in Bijection(1 .. Len(cq), Completed)
      BY <2>1 DEF Owned, Completed, Bijection, Injection, Surjection, IsInjective
    <2>3. ExistsBijection(1 .. Len(cq), Completed)
      BY <2>2 DEF ExistsBijection
    <2>4. QED
      BY <2>1, <2>3, FS_CountingElements
  <1>6. QED
    BY <1>2, <1>3, <1>4, <1>5 DEF BlockOwnership

LEMMA OneMore ==
    ASSUME NEW S, IsFiniteSet(S), NEW x
    PROVE  /\ Cardinality(S \cup {x}) \in Nat /\ Cardinality(S \cup {x}) <= Cardinality(S) + 1
           /\ x \notin S => Cardinality(S \cup {x}) = Cardinality(S) + 1
  <1>1. IsFiniteSet(S \cup {x}) /\ Cardinality(S \cup {x}) =
                                  IF x \in S THEN Cardinality(S) ELSE Cardinality(S) + 1
    BY FS_AddElement
  <1>2. Cardinality(S) \in Nat /\ Cardinality(S \cup {x}) \in Nat
    BY <1>1, FS_CardinalityType
  <1>3. QED
    BY <1>1, <1>2

LEMMA OneLess ==
    ASSUME NEW S, IsFiniteSet(S), NEW x \in S
    PROVE  Cardinality(S \ {x}) \in Nat /\ Cardinality(S \ {x}) = Cardinality(S) - 1
  <1>1. IsFiniteSet(S \ {x}) /\ Cardinality(S \ {x}) = Cardinality(S) - 1
    BY FS_RemoveElement
  <1>2. QED
    BY <1>1, FS_CardinalityType

-----------------------------------------------------------------------------
(* Room in the submission queue, as long as submissions are taken whole.   *)
Room ==
    /\ pc = "main" => reads = 0
    /\ pc = "fill" => reads < DEPTH
    /\ pc = "read_recv" => i <= writes /\ writes <= DEPTH /\ reads = 0
    /\ pc = "write_recv" => reads = 0
    /\ "submit" \notin Faults =>
          /\ pc \in {"main", "write_recv"} => sq = {}
          /\ pc = "fill" => Cardinality(sq) <= reads
          /\ pc = "read_recv" => Cardinality(sq) <= i
    /\ ret \in {0, 1, -1, SIGSEGV} /\ SqeAvailable

LEMMA RoomStep == ASSUME BatchTypes, Place, Owned, Room, [Next]_vars PROVE Room'
  <1>0. /\ IsFiniteSet(sq) /\ Cardinality(sq) \in Nat
        /\ DEPTH \in Nat \ {0} /\ reads \in Nat /\ writes \in Nat /\ i \in Nat
    BY Finite, FS_CardinalityType, Environment DEF BatchTypes
  <1>e. setting' = setting => Faults' = Faults /\ DEPTH' = DEPTH
    BY DEF Faults, DEPTH
  <1>1. CASE QuietStep /\ Quiet
    <2>1. CASE UNCHANGED vars
      BY <1>e, <2>1 DEF Room, SqeAvailable, vars, local, ring
    <2>2. CASE NullDeref
      <3>1. Faults \cap {"submit", "nomem"} # {}
        <4>1. SUFFICES ASSUME Faults \cap {"submit", "nomem"} = {} PROVE FALSE
          OBVIOUS
        <4>2. SqFull
          BY <2>2, <4>1 DEF NullDeref
        <4>3. CASE pc = "fill"
          BY <1>0, <4>1, <4>2, <4>3 DEF Room, SqFull
        <4>4. CASE Receiving("read_recv")
          BY <1>0, <4>1, <4>2, <4>4 DEF Room, SqFull, Receiving
        <4>5. QED
          BY <2>2, <4>3, <4>4 DEF NullDeref
      <3>2. pc' = "done" /\ ret' = SIGSEGV
        BY <2>2 DEF NullDeref, Exit
      <3>3. QED
        BY <1>1, <1>e, <3>1, <3>2 DEF Room, SqeAvailable, Quiet
    <2>3. CASE EndBatch
      BY <1>0, <1>1, <1>e, <2>3, FS_EmptySet DEF EndBatch, Exit, Room, SqeAvailable, Quiet, SIGSEGV
    <2>4. CASE MainStart
      BY <1>0, <1>1, <1>e, <2>4, FS_EmptySet DEF MainStart, Exit, Room, SqeAvailable, Quiet, SIGSEGV
    <2>5. CASE MainFail \/ SubmitWritesFails \/ ReadWaitFails
      BY <1>1, <1>e, <2>5
         DEF MainFail, SubmitWritesFails, ReadWaitFails, Exit, Room, SqeAvailable, Quiet, SIGSEGV
    <2>6. QED
      BY <1>1, <2>1, <2>2, <2>3, <2>4, <2>5 DEF QuietStep, Terminated
  <1>2. CASE FreshStep /\ Fresh
    <2>1. pc = "fill" /\ setting' = setting
      BY <1>2 DEF Fresh
    <2>2. CASE QueueRead
      <3>1. sq' = sq \cup {NewRead} /\ ~(reads + 1 >= DEPTH)
        BY <2>2 DEF QueueRead, NewRead, BatchFull
      <3>2. Cardinality(sq') <= Cardinality(sq) + 1 /\ Cardinality(sq') \in Nat
        BY <1>0, <3>1, OneMore
      <3>3. QED
        <4>1. /\ reads' = reads + 1 /\ UNCHANGED <<pc, ret>> /\ reads + 1 < DEPTH
              /\ "submit" \notin Faults => Cardinality(sq') <= reads'
          BY <1>0, <2>1, <2>2, <3>1, <3>2 DEF QueueRead, Room
        <4>2. QED
          BY <1>e, <2>1, <4>1 DEF Room, SqeAvailable
    <2>3. CASE SubmitReads
      <3>1. NewRead \notin BatchRequests
        BY <1>2, <2>1, NewReadType DEF Owned, Fresh
      <3>2. "submit" \notin Faults => sq' = {}
        BY <2>3, <3>1, Submitting DEF SubmitReads, NewRead, Owned, BatchRequests
      <3>3. QED
        <4>1. /\ pc' = "read_recv" /\ i' = 0 /\ reads' = 0 /\ writes' = reads + 1
              /\ ret' = ret /\ reads + 1 <= DEPTH
          BY <1>0, <2>1, <2>3 DEF SubmitReads, Room
        <4>2. "submit" \notin Faults => Cardinality(sq') <= i'
          BY <3>2, <4>1, FS_EmptySet
        <4>3. QED
          BY <1>0, <1>e, <2>1, <4>1, <4>2 DEF Room, SqeAvailable
    <2>4. CASE SubmitReadsFails
      BY <1>e, <2>1, <2>4 DEF SubmitReadsFails, Exit, Room, SqeAvailable, SIGSEGV
    <2>5. QED
      BY <1>2, <2>2, <2>3, <2>4 DEF FreshStep
  <1>3. CASE Requeue
    <2>1. Cardinality(sq') <= Cardinality(sq) + 1 /\ Cardinality(sq') \in Nat
      BY <1>0, <1>3, OneMore DEF Requeue
    <2>2. /\ pc = "read_recv" /\ i' = i + 1 /\ i < writes
          /\ UNCHANGED <<setting, pc, reads, writes, ret>>
      BY <1>3 DEF Requeue
    <2>3. i' <= writes /\ ("submit" \notin Faults => Cardinality(sq') <= i')
      BY <1>0, <2>1, <2>2 DEF Room
    <2>4. QED
      BY <1>e, <2>2, <2>3 DEF Room, SqeAvailable
  <1>4. CASE Release
    BY <1>0, <1>4, <1>e DEF Release, Room, SqeAvailable
  <1>5. CASE SubmitWrites
    <2>1. "submit" \notin Faults => sq' = {}
      BY <1>5, Submitting DEF SubmitWrites, Owned
    <2>2. QED
      BY <1>5, <1>e, <2>1 DEF SubmitWrites, Room, SqeAvailable
  <1>6. ASSUME NEW q \in inflight, NEW r \in Int, Completes(q, r) PROVE Room'
    BY <1>6, <1>e, Posted DEF Completes, Room, SqeAvailable
  <1>7. QED
    BY <1>1, <1>2, <1>3, <1>4, <1>5, <1>6, Kinds
-----------------------------------------------------------------------------
(* What is written was read: a write is no longer than what its buffer     *)
(* holds, and neither is the write a completion would be turned into.      *)
Careful == Variant = "single" \/ "short_read" \notin Faults

ReadsWhole  == \A q \in BatchRequests : q.op = "read" => q.len = Size(q.data)
WritesFound == \A q \in BatchRequests : q.op = "write" =>
                  q.len <= got[q.data] /\ (Variant = "multi" => q.len = Size(q.data))
WouldFind   == \A k \in DOMAIN cq : cq[k].res >= 0 => WriteLength(cq[k]) <= got[cq[k].data]
NoneJunk    == \A k \in Pos : dest[k] \in {Hole, k}

Lengths == ReadsWhole /\ (Careful => WritesFound /\ WouldFind /\ NoneJunk)

LEMMA SameSetting ==
    ASSUME setting' = setting
    PROVE  /\ Variant' = Variant /\ Faults' = Faults /\ (Careful' <=> Careful)
           /\ \A c : WriteLength(c)' = WriteLength(c)
           /\ \A p : Size(p)' = Size(p)
  BY DEF Variant, Faults, Careful, WriteLength, Size

LEMMA LengthsStep == ASSUME BatchTypes, Place, Owned, Lengths, [Next]_vars PROVE Lengths'
  <1>1. CASE QuietStep /\ Quiet
    BY <1>1, SameSetting
       DEF Quiet, Lengths, ReadsWhole, WritesFound, WouldFind, NoneJunk, BatchRequests, Hole, Pos
  <1>2. CASE FreshStep /\ Fresh
    <2>1. /\ offset \in Pos /\ offset \notin live /\ NewRead.op = "read" /\ NewRead.data = offset
          /\ NewRead.len = Size(offset)
      BY <1>2, NewReadType DEF Fresh
    <2>2. /\ BatchRequests' = BatchRequests \cup {NewRead}
          /\ UNCHANGED <<setting, cq, dest>>
      BY <1>2 DEF Fresh
    <2>3. \A p \in live : got'[p] = got[p]
      BY <1>2, <2>1 DEF Fresh, BatchTypes
    <2>4. ReadsWhole'
      BY <2>1, <2>2, SameSetting DEF Lengths, ReadsWhole
    <2>5. WritesFound => WritesFound'
      BY <2>1, <2>2, <2>3, SameSetting DEF WritesFound, Owned
    <2>6. WouldFind => WouldFind'
      BY <2>2, <2>3, SameSetting DEF WouldFind, Owned
    <2>7. NoneJunk => NoneJunk'
      BY <2>2 DEF NoneJunk, Pos, Hole
    <2>8. QED
      BY <2>2, <2>4, <2>5, <2>6, <2>7, SameSetting DEF Lengths
  <1>3. CASE Requeue
    <2>1. /\ NewWrite.op = "write" /\ NewWrite.data = cq[1].data
          /\ NewWrite.len = WriteLength(cq[1]) /\ cq[1].res >= 0 /\ 1 \in DOMAIN cq
          /\ \A k \in DOMAIN Tail(cq) : k + 1 \in DOMAIN cq /\ Tail(cq)[k] = cq[k + 1]
      BY <1>3, Front, NewWriteType DEF Requeue
    <2>2. /\ BatchRequests' = BatchRequests \cup {NewWrite}
          /\ cq' = Tail(cq) /\ UNCHANGED <<setting, got, dest>>
      BY <1>3 DEF Requeue, BatchRequests
    <2>3. Variant = "multi" => WriteLength(cq[1]) = Size(cq[1].data)
      BY DEF WriteLength
    <2>4. ReadsWhole'
      BY <2>1, <2>2, SameSetting DEF Lengths, ReadsWhole
    <2>5. WritesFound /\ WouldFind => WritesFound'
      BY <2>1, <2>2, <2>3, SameSetting DEF WritesFound, WouldFind
    <2>6. WouldFind => WouldFind'
      BY <2>1, <2>2, SameSetting DEF WouldFind
    <2>7. NoneJunk => NoneJunk'
      BY <2>2 DEF NoneJunk, Pos, Hole
    <2>8. QED
      BY <2>2, <2>4, <2>5, <2>6, <2>7, SameSetting DEF Lengths
  <1>4. CASE Release
    <2> DEFINE p == Head(cq).data
    <2>1. /\ p = cq[1].data /\ p \in Pos /\ 1 \in DOMAIN cq
          /\ \A k \in DOMAIN Tail(cq) : k + 1 \in DOMAIN cq /\ Tail(cq)[k] = cq[k + 1]
                                        /\ k + 1 # 1
      BY <1>4, Front DEF Release
    <2>2. /\ BatchRequests' = BatchRequests /\ got' = [got EXCEPT ![p] = 0]
          /\ cq' = Tail(cq) /\ UNCHANGED <<setting, dest>>
      BY <1>4 DEF Release, Free, BatchRequests
    <2> HIDE DEF p
    <2>3. \A x \in Pos : x # p => got'[x] = got[x]
      BY <2>1, <2>2 DEF BatchTypes
    <2>4. \A q \in BatchRequests : q.data \in Pos /\ q.data # p
      BY <2>1 DEF Owned, BatchTypes
    <2>5. \A k \in DOMAIN Tail(cq) : Tail(cq)[k].data \in Pos /\ Tail(cq)[k].data # p
      BY <2>1 DEF Owned, BatchTypes
    <2>6. ReadsWhole'
      BY <2>2, SameSetting DEF Lengths, ReadsWhole
    <2>7. WritesFound => WritesFound'
      BY <2>2, <2>3, <2>4, SameSetting DEF WritesFound
    <2>8. WouldFind => WouldFind'
      BY <2>1, <2>2, <2>3, <2>5, SameSetting DEF WouldFind
    <2>9. NoneJunk => NoneJunk'
      BY <2>2 DEF NoneJunk, Pos, Hole
    <2>10. QED
      BY <2>2, <2>6, <2>7, <2>8, <2>9, SameSetting DEF Lengths
  <1>5. CASE SubmitWrites
    <2>1. BatchRequests' = BatchRequests /\ UNCHANGED <<setting, got, cq, dest>>
      BY <1>5, Submitting DEF SubmitWrites, Owned, BatchRequests, memory
    <2>2. QED
      BY <2>1, SameSetting DEF Lengths, ReadsWhole, WritesFound, WouldFind, NoneJunk, Pos, Hole
  <1>6. ASSUME NEW q \in inflight, NEW r \in Int, Completes(q, r) PROVE Lengths'
    <2> DEFINE c == [data |-> q.data, res |-> r]
               n == Len(cq) + 1
    <2>1. /\ q.data \in Pos /\ q.len \in Nat /\ c \in Completions /\ c.data = q.data /\ c.res = r
          /\ inflight' = inflight \ {q} /\ cq' = Append(cq, c) /\ UNCHANGED <<setting, sq>>
      BY <1>6, Posted DEF Completes
    <2> HIDE DEF c
    <2>2. /\ DOMAIN cq' = DOMAIN cq \cup {n} /\ cq'[n] = c /\ \A k \in DOMAIN cq : cq'[k] = cq[k]
      BY <2>1, Behind
    <2> HIDE DEF n
    <2>3. BatchRequests' = BatchRequests \ {q} /\ q \in BatchRequests
      BY <2>1 DEF Owned, BatchRequests
    <2>4. \A p \in Pos : p # q.data => got'[p] = got[p]
      BY <1>6, <2>1 DEF Completes, BatchTypes
    <2>5. \A s \in BatchRequests' : s.data \in Pos /\ s.data # q.data
      BY <2>3 DEF Owned, BatchTypes
    <2>6. \A k \in DOMAIN cq : cq[k].data \in Pos /\ cq[k].data # q.data
      BY <2>3 DEF Owned, BatchTypes
    <2>7. ReadsWhole'
      BY <2>1, <2>3, SameSetting DEF Lengths, ReadsWhole
    <2>8. WritesFound => WritesFound'
      BY <2>1, <2>3, <2>4, <2>5, SameSetting DEF WritesFound
    <2>9. Careful /\ WritesFound /\ r >= 0 => WriteLength(c) <= got'[q.data]
      <3>1. SUFFICES ASSUME Careful, WritesFound, r >= 0 PROVE WriteLength(c) <= got'[q.data]
        OBVIOUS
      <3>2. WriteLength(c) = IF Variant = "single" THEN r ELSE Size(q.data)
        BY <2>1 DEF WriteLength
      <3>3. CASE KernelRead(q) /\ r \in 0 .. q.len /\ ("short_read" \notin Faults => r = q.len)
                 /\ got' = [got EXCEPT ![q.data] = r]
        <4>1. got'[q.data] = r
          BY <2>1, <3>3 DEF BatchTypes
        <4>2. q.len = Size(q.data)
          BY <2>3, <3>3 DEF Lengths, ReadsWhole, KernelRead, Running
        <4>3. QED
          BY <3>1, <3>2, <3>3, <4>1, <4>2 DEF Careful
      <3>4. CASE KernelWrite(q) /\ r \in 0 .. q.len /\ UNCHANGED got
        <4>1. q.len <= got[q.data] /\ (Variant = "multi" => q.len = Size(q.data))
          BY <2>3, <3>1, <3>4 DEF WritesFound, KernelWrite, Running
        <4>2. got[q.data] \in Nat
          BY <2>1 DEF BatchTypes
        <4>3. QED
          BY <2>1, <3>2, <3>4, <4>1, <4>2, Environment
      <3>5. QED
        BY <1>6, <3>1, <3>3, <3>4 DEF Completes, EIO
    <2>10. Careful /\ WritesFound /\ WouldFind => WouldFind'
      BY <2>1, <2>2, <2>4, <2>6, <2>9, SameSetting DEF WouldFind
    <2>11. Careful /\ WritesFound /\ NoneJunk => NoneJunk'
      <3>1. SUFFICES ASSUME WritesFound, NoneJunk, NEW k \in Pos PROVE dest'[k] \in {Hole, k}
        BY DEF NoneJunk, Pos, Hole
      <3>2. CASE UNCHANGED dest
        BY <3>1, <3>2 DEF NoneJunk
      <3>3. CASE /\ KernelWrite(q) /\ r \in 0 .. q.len
                 /\ dest' = [x \in Pos |-> IF x >= q.data /\ x < q.data + r
                                           THEN IF x < q.data + got[q.data] THEN x ELSE Junk
                                           ELSE dest[x]]
        <4>1. q.len <= got[q.data] /\ got[q.data] \in Nat
          BY <2>1, <2>3, <3>1, <3>3 DEF WritesFound, KernelWrite, Running, BatchTypes
        <4>2. k < q.data + r => k < q.data + got[q.data]
          BY <2>1, <3>3, <4>1 DEF Pos
        <4>3. QED
          BY <3>1, <3>3, <4>2 DEF NoneJunk
      <3>4. QED
        BY <1>6, <3>2, <3>3 DEF Completes
    <2>12. QED
      BY <2>1, <2>7, <2>8, <2>10, <2>11, SameSetting DEF Lengths
  <1>7. QED
    BY <1>1, <1>2, <1>3, <1>4, <1>5, <1>6, Kinds
-----------------------------------------------------------------------------
(* Completeness.  A batch keeps count of its blocks: write_cqe_recv comes  *)
(* to its end only if no block was lost on the way.                        *)
Reliable == Faults \cap Unnoticed = {}

InBlock(p, k) == p <= k /\ k < p + Size(p)
Landed(p)     == \A k \in Pos : InBlock(p, k) => dest[k] = k
Covered       == \A k \in Pos : k < offset => dest[k] = k \/ \E p \in live : InBlock(p, k)

WriteData == {q.data : q \in {w \in BatchRequests : w.op = "write"}}
Pending   == live \ WriteData   \* blocks read_cqe_recv has not seen

Filling == /\ inflight = {} /\ cq = <<>> /\ \A q \in BatchRequests : q.op = "read"
           /\ Cardinality(live) = reads /\ Covered

ReadsComing == /\ \A q \in inflight : q.op = "read"
               /\ \A q \in sq : q.op = "write" => q.len = Size(q.data)
               /\ \A k \in DOMAIN cq : cq[k].res < 0 \/ cq[k].res = Size(cq[k].data)
               /\ Cardinality(Pending) = writes - i
               /\ Cardinality(live) <= writes
               /\ Cardinality(live) = writes => Covered

WritesComing == /\ \A q \in BatchRequests : q.op = "write" /\ q.len = Size(q.data)
                /\ \A k \in DOMAIN cq : cq[k].res >= 0 /\ Landed(cq[k].data)
                /\ Cardinality(live) <= writes - i
                /\ Cardinality(live) = writes - i => Covered

Progress ==
    Reliable => /\ pc = "main" => live = {}
                /\ pc = "fill" => Filling
                /\ pc = "read_recv" => ReadsComing
                /\ pc = "write_recv" => WritesComing
                /\ pc = "done" /\ ret = 0 => \A k \in Pos : dest[k] = k

(* Without blocks there is nothing under way. *)
LEMMA NothingLive ==
    ASSUME BatchTypes, Owned, live = {}
    PROVE  BatchRequests = {} /\ sq = {} /\ inflight = {} /\ cq = <<>>
  <1>1. BatchRequests = {} /\ DOMAIN cq = {}
    BY DEF Owned
  <1>2. cq = <<>>
    BY <1>1 DEF BatchTypes
  <1>3. QED
    BY <1>1, <1>2 DEF BatchRequests

(* Blocks whose reads fail, or come back short, are the only ones lost. *)
LEMMA PendingData ==
    ASSUME BatchTypes, Owned
    PROVE  /\ WriteData \subseteq live /\ IsFiniteSet(Pending) /\ Cardinality(Pending) \in Nat
           /\ Cardinality(live) \in Nat
           /\ \A q \in BatchRequests : q.op = "read" => q.data \in Pending
           /\ \A k \in DOMAIN cq : cq[k].data \in Pending
  <1>1. WriteData \subseteq live
    BY DEF Owned, WriteData
  <1>2. Pending \in SUBSET live
    BY DEF Pending
  <1>3. IsFiniteSet(Pending) /\ Cardinality(Pending) \in Nat /\ Cardinality(live) \in Nat
    BY <1>2, Finite, FS_Subset, FS_CardinalityType
  <1>4. ASSUME NEW q \in BatchRequests, q.op = "read" PROVE q.data \in Pending
    BY <1>4 DEF Owned, Pending, WriteData
  <1>5. ASSUME NEW k \in DOMAIN cq PROVE cq[k].data \in Pending
    BY DEF Owned, Pending, WriteData
  <1>6. QED
    BY <1>1, <1>3, <1>4, <1>5

LEMMA SameReliable ==
    ASSUME setting' = setting
    PROVE  (Reliable' <=> Reliable) /\ \A p, k : InBlock(p, k)' = InBlock(p, k)
  BY DEF Reliable, Faults, Unnoticed, InBlock, Size

LEMMA QuietProgress ==
    ASSUME BatchTypes, Place, Owned, Room, Progress, QuietStep, Quiet
    PROVE  Progress'
  <1> SUFFICES ASSUME Reliable
               PROVE  /\ pc' = "main" => live' = {}
                      /\ pc' = "fill" => Filling'
                      /\ pc' = "read_recv" => ReadsComing'
                      /\ pc' = "write_recv" => WritesComing'
                      /\ pc' = "done" /\ ret' = 0 => \A k \in Pos : dest'[k] = k
    BY SameReliable DEF Progress, Quiet, Pos
  <1>1. UNCHANGED <<setting, offset, live, got, sq, inflight, cq, dest>>
    BY DEF Quiet
  <1>2. BatchRequests' = BatchRequests /\ Pending' = Pending /\ Covered' = Covered
        /\ \A p : Landed(p)' = Landed(p)
    BY <1>1, SameReliable DEF BatchRequests, Pending, WriteData, Covered, Landed, Pos
  <1>3. CASE UNCHANGED vars
    <2>1. UNCHANGED <<pc, reads, writes, i, ret>>
      BY <1>3 DEF vars, local
    <2>2. Filling => Filling'
      BY <1>1, <1>2, <2>1 DEF Filling
    <2>3. ReadsComing => ReadsComing'
      BY <1>1, <1>2, <2>1 DEF ReadsComing, Size
    <2>4. WritesComing => WritesComing'
      BY <1>1, <1>2, <2>1 DEF WritesComing, Size
    <2>5. QED
      BY <1>1, <2>1, <2>2, <2>3, <2>4 DEF Progress
  <1>4. CASE MainStart
    <2>1. insize' = insize /\ insize = N /\ reads' = reads /\ pc = "main"
      BY <1>4, ConstantsAssumption DEF MainStart, Reliable, Unnoticed, Place, BatchTypes
    <2>2. live = {} /\ reads = 0 /\ offset = 0
      BY <2>1 DEF Progress, Room, Place
    <2>3. BatchRequests = {} /\ inflight = {} /\ cq = <<>> /\ Cardinality(live) = 0
      BY <2>2, NothingLive, FS_EmptySet
    <2>4. Covered
      BY <2>2 DEF Covered, Pos
    <2>5. Filling'
      BY <1>1, <1>2, <2>1, <2>2, <2>3, <2>4 DEF Filling
    <2>6. pc' \in {"fill", "done"} /\ (pc' = "done" => N <= 0)
      BY <1>4, <2>1, ConstantsAssumption DEF MainStart, Exit
    <2>7. QED
      BY <2>5, <2>6, ConstantsAssumption DEF Pos
  <1>5. CASE EndBatch
    <2>1. WritesComing /\ pc = "write_recv" /\ reads = 0
      BY <1>5 DEF EndBatch, Progress, Room
    <2>2. i = writes
      <3>1. "intr" \notin Faults
        BY DEF Reliable, Unnoticed
      <3>2. cq # <<>> => Head(cq).res >= 0 /\ Head(cq).res \in Int
        BY <2>1, Front DEF WritesComing
      <3>3. QED
        BY <1>5, <3>1, <3>2 DEF EndBatch, BatchOver, Receiving
    <2>3. Cardinality(live) = 0 /\ Covered
      BY <2>1, <2>2, PendingData DEF WritesComing, BatchTypes
    <2>4. live = {}
      BY <2>3, Finite, FS_EmptySet
    <2>5. Filling'
      <3>1. BatchRequests = {} /\ inflight = {} /\ cq = <<>>
        BY <2>4, NothingLive
      <3>2. reads' = reads
        BY <1>5 DEF EndBatch
      <3>3. QED
        BY <1>1, <1>2, <2>1, <2>3, <3>1, <3>2 DEF Filling
    <2>6. pc' \in {"fill", "done"} /\ (pc' = "done" => insize = 0)
      BY <1>5 DEF EndBatch, Exit
    <2>7. insize = 0 => \A k \in Pos : dest'[k] = k
      BY <1>1, <2>1, <2>3, <2>4, ConstantsAssumption DEF Covered, Place, Pos, BatchTypes
    <2>8. QED
      BY <2>5, <2>6, <2>7
  <1>6. CASE MainFail \/ NullDeref \/ SubmitWritesFails \/ ReadWaitFails
    BY <1>6 DEF MainFail, NullDeref, SubmitWritesFails, ReadWaitFails, Exit, SIGSEGV
  <1>7. QED
    BY <1>3, <1>4, <1>5, <1>6 DEF QuietStep, Terminated

LEMMA FreshProgress ==
    ASSUME BatchTypes, Place, Owned, Room, Progress, FreshStep, Fresh
    PROVE  Progress'
  <1> SUFFICES ASSUME Reliable
               PROVE  /\ pc' = "main" => live' = {}
                      /\ pc' = "fill" => Filling'
                      /\ pc' = "read_recv" => ReadsComing'
                      /\ pc' = "write_recv" => WritesComing'
                      /\ pc' = "done" /\ ret' = 0 => \A k \in Pos : dest'[k] = k
    BY SameReliable DEF Progress, Fresh, Pos
  <1>1. /\ pc = "fill" /\ live' = live \cup {offset} /\ offset' = offset + ThisSize
        /\ BatchRequests' = BatchRequests \cup {NewRead}
        /\ UNCHANGED <<setting, cq, dest>>
    BY DEF Fresh
  <1>2. /\ offset \in Pos /\ offset \notin live /\ ThisSize \in Nat /\ ThisSize = Size(offset)
        /\ NewRead.op = "read"
    BY NewReadType DEF Fresh
  <1>3. Filling
    BY <1>1 DEF Progress
  <1>4. Cardinality(live') = reads + 1
    BY <1>1, <1>2, <1>3, Finite, OneMore DEF Filling
  <1>5. Covered'
    <2> SUFFICES ASSUME NEW k \in Pos, k < offset + ThisSize
                 PROVE  dest[k] = k \/ \E p \in live' : InBlock(p, k)
      BY <1>1, SameReliable DEF Covered, Pos
    <2>1. CASE k < offset
      BY <1>1, <1>3, <2>1 DEF Filling, Covered
    <2>2. CASE ~(k < offset)
      BY <1>1, <1>2, <2>2 DEF InBlock, Pos
    <2>3. QED
      BY <2>1, <2>2
  <1>6. \A q \in BatchRequests' : q.op = "read"
    BY <1>1, <1>2, <1>3 DEF Filling
  <1>7. CASE QueueRead
    <2>1. pc' = "fill" /\ reads' = reads + 1 /\ inflight' = inflight
      BY <1>1, <1>7 DEF QueueRead
    <2>2. Filling'
      BY <1>1, <1>3, <1>4, <1>5, <1>6, <2>1 DEF Filling
    <2>3. QED
      BY <2>1, <2>2
  <1>8. CASE SubmitReads
    <2>1. pc' = "read_recv" /\ writes' = reads + 1 /\ i' = 0
      BY <1>8 DEF SubmitReads
    <2>2. \A q \in inflight' \cup sq' : q.op = "read"
      BY <1>6 DEF BatchRequests
    <2>3. Pending' = live'
      BY <1>6 DEF Pending, WriteData
    <2>4. reads \in Nat
      BY DEF BatchTypes
    <2>5. ReadsComing'
      BY <1>1, <1>3, <1>4, <1>5, <2>1, <2>2, <2>3, <2>4 DEF ReadsComing, Filling
    <2>6. QED
      BY <2>1, <2>5
  <1>9. CASE SubmitReadsFails
    BY <1>9 DEF SubmitReadsFails, Exit
  <1>10. QED
    BY <1>7, <1>8, <1>9 DEF FreshStep

LEMMA RequeueProgress ==
    ASSUME BatchTypes, Owned, Progress, Requeue
    PROVE  Progress'
  <1> SUFFICES ASSUME Reliable PROVE ReadsComing'
    BY SameReliable DEF Progress, Requeue, Pos
  <1> DEFINE p == Head(cq).data
  <1>1. /\ NewWrite.op = "write" /\ NewWrite.data = p /\ NewWrite.len = WriteLength(Head(cq))
        /\ p = cq[1].data /\ Head(cq) = cq[1] /\ 1 \in DOMAIN cq
        /\ cq[1].res >= 0 /\ cq[1].res \in Int
        /\ \A k \in DOMAIN Tail(cq) : k + 1 \in DOMAIN cq /\ Tail(cq)[k] = cq[k + 1]
    BY Front, NewWriteType DEF Requeue
  <1>2. /\ BatchRequests' = BatchRequests \cup {NewWrite} /\ sq' = sq \cup {NewWrite}
        /\ cq' = Tail(cq) /\ i' = i + 1
        /\ UNCHANGED <<setting, inflight, live, offset, dest, writes>>
    BY DEF Requeue, BatchRequests
  <1>3. ReadsComing
    BY DEF Progress, Requeue
  <1>4. NewWrite.len = Size(p)
    BY <1>1, <1>3 DEF ReadsComing, WriteLength
  <1> HIDE DEF p
  <1>5. p \in Pending
    BY <1>1, PendingData
  <1>6. Pending' = Pending \ {p}
    <2>1. WriteData' = WriteData \cup {p}
      BY <1>1, <1>2 DEF WriteData
    <2>2. QED
      BY <1>2, <2>1 DEF Pending
  <1>7. Cardinality(Pending') = writes' - i'
    BY <1>2, <1>3, <1>5, <1>6, PendingData, OneLess DEF ReadsComing, BatchTypes
  <1>8. Covered' <=> Covered
    BY <1>2, SameReliable DEF Covered, Pos
  <1>9. \A q \in sq' : q.op = "write" => q.len = Size(q.data)
    BY <1>1, <1>2, <1>3, <1>4 DEF ReadsComing
  <1>10. \A k \in DOMAIN cq' : cq'[k].res < 0 \/ cq'[k].res = Size(cq'[k].data)
    BY <1>1, <1>2, <1>3 DEF ReadsComing
  <1>11. QED
    BY <1>2, <1>3, <1>7, <1>8, <1>9, <1>10 DEF ReadsComing, Size

LEMMA ReleaseProgress ==
    ASSUME BatchTypes, Owned, Progress, Release
    PROVE  Progress'
  <1> SUFFICES ASSUME Reliable
               PROVE  /\ pc = "read_recv" => ReadsComing'
                      /\ pc = "write_recv" => WritesComing'
    BY SameReliable DEF Progress, Release, Pos
  <1> DEFINE p == Head(cq).data
  <1>1. /\ p = cq[1].data /\ Head(cq) = cq[1] /\ 1 \in DOMAIN cq
        /\ \A k \in DOMAIN Tail(cq) : k + 1 \in DOMAIN cq /\ Tail(cq)[k] = cq[k + 1]
    BY Front DEF Release
  <1>2. /\ BatchRequests' = BatchRequests /\ cq' = Tail(cq) /\ i' = i + 1
        /\ live' = live \ {p} /\ i < writes
        /\ UNCHANGED <<setting, sq, inflight, offset, dest, writes>>
    BY DEF Release, Free, BatchRequests
  <1> HIDE DEF p
  <1>3. p \in Pending /\ p \in live
    BY <1>1, PendingData DEF Pending
  <1>4. Pending' = Pending \ {p}
    BY <1>2, Zenon DEF Pending, WriteData
  <1>5. /\ Cardinality(Pending') = Cardinality(Pending) - 1
        /\ Cardinality(live') = Cardinality(live) - 1
        /\ Cardinality(Pending) \in Nat /\ Cardinality(live) \in Nat
        /\ writes \in Nat /\ i \in Nat
    BY <1>2, <1>3, <1>4, PendingData, Finite, OneLess DEF BatchTypes
  <1>6. ASSUME pc = "read_recv" PROVE ReadsComing'
    <2>1. ReadsComing
      BY <1>6 DEF Progress
    <2>2. Cardinality(live') < writes' /\ Cardinality(live') \in Int
      BY <1>2, <1>5, <2>1 DEF ReadsComing
    <2>3. Cardinality(Pending') = writes' - i'
      BY <1>2, <1>5, <2>1 DEF ReadsComing
    <2>4. /\ \A q \in sq' : q.op = "write" => q.len = Size(q.data)
          /\ \A k \in DOMAIN cq' : cq'[k].res < 0 \/ cq'[k].res = Size(cq'[k].data)
          /\ \A q \in inflight' : q.op = "read"
      BY <1>1, <1>2, <2>1 DEF ReadsComing
    <2>5. QED
      BY <1>2, <1>5, <2>2, <2>3, <2>4 DEF ReadsComing, Size
  <1>7. ASSUME pc = "write_recv" PROVE WritesComing'
    <2>1. WritesComing /\ Landed(p)
      BY <1>1, <1>7 DEF Progress, WritesComing
    <2>2. Covered => Covered'
      <3> SUFFICES ASSUME Covered, NEW k \in Pos, k < offset
                   PROVE  dest[k] = k \/ \E x \in live' : InBlock(x, k)
        BY <1>2, SameReliable DEF Covered, Pos
      <3>1. QED
        BY <1>2, <2>1 DEF Covered, Landed
    <2>3. /\ Cardinality(live') <= writes' - i'
          /\ Cardinality(live') = writes' - i' => Cardinality(live) = writes - i
      BY <1>2, <1>5, <2>1 DEF WritesComing
    <2>4. \A k \in DOMAIN cq' : cq'[k].res >= 0 /\ Landed(cq'[k].data)
      BY <1>1, <1>2, <2>1 DEF WritesComing
    <2>5. \A q \in BatchRequests' : q.op = "write" /\ q.len = Size(q.data)
      BY <1>2, <2>1 DEF WritesComing
    <2>6. \A k \in DOMAIN cq' : (cq[k].res >= 0 /\ Landed(cq[k].data))'
      BY <2>4, <1>2, SameReliable DEF Landed, Pos
    <2>7. QED
      BY <1>2, <2>1, <2>2, <2>3, <2>5, <2>6 DEF WritesComing, Size
  <1>8. QED
    BY <1>6, <1>7

LEMMA SubmitWritesProgress ==
    ASSUME BatchTypes, Owned, Progress, SubmitWrites
    PROVE  Progress'
  <1>0. /\ pc = "read_recv" /\ pc' = "write_recv" /\ i = writes /\ i' = 0
        /\ UNCHANGED <<setting, offset, writes, live, got, cq, dest>>
    BY DEF SubmitWrites, memory
  <1> SUFFICES ASSUME Reliable PROVE WritesComing'
    BY <1>0, SameReliable DEF Progress
  <1>1. BatchRequests' = BatchRequests
    BY Submitting DEF SubmitWrites, Owned, BatchRequests
  <1>2. ReadsComing
    BY <1>0 DEF Progress
  <1>3. Pending = {}
    <2>1. Cardinality(Pending) = 0
      BY <1>0, <1>2 DEF ReadsComing, BatchTypes
    <2>2. QED
      BY <2>1, PendingData, FS_EmptySet
  <1>4. \A q \in BatchRequests : q.op = "write" /\ q \in sq
    <2>1. \A q \in BatchRequests : q.op \in {"read", "write"}
      BY DEF BatchTypes, BatchRequests, Requests
    <2>2. \A q \in BatchRequests : q.op = "write"
      BY <1>3, <2>1, PendingData
    <2>3. QED
      BY <1>2, <2>2 DEF ReadsComing, BatchRequests
  <1>5. DOMAIN cq = {}
    BY <1>3, PendingData
  <1>6. \A q \in BatchRequests : q.len = Size(q.data)
    BY <1>2, <1>4 DEF ReadsComing
  <1>7. Covered' <=> Covered
    BY <1>0, SameReliable DEF Covered, Pos
  <1>8. writes \in Nat /\ Cardinality(live) \in Nat
    BY PendingData DEF BatchTypes
  <1>9. QED
    BY <1>0, <1>1, <1>2, <1>4, <1>5, <1>6, <1>7, <1>8 DEF WritesComing, ReadsComing, Size

LEMMA CompletesProgress ==
    ASSUME BatchTypes, Owned, Lengths, Progress,
           NEW q \in inflight, NEW r \in Int, Completes(q, r)
    PROVE  Progress'
  <1> DEFINE c == [data |-> q.data, res |-> r]
             n == Len(cq) + 1
  <1>1. /\ q.data \in Pos /\ q.len \in Nat /\ c \in Completions /\ c.data = q.data /\ c.res = r
        /\ inflight' = inflight \ {q} /\ cq' = Append(cq, c) /\ pc # "done"
        /\ UNCHANGED <<setting, pc, offset, writes, i, live, sq>>
    BY Posted DEF Completes
  <1> HIDE DEF c
  <1>2. DOMAIN cq' = DOMAIN cq \cup {n} /\ cq'[n] = c /\ \A k \in DOMAIN cq : cq'[k] = cq[k]
    BY <1>1, Behind
  <1> HIDE DEF n
  <1>3. BatchRequests' = BatchRequests \ {q} /\ q \in BatchRequests /\ q.data \in live
    BY <1>1 DEF Owned, BatchRequests
  <1> SUFFICES ASSUME Reliable
               PROVE  /\ pc = "read_recv" => ReadsComing'
                      /\ pc = "write_recv" => WritesComing'
    BY <1>1, <1>3, SameReliable DEF Progress, Filling, BatchTypes
  <1>4. Careful /\ Size(q.data) \in Nat
    BY <1>1, ConstantsAssumption DEF Reliable, Unnoticed, Careful, Size, Pos
  <1>5. Cardinality(live) \in Nat /\ writes \in Nat /\ i \in Nat
    BY PendingData DEF BatchTypes
  <1>6. ASSUME pc = "read_recv" PROVE ReadsComing'
    <2>1. ReadsComing /\ q.op = "read"
      BY <1>6 DEF Progress, ReadsComing
    <2>2. r < 0 \/ r = Size(q.data)
      <3>1. q.len = Size(q.data) /\ "short_read" \notin Faults
        BY <1>3, <2>1 DEF Lengths, ReadsWhole, Reliable, Unnoticed
      <3>2. ~KernelWrite(q)
        BY <2>1 DEF KernelWrite, Running
      <3>3. QED
        BY <3>1, <3>2 DEF Completes, EIO
    <2>3. UNCHANGED dest
      BY <2>1 DEF Completes, KernelWrite, Running
    <2>4. Pending' = Pending
      <3>1. WriteData' = WriteData
        BY <1>3, <2>1 DEF WriteData
      <3>2. QED
        BY <1>1, <3>1 DEF Pending
    <2>5. Covered' <=> Covered
      BY <1>1, <2>3, SameReliable DEF Covered, Pos
    <2>6. \A k \in DOMAIN cq' : cq'[k].res < 0 \/ cq'[k].res = Size(cq'[k].data)
      BY <1>1, <1>2, <2>1, <2>2 DEF ReadsComing
    <2>7. QED
      BY <1>1, <2>1, <2>4, <2>5, <2>6 DEF ReadsComing, Size
  <1>7. ASSUME pc = "write_recv" PROVE WritesComing'
    <2>1. WritesComing /\ q.op = "write" /\ q.len = Size(q.data)
      BY <1>3, <1>7 DEF Progress, WritesComing
    <2>2. q.len <= got[q.data] /\ got[q.data] \in Nat
      BY <1>1, <1>3, <1>4, <2>1 DEF Lengths, WritesFound, BatchTypes
    <2>3. /\ KernelWrite(q) /\ r = q.len
          /\ dest' = [k \in Pos |-> IF k >= q.data /\ k < q.data + r
                                    THEN IF k < q.data + got[q.data] THEN k ELSE Junk
                                    ELSE dest[k]]
      <3>1. ~KernelRead(q) /\ ~KernelError(q)
        BY <2>1 DEF KernelRead, KernelError, Running, Reliable, Unnoticed
      <3>2. QED
        BY <3>1 DEF Completes, Reliable, Unnoticed
    <2>4. \A k \in Pos : dest'[k] = IF InBlock(q.data, k) THEN k ELSE dest[k]
      BY <1>1, <2>1, <2>2, <2>3 DEF InBlock, Pos
    <2>5. \A k \in Pos : dest[k] = k => dest'[k] = k
      BY <2>4
    <2>6. \A k \in DOMAIN cq' : (cq[k].res >= 0 /\ Landed(cq[k].data))'
      <3>1. ASSUME NEW k \in DOMAIN cq
            PROVE  cq'[k].res >= 0 /\ \A x \in Pos : InBlock(cq'[k].data, x) => dest'[x] = x
        BY <1>2, <2>1, <2>5 DEF WritesComing, Landed
      <3>2. cq'[n].res >= 0 /\ \A x \in Pos : InBlock(cq'[n].data, x) => dest'[x] = x
        BY <1>1, <1>2, <1>4, <2>1, <2>3, <2>4
      <3>3. ASSUME NEW k \in DOMAIN cq'
            PROVE  cq'[k].res >= 0 /\ \A x \in Pos : InBlock(cq'[k].data, x) => dest'[x] = x
        BY <1>2, <3>1, <3>2
      <3>4. QED
        BY <3>3 DEF Landed, InBlock, Size, Pos
    <2>7. Covered => Covered'
      <3> SUFFICES ASSUME Covered, NEW k \in Pos, k < offset
                   PROVE  dest'[k] = k \/ \E x \in live : InBlock(x, k)
        BY <1>1, SameReliable DEF Covered, Pos
      <3>1. QED
        BY <2>5 DEF Covered
    <2>8. \A s \in BatchRequests' : s.op = "write" /\ s.len = Size(s.data)
      BY <1>3, <2>1 DEF WritesComing
    <2>9. QED
      BY <1>1, <2>1, <2>6, <2>7, <2>8 DEF WritesComing, Size
  <1>8. QED
    BY <1>6, <1>7

-----------------------------------------------------------------------------
BatchInv == BatchTypes /\ Place /\ Owned /\ Room /\ Lengths /\ Progress

LEMMA BatchStep == ASSUME BatchInv, [Next]_vars PROVE BatchInv'
  <1>1. BatchTypes /\ Place /\ Owned /\ Room /\ Lengths /\ Progress
    BY DEF BatchInv
  <1>2. BatchTypes' /\ Place' /\ Owned' /\ Room' /\ Lengths'
    BY <1>1, TypesStep, PlaceStep, OwnedStep, RoomStep, LengthsStep
  <1>3. Progress'
    BY <1>1, Kinds, QuietProgress, FreshProgress, RequeueProgress, ReleaseProgress,
       SubmitWritesProgress, CompletesProgress
  <1>4. QED
    BY <1>2, <1>3 DEF BatchInv

LEMMA BatchStart == ASSUME Init PROVE BatchInv
  <1>1. BatchTypes
    BY ConstantsAssumption DEF Init, BatchTypes, Hole
  <1>2. Place
    BY ConstantsAssumption DEF Init, Place
  <1>3. Owned
    BY DEF Init, Owned, BatchRequests
  <1>4. Room
    BY FS_EmptySet DEF Init, Room, SqeAvailable, SIGSEGV
  <1>5. Lengths
    BY DEF Init, Lengths, ReadsWhole, WritesFound, WouldFind, NoneJunk, BatchRequests
  <1>6. Progress
    BY DEF Init, Progress
  <1>7. QED
    BY <1>1, <1>2, <1>3, <1>4, <1>5, <1>6 DEF BatchInv

LEMMA BatchInvHolds == Spec => []BatchInv
  BY BatchStart, BatchStep, PTL DEF Spec

(* Whatever fails, whatever the sizes of file, block and ring, and however *)
(* the leftovers of an abandoned batch come back: a block is in exactly    *)
(* one request or one completion from its malloc to its free.              *)
THEOREM BlockOwnershipHolds == Spec => []BlockOwnership
  <1>1. BatchInv => BlockOwnership
    BY OwnedRight DEF BatchInv
  <1>2. QED
    BY <1>1, BatchInvHolds, PTL

(* io_uring_get_sqe, used unchecked, never returns NULL for any depth of   *)
(* the ring, as long as every submission is taken whole.                   *)
THEOREM SqeAvailableHolds == Spec => []SqeAvailable
  <1>1. BatchInv => SqeAvailable
    BY DEF BatchInv, Room
  <1>2. QED
    BY <1>1, BatchInvHolds, PTL

(* Nothing but the source's bytes reaches the destination, although a      *)
(* completion of an abandoned batch may be taken for one of the next.      *)
THEOREM NoJunkHolds == Spec => []NoJunk
  <1>1. BatchInv => NoJunk
    BY DEF BatchInv, Lengths, Careful, NoneJunk, NoJunk
  <1>2. QED
    BY <1>1, BatchInvHolds, PTL

(* What the invariant says at the end: a batch program that ends with 0    *)
(* has copied every byte, unless a failure it does not notice can happen.  *)
LEMMA BatchComplete == ASSUME BatchInv PROVE CopyComplete
  BY DEF BatchInv, Progress, Reliable, CopyComplete

-----------------------------------------------------------------------------
(* normal.c is a FileCopy, up to the end that overlooks a failing fclose.  *)
(* What is read is what was handed to fwrite, but for the piece in         *)
(* between; the file is at its end when fread returns nothing and no       *)
(* error; stdio holds back no more than its buffer.                        *)
NormalInv ==
    /\ rd \in Nat /\ rd <= MaxSize /\ wr \in Nat /\ flushed \in Nat /\ bytes_read \in Nat
    /\ flushed <= wr /\ wr <= rd
    /\ n_pc \in {"main", "read", "write", "close", "exit", "done"} /\ n_status \in {0, 1}
    /\ n_pc = "write" => rd = wr + bytes_read
    /\ n_pc \in {"main", "read", "close"} => rd = wr
    /\ n_pc = "close" /\ ~error => rd = MaxSize
    /\ n_pc \in {"main", "read", "write", "close"} => wr - flushed <= StdioSize
    /\ n_pc \in {"exit", "done"} /\ n_status = 0 =>
          flushed = MaxSize \/ ("close" \in n_faults /\ MaxSize - flushed <= StdioSize)

LEMMA NormalStep == ASSUME NormalInv, [NC!Next]_(NC!vars) PROVE NormalInv'
  <1> USE SizesAssumption DEF NormalInv
  <1>1. CASE UNCHANGED NC!vars
    BY <1>1 DEF NC!vars
  <1>2. CASE NC!MainFail \/ NC!MainStart
    BY <1>2 DEF NC!MainFail, NC!MainStart
  <1>3. CASE NC!Read
    BY <1>3, SizesAssumption, ConstantsAssumption DEF NC!Read, NC!Least
  <1>4. CASE NC!Write
    BY <1>4 DEF NC!Write
  <1>5. CASE NC!WriteFails
    BY <1>5 DEF NC!WriteFails
  <1>6. CASE NC!Close
    BY <1>6 DEF NC!Close
  <1>7. CASE NC!Exit \/ NC!Terminated
    BY <1>7 DEF NC!Exit, NC!Terminated, NC!vars
  <1>8. QED
    BY <1>1, <1>2, <1>3, <1>4, <1>5, <1>6, <1>7 DEF NC!Next

(* A longer prefix is a delivery, the end a success, a failure, or the     *)
(* success that overlooks one.                                             *)
LEMMA NormalRefines ==
    ASSUME NormalInv, NormalInv', [NC!Next]_(NC!vars)
    PROVE  [NC!Copy!Next \/ NC!Overlooked]_<<NC!Dest, NC!Result>>
  <1>0. MaxSize \in Nat
    BY SizesAssumption
  <1>1. CASE UNCHANGED <<flushed, n_pc, n_status>>
    BY <1>1 DEF NC!Dest, NC!Result
  <1>2. CASE n_pc # "done" /\ n_pc' # "done"
    <2> DEFINE S == {k \in 0 .. MaxSize - 1 : k < flushed'}
    <2>1. flushed \in Nat /\ flushed' \in Nat /\ flushed <= flushed'
      <3> USE DEF NormalInv
      <3>1. CASE NC!Write
        BY <3>1 DEF NC!Write
      <3>2. CASE NC!WriteFails
        BY <3>2 DEF NC!WriteFails
      <3>3. CASE NC!Close
        BY <3>3 DEF NC!Close
      <3>4. CASE UNCHANGED flushed
        BY <3>4
      <3>5. QED
        BY <3>1, <3>2, <3>3, <3>4
           DEF NC!Next, NC!vars, NC!MainFail, NC!MainStart, NC!Read, NC!Exit, NC!Terminated
    <2>2. S \in SUBSET NC!Copy!Pos
      BY DEF NC!Copy!Pos
    <2>3. NC!Copy!Deliver(S)
      BY <1>0, <1>2, <2>1 DEF NC!Copy!Deliver, NC!Copy!Pos, NC!Dest, NC!Result
    <2> HIDE DEF S
    <2>4. QED
      BY <2>2, <2>3 DEF NC!Copy!Next
  <1>3. CASE n_pc # "done" /\ n_pc' = "done"
    <2>1. UNCHANGED <<flushed, n_faults>>
      BY <1>3 DEF NormalInv, NC!Next, NC!vars, NC!MainFail, NC!MainStart, NC!Read, NC!Write,
                  NC!WriteFails, NC!Close, NC!Exit, NC!Terminated
    <2>a. CASE n_status' = 0 /\ flushed # MaxSize
      <3>1. "close" \in n_faults /\ MaxSize - flushed <= StdioSize
        BY <1>3, <2>1, <2>a DEF NormalInv
      <3> QED
        BY <1>3, <2>1, <2>a, <3>1 DEF NC!Overlooked, NC!Dest, NC!Result
    <2>2. CASE n_status' = 0 /\ flushed = MaxSize
      <3>1. flushed = MaxSize
        BY <2>2
      <3>2. NC!Copy!Succeed
        BY <1>0, <1>3, <2>1, <2>2, <3>1 DEF NC!Copy!Succeed, NC!Copy!Pos, NC!Dest, NC!Result
      <3>3. QED
        BY <3>2 DEF NC!Copy!Next
    <2>3. CASE n_status' # 0
      <3>1. NC!Copy!Fail
        BY <1>3, <2>1, <2>3 DEF NC!Copy!Fail, NC!Dest, NC!Result
      <3>2. QED
        BY <3>1 DEF NC!Copy!Next
    <2>4. QED
      BY <2>2, <2>3, <2>a
  <1>4. n_pc = "done" => UNCHANGED <<flushed, n_pc, n_status>>
    BY DEF NC!Next, NC!vars, NC!MainFail, NC!MainStart, NC!Read, NC!Write,
           NC!WriteFails, NC!Close, NC!Exit, NC!Terminated
  <1>5. QED
    BY <1>1, <1>2, <1>3, <1>4

(* sendfile/copy.c is a FileCopy, up to the end that overlooks a short     *)
(* transfer.                                                               *)
SendInv == /\ written \in 0 .. MaxSize /\ bytes_sent \in Int
           /\ s_pc \in {"open", "sendfile"} => written = 0
           /\ s_pc \in {"print", "done"} /\ bytes_sent # -1 =>
                 bytes_sent = written /\ (written = MaxSize \/ "short" \in s_faults)
           /\ s_pc = "done" /\ s_status = 0 => bytes_sent # -1

LEMMA SendStep == ASSUME SendInv, [SF!Next]_(SF!vars) PROVE SendInv'
  <1> USE SizesAssumption DEF SendInv
  <1>1. CASE UNCHANGED SF!vars
    BY <1>1 DEF SF!vars
  <1>2. CASE SF!Open
    BY <1>2 DEF SF!Open
  <1>3. CASE SF!Sendfile
    BY <1>3 DEF SF!Sendfile
  <1>4. CASE SF!SendfileFails
    BY <1>4 DEF SF!SendfileFails
  <1>5. CASE SF!Finish
    BY <1>5 DEF SF!Finish
  <1>6. CASE SF!Terminated
    BY <1>6 DEF SF!Terminated, SF!vars
  <1>7. QED
    BY <1>1, <1>2, <1>3, <1>4, <1>5, <1>6 DEF SF!Next

LEMMA SendRefines ==
    ASSUME SendInv, SendInv', [SF!Next]_(SF!vars)
    PROVE  [SF!Copy!Next \/ SF!Overlooked]_<<SF!Dest, SF!Result>>
  <1>0. MaxSize \in Nat
    BY SizesAssumption
  <1>1. CASE UNCHANGED <<written, s_pc, s_status, bytes_sent>>
    BY <1>1 DEF SF!Dest, SF!Result
  <1>2. CASE s_pc # "done" /\ s_pc' # "done"
    <2> DEFINE S == {k \in 0 .. MaxSize - 1 : k < written'}
    <2>1. written \in Nat /\ written' \in Nat /\ written <= written'
      <3>1. written \in Nat /\ written' \in Nat
        BY <1>0 DEF SendInv
      <3>2. CASE SF!Sendfile
        BY <3>1, <3>2 DEF SF!Sendfile, SendInv
      <3>3. CASE UNCHANGED written
        BY <3>1, <3>3
      <3>4. QED
        BY <3>1, <3>2, <3>3
           DEF SF!Next, SF!vars, SF!Open, SF!SendfileFails, SF!Finish, SF!Terminated
    <2>2. S \in SUBSET SF!Copy!Pos
      BY DEF SF!Copy!Pos
    <2>3. SF!Copy!Deliver(S)
      BY <1>0, <1>2, <2>1 DEF SF!Copy!Deliver, SF!Copy!Pos, SF!Dest, SF!Result
    <2> HIDE DEF S
    <2>4. QED
      BY <2>2, <2>3 DEF SF!Copy!Next
  <1>3. CASE s_pc # "done" /\ s_pc' = "done"
    <2>1. UNCHANGED <<written, bytes_sent, s_faults>>
      BY <1>3 DEF SF!Next, SF!vars, SF!Open, SF!Sendfile, SF!SendfileFails, SF!Finish,
                  SF!Terminated
    <2>a. CASE s_status' = 0 /\ written # MaxSize
      <3>1. "short" \in s_faults /\ bytes_sent = written /\ written < MaxSize
        BY <1>0, <1>3, <2>1, <2>a DEF SendInv
      <3> QED
        BY <1>3, <2>1, <2>a, <3>1 DEF SF!Overlooked, SF!Dest, SF!Result
    <2>2. CASE s_status' = 0 /\ written = MaxSize
      <3>1. written = MaxSize
        BY <2>2
      <3>2. SF!Copy!Succeed
        BY <1>0, <1>3, <2>1, <2>2, <3>1 DEF SF!Copy!Succeed, SF!Copy!Pos, SF!Dest, SF!Result
      <3>3. QED
        BY <3>2 DEF SF!Copy!Next
    <2>3. CASE s_status' # 0
      <3>1. SF!Copy!Fail
        BY <1>3, <2>1, <2>3 DEF SF!Copy!Fail, SF!Dest, SF!Result
      <3>2. QED
        BY <3>1 DEF SF!Copy!Next
    <2>4. QED
      BY <2>2, <2>3, <2>a
  <1>4. s_pc = "done" => UNCHANGED <<written, s_pc, s_status, bytes_sent>>
    BY DEF SF!Next, SF!vars, SF!Open, SF!Sendfile, SF!SendfileFails, SF!Finish, SF!Terminated
  <1>5. QED
    BY <1>1, <1>2, <1>3, <1>4

-----------------------------------------------------------------------------
(* file_uring: the blocks that were appended, and what a run without fault *)
(* and with room for every read has done at each point.  Every block but   *)
(* the last one is full, which gives the length of the destination.        *)
UringReliable == u_faults = {} /\ size < RingDepth * BUF_SIZE

Appended == {k \in 0 .. index - 1 : k \notin u_inflight /\ \A c \in u_cq : c.data # k}

LastSize == size - (index - 1) * BUF_SIZE

UringQueueing ==
    /\ index * BUF_SIZE <= size
    /\ u_pc = "queue" => file_sz = size

UringReaping ==
    /\ u_ret = index
    /\ \A c \in u_cq : c.data \in 0 .. index - 1 /\ c.res = FU!Size(c.data)
    /\ \A c \in u_cq : c.data \notin u_inflight
    /\ \A c, d \in u_cq : c.data = d.data => c = d
    /\ u_inflight \subseteq 0 .. index - 1
    /\ j = Cardinality(Appended)
    /\ Len(u_dest) = IF index - 1 \in Appended THEN (j - 1) * BUF_SIZE + LastSize ELSE j * BUF_SIZE
    /\ \A k \in Appended : \A y \in 0 .. FU!Size(k) - 1 :
          \E x \in DOMAIN u_dest : u_dest[x] = k * BUF_SIZE + y

UringInv ==
    /\ size \in Nat /\ index \in Nat
    /\ u_pc \in {"main", "queue", "submit", "reap", "done"}
    /\ UringReliable =>
         /\ j \in Nat /\ u_dest \in Seq(Int)
         /\ u_pc \in {"main", "queue"} => UringQueueing
         /\ u_pc \in {"main", "queue", "submit"} =>
               /\ u_sq = 0 .. index - 1 /\ u_inflight = {} /\ u_cq = {}
               /\ j = 0 /\ u_dest = <<>> /\ u_status = 0
         /\ u_pc \in {"submit", "reap"} => /\ index > 0 /\ (index - 1) * BUF_SIZE <= size
                                           /\ size < index * BUF_SIZE
         /\ u_pc = "reap" => UringReaping
         /\ FU!AllBytes

(* Facts of arithmetic about blocks. *)
LEMMA BlockSizes ==
    ASSUME size \in Nat, index \in Nat \ {0}, (index - 1) * BUF_SIZE <= size, size < index * BUF_SIZE,
           NEW k \in 0 .. index - 1
    PROVE  /\ FU!Size(k) \in 0 .. BUF_SIZE
           /\ FU!Size(k) = IF k = index - 1 THEN LastSize ELSE BUF_SIZE
  <1>1. BUF_SIZE \in Nat /\ BUF_SIZE > 0 /\ k \in Nat
    BY ConstantsAssumption
  <1>2. CASE k = index - 1
    <2>1. index * BUF_SIZE = (index - 1) * BUF_SIZE + BUF_SIZE
      BY <1>1
    <2> DEFINE m == (index - 1) * BUF_SIZE
    <2>2. m \in Nat /\ m <= size /\ size < m + BUF_SIZE /\ FU!Size(k) = IF size - m < BUF_SIZE THEN size - m ELSE BUF_SIZE
      BY <1>1, <1>2, <2>1 DEF FU!Size
    <2>3. LastSize = size - m
      BY DEF LastSize
    <2> HIDE DEF m
    <2> QED
      BY <1>1, <1>2, <2>2, <2>3
  <1>3. CASE k # index - 1
    <2>1. k * BUF_SIZE + BUF_SIZE = (k + 1) * BUF_SIZE /\ k + 1 <= index - 1
      BY <1>1, <1>3
    <2>2. (k + 1) * BUF_SIZE <= (index - 1) * BUF_SIZE
      <3>1. \A a, b, n \in Nat : a <= b => a * n <= b * n
        OBVIOUS
      <3>2. k + 1 \in Nat /\ index - 1 \in Nat
        BY <1>1
      <3> QED
        BY <1>1, <2>1, <3>1, <3>2
    <2> DEFINE m == k * BUF_SIZE
               w == (index - 1) * BUF_SIZE
    <2>3. m \in Nat /\ w \in Nat /\ m + BUF_SIZE <= w /\ w <= size
      BY <1>1, <2>1, <2>2
    <2>4. FU!Size(k) = IF size - m < BUF_SIZE THEN size - m ELSE BUF_SIZE
      BY DEF FU!Size
    <2> HIDE DEF m, w
    <2> QED
      BY <1>1, <1>3, <2>3, <2>4
  <1> QED
    BY <1>2, <1>3

LEMMA BlockOf ==
    ASSUME size \in Nat, index \in Nat \ {0}, (index - 1) * BUF_SIZE <= size, size < index * BUF_SIZE,
           NEW b \in 0 .. size - 1
    PROVE  \E k \in 0 .. index - 1 : \E y \in 0 .. FU!Size(k) - 1 : b = k * BUF_SIZE + y
  <1>1. BUF_SIZE \in Nat /\ BUF_SIZE > 0 /\ b \in Nat
    BY ConstantsAssumption
  <1>2. PICK k, y \in Nat : b = k * BUF_SIZE + y /\ y < BUF_SIZE
    <2>1. \A a, n \in Int : n > 0 => /\ a = n * (a \div n) + (a % n)
                                     /\ 0 <= a % n /\ a % n < n /\ a \div n \in Int
      OBVIOUS
    <2> DEFINE k == b \div BUF_SIZE
               y == b % BUF_SIZE
    <2>2. b = BUF_SIZE * k + y /\ 0 <= y /\ y < BUF_SIZE /\ k \in Int /\ y \in Int
      BY <1>1, <2>1
    <2> HIDE DEF k, y
    <2>3. k >= 0
      <3>1. k < 0 => BUF_SIZE * k <= -BUF_SIZE
        BY <1>1, <2>2
      <3> QED
        BY <1>1, <2>2, <3>1
    <2>4. BUF_SIZE * k = k * BUF_SIZE
      BY <1>1, <2>2
    <2> QED
      BY <2>2, <2>3, <2>4
  <1>3. k < index
    <2>1. \A a, d, n \in Nat : a <= d => a * n <= d * n
      OBVIOUS
    <2>2. ~(index <= k)
      <3> SUFFICES ASSUME index <= k PROVE FALSE
        OBVIOUS
      <3>1. index * BUF_SIZE <= k * BUF_SIZE
        BY <1>1, <2>1
      <3> DEFINE m == index * BUF_SIZE
                 w == k * BUF_SIZE
      <3>2. m \in Nat /\ w \in Nat /\ m <= w /\ size < m /\ b = w + y
        BY <1>1, <1>2, <3>1
      <3> HIDE DEF m, w
      <3> QED
        BY <3>2
    <2> QED
      BY <2>2
  <1>4. k \in 0 .. index - 1
    BY <1>3
  <1>5. y < FU!Size(k)
    <2> DEFINE m == k * BUF_SIZE
    <2>1. m \in Nat /\ FU!Size(k) = (IF size - m < BUF_SIZE THEN size - m ELSE BUF_SIZE) /\ b = m + y
      BY <1>1, <1>2 DEF FU!Size
    <2> HIDE DEF m
    <2> QED
      BY <1>1, <1>2, <2>1
  <1>6. FU!Size(k) \in Int
    BY <1>4, BlockSizes, ConstantsAssumption
  <1> QED
    BY <1>2, <1>4, <1>5, <1>6

(* Appending the block of a completion. *)
LEMMA UringWrite ==
    ASSUME UringInv, UringReliable, u_pc = "reap", NEW c \in u_cq, FU!Write(c)
    PROVE  UringReaping' /\ j' \in Nat /\ u_dest' \in Seq(Int)
  <1>1. /\ UringReaping /\ index \in Nat /\ index > 0 /\ size \in Nat
        /\ (index - 1) * BUF_SIZE <= size /\ size < index * BUF_SIZE
    BY DEF UringInv
  <1>0. j \in Nat /\ u_dest \in Seq(Int) /\ BUF_SIZE \in Nat
    BY ConstantsAssumption DEF UringInv
  <1>2. PICK k : k = c.data
    OBVIOUS
  <1>3. k \in 0 .. index - 1 /\ c.res = FU!Size(k) /\ k \notin Appended /\ k \notin u_inflight
    BY <1>1, <1>2 DEF UringReaping, Appended
  <1>4. PICK n : n = FU!Size(k)
    OBVIOUS
  <1>5. n \in Nat
    BY <1>1, <1>3, <1>4, BlockSizes, ConstantsAssumption
  <1>a. n = IF k = index - 1 THEN LastSize ELSE BUF_SIZE
    BY <1>1, <1>3, <1>4, BlockSizes
  <1>6. /\ u_dest' = u_dest \o FU!Bytes(k, n) /\ u_cq' = u_cq \ {c} /\ j' = j + 1
        /\ UNCHANGED <<size, u_faults, index, u_ret, u_inflight>>
    BY <1>2, <1>3, <1>4 DEF FU!Write, FU!given, UringReliable
  <1>7. PICK m : m = k * BUF_SIZE
    OBVIOUS
  <1>8. m \in Nat
    BY <1>0, <1>3, <1>7
  <1>9. /\ FU!Bytes(k, n) \in Seq(Int) /\ Len(FU!Bytes(k, n)) = n
        /\ \A x \in 1 .. n : FU!Bytes(k, n)[x] = m + x - 1
    <2> DEFINE B(x) == m + x - 1
    <2>1. FU!Bytes(k, n) = [x \in 1 .. n |-> B(x)]
      BY <1>7 DEF FU!Bytes
    <2>2. \A x \in 1 .. n : B(x) \in Int
      BY <1>8
    <2> HIDE DEF B
    <2>3. /\ FU!Bytes(k, n) \in Seq(Int) /\ Len(FU!Bytes(k, n)) = n
          /\ \A x \in 1 .. n : FU!Bytes(k, n)[x] = B(x)
      BY <1>5, <2>1, <2>2
    <2> QED
      BY <2>3 DEF B
  <1>10. /\ u_dest' \in Seq(Int) /\ Len(u_dest') = Len(u_dest) + n
         /\ \A x \in 1 .. Len(u_dest) : u_dest'[x] = u_dest[x]
         /\ \A x \in 1 .. n : u_dest'[Len(u_dest) + x] = m + x - 1
    <2>1. PICK s : s = FU!Bytes(k, n)
      OBVIOUS
    <2>2. s \in Seq(Int) /\ Len(s) = n /\ u_dest' = u_dest \o s /\ u_dest \in Seq(Int)
      BY <1>0, <1>6, <1>9, <2>1
    <2>3. PICK e, h : e = u_dest /\ h = Len(e)
      <3>1. PICK e : e = u_dest
        OBVIOUS
      <3> QED
        BY <3>1
    <2>4. /\ e \o s \in Seq(Int) /\ Len(e \o s) = h + n
          /\ \A x \in 1 .. h : (e \o s)[x] = e[x]
          /\ \A x \in 1 .. n : (e \o s)[h + x] = s[x]
      <3>1. e \in Seq(Int) /\ Len(e) = h /\ s \in Seq(Int) /\ Len(s) = n /\ h \in Nat /\ n \in Nat
        BY <1>5, <2>2, <2>3
      <3> QED
        BY <3>1
    <2> QED
      BY <1>9, <2>1, <2>2, <2>3, <2>4
  <1>11. \A d \in u_cq : d # c => d.data # k
    BY <1>1, <1>2 DEF UringReaping
  <1>12. Appended' = Appended \cup {k}
    <2>1. \A x \in 0 .. index - 1 : (\A d \in u_cq' : d.data # x) <=> x = k \/ \A d \in u_cq : d.data # x
      BY <1>2, <1>6, <1>11
    <2> QED
      BY <1>3, <1>6, <2>1 DEF Appended
  <1>13. Cardinality(Appended') = Cardinality(Appended) + 1
    <2>1. Appended \in SUBSET (0 .. index - 1) /\ IsFiniteSet(0 .. index - 1)
      BY <1>1, FS_Interval DEF Appended
    <2>2. IsFiniteSet(Appended)
      BY <2>1, FS_Subset
    <2> QED
      BY <1>3, <1>12, <2>2, FS_AddElement
  <1>14. Len(u_dest') = IF index - 1 \in Appended' THEN (j' - 1) * BUF_SIZE + LastSize ELSE j' * BUF_SIZE
    <2>1. j' * BUF_SIZE = j * BUF_SIZE + BUF_SIZE /\ (j' - 1) * BUF_SIZE = j * BUF_SIZE
      BY <1>0, <1>6
    <2>2. j > 0 => j * BUF_SIZE = (j - 1) * BUF_SIZE + BUF_SIZE
      BY <1>0
    <2>3. index - 1 \in Appended => j > 0
      <3>1. Cardinality(Appended) \in Nat /\ (Cardinality(Appended) = 0 => Appended = {})
        <4>1. Appended \in SUBSET (0 .. index - 1) /\ IsFiniteSet(0 .. index - 1)
          BY <1>1, FS_Interval DEF Appended
        <4> QED
          BY <4>1, FS_Subset, FS_EmptySet, FS_CardinalityType
      <3> QED
        BY <1>1, <3>1 DEF UringReaping
    <2> DEFINE v == j * BUF_SIZE
               w == (j - 1) * BUF_SIZE
    <2>4. /\ v \in Int /\ w \in Int /\ LastSize \in Int /\ Len(u_dest) \in Int
          /\ Len(u_dest) = IF index - 1 \in Appended THEN w + LastSize ELSE v
          /\ index - 1 \in Appended => v = w + BUF_SIZE
      BY <1>0, <1>1, <2>2, <2>3 DEF UringReaping, LastSize
    <2>5. j' * BUF_SIZE = v + BUF_SIZE /\ (j' - 1) * BUF_SIZE = v
      BY <2>1
    <2> HIDE DEF v, w
    <2>6. CASE k = index - 1
      BY <1>3, <1>a, <1>10, <1>12, <2>4, <2>5, <2>6
    <2>7. CASE k # index - 1
      <3>1. n = BUF_SIZE /\ (index - 1 \in Appended' <=> index - 1 \in Appended)
        BY <1>a, <1>12, <2>7
      <3> QED
        BY <1>0, <1>10, <2>4, <2>5, <3>1
    <2> QED
      BY <2>6, <2>7
  <1>15. ASSUME NEW l \in Appended', NEW y \in 0 .. FU!Size(l) - 1
         PROVE  \E x \in DOMAIN u_dest' : u_dest'[x] = l * BUF_SIZE + y
    <2>1. DOMAIN u_dest = 1 .. Len(u_dest) /\ DOMAIN u_dest' = 1 .. Len(u_dest) + n /\ Len(u_dest) \in Nat
      BY <1>0, <1>10
    <2>2. CASE l = k
      <3>1. y + 1 \in 1 .. n /\ y \in Int
        BY <1>4, <1>5, <2>2
      <3>2. u_dest'[Len(u_dest) + (y + 1)] = m + (y + 1) - 1
        BY <1>10, <3>1
      <3>3. Len(u_dest) + (y + 1) \in DOMAIN u_dest'
        BY <1>5, <2>1, <3>1
      <3>4. m + (y + 1) - 1 = l * BUF_SIZE + y
        BY <1>7, <1>8, <2>2, <3>1
      <3> QED
        BY <3>2, <3>3, <3>4
    <2>3. CASE l # k
      <3>1. l \in Appended
        BY <1>12, <2>3
      <3>2. PICK x \in DOMAIN u_dest : u_dest[x] = l * BUF_SIZE + y
        BY <1>1, <3>1 DEF UringReaping
      <3>3. x \in DOMAIN u_dest' /\ u_dest'[x] = u_dest[x]
        BY <1>5, <1>10, <2>1
      <3> QED
        BY <3>2, <3>3
    <2> QED
      BY <2>2, <2>3
  <1>17. LastSize' = LastSize /\ j' = Cardinality(Appended')
    BY <1>1, <1>6, <1>13 DEF LastSize, UringReaping
  <1>18. /\ u_ret' = index' /\ u_inflight' \subseteq 0 .. index' - 1
         /\ \A d \in u_cq' : d.data \in 0 .. index' - 1 /\ d.data \notin u_inflight'
         /\ \A d, e \in u_cq' : d.data = e.data => d = e
    BY <1>1, <1>6 DEF UringReaping
  <1>19. (\A d \in u_cq : d.res = FU!Size(d.data))'
    BY <1>1, <1>6 DEF UringReaping, FU!Size
  <1>20. (\A l \in Appended : \A y \in 0 .. FU!Size(l) - 1 :
             \E x \in DOMAIN u_dest : u_dest[x] = l * BUF_SIZE + y)'
    BY <1>6, <1>15 DEF FU!Size
  <1>21. (Len(u_dest) = IF index - 1 \in Appended THEN (j - 1) * BUF_SIZE + LastSize ELSE j * BUF_SIZE)'
    BY <1>6, <1>14, <1>17
  <1>22. (j = Cardinality(Appended))'
    BY <1>17
  <1>23. UringReaping'
    BY <1>18, <1>19, <1>20, <1>21, <1>22 DEF UringReaping
  <1> QED
    BY <1>0, <1>6, <1>10, <1>23

(* When as many completions were handled as blocks were queued, every      *)
(* block was appended.                                                     *)
LEMMA UringEnd ==
    ASSUME UringInv, UringReliable, u_pc = "reap", j = index
    PROVE  Len(u_dest) = size /\ \A b \in 0 .. size - 1 : \E x \in DOMAIN u_dest : u_dest[x] = b
  <1>1. /\ UringReaping /\ index \in Nat /\ index > 0 /\ size \in Nat
        /\ (index - 1) * BUF_SIZE <= size /\ size < index * BUF_SIZE
    BY DEF UringInv
  <1>2. Appended = 0 .. index - 1
    <2>1. Appended \in SUBSET (0 .. index - 1)
      BY DEF Appended
    <2>2. IsFiniteSet(0 .. index - 1) /\ Cardinality(0 .. index - 1) = index
      BY <1>1, FS_Interval
    <2>3. Cardinality(Appended) = index
      BY <1>1 DEF UringReaping
    <2> QED
      BY <2>1, <2>2, <2>3, FS_Subset
  <1>3. Len(u_dest) = size
    <2> DEFINE w == (index - 1) * BUF_SIZE
    <2>0. index - 1 \in Appended
      BY <1>1, <1>2
    <2>a. Len(u_dest) = (j - 1) * BUF_SIZE + LastSize
      BY <1>1, <2>0 DEF UringReaping
    <2>b. Len(u_dest) = w + LastSize /\ LastSize = size - w
      BY <2>a DEF LastSize
    <2>1. Len(u_dest) = w + (size - w) /\ w \in Int
      BY <1>1, <2>b, ConstantsAssumption
    <2> HIDE DEF w
    <2> QED
      BY <1>1, <2>1
  <1>4. ASSUME NEW b \in 0 .. size - 1
        PROVE  \E x \in DOMAIN u_dest : u_dest[x] = b
    <2>1. PICK k \in 0 .. index - 1 : \E y \in 0 .. FU!Size(k) - 1 : b = k * BUF_SIZE + y
      BY <1>1, BlockOf
    <2>2. PICK y \in 0 .. FU!Size(k) - 1 : b = k * BUF_SIZE + y
      BY <2>1
    <2> QED
      BY <1>1, <1>2, <2>2 DEF UringReaping
  <1> QED
    BY <1>3, <1>4

LEMMA UringStep == ASSUME UringInv, [FU!Next]_(FU!vars) PROVE UringInv'
  <1>1. /\ size' = size /\ u_faults' = u_faults
    BY DEF FU!Next, FU!Program, FU!Kernel, FU!Terminated, FU!vars, FU!given, FU!MainFail,
           FU!MainStart, FU!QueueRead, FU!NullDeref, FU!Submit, FU!SubmitFails, FU!WaitFails,
           FU!Finish, FU!Write, FU!WriteFails, FU!Complete
  <1>2. BUF_SIZE \in Nat /\ BUF_SIZE > 0 /\ RingDepth \in Nat
    BY ConstantsAssumption, SizesAssumption
  <1>3. CASE FU!MainFail
    BY <1>1, <1>3 DEF UringInv, UringReliable, FU!MainFail, FU!Exit, FU!ring
  <1>4. CASE FU!MainStart
    BY <1>1, <1>4 DEF UringInv, UringReliable, UringQueueing, FU!MainStart, FU!ring, FU!AllBytes
  <1>5. CASE FU!QueueRead
    <2>1. /\ index' = index + 1 /\ u_sq' = u_sq \cup {index} /\ u_pc = "queue"
          /\ u_pc' = IF FU!LastBlock THEN "submit" ELSE "queue"
          /\ UNCHANGED <<size, u_faults, file_sz, j, u_status, u_inflight, u_cq, u_dest>>
      BY <1>5 DEF FU!QueueRead, FU!given
    <2>2. index \in Nat /\ size \in Nat /\ index' \in Nat /\ index' > 0 /\ index' - 1 = index
      BY <2>1 DEF UringInv
    <2>3. ASSUME UringReliable
          PROVE  /\ u_sq' = 0 .. index' - 1
                 /\ (index' - 1) * BUF_SIZE <= size
                 /\ IF u_pc' = "submit" THEN size < index' * BUF_SIZE ELSE index' * BUF_SIZE <= size
      <3>1. index * BUF_SIZE <= size /\ file_sz = size /\ u_sq = 0 .. index - 1
        BY <2>1, <2>3 DEF UringInv, UringQueueing
      <3>2. u_sq' = 0 .. index' - 1
        BY <2>1, <2>2, <3>1
      <3> DEFINE v == (index + 1) * BUF_SIZE
      <3>3. v \in Int /\ index' * BUF_SIZE = v /\ (FU!LastBlock <=> v > size)
        BY <1>2, <2>1, <2>2, <3>1 DEF FU!LastBlock
      <3> HIDE DEF v
      <3>4. IF u_pc' = "submit" THEN size < v ELSE v <= size
        BY <2>1, <2>2, <3>3
      <3> QED
        BY <2>2, <3>1, <3>2, <3>3, <3>4
    <2> QED
      BY <2>1, <2>2, <2>3 DEF UringInv, UringReliable, UringQueueing, FU!AllBytes
  <1>6. CASE FU!NullDeref
    <2>0. "nomem" \notin u_faults => Cardinality(u_sq) >= RingDepth
      <3>1. "nomem" \notin u_faults => FU!Cardinality(u_sq) >= RingDepth
        BY <1>6 DEF FU!NullDeref
      <3>2. FU!Cardinality(u_sq) = Cardinality(u_sq)
        BY Zenon DEF FU!Cardinality, Cardinality, FU!IsFiniteSet, IsFiniteSet
      <3> QED
        BY <3>1, <3>2
    <2>1. /\ u_pc = "queue" /\ u_pc' = "done"
          /\ UNCHANGED <<size, u_faults, index, j, u_dest>>
      BY <1>6 DEF FU!NullDeref, FU!Exit, FU!given
    <2>2. ~UringReliable
      <3> SUFFICES ASSUME UringReliable PROVE FALSE
        OBVIOUS
      <3>1. /\ index \in Nat /\ size \in Nat /\ index * BUF_SIZE <= size /\ u_sq = 0 .. index - 1
            /\ size < RingDepth * BUF_SIZE /\ u_faults = {}
        BY <2>1 DEF UringInv, UringQueueing, UringReliable
      <3>2. Cardinality(u_sq) = index
        BY <3>1, FS_Interval
      <3>3. RingDepth <= index
        BY <1>2, <2>0, <3>1, <3>2
      <3>4. \A a, b, n \in Nat : a <= b => a * n <= b * n
        OBVIOUS
      <3>5. RingDepth * BUF_SIZE <= index * BUF_SIZE
        BY <1>2, <3>1, <3>3, <3>4
      <3> DEFINE v == RingDepth * BUF_SIZE
                 w == index * BUF_SIZE
      <3>6. v \in Int /\ w \in Int /\ v <= w /\ w <= size /\ size < v
        BY <1>2, <3>1, <3>5
      <3> HIDE DEF v, w
      <3> QED
        BY <3>1, <3>6
    <2> QED
      BY <2>1, <2>2 DEF UringInv, UringReliable
  <1>7. CASE FU!Submit
    <2>1. /\ u_pc = "submit" /\ u_pc' = "reap" /\ u_inflight' = {k \in u_sq : k < u_ret'}
          /\ UNCHANGED <<size, u_faults, index, j, u_status, u_cq, u_dest>>
      BY <1>7 DEF FU!Submit, FU!given
    <2>2. ASSUME UringReliable PROVE UringReaping'
      <3>1. /\ index \in Nat /\ index > 0 /\ u_sq = 0 .. index - 1 /\ u_cq = {} /\ j = 0 /\ u_dest = <<>>
            /\ u_ret' = index
        BY <1>7, <2>1, <2>2 DEF UringInv, UringReliable, FU!Submit
      <3>2. u_inflight' = 0 .. index - 1
        BY <2>1, <3>1
      <3>3. Appended' = {}
        BY <2>1, <3>2 DEF Appended
      <3>4. Cardinality(Appended') = 0
        BY <3>3, FS_EmptySet
      <3>5. Len(u_dest') = 0 /\ j' * BUF_SIZE = 0
        BY <1>2, <2>1, <3>1
      <3> QED
        BY <2>1, <3>1, <3>2, <3>3, <3>4, <3>5 DEF UringReaping
    <2> QED
      BY <2>1, <2>2 DEF UringInv, UringReliable, FU!AllBytes
  <1>8. CASE FU!SubmitFails \/ FU!WaitFails
    BY <1>1, <1>8 DEF UringInv, UringReliable, FU!SubmitFails, FU!WaitFails, FU!Exit
  <1>9. CASE FU!Finish
    <2>1. /\ u_pc = "reap" /\ j = u_ret /\ u_pc' = "done" /\ u_status' = 0
          /\ UNCHANGED <<size, u_faults, index, j, u_dest>>
      BY <1>9 DEF FU!Finish, FU!Exit, FU!given
    <2>2. ASSUME UringReliable
          PROVE  Len(u_dest) = size /\ \A b \in 0 .. size - 1 : \E x \in DOMAIN u_dest : u_dest[x] = b
      <3>1. j = index
        BY <2>1, <2>2 DEF UringInv, UringReaping
      <3> QED
        BY <2>1, <2>2, <3>1, UringEnd
    <2> QED
      BY <2>1, <2>2 DEF UringInv, UringReliable, FU!AllBytes
  <1>10. ASSUME NEW c \in u_cq, FU!Write(c) PROVE UringInv'
    <2>1. /\ u_pc = "reap" /\ c.res >= 0 /\ u_pc' = "reap" /\ j' = j + 1
          /\ UNCHANGED <<size, u_faults, index>>
      BY <1>10 DEF FU!Write, FU!given
    <2>2. UringReliable => UringReaping' /\ j' \in Nat /\ u_dest' \in Seq(Int)
      BY <1>10, <2>1, UringWrite
    <2> QED
      BY <2>1, <2>2 DEF UringInv, UringReliable, FU!AllBytes
  <1>11. ASSUME NEW c \in u_cq, FU!WriteFails(c) PROVE UringInv'
    <2>1. /\ u_pc = "reap" /\ (c.res < 0 \/ "enospc" \in u_faults) /\ u_pc' = "done"
          /\ UNCHANGED <<size, u_faults, index, j, u_dest>>
      BY <1>11 DEF FU!WriteFails, FU!Exit, FU!given
    <2>2. ~UringReliable
      <3> SUFFICES ASSUME UringReliable PROVE FALSE
        OBVIOUS
      <3>1. c.res = FU!Size(c.data) /\ c.data \in 0 .. index - 1
        BY <2>1 DEF UringInv, UringReaping
      <3>2. FU!Size(c.data) \in 0 .. BUF_SIZE
        BY <2>1, <3>1, BlockSizes DEF UringInv
      <3> QED
        BY <2>1, <3>1, <3>2 DEF UringReliable
    <2> QED
      BY <2>1, <2>2 DEF UringInv, UringReliable
  <1>12. ASSUME NEW k, FU!Complete(k) PROVE UringInv'
    <2>1. /\ k \in u_inflight /\ u_inflight' = u_inflight \ {k} /\ u_pc # "done"
          /\ UNCHANGED <<size, u_faults, file_sz, u_pc, index, u_ret, j, u_status, u_sq, u_dest>>
      BY <1>12 DEF FU!Complete, FU!given
    <2>2. ASSUME UringReliable
          PROVE  u_pc = "reap" /\ UringReaping'
      <3>1. u_pc = "reap" /\ UringReaping
        BY <2>1, <2>2 DEF UringInv
      <3>2. u_cq' = u_cq \cup {[data |-> k, res |-> FU!Size(k)]}
        BY <1>12, <2>2 DEF FU!Complete, UringReliable
      <3>3. Appended' = Appended
        <4>1. ASSUME NEW x
              PROVE  x \notin u_inflight' /\ (\A c \in u_cq' : c.data # x) <=>
                     x \notin u_inflight /\ \A c \in u_cq : c.data # x
          <5>1. [data |-> k, res |-> FU!Size(k)].data = k
            OBVIOUS
          <5>2. (\A c \in u_cq' : c.data # x) <=> x # k /\ \A c \in u_cq : c.data # x
            BY <3>2, <5>1
          <5> QED
            BY <2>1, <5>2
        <4> QED
          BY <2>1, <4>1 DEF Appended
      <3>4. LastSize' = LastSize
        BY <2>1 DEF LastSize
      <3>5. (\A c \in u_cq : c.data \in 0 .. index - 1 /\ c.data \notin u_inflight)'
        BY <2>1, <3>1, <3>2 DEF UringReaping
      <3>6. (\A c \in u_cq : c.res = FU!Size(c.data))'
        BY <2>1, <3>1, <3>2 DEF UringReaping, FU!Size
      <3>7. (\A c, d \in u_cq : c.data = d.data => c = d)'
        BY <2>1, <3>1, <3>2 DEF UringReaping
      <3>8. (\A l \in Appended : \A y \in 0 .. FU!Size(l) - 1 :
                \E x \in DOMAIN u_dest : u_dest[x] = l * BUF_SIZE + y)'
        BY <2>1, <3>1, <3>3 DEF UringReaping, FU!Size
      <3>9. /\ u_ret' = index' /\ u_inflight' \subseteq 0 .. index' - 1 /\ j' = Cardinality(Appended')
            /\ Len(u_dest') = IF index' - 1 \in Appended' THEN (j' - 1) * BUF_SIZE + LastSize'
                              ELSE j' * BUF_SIZE
        BY <2>1, <3>1, <3>3, <3>4 DEF UringReaping
      <3> QED
        BY <3>1, <3>5, <3>6, <3>7, <3>8, <3>9 DEF UringReaping
    <2> QED
      BY <2>1, <2>2 DEF UringInv, UringReliable, FU!AllBytes
  <1>13. CASE UNCHANGED FU!vars
    <2>1. UNCHANGED <<size, u_faults, file_sz, u_pc, index, u_ret, j, u_status,
                      u_sq, u_inflight, u_cq, u_dest>>
      BY <1>13 DEF FU!vars, FU!given, FU!ring
    <2> QED
      BY <2>1 DEF UringInv, UringReliable, UringQueueing, UringReaping, Appended, LastSize,
                  FU!AllBytes, FU!Size
  <1> QED
    BY <1>3, <1>4, <1>5, <1>6, <1>7, <1>8, <1>9, <1>10, <1>11, <1>12, <1>13
       DEF FU!Next, FU!Program, FU!Kernel, FU!Terminated

-----------------------------------------------------------------------------
(* Every step is one of one program. *)
LEMMA StepOfOne ==
    ASSUME [MCNext]_all
    PROVE  /\ [Next]_vars /\ [FU!Next]_(FU!vars)
           /\ [NC!Next]_(NC!vars) /\ [SF!Next]_(SF!vars)
  <1>0. UNCHANGED uring => UNCHANGED FU!vars
    BY DEF uring, FU!vars, FU!given, FU!ring
  <1>1. UNCHANGED normal => UNCHANGED NC!vars
    BY DEF normal, NC!vars
  <1>2. UNCHANGED send => UNCHANGED SF!vars
    BY DEF send, SF!vars
  <1>3. CASE UNCHANGED all
    BY <1>0, <1>1, <1>2, <1>3 DEF all
  <1>4. CASE Batch(Program) \/ Batch(Kernel) \/ Batch(Terminated)
    BY <1>0, <1>1, <1>2, <1>4 DEF Batch, Next
  <1>5. CASE Uring(FU!Next)
    BY <1>1, <1>2, <1>5 DEF Uring
  <1>6. CASE Normal(NC!Next)
    BY <1>0, <1>2, <1>6 DEF Normal
  <1>7. CASE Send(SF!Next)
    BY <1>0, <1>1, <1>7 DEF Send
  <1>8. QED
    BY <1>3, <1>4, <1>5, <1>6, <1>7 DEF MCNext

LEMMA UringStart == ASSUME FU!Init PROVE UringInv
  <1>1. size \in Nat /\ BUF_SIZE \in Nat
    BY SizesAssumption, ConstantsAssumption DEF FU!Init
  <1>2. index * BUF_SIZE = 0
    BY <1>1 DEF FU!Init
  <1> QED
    BY <1>1, <1>2 DEF FU!Init, UringInv, UringQueueing, FU!AllBytes

(* A batch program that ends with 0 has copied every byte, unless one of   *)
(* the failures it does not notice happens; file_uring.c, whose reads may  *)
(* complete in any order, has appended every byte exactly once when        *)
(* nothing fails and the blocks fit in the ring.  For files, blocks and    *)
(* rings of every size.                                                    *)
THEOREM CopiesCompleteHolds == MCSpec => []CopiesComplete
  <1>1. MCInit => BatchInv /\ UringInv
    BY BatchStart, UringStart DEF MCInit
  <1>2. BatchInv /\ UringInv /\ [MCNext]_all => (BatchInv /\ UringInv)'
    BY StepOfOne, BatchStep, UringStep
  <1>3. BatchInv => CopyComplete
    BY BatchComplete
  <1>4. UringInv => FU!AllBytes
    BY DEF UringInv, UringReliable, FU!AllBytes
  <1>5. BatchInv /\ UringInv => CopiesComplete
    BY <1>3, <1>4 DEF CopiesComplete
  <1>6. QED
    BY <1>1, <1>2, <1>5, PTL DEF MCSpec

(* normal.c and sendfile/copy.c implement the abstract FileCopy for files  *)
(* of every size: they report success only for a complete copy, but for    *)
(* the two failures they overlook.  A failing fclose costs normal.c no     *)
(* more than what stdio held back, and copy.c says "Successfully copied"   *)
(* of a part only if sendfile transferred less than it was asked to.       *)
THEOREM PlainRefinement == MCSpec => PlainRefineFileCopy
  <1>1. MCInit => NormalInv /\ SendInv
    BY SizesAssumption DEF MCInit, NC!Init, NormalInv, SF!Init, SendInv
  <1>2. NormalInv /\ SendInv /\ [MCNext]_all => (NormalInv /\ SendInv)'
    BY StepOfOne, NormalStep, SendStep
  <1>3. MCInit => NC!Copy!Init /\ SF!Copy!Init
    BY SizesAssumption DEF MCInit, NC!Init, NC!Copy!Init, NC!Copy!Pos, NC!Copy!Hole, NC!Dest,
                           NC!Result, SF!Init, SF!Copy!Init, SF!Copy!Pos, SF!Copy!Hole,
                           SF!Dest, SF!Result
  <1>4. NormalInv /\ SendInv /\ (NormalInv /\ SendInv)' /\ [MCNext]_all =>
           /\ [NC!Copy!Next \/ NC!Overlooked]_<<NC!Dest, NC!Result>>
           /\ [SF!Copy!Next \/ SF!Overlooked]_<<SF!Dest, SF!Result>>
    BY StepOfOne, NormalRefines, SendRefines
  <1>5. QED
    BY <1>1, <1>2, <1>3, <1>4, PTL
       DEF MCSpec, PlainRefineFileCopy, NC!RefinesFileCopy, SF!RefinesFileCopy
=============================================================================
