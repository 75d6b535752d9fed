-------------------------- MODULE FileUring2Proofs --------------------------
EXTENDS FileUring2, FiniteSetTheorems, TLAPS

(* The strengthening that makes the safety properties inductive. *)

BlockOK(p) == LET d == heap[p] IN
    /\ d.first_offset = p
    /\ d.first_len > 0 /\ d.first_len <= BUF_SIZE
    /\ d.offset = p + d.iov_base
    /\ d.iov_base + d.iov_len = d.first_len
    /\ p + d.first_len <= offset
    /\ d.first_len < BUF_SIZE => p + d.first_len = N

Blocks == /\ insize + offset = N
          /\ \A p \in live : BlockOK(p)
          /\ \A p, q \in live : p < q => p + heap[p].first_len <= q

(* The bytes of a block that are already right. *)
Right(p, n) == \A j \in 0 .. BUF_SIZE - 1 : j < n => buf[p][j] = p + j

Contents ==
    /\ \A p \in live : Right(p, IF heap[p].read THEN heap[p].iov_base
                                                ELSE heap[p].first_len)
    /\ \A c \in cq : /\ c.res <= heap[c.data].iov_len
                     /\ heap[c.data].read => Right(c.data, heap[c.data].iov_base + c.res)

Full(p) == heap[p].first_len = BUF_SIZE

WriteLeft == pc \in {"main", "fill", "reap"} =>
    /\ (\A p \in Reading : Full(p)) => write_left = insize + BUF_SIZE * reads
    /\ \A p \in Reading : ~Full(p) =>
          write_left = insize + BUF_SIZE * (reads - 1) + heap[p].first_len

IInv == /\ TypeOK /\ RingOwnership /\ Accounting /\ Blocks /\ Contents
        /\ WriteLeft /\ NoCorruption

-----------------------------------------------------------------------------
LEMMA FiniteSets == ASSUME TypeOK
                    PROVE  /\ IsFiniteSet(Pos)
                           /\ \A S : S \subseteq Pos => IsFiniteSet(S)
  <1>1. IsFiniteSet(Pos)
    BY FS_Interval, ConstantsAssumption DEF Pos
  <1>2. ASSUME NEW S, S \subseteq Pos PROVE IsFiniteSet(S)
    BY <1>1, <1>2, FS_Subset
  <1>3. QED
    BY <1>1, <1>2

(* The fields of a block, so that no later step has to look into IoData. *)
LEMMA Fields ==
    ASSUME TypeOK, NEW p \in Pos
    PROVE  /\ heap[p].read \in BOOLEAN
           /\ heap[p].first_offset \in Nat
           /\ heap[p].offset \in Nat
           /\ heap[p].first_len \in Nat
           /\ heap[p].iov_base \in Nat
           /\ heap[p].iov_len \in Nat
           /\ buf[p] \in Bytes
  <1>1. heap[p] \in IoData
    BY DEF TypeOK
  <1>2. heap[p].read \in BOOLEAN
    BY <1>1, Zenon DEF IoData
  <1>3. buf[p] \in Bytes
    BY DEF TypeOK
  <1>4. QED
    BY <1>1, <1>2, <1>3 DEF IoData

LEMMA AdvanceFields ==
    ASSUME NEW d, NEW n
    PROVE  LET e == Advance(d, n) IN
           /\ e.read = d.read /\ e.first_offset = d.first_offset
           /\ e.first_len = d.first_len /\ e.offset = d.offset + n
           /\ e.iov_base = d.iov_base + n /\ e.iov_len = d.iov_len - n
  BY DEF Advance, Request

LEMMA AsWriteFields ==
    ASSUME NEW d
    PROVE  LET e == AsWrite(d) IN
           /\ e.read = FALSE /\ e.first_offset = d.first_offset
           /\ e.first_len = d.first_len /\ e.offset = d.first_offset
           /\ e.iov_base = 0 /\ e.iov_len = d.first_len
  BY DEF AsWrite, Request

LEMMA FilledType ==
    ASSUME NEW b \in Bytes, NEW d \in IoData, NEW n \in Int
    PROVE  Filled(b, d, n) \in Bytes
  <1>1. d.offset \in Nat /\ d.iov_base \in Nat
    BY DEF IoData
  <1>2. QED
    BY <1>1, ConstantsAssumption DEF Filled, Bytes

LEMMA FreshType == ASSUME NEW size \in Nat, NEW off \in Nat
                   PROVE  Fresh(size, off) \in IoData
  BY DEF Fresh, IoData

LEMMA UninitialisedType == Uninitialised \in Bytes
  BY DEF Uninitialised, Bytes, Junk

LEMMA AdvanceType == ASSUME NEW d \in IoData, NEW n \in 0 .. d.iov_len
                     PROVE  Advance(d, n) \in IoData
  BY DEF Advance, Request, IoData

LEMMA AsWriteType == ASSUME NEW d \in IoData PROVE AsWrite(d) \in IoData
  BY DEF AsWrite, Request, IoData

LEMMA InitIInv == Init => IInv
  <1> SUFFICES ASSUME Init PROVE IInv
    OBVIOUS
  <1> USE ConstantsAssumption
  <1>1. TypeOK
    <2>1. heap \in [Pos -> IoData]
      BY FreshType DEF Init
    <2>2. buf \in [Pos -> Bytes]
      BY UninitialisedType DEF Init
    <2>3. dest \in [Pos -> Int]
      BY DEF Init, Hole
    <2>4. QED
      BY <2>1, <2>2, <2>3 DEF Init, TypeOK
  <1>2. live = {} /\ Reading = {} /\ Writing = {} /\ Completed = {}
    BY DEF Init, Reading, Writing, Completed
  <1>3. RingOwnership
    BY <1>2 DEF Init, RingOwnership
  <1>4. Accounting
    BY <1>2, FS_EmptySet DEF Init, Accounting
  <1>5. Blocks /\ Contents
    BY <1>2 DEF Init, Blocks, Contents
  <1>6. WriteLeft
    BY <1>2 DEF Init, WriteLeft
  <1>7. NoCorruption
    BY DEF Init, NoCorruption
  <1>8. QED
    BY <1>1, <1>3, <1>4, <1>5, <1>6, <1>7 DEF IInv

-----------------------------------------------------------------------------
(* Ring ownership. *)

LEMMA RequeueOwnership ==
    ASSUME TypeOK, RingOwnership, NEW c \in cq, Requeue(c), live' = live
    PROVE  RingOwnership'
  <1>1. PICK S \in Taken(sq \cup {c.data}) :
             /\ inflight' = inflight \cup S
             /\ sq' = (sq \cup {c.data}) \ S
             /\ cq' = cq \ {c}
    BY DEF Requeue
  <1>2. S \subseteq sq \cup {c.data}
    BY DEF Taken
  <1>3. Completed' = Completed \ {c.data} /\ c.data \in Completed
    BY <1>1 DEF Completed, RingOwnership
  <1>4. QED
    BY <1>1, <1>2, <1>3 DEF RingOwnership

LEMMA FreeOwnership ==
    ASSUME TypeOK, RingOwnership, NEW c \in cq, Free(c.data),
           cq' = cq \ {c}, UNCHANGED <<sq, inflight>>
    PROVE  RingOwnership'
  <1>1. Completed' = Completed \ {c.data} /\ c.data \in Completed
    BY DEF Completed, RingOwnership
  <1>2. QED
    BY <1>1 DEF RingOwnership, Free

LEMMA PostOwnership ==
    ASSUME TypeOK, RingOwnership, NEW p \in inflight, NEW r, Post(p, r)
    PROVE  RingOwnership'
  <1>1. Completed' = Completed \cup {p}
    <2> DEFINE e == [data |-> p, res |-> r]
    <2>1. cq' = cq \cup {e} /\ e.data = p
      BY DEF Post
    <2> HIDE DEF e
    <2>2. QED
      BY <2>1 DEF Completed
  <1>2. p \notin Completed
    BY DEF RingOwnership
  <1>3. \A c, d \in cq' : c.data = d.data => c = d
    BY <1>2 DEF RingOwnership, Post, Completed
  <1>4. QED
    BY <1>1, <1>2, <1>3 DEF RingOwnership, Post

LEMMA StepOwnership == ASSUME IInv, [Next]_vars PROVE RingOwnership'
  <1> USE DEF IInv, memory
  <1>1. CASE UNCHANGED <<live, ring>>
    BY <1>1 DEF RingOwnership, Completed, ring
  <1>2. CASE QueueRead
    <2>1. offset \notin live
      <3>1. SUFFICES ASSUME offset \in live PROVE FALSE
        OBVIOUS
      <3>2. offset \in Pos
        BY <3>1 DEF TypeOK
      <3>3. QED
        BY <3>1, <3>2, Fields DEF Blocks, BlockOK, TypeOK
    <2>2. QED
      BY <1>2, <2>1 DEF QueueRead, RingOwnership, Completed
  <1>3. CASE SubmitReads
    <2>1. CASE UNCHANGED ring
      BY <1>3, <2>1 DEF SubmitReads, RingOwnership, Completed, ring
    <2>2. CASE ~ UNCHANGED ring
      <3>1. PICK S \in Taken(sq) : /\ inflight' = inflight \cup S
                                   /\ sq' = sq \ S
                                   /\ UNCHANGED <<cq, live>>
        BY <1>3, <2>2 DEF SubmitReads, ring
      <3>2. S \subseteq sq
        BY DEF Taken
      <3>3. QED
        BY <3>1, <3>2 DEF RingOwnership, Completed
    <2>3. QED
      BY <2>1, <2>2
  <1>4. ASSUME NEW c \in cq, ReapRetry(c) \/ ReapShort(c) \/ ReapRead(c)
        PROVE  RingOwnership'
    BY <1>4, RequeueOwnership DEF ReapRetry, ReapShort, ReapRead
  <1>5. ASSUME NEW c \in cq, ReapWrite(c) \/ Drain(c) PROVE RingOwnership'
    BY <1>5, FreeOwnership DEF ReapWrite, Drain
  <1>6. ASSUME NEW p \in Pos, KernelRead(p) \/ KernelWrite(p) \/ KernelError(p)
        PROVE  RingOwnership'
    BY <1>6, PostOwnership DEF KernelRead, KernelWrite, KernelError, Running
  <1>7. QED
    BY <1>1, <1>2, <1>3, <1>4, <1>5, <1>6
       DEF Next, Program, Kernel, Terminated, Reap, DrainStep, MainFail, MainStart,
           SubmitReadsFails, ReapError, ReapEnds, WaitFails, DrainError, DrainDone,
           vars

-----------------------------------------------------------------------------
(* Types. *)

LEMMA CompletedBlock ==
    ASSUME IInv, NEW c \in cq
    PROVE  /\ c.data \in live /\ c.data \in Pos
           /\ c.res \in Int /\ c.res <= heap[c.data].iov_len
           /\ heap[c.data] \in IoData
  BY DEF IInv, TypeOK, RingOwnership, Completed, Contents

LEMMA LiveFinite ==
    ASSUME IInv
    PROVE  /\ IsFiniteSet(live) /\ IsFiniteSet(Reading) /\ IsFiniteSet(Writing)
           /\ IsFiniteSet(sq)
           /\ Cardinality(Reading) \in Nat /\ Cardinality(Writing) \in Nat
           /\ Cardinality(live) \in Nat /\ Cardinality(sq) \in Nat
  <1>1. live \subseteq Pos /\ Reading \subseteq Pos /\ Writing \subseteq Pos /\ sq \subseteq Pos
    BY DEF IInv, TypeOK, Reading, Writing
  <1>2. /\ IsFiniteSet(live) /\ IsFiniteSet(Reading) /\ IsFiniteSet(Writing)
        /\ IsFiniteSet(sq)
    BY <1>1, FiniteSets DEF IInv
  <1>3. QED
    BY <1>2, FS_CardinalityType

(* Turning a read into a write leaves write_left at zero or above. *)
LEMMA WriteLeftSuffices ==
    ASSUME IInv, NEW p \in Reading, pc \in {"main", "reap"}
    PROVE  /\ write_left - heap[p].first_len \in Nat
           /\ reads - 1 \in Nat
  <1>1. p \in Pos /\ p \in live
    BY DEF IInv, TypeOK, Reading
  <1>2. /\ heap[p].first_len \in Nat
        /\ heap[p].first_len <= BUF_SIZE
        /\ insize \in Nat /\ reads \in Nat /\ write_left \in Nat
    BY <1>1, Fields DEF IInv, Blocks, BlockOK, TypeOK
  <1>3. reads # 0
    BY LiveFinite, FS_EmptySet DEF IInv, Accounting
  <1>4. BUF_SIZE * (reads - 1) \in Nat /\ BUF_SIZE * reads = BUF_SIZE * (reads - 1) + BUF_SIZE
    BY <1>2, <1>3, ConstantsAssumption
  <1>5. CASE \E q \in Reading : ~Full(q)
    <2>1. PICK q \in Reading : ~Full(q)
      BY <1>5
    <2>2. write_left = insize + BUF_SIZE * (reads - 1) + heap[q].first_len
      BY <2>1 DEF IInv, WriteLeft
    <2>3. CASE p = q
      BY <2>2, <2>3, <1>2, <1>3, <1>4
    <2>4. CASE p # q
      <3>1. Cardinality(Reading) >= 2
        <4>1. q \in Reading \ {p}
          BY <2>1, <2>4
        <4>2. Cardinality(Reading \ {p}) = Cardinality(Reading) - 1
              /\ IsFiniteSet(Reading \ {p})
          BY LiveFinite, FS_RemoveElement
        <4>3. Cardinality(Reading \ {p}) # 0
          BY <4>1, <4>2, FS_EmptySet
        <4>4. QED
          BY <4>2, <4>3, LiveFinite, FS_CardinalityType
      <3>2. reads >= 2
        BY <3>1 DEF IInv, Accounting
      <3>3. BUF_SIZE * (reads - 1) = BUF_SIZE * (reads - 2) + BUF_SIZE
            /\ BUF_SIZE * (reads - 2) \in Nat
        BY <3>2, <1>2, ConstantsAssumption
      <3>4. heap[q].first_len \in Nat
        BY Fields DEF IInv, TypeOK, Reading
      <3>5. QED
        BY <3>2, <3>3, <3>4, <2>2, <1>2, ConstantsAssumption
    <2>5. QED
      BY <2>3, <2>4
  <1>6. CASE \A q \in Reading : Full(q)
    <2>1. write_left = insize + BUF_SIZE * reads
      BY <1>6 DEF IInv, WriteLeft
    <2>2. QED
      BY <2>1, <1>2, <1>3, <1>4, ConstantsAssumption
  <1>7. QED
    BY <1>5, <1>6

(* Steps that only move control: the loops' tests and every return. *)
ControlStep == /\ UNCHANGED <<insize, offset, write_left, reads, writes, memory, ring, dest>>
               /\ pc' \in {"fill", "drain", "done"}
               /\ ret' \in {-1, 0, 1}
               /\ had_reads' \in Nat /\ got_comp' \in BOOLEAN
               /\ \/ pc' = "fill" /\ pc \in {"main", "reap"}
                  \/ pc' = "drain" /\ pc \in {"main", "fill", "reap"}
                  \/ pc' = "done"

LEMMA ControlSteps ==
    ASSUME IInv,
           \/ MainFail \/ MainStart \/ SubmitReadsFails \/ ReapEnds
           \/ WaitFails \/ DrainDone
           \/ \E c \in cq : ReapError(c) \/ DrainError(c)
    PROVE  ControlStep
  <1> USE DEF IInv, TypeOK, ControlStep, local, Return, NextRound
  <1>1. CASE MainFail
    BY <1>1 DEF MainFail
  <1>2. CASE MainStart
    BY <1>2 DEF MainStart
  <1>3. CASE SubmitReadsFails
    BY <1>3 DEF SubmitReadsFails
  <1>4. CASE ReapEnds
    BY <1>4 DEF ReapEnds
  <1>5. CASE WaitFails
    BY <1>5 DEF WaitFails
  <1>6. CASE DrainDone
    BY <1>6 DEF DrainDone
  <1>7. ASSUME NEW c \in cq, ReapError(c) PROVE ControlStep
    BY <1>7 DEF ReapError, Reaping
  <1>8. ASSUME NEW c \in cq, DrainError(c) PROVE ControlStep
    BY <1>8 DEF DrainError
  <1>9. QED
    BY <1>1, <1>2, <1>3, <1>4, <1>5, <1>6, <1>7, <1>8

(* Every step of the specification is one of these. *)
LEMMA StepCases ==
    ASSUME IInv, [Next]_vars
    PROVE  \/ UNCHANGED vars
           \/ ControlStep
           \/ QueueRead
           \/ SubmitReads
           \/ \E c \in cq : ReapRetry(c)
           \/ \E c \in cq : ReapShort(c)
           \/ \E c \in cq : ReapRead(c)
           \/ \E c \in cq : ReapWrite(c)
           \/ \E c \in cq : Drain(c)
           \/ \E p \in Pos : KernelRead(p)
           \/ \E p \in Pos : KernelWrite(p)
           \/ \E p \in Pos : KernelError(p)
  BY ControlSteps DEF Next, Program, Kernel, Terminated, Reap, DrainStep

LEMMA StepType == ASSUME IInv, [Next]_vars PROVE TypeOK'
  <1> USE DEF IInv, TypeOK, memory, ring, local
  <1>1. CASE UNCHANGED vars
    BY <1>1 DEF vars
  <1>2. CASE ControlStep
    BY <1>2 DEF ControlStep
  <1>3. CASE QueueRead
    <2>1. /\ ThisSize \in Nat /\ ThisSize > 0 /\ ThisSize <= insize
          /\ offset \in Pos
      BY <1>3, ConstantsAssumption DEF QueueRead, ThisSize, Blocks, Pos
    <2>2. Fresh(ThisSize, offset) \in IoData
      BY <2>1, FreshType
    <2>3. heap' \in [Pos -> IoData]
      BY <1>3, <2>1, <2>2 DEF QueueRead
    <2>4. buf' \in [Pos -> Bytes]
      BY <1>3, <2>1, UninitialisedType DEF QueueRead
    <2>5. QED
      BY <1>3, <2>1, <2>3, <2>4 DEF QueueRead
  <1>4. CASE SubmitReads
    <2>1. CASE UNCHANGED ring
      BY <1>4, <2>1 DEF SubmitReads
    <2>2. CASE \E S \in Taken(sq) : inflight' = inflight \cup S /\ sq' = sq \ S /\ UNCHANGED cq
      <3>1. PICK S \in Taken(sq) : inflight' = inflight \cup S /\ sq' = sq \ S /\ UNCHANGED cq
        BY <2>2
      <3>2. S \subseteq sq
        BY DEF Taken
      <3>3. QED
        BY <1>4, <3>1, <3>2 DEF SubmitReads
    <2>3. QED
      BY <1>4, <2>1, <2>2 DEF SubmitReads
  <1>5. ASSUME NEW c \in cq, ReapRetry(c) PROVE TypeOK'
    BY <1>5, CompletedBlock DEF ReapRetry, Requeue, Taken
  <1>6. ASSUME NEW c \in cq, ReapShort(c) PROVE TypeOK'
    <2>1. Advance(heap[c.data], c.res) \in IoData
      BY <1>6, CompletedBlock, AdvanceType, Fields DEF ReapShort
    <2>2. heap' \in [Pos -> IoData]
      BY <1>6, <2>1, CompletedBlock DEF ReapShort
    <2>3. QED
      BY <1>6, <2>2, CompletedBlock DEF ReapShort, Requeue, Taken
  <1>7. ASSUME NEW c \in cq, ReapRead(c) PROVE TypeOK'
    <2>1. AsWrite(heap[c.data]) \in IoData
      BY CompletedBlock, AsWriteType
    <2>2. heap' \in [Pos -> IoData]
      BY <1>7, <2>1, CompletedBlock DEF ReapRead
    <2>3. write_left' \in Nat /\ reads' \in Nat /\ writes' \in Nat
      BY <1>7, CompletedBlock, WriteLeftSuffices DEF ReapRead, Reaping, Reading
    <2>4. QED
      BY <1>7, <2>2, <2>3, CompletedBlock DEF ReapRead, Requeue, Taken
  <1>8. ASSUME NEW c \in cq, ReapWrite(c) PROVE TypeOK'
    <2>1. writes # 0
      <3>1. c.data \in Writing
        BY <1>8, CompletedBlock DEF ReapWrite, Writing
      <3>2. QED
        BY <1>8, <3>1, LiveFinite, FS_EmptySet DEF ReapWrite, Reaping, Accounting
    <2>2. heap' \in [Pos -> IoData] /\ buf' \in [Pos -> Bytes]
      BY <1>8, FreshType, UninitialisedType, CompletedBlock DEF ReapWrite, Free
    <2>3. QED
      BY <1>8, <2>1, <2>2 DEF ReapWrite, Free
  <1>9. ASSUME NEW c \in cq, Drain(c) PROVE TypeOK'
    <2>1. heap' \in [Pos -> IoData] /\ buf' \in [Pos -> Bytes]
      BY <1>9, FreshType, UninitialisedType, CompletedBlock DEF Drain, Free
    <2>2. QED
      BY <1>9, <2>1 DEF Drain, Free
  <1>10. ASSUME NEW p \in Pos, KernelRead(p) PROVE TypeOK'
    <2>1. PICK n \in Int : /\ buf' = [buf EXCEPT ![p] = Filled(@, heap[p], n)]
                           /\ Post(p, n)
                           /\ UNCHANGED <<heap, dest>>
      <3>1. Amounts(heap[p]) \subseteq Int
        BY Fields DEF Amounts
      <3>2. QED
        BY <1>10, <3>1 DEF KernelRead
    <2>2. Filled(buf[p], heap[p], n) \in Bytes
      BY FilledType, Fields
    <2>3. buf' \in [Pos -> Bytes]
      BY <2>1, <2>2
    <2>4. QED
      BY <2>1, <2>3 DEF Post
  <1>11. ASSUME NEW p \in Pos, KernelWrite(p) PROVE TypeOK'
    <2>1. PICK n \in Amounts(heap[p]) : /\ dest' = Written(buf[p], heap[p], n)
                                        /\ Post(p, n)
                                        /\ UNCHANGED <<heap, buf>>
                                        /\ p \in inflight
      BY <1>11 DEF KernelWrite, Running
    <2>2. p \in live /\ ~heap[p].read /\ n \in Int
      BY <1>11, <2>1, Fields DEF RingOwnership, KernelWrite, Amounts
    <2>3. n <= heap[p].iov_len
      BY <2>1, Fields DEF Amounts
    <2>4. dest' \in [Pos -> Int]
      <3>1. ASSUME NEW i \in Pos, i >= heap[p].offset, i < heap[p].offset + n
            PROVE  buf[p][heap[p].iov_base + (i - heap[p].offset)] \in Int
        <4>1. heap[p].iov_base + (i - heap[p].offset) \in 0 .. BUF_SIZE - 1
          <5>1. BlockOK(p) /\ p \in Nat /\ i \in Nat
            BY <2>2 DEF Blocks, Pos
          <5>2. /\ heap[p].iov_base \in Nat /\ heap[p].iov_len \in Nat
                /\ heap[p].offset \in Nat /\ heap[p].first_len \in Nat
            BY Fields
          <5>3. /\ heap[p].iov_base + heap[p].iov_len = heap[p].first_len
                /\ heap[p].first_len <= BUF_SIZE
            BY <5>1 DEF BlockOK
          <5>4. QED
            BY <2>2, <2>3, <3>1, <5>1, <5>2, <5>3, ConstantsAssumption
        <4>2. QED
          BY <4>1, Fields DEF Bytes
      <3>2. QED
        BY <2>1, <3>1 DEF Written
    <2>5. QED
      BY <2>1, <2>2, <2>4 DEF Post
  <1>12. ASSUME NEW p \in Pos, KernelError(p) PROVE TypeOK'
    BY <1>12 DEF KernelError, Post, EAGAIN, EIO
  <1>13. QED
    BY StepCases, <1>1, <1>2, <1>3, <1>4, <1>5, <1>6, <1>7, <1>8, <1>9, <1>10,
       <1>11, <1>12

-----------------------------------------------------------------------------
(* What each step does to the blocks: which are being read or written, and *)
(* that no step touches the fields of a block other than the one it is for. *)

OffsetIsFresh == offset \notin live

LEMMA FreshOffset == ASSUME IInv PROVE OffsetIsFresh
  <1>1. SUFFICES ASSUME offset \in live PROVE FALSE
    BY DEF OffsetIsFresh
  <1>2. offset \in Pos
    BY <1>1 DEF IInv, TypeOK
  <1>3. QED
    BY <1>1, <1>2, Fields DEF IInv, Blocks, BlockOK, TypeOK

LEMMA QueueReadSets ==
    ASSUME IInv, QueueRead
    PROVE  /\ offset \in Pos /\ offset \notin live
           /\ live' = live \cup {offset}
           /\ heap' = [heap EXCEPT ![offset] = Fresh(ThisSize, offset)]
           /\ ThisSize \in Nat /\ ThisSize > 0 /\ ThisSize <= insize /\ ThisSize <= BUF_SIZE
           /\ ThisSize < BUF_SIZE => ThisSize = insize
           /\ Reading' = Reading \cup {offset}
           /\ Writing' = Writing
  <1>1. /\ ThisSize \in Nat /\ ThisSize > 0 /\ ThisSize <= insize /\ ThisSize <= BUF_SIZE
        /\ ThisSize < BUF_SIZE => ThisSize = insize
        /\ offset \in Pos
    BY ConstantsAssumption DEF IInv, TypeOK, QueueRead, ThisSize, Blocks, Pos
  <1>2. offset \notin live
    BY FreshOffset DEF OffsetIsFresh
  <1>3. /\ live' = live \cup {offset}
        /\ heap' = [heap EXCEPT ![offset] = Fresh(ThisSize, offset)]
    BY DEF QueueRead
  <1>4. heap'[offset] = Fresh(ThisSize, offset) /\ \A p \in live : heap'[p] = heap[p]
    BY <1>1, <1>2, <1>3 DEF IInv, TypeOK
  <1>5. heap'[offset].read
    BY <1>4 DEF Fresh
  <1>6. Reading' = Reading \cup {offset} /\ Writing' = Writing
    BY <1>2, <1>3, <1>4, <1>5 DEF Reading, Writing
  <1>7. QED
    BY <1>1, <1>2, <1>3, <1>6

LEMMA ReapShortSets ==
    ASSUME IInv, NEW c \in cq, ReapShort(c)
    PROVE  /\ heap'[c.data] = Advance(heap[c.data], c.res)
           /\ \A p \in Pos : p # c.data => heap'[p] = heap[p]
           /\ c.res \in Nat /\ c.res < heap[c.data].iov_len
           /\ Reading' = Reading /\ Writing' = Writing
  <1>1. /\ heap'[c.data] = Advance(heap[c.data], c.res)
        /\ \A p \in Pos : p # c.data => heap'[p] = heap[p]
    BY CompletedBlock DEF ReapShort, IInv, TypeOK
  <1>2. heap'[c.data].read = heap[c.data].read
    BY <1>1 DEF Advance, Request
  <1>3. \A p \in live : heap'[p].read = heap[p].read
    BY <1>1, <1>2 DEF IInv, TypeOK
  <1>4. Reading' = Reading /\ Writing' = Writing
    BY <1>3 DEF ReapShort, Reading, Writing
  <1>5. c.res \in Nat /\ c.res < heap[c.data].iov_len
    BY CompletedBlock, Fields DEF ReapShort, IInv
  <1>6. QED
    BY <1>1, <1>4, <1>5

LEMMA ReapReadSets ==
    ASSUME IInv, NEW c \in cq, ReapRead(c)
    PROVE  /\ heap'[c.data] = AsWrite(heap[c.data])
           /\ \A p \in Pos : p # c.data => heap'[p] = heap[p]
           /\ c.data \in Reading /\ c.data \notin Writing
           /\ Reading' = Reading \ {c.data}
           /\ Writing' = Writing \cup {c.data}
  <1>1. /\ heap'[c.data] = AsWrite(heap[c.data])
        /\ \A p \in Pos : p # c.data => heap'[p] = heap[p]
        /\ c.data \in live /\ live' = live
        /\ heap[c.data].read
    BY CompletedBlock DEF ReapRead, IInv, TypeOK
  <1>2. heap'[c.data].read = FALSE
    BY <1>1 DEF AsWrite, Request
  <1>3. \A p \in live : p # c.data => heap'[p] = heap[p]
    BY <1>1 DEF IInv, TypeOK
  <1>4. QED
    BY <1>1, <1>2, <1>3 DEF Reading, Writing

LEMMA FreeSets ==
    ASSUME IInv, NEW c \in cq, Free(c.data)
    PROVE  /\ c.data \in live
           /\ live' = live \ {c.data}
           /\ \A p \in live' : heap'[p] = heap[p]
           /\ Reading' = Reading \ {c.data}
           /\ Writing' = Writing \ {c.data}
  <1>1. c.data \in live /\ live' = live \ {c.data}
    BY CompletedBlock DEF Free
  <1>2. \A p \in live' : heap'[p] = heap[p]
    BY <1>1 DEF Free, IInv, TypeOK
  <1>3. QED
    BY <1>1, <1>2 DEF Reading, Writing

LEMMA SameBlocks ==
    ASSUME UNCHANGED <<live, heap>>
    PROVE  Reading' = Reading /\ Writing' = Writing
  BY DEF Reading, Writing

(* The steps that leave every block's fields as they are. *)
LEMMA QuietSteps ==
    ASSUME IInv,
           \/ UNCHANGED vars \/ ControlStep \/ SubmitReads
           \/ \E c \in cq : ReapRetry(c)
           \/ \E p \in Pos : KernelRead(p) \/ KernelWrite(p) \/ KernelError(p)
    PROVE  /\ UNCHANGED <<live, heap, insize, offset, write_left, reads, writes>>
           /\ \/ pc' = pc
              \/ pc' \in {"fill", "reap"} /\ pc \in {"main", "fill", "reap"}
              \/ pc' = "drain" /\ pc \in {"main", "fill", "reap"}
              \/ pc' = "done"
  <1> USE DEF memory, local
  <1>1. CASE UNCHANGED vars
    BY <1>1 DEF vars
  <1>2. CASE ControlStep
    BY <1>2 DEF ControlStep
  <1>3. CASE SubmitReads
    BY <1>3 DEF SubmitReads
  <1>4. ASSUME NEW c \in cq, ReapRetry(c)
        PROVE UNCHANGED <<live, heap, insize, offset, write_left, reads, writes, pc>>
    BY <1>4 DEF ReapRetry
  <1>5. ASSUME NEW p \in Pos, KernelRead(p) \/ KernelWrite(p) \/ KernelError(p)
        PROVE UNCHANGED <<live, heap, insize, offset, write_left, reads, writes, pc>>
    BY <1>5 DEF KernelRead, KernelWrite, KernelError, Post
  <1>6. QED
    BY <1>1, <1>2, <1>3, <1>4, <1>5

-----------------------------------------------------------------------------
LEMMA StepAccounting == ASSUME IInv, [Next]_vars PROVE Accounting'
  <1> USE DEF IInv
  <1>1. CASE \/ UNCHANGED vars \/ ControlStep \/ SubmitReads
             \/ \E c \in cq : ReapRetry(c)
             \/ \E p \in Pos : KernelRead(p) \/ KernelWrite(p) \/ KernelError(p)
    <2>1. Reading' = Reading /\ Writing' = Writing /\ live' = live
      BY <1>1, QuietSteps, SameBlocks
    <2>2. Cardinality(Writing) <= Cardinality(live)
      BY LiveFinite, FS_Subset DEF Writing
    <2>3. QED
      BY <1>1, <2>1, <2>2, QuietSteps DEF Accounting
  <1>2. CASE QueueRead
    <2>1. Cardinality(Reading') = Cardinality(Reading) + 1
      <3>1. offset \notin Reading
        BY <1>2, QueueReadSets DEF Reading
      <3>2. QED
        BY <1>2, <3>1, QueueReadSets, LiveFinite, FS_AddElement
    <2>2. QED
      <3>1. /\ pc = "fill" /\ pc' = "fill" /\ reads + writes < DEPTH
            /\ reads' = reads + 1 /\ writes' = writes
            /\ reads \in Nat /\ writes \in Nat
        BY <1>2 DEF QueueRead, SlotFree, TypeOK
      <3>2. QED
        BY <1>2, <2>1, <3>1, QueueReadSets, ConstantsAssumption DEF Accounting
  <1>3. ASSUME NEW c \in cq, ReapShort(c) PROVE Accounting'
    BY <1>3, ReapShortSets DEF ReapShort, Reaping, Accounting
  <1>4. ASSUME NEW c \in cq, ReapRead(c) PROVE Accounting'
    <2>1. /\ Cardinality(Reading') = Cardinality(Reading) - 1
          /\ Cardinality(Writing') = Cardinality(Writing) + 1
      <3>1. /\ c.data \in Reading /\ c.data \notin Writing
            /\ Reading' = Reading \ {c.data} /\ Writing' = Writing \cup {c.data}
        BY <1>4, ReapReadSets
      <3>2. Cardinality(Reading \ {c.data}) = Cardinality(Reading) - 1
        BY <3>1, LiveFinite, FS_RemoveElement
      <3>3. Cardinality(Writing \cup {c.data}) = Cardinality(Writing) + 1
        BY <3>1, LiveFinite, FS_AddElement
      <3>4. QED
        BY <3>1, <3>2, <3>3
    <2>2. QED
      BY <1>4, <2>1, LiveFinite DEF ReapRead, Reaping, Accounting, TypeOK
  <1>5. ASSUME NEW c \in cq, ReapWrite(c) PROVE Accounting'
    <2>1. c.data \in Writing /\ c.data \notin Reading
      BY <1>5, CompletedBlock DEF ReapWrite, Writing, Reading
    <2>2. Reading' = Reading /\ Writing' = Writing \ {c.data}
      BY <1>5, <2>1, FreeSets DEF ReapWrite
    <2>3. Cardinality(Writing') = Cardinality(Writing) - 1
      BY <2>1, <2>2, LiveFinite, FS_RemoveElement
    <2>4. QED
      <3>1. /\ pc = "reap" /\ pc' = "reap" /\ reads' = reads /\ writes' = writes - 1
            /\ reads \in Nat /\ writes \in Nat
        BY <1>5 DEF ReapWrite, Reaping, TypeOK
      <3>2. QED
        BY <2>2, <2>3, <3>1, ConstantsAssumption DEF Accounting
  <1>6. ASSUME NEW c \in cq, Drain(c) PROVE Accounting'
    <2>1. Cardinality(live') = Cardinality(live) - 1
      BY <1>6, FreeSets, LiveFinite, FS_RemoveElement DEF Drain
    <2>2. QED
      BY <1>6, <2>1, LiveFinite DEF Drain, Accounting, TypeOK
  <1>7. QED
    BY StepCases, <1>1, <1>2, <1>3, <1>4, <1>5, <1>6

-----------------------------------------------------------------------------
(* The shape of the blocks. *)

LEMMA StepBlocks == ASSUME IInv, [Next]_vars PROVE Blocks'
  <1> USE DEF IInv
  <1>1. CASE \/ UNCHANGED vars \/ ControlStep \/ SubmitReads
             \/ \E c \in cq : ReapRetry(c)
             \/ \E p \in Pos : KernelRead(p) \/ KernelWrite(p) \/ KernelError(p)
    BY <1>1, QuietSteps DEF Blocks, BlockOK
  <1>2. CASE QueueRead
    <2>1. /\ insize' = insize - ThisSize /\ offset' = offset + ThisSize
          /\ insize \in Nat /\ offset \in Nat
      BY <1>2 DEF QueueRead, TypeOK
    <2>2. heap'[offset] = Fresh(ThisSize, offset) /\ \A p \in live : heap'[p] = heap[p]
      BY <1>2, QueueReadSets DEF TypeOK
    <2>3. /\ heap'[offset].first_offset = offset /\ heap'[offset].offset = offset
          /\ heap'[offset].first_len = ThisSize /\ heap'[offset].iov_len = ThisSize
          /\ heap'[offset].iov_base = 0
      BY <2>2 DEF Fresh
    <2>4. insize' + offset' = N
      BY <1>2, <2>1, QueueReadSets DEF Blocks
    <2>5. \A k : k = offset => BlockOK(k)'
      BY <1>2, <2>1, <2>3, <2>4, QueueReadSets, ConstantsAssumption DEF BlockOK, Blocks
    <2>6. ASSUME NEW p \in live
          PROVE  BlockOK(p)' /\ heap'[p].first_len = heap[p].first_len
                 /\ p + heap[p].first_len <= offset /\ p < offset
      <3>1. BlockOK(p) /\ p \in Nat /\ heap[p].first_len \in Nat
        BY Fields DEF TypeOK, Pos, Blocks
      <3>2. heap'[p] = heap[p]
        BY <2>2
      <3>3. QED
        BY <1>2, <2>1, <3>1, <3>2, QueueReadSets DEF BlockOK
    <2>7. QED
      <3>1. \A p \in live' : BlockOK(p)'
        BY <1>2, <2>5, <2>6, QueueReadSets
      <3>2. ASSUME NEW p \in live', NEW q \in live', p < q
            PROVE  p + heap'[p].first_len <= q
        <4>1. CASE p \in live /\ q \in live
          BY <3>2, <4>1, <2>6 DEF Blocks
        <4>2. CASE p \in live /\ q = offset
          BY <4>2, <2>6
        <4>3. CASE p = offset /\ q \in live
          <5>1. q < offset /\ q \in Nat /\ offset \in Nat
            BY <4>3, <2>6, <2>1 DEF TypeOK, Pos
          <5>2. QED
            BY <3>2, <4>3, <5>1
        <4>4. CASE p = offset /\ q = offset
          BY <3>2, <4>4, <2>1
        <4>5. QED
          BY <1>2, <4>1, <4>2, <4>3, <4>4, QueueReadSets
      <3>3. QED
        BY <2>4, <3>1, <3>2 DEF Blocks
  <1>3. ASSUME NEW c \in cq, ReapShort(c) PROVE Blocks'
    <2>1. /\ c.data \in live /\ c.data \in Pos /\ live' = live
          /\ insize' = insize /\ offset' = offset
      BY <1>3, CompletedBlock DEF ReapShort
    <2>2. /\ heap'[c.data].first_offset = heap[c.data].first_offset
          /\ heap'[c.data].first_len = heap[c.data].first_len
          /\ heap'[c.data].offset = heap[c.data].offset + c.res
          /\ heap'[c.data].iov_base = heap[c.data].iov_base + c.res
          /\ heap'[c.data].iov_len = heap[c.data].iov_len - c.res
      BY <1>3, ReapShortSets, AdvanceFields
    <2>3. \A p \in live : p # c.data => heap'[p] = heap[p]
      BY <1>3, ReapShortSets DEF TypeOK
    <2>4. BlockOK(c.data)'
      <3>1. BlockOK(c.data) /\ c.data \in Nat
        BY <2>1 DEF Blocks, Pos
      <3>2. QED
        BY <1>3, <2>1, <2>2, <3>1, Fields, ReapShortSets DEF BlockOK
    <2>5. \A p \in live : BlockOK(p)'
      BY <2>1, <2>3, <2>4 DEF Blocks, BlockOK
    <2>6. \A p \in live : heap'[p].first_len = heap[p].first_len
      BY <2>2, <2>3
    <2>7. QED
      BY <2>1, <2>5, <2>6 DEF Blocks
  <1>4. ASSUME NEW c \in cq, ReapRead(c) PROVE Blocks'
    <2>1. /\ c.data \in live /\ c.data \in Pos /\ live' = live
          /\ insize' = insize /\ offset' = offset
      BY <1>4, CompletedBlock DEF ReapRead
    <2>2. /\ heap'[c.data].first_offset = heap[c.data].first_offset
          /\ heap'[c.data].first_len = heap[c.data].first_len
          /\ heap'[c.data].offset = heap[c.data].first_offset
          /\ heap'[c.data].iov_base = 0
          /\ heap'[c.data].iov_len = heap[c.data].first_len
      BY <1>4, ReapReadSets, AsWriteFields
    <2>3. \A p \in live : p # c.data => heap'[p] = heap[p]
      BY <1>4, ReapReadSets DEF TypeOK
    <2>4. BlockOK(c.data)'
      <3>1. BlockOK(c.data) /\ c.data \in Nat
        BY <2>1 DEF Blocks, Pos
      <3>2. QED
        BY <2>1, <2>2, <3>1, Fields DEF BlockOK
    <2>5. \A p \in live : BlockOK(p)'
      BY <2>1, <2>3, <2>4 DEF Blocks, BlockOK
    <2>6. \A p \in live : heap'[p].first_len = heap[p].first_len
      BY <2>2, <2>3
    <2>7. QED
      BY <2>1, <2>5, <2>6 DEF Blocks
  <1>5. ASSUME NEW c \in cq, ReapWrite(c) \/ Drain(c) PROVE Blocks'
    <2>1. UNCHANGED <<insize, offset>> /\ Free(c.data)
      BY <1>5 DEF ReapWrite, Drain
    <2>2. QED
      BY <2>1, FreeSets DEF Blocks, BlockOK
  <1>6. QED
    BY StepCases, <1>1, <1>2, <1>3, <1>4, <1>5

-----------------------------------------------------------------------------
(* write_left is what is not queued yet plus the blocks being read.        *)

LEMMA StepWriteLeft == ASSUME IInv, [Next]_vars PROVE WriteLeft'
  <1> USE DEF IInv
  <1>1. CASE \/ UNCHANGED vars \/ ControlStep \/ SubmitReads
             \/ \E c \in cq : ReapRetry(c)
             \/ \E p \in Pos : KernelRead(p) \/ KernelWrite(p) \/ KernelError(p)
    <2>1. Reading' = Reading /\ UNCHANGED <<heap, insize, write_left, reads>>
      BY <1>1, QuietSteps, SameBlocks
    <2>2. pc' \in {"main", "fill", "reap"} => pc \in {"main", "fill", "reap"}
      BY <1>1, QuietSteps
    <2>3. QED
      BY <2>1, <2>2 DEF WriteLeft, Full
  <1>2. CASE QueueRead
    <2>1. /\ insize' = insize - ThisSize /\ reads' = reads + 1 /\ write_left' = write_left
          /\ pc = "fill"
          /\ insize \in Nat /\ reads \in Nat /\ write_left \in Nat
      BY <1>2 DEF QueueRead, TypeOK
    <2>2. heap'[offset] = Fresh(ThisSize, offset) /\ \A p \in live : heap'[p] = heap[p]
      BY <1>2, QueueReadSets DEF TypeOK
    <2>3. heap'[offset].first_len = ThisSize
      BY <2>2 DEF Fresh
    <2>4. BUF_SIZE * (reads + 1) = BUF_SIZE * reads + BUF_SIZE
          /\ BUF_SIZE * reads \in Nat
      BY <2>1, ConstantsAssumption
    <2>5. \A p \in Reading : Full(p)
      <3>1. ASSUME NEW p \in Reading PROVE Full(p)
        <4>1. p \in live /\ p \in Pos /\ BlockOK(p)
          BY DEF Reading, Blocks, TypeOK
        <4>2. offset < N
          BY <1>2, QueueReadSets, ConstantsAssumption DEF Pos
        <4>3. p + heap[p].first_len <= offset /\ heap[p].first_len <= BUF_SIZE
              /\ (heap[p].first_len < BUF_SIZE => p + heap[p].first_len = N)
          BY <4>1 DEF BlockOK
        <4>4. heap[p].first_len \in Nat /\ p \in Nat /\ offset \in Nat
          BY <4>1, Fields DEF Pos, TypeOK
        <4>5. QED
          BY <4>2, <4>3, <4>4, ConstantsAssumption DEF Full
      <3>2. QED
        BY <3>1
    <2>6. write_left = insize + BUF_SIZE * reads
      BY <2>1, <2>5 DEF WriteLeft
    <2>7. CASE ThisSize = BUF_SIZE
      <3>1. \A p \in Reading' : heap'[p].first_len = BUF_SIZE
        BY <1>2, <2>2, <2>3, <2>5, <2>7, QueueReadSets DEF Full, Reading
      <3>2. write_left' = insize' + BUF_SIZE * reads'
        BY <2>1, <2>4, <2>6, <2>7, ConstantsAssumption
      <3>3. QED
        BY <3>1, <3>2 DEF WriteLeft, Full
    <2>8. CASE ThisSize # BUF_SIZE
      <3>1. insize' = 0 /\ ThisSize = insize
        BY <1>2, <2>1, <2>8, QueueReadSets, ConstantsAssumption
      <3>2. \A p \in Reading' : heap'[p].first_len # BUF_SIZE => p = offset
        BY <1>2, <2>2, <2>5, QueueReadSets DEF Full, Reading
      <3>3. write_left' = insize' + BUF_SIZE * (reads' - 1) + ThisSize
        <4>1. reads' - 1 = reads /\ BUF_SIZE * reads \in Nat
          BY <2>1, <2>4
        <4>2. QED
          BY <2>1, <2>6, <3>1, <4>1
      <3>4. heap'[offset].first_len # BUF_SIZE /\ offset \in Reading'
        BY <1>2, <2>3, <2>8, QueueReadSets
      <3>5. ~ \A p \in Reading' : heap'[p].first_len = BUF_SIZE
        BY <3>4
      <3>6. ASSUME NEW p \in Reading', heap'[p].first_len # BUF_SIZE
            PROVE  write_left' = insize' + BUF_SIZE * (reads' - 1) + heap'[p].first_len
        BY <2>3, <3>2, <3>3, <3>6
      <3>7. QED
        BY <3>5, <3>6 DEF WriteLeft, Full
    <2>9. QED
      BY <2>7, <2>8
  <1>3. ASSUME NEW c \in cq, ReapShort(c) PROVE WriteLeft'
    <2>1. \A p \in live : heap'[p].first_len = heap[p].first_len
      BY <1>3, ReapShortSets, AdvanceFields DEF TypeOK
    <2>2. Reading' = Reading /\ UNCHANGED <<insize, write_left, reads, pc>>
      BY <1>3, ReapShortSets DEF ReapShort
    <2>3. QED
      BY <2>1, <2>2 DEF WriteLeft, Full, Reading
  <1>4. ASSUME NEW c \in cq, ReapRead(c) PROVE WriteLeft'
    <2> DEFINE p == c.data
    <2>1. /\ p \in Reading /\ Reading' = Reading \ {p}
          /\ \A q \in Pos : q # p => heap'[q] = heap[q]
      BY <1>4, ReapReadSets
    <2>2. /\ pc = "reap" /\ insize' = insize /\ reads' = reads - 1
          /\ write_left' = write_left - heap[p].first_len
          /\ insize \in Nat /\ reads \in Nat /\ write_left \in Nat
      BY <1>4 DEF ReapRead, Reaping, TypeOK
    <2>3. reads - 1 \in Nat
      BY <2>1, <2>2, WriteLeftSuffices
    <2>4. BUF_SIZE * reads = BUF_SIZE * (reads - 1) + BUF_SIZE
          /\ BUF_SIZE * (reads - 1) = BUF_SIZE * (reads - 2) + BUF_SIZE
      BY <2>2, <2>3, ConstantsAssumption
    <2>5. \A q \in Reading : q \in Pos /\ heap[q].first_len \in Nat
      BY Fields DEF Reading, TypeOK
    <2>6. \A q \in Reading' : q \in Reading /\ q # p /\ heap'[q].first_len = heap[q].first_len
      BY <2>1, <2>5
    <2>7. ASSUME NEW q \in Reading, ~Full(q), NEW r \in Reading, ~Full(r) PROVE q = r
      <3>1. /\ q \in live /\ r \in live /\ BlockOK(q) /\ BlockOK(r)
            /\ q \in Nat /\ r \in Nat
        BY DEF Reading, Blocks, TypeOK, Pos
      <3>2. /\ q + heap[q].first_len = N /\ r + heap[r].first_len = N
            /\ heap[q].first_len > 0 /\ heap[r].first_len > 0
        BY <2>5, <2>7, <3>1, ConstantsAssumption DEF BlockOK, Full
      <3>3. /\ q < r => q + heap[q].first_len <= r
            /\ r < q => r + heap[r].first_len <= q
        BY <3>1 DEF Blocks
      <3>4. QED
        BY <2>5, <3>1, <3>2, <3>3
    <2>8. CASE Full(p)
      <3>1. (\A q \in Reading' : heap'[q].first_len = BUF_SIZE)
               => write_left' = insize' + BUF_SIZE * reads'
        <4>1. SUFFICES ASSUME \A q \in Reading' : heap'[q].first_len = BUF_SIZE
                       PROVE  write_left' = insize' + BUF_SIZE * reads'
          OBVIOUS
        <4>2. \A q \in Reading : Full(q)
          BY <2>1, <2>6, <2>8, <4>1 DEF Full
        <4>3. QED
          BY <2>2, <2>4, <2>8, <4>2, ConstantsAssumption DEF WriteLeft, Full
      <3>2. ASSUME NEW q \in Reading', heap'[q].first_len # BUF_SIZE
            PROVE  write_left' = insize' + BUF_SIZE * (reads' - 1) + heap'[q].first_len
        <4>1. /\ q \in Reading /\ ~Full(q)
              /\ heap'[q].first_len = heap[q].first_len /\ heap[q].first_len \in Nat
          BY <2>5, <2>6, <3>2 DEF Full
        <4>2. write_left = insize + BUF_SIZE * (reads - 1) + heap[q].first_len
          BY <2>2, <4>1 DEF WriteLeft
        <4>3. heap[p].first_len = BUF_SIZE
          BY <2>8 DEF Full
        <4>4. reads' - 1 = reads - 2 /\ BUF_SIZE * (reads - 2) \in Int
          BY <2>2, ConstantsAssumption
        <4>5. QED
          BY <2>2, <2>4, <4>1, <4>2, <4>3, <4>4, ConstantsAssumption
      <3>3. QED
        BY <3>1, <3>2 DEF WriteLeft, Full
    <2>9. CASE ~Full(p)
      <3>1. write_left = insize + BUF_SIZE * (reads - 1) + heap[p].first_len
        BY <2>1, <2>2, <2>9 DEF WriteLeft
      <3>2. \A q \in Reading' : heap'[q].first_len = BUF_SIZE
        BY <2>1, <2>6, <2>7, <2>9 DEF Full
      <3>3. write_left' = insize' + BUF_SIZE * reads'
        <4>1. heap[p].first_len \in Nat /\ BUF_SIZE * (reads - 1) \in Int
          BY <2>1, <2>2, <2>5, ConstantsAssumption
        <4>2. QED
          BY <2>2, <3>1, <4>1
      <3>4. QED
        BY <3>2, <3>3 DEF WriteLeft, Full
    <2>10. QED
      BY <2>8, <2>9
  <1>5. ASSUME NEW c \in cq, ReapWrite(c) PROVE WriteLeft'
    <2>1. /\ UNCHANGED <<insize, write_left, reads, pc>> /\ Free(c.data)
          /\ c.data \notin Reading
      BY <1>5, CompletedBlock DEF ReapWrite, Reading
    <2>2. Reading' = Reading /\ \A p \in Reading : heap'[p] = heap[p]
      BY <2>1, FreeSets DEF Reading
    <2>3. QED
      BY <2>1, <2>2 DEF WriteLeft, Full
  <1>6. ASSUME NEW c \in cq, Drain(c) PROVE WriteLeft'
    BY <1>6 DEF Drain, WriteLeft
  <1>7. QED
    BY StepCases, <1>1, <1>2, <1>3, <1>4, <1>5, <1>6

-----------------------------------------------------------------------------
(* The bytes. *)

LEMMA StepContents == ASSUME IInv, [Next]_vars PROVE Contents'
  <1> USE DEF IInv
  <1>1. CASE UNCHANGED <<live, heap, buf>> /\ cq' \subseteq cq
    BY <1>1 DEF Contents, Right
  <1>2. CASE QueueRead
    <2>1. cq' = cq /\ \A p \in live : heap'[p] = heap[p] /\ buf'[p] = buf[p]
      BY <1>2, QueueReadSets DEF QueueRead, TypeOK
    <2>2. heap'[offset].read /\ heap'[offset].iov_base = 0
      <3>1. heap'[offset] = Fresh(ThisSize, offset)
        BY <1>2, QueueReadSets DEF TypeOK
      <3>2. QED
        BY <3>1 DEF Fresh
    <2>3. \A c \in cq : c.data \in live
      BY CompletedBlock
    <2>4. QED
      BY <1>2, <2>1, <2>2, <2>3, QueueReadSets DEF Contents, Right
  <1>3. ASSUME NEW c \in cq, ReapShort(c) PROVE Contents'
    <2>1. /\ cq' = cq \ {c} /\ live' = live /\ buf' = buf
          /\ \A d \in cq' : d.data \in live /\ d.data # c.data /\ d \in cq
      BY <1>3, CompletedBlock DEF ReapShort, Requeue, RingOwnership
    <2>2. \A p \in live : p # c.data => heap'[p] = heap[p]
      BY <1>3, ReapShortSets DEF TypeOK
    <2>3. /\ heap'[c.data].read = heap[c.data].read
          /\ heap'[c.data].first_len = heap[c.data].first_len
          /\ heap'[c.data].iov_base = heap[c.data].iov_base + c.res
      BY <1>3, ReapShortSets, AdvanceFields
    <2>4. Right(c.data, IF heap[c.data].read THEN heap[c.data].iov_base + c.res
                                             ELSE heap[c.data].first_len)
      BY CompletedBlock DEF Contents
    <2>5. QED
      BY <2>1, <2>2, <2>3, <2>4 DEF Contents, Right
  <1>4. ASSUME NEW c \in cq, ReapRead(c) PROVE Contents'
    <2>1. /\ cq' = cq \ {c} /\ live' = live /\ buf' = buf
          /\ \A d \in cq' : d.data \in live /\ d.data # c.data /\ d \in cq
      BY <1>4, CompletedBlock DEF ReapRead, Requeue, RingOwnership
    <2>2. \A p \in live : p # c.data => heap'[p] = heap[p]
      BY <1>4, ReapReadSets DEF TypeOK
    <2>3. heap'[c.data].read = FALSE /\ heap'[c.data].first_len = heap[c.data].first_len
      BY <1>4, ReapReadSets, AsWriteFields
    <2>4. Right(c.data, heap[c.data].first_len)
      BY <1>4, CompletedBlock DEF ReapRead, Contents, Blocks, BlockOK
    <2>5. QED
      BY <2>1, <2>2, <2>3, <2>4 DEF Contents, Right
  <1>5. ASSUME NEW c \in cq, ReapWrite(c) \/ Drain(c) PROVE Contents'
    <2>1. Free(c.data) /\ cq' = cq \ {c}
      BY <1>5 DEF ReapWrite, Drain
    <2>2. \A p \in live' : p \in live /\ heap'[p] = heap[p] /\ buf'[p] = buf[p]
      BY <2>1, FreeSets DEF Free, TypeOK
    <2>3. \A d \in cq' : d.data \in live' /\ d \in cq
      BY <2>1, FreeSets, CompletedBlock DEF RingOwnership
    <2>4. QED
      BY <2>2, <2>3 DEF Contents, Right
  <1>6. ASSUME NEW p \in Pos, KernelRead(p) PROVE Contents'
    <2>1. PICK n \in Amounts(heap[p]) :
             /\ buf' = [buf EXCEPT ![p] = Filled(@, heap[p], n)]
             /\ Post(p, n)
      BY <1>6 DEF KernelRead
    <2>2. /\ UNCHANGED <<live, heap>> /\ p \in live /\ heap[p].read
          /\ \A c \in cq : c.data # p
      BY <1>6, <2>1 DEF KernelRead, Post, Running, RingOwnership, Completed
    <2>3. n \in Nat /\ n <= heap[p].iov_len
      BY <2>2, Fields DEF Amounts
    <2>4. buf'[p] = Filled(buf[p], heap[p], n) /\ \A q \in live : q # p => buf'[q] = buf[q]
      BY <2>1 DEF TypeOK
    <2>5. ASSUME NEW j \in 0 .. BUF_SIZE - 1, j < heap[p].iov_base + n
          PROVE  buf'[p][j] = p + j
      <3>1. /\ heap[p].offset = p + heap[p].iov_base /\ p \in Nat
            /\ heap[p].iov_base \in Nat /\ heap[p].offset \in Nat
        BY <2>2, Fields DEF Blocks, BlockOK, Pos
      <3>2. buf'[p][j] = IF j >= heap[p].iov_base /\ j < heap[p].iov_base + n
                         THEN heap[p].offset + (j - heap[p].iov_base) ELSE buf[p][j]
        BY <2>4 DEF Filled
      <3>3. j < heap[p].iov_base => buf[p][j] = p + j
        BY <2>2 DEF Contents, Right
      <3>4. QED
        BY <2>3, <2>5, <3>1, <3>2, <3>3, ConstantsAssumption
    <2>6. \A j \in 0 .. BUF_SIZE - 1 : j < heap[p].iov_base => buf'[p][j] = p + j
      BY <2>2, <2>3, <2>5, Fields, ConstantsAssumption
    <2>7. \A q \in live' : Right(q, IF heap[q].read THEN heap[q].iov_base
                                                    ELSE heap[q].first_len)'
      BY <2>2, <2>4, <2>6 DEF Contents, Right
    <2>8. ASSUME NEW c \in cq'
          PROVE  /\ c.res <= heap'[c.data].iov_len
                 /\ heap'[c.data].read => Right(c.data, heap[c.data].iov_base + c.res)'
      <3>1. CASE c \in cq
        BY <2>2, <2>4, <3>1, CompletedBlock DEF Contents, Right
      <3>2. CASE c = [data |-> p, res |-> n]
        <4>1. c.data = p /\ c.res = n
          BY <3>2
        <4>2. QED
          BY <2>2, <2>3, <2>5, <4>1 DEF Right
      <3>3. QED
        BY <2>1, <3>1, <3>2 DEF Post
    <2>9. QED
      BY <2>7, <2>8 DEF Contents
  <1>7. ASSUME NEW p \in Pos, KernelWrite(p) \/ KernelError(p) PROVE Contents'
    <2>1. PICK r \in Int :
             /\ Post(p, r) /\ UNCHANGED <<heap, buf>> /\ r <= heap[p].iov_len
             /\ heap[p].read => r < 0
      <3>1. CASE KernelWrite(p)
        <4>1. \A n \in Amounts(heap[p]) : n \in Int /\ n <= heap[p].iov_len
          BY Fields DEF Amounts
        <4>2. QED
          BY <3>1, <4>1 DEF KernelWrite
      <3>2. CASE KernelError(p)
        BY <3>2, Fields DEF KernelError, EAGAIN, EIO
      <3>3. QED
        BY <1>7, <3>1, <3>2
    <2>2. UNCHANGED <<live, heap, buf>> /\ p \in live
      BY <1>7, <2>1 DEF KernelWrite, KernelError, Post, Running, RingOwnership
    <2>3. ASSUME NEW c \in cq'
          PROVE  /\ c.res <= heap[c.data].iov_len
                 /\ heap[c.data].read => Right(c.data, heap[c.data].iov_base + c.res)
      <3>1. CASE c \in cq
        BY <3>1 DEF Contents
      <3>2. CASE c = [data |-> p, res |-> r]
        <4>1. c.data = p /\ c.res = r
          BY <3>2
        <4>2. ASSUME heap[p].read PROVE Right(p, heap[p].iov_base + r)
          <5>1. Right(p, heap[p].iov_base)
            BY <2>2, <4>2 DEF Contents
          <5>2. QED
            BY <2>1, <4>2, <5>1, Fields, ConstantsAssumption DEF Right
        <4>3. QED
          BY <2>1, <4>1, <4>2
      <3>3. QED
        BY <2>1, <3>1, <3>2 DEF Post
    <2>4. QED
      BY <2>2, <2>3 DEF Contents, Right
  <1>8. ASSUME \/ UNCHANGED vars \/ ControlStep \/ SubmitReads
               \/ \E c \in cq : ReapRetry(c)
        PROVE  UNCHANGED <<live, heap, buf>> /\ cq' \subseteq cq
    BY <1>8 DEF vars, memory, ring, ControlStep, SubmitReads, ReapRetry, Requeue
  <1>9. QED
    BY StepCases, <1>1, <1>2, <1>3, <1>4, <1>5, <1>6, <1>7, <1>8

LEMMA StepNoCorruption == ASSUME IInv, [Next]_vars PROVE NoCorruption'
  <1> USE DEF IInv
  <1>1. CASE UNCHANGED dest
    BY <1>1 DEF NoCorruption
  <1>2. ASSUME NEW p \in Pos, KernelWrite(p) PROVE NoCorruption'
    <2>1. PICK n \in Amounts(heap[p]) : dest' = Written(buf[p], heap[p], n)
      BY <1>2 DEF KernelWrite
    <2>2. /\ p \in live /\ ~heap[p].read /\ n \in Int /\ n <= heap[p].iov_len
          /\ BlockOK(p) /\ p \in Nat
      BY <1>2, Fields DEF KernelWrite, Running, RingOwnership, Amounts, Blocks, Pos
    <2>3. ASSUME NEW i \in Pos, i >= heap[p].offset, i < heap[p].offset + n
          PROVE  buf[p][heap[p].iov_base + (i - heap[p].offset)] = i
      <3>1. /\ heap[p].iov_base \in Nat /\ heap[p].iov_len \in Nat /\ i \in Nat
            /\ heap[p].offset \in Nat /\ heap[p].first_len \in Nat
        BY Fields DEF Pos
      <3>2. /\ heap[p].offset = p + heap[p].iov_base
            /\ heap[p].iov_base + heap[p].iov_len = heap[p].first_len
            /\ heap[p].first_len <= BUF_SIZE
        BY <2>2 DEF BlockOK
      <3>3. /\ heap[p].iov_base + (i - heap[p].offset) \in 0 .. BUF_SIZE - 1
            /\ heap[p].iov_base + (i - heap[p].offset) < heap[p].first_len
            /\ heap[p].iov_base + (i - heap[p].offset) = i - p
        BY <2>2, <2>3, <3>1, <3>2, ConstantsAssumption
      <3>4. Right(p, heap[p].first_len)
        BY <2>2 DEF Contents
      <3>5. buf[p][i - p] = p + (i - p)
        BY <3>3, <3>4 DEF Right
      <3>6. QED
        BY <2>2, <3>1, <3>3, <3>5
    <2>4. QED
      BY <2>1, <2>3 DEF Written, NoCorruption
  <1>3. \/ UNCHANGED dest \/ \E p \in Pos : KernelWrite(p)
    BY StepCases DEF vars, ControlStep, QueueRead, SubmitReads, ReapRetry, ReapShort,
                     ReapRead, ReapWrite, Drain, KernelRead, KernelError
  <1>4. QED
    BY <1>1, <1>2, <1>3

-----------------------------------------------------------------------------
(* The theorems.  They hold for every file size, buffer size and depth and *)
(* for every set of faults.                                                *)

LEMMA Invariance == Spec => []IInv
  <1>1. IInv /\ [Next]_vars => IInv'
    BY StepType, StepOwnership, StepAccounting, StepBlocks, StepContents,
       StepWriteLeft, StepNoCorruption DEF IInv
  <1>2. QED
    BY InitIInv, <1>1, PTL DEF Spec

(* Type correctness of the whole state; the unsigned counters reads and    *)
(* writes and the lengths of every request never wrap below zero.          *)
THEOREM TypeCorrect == Spec => []TypeOK
  BY Invariance, PTL DEF IInv

(* copy_file uses, frees and requeues only blocks that it owns, one        *)
(* completion per block.                                                   *)
THEOREM RingOwnershipHolds == Spec => []RingOwnership
  BY Invariance, PTL DEF IInv

(* reads and writes count the outstanding requests, at most DEPTH of them. *)
THEOREM AccountingHolds == Spec => []Accounting
  BY Invariance, PTL DEF IInv

(* io_uring_get_sqe in queue_prepped never returns NULL. *)
THEOREM SqeAlwaysAvailable == Spec => []SqeAvailable
  <1>1. IInv => SqeAvailable
    <2>1. SUFFICES ASSUME IInv, Reaping, NEW c \in cq PROVE Cardinality(sq) < DEPTH
      BY DEF SqeAvailable
    <2>2. /\ sq \subseteq live \ {c.data} /\ c.data \in live
      BY <2>1, CompletedBlock DEF IInv, RingOwnership, Completed
    <2>3. /\ Cardinality(live \ {c.data}) = Cardinality(live) - 1
          /\ IsFiniteSet(live \ {c.data})
      BY <2>1, <2>2, LiveFinite, FS_RemoveElement
    <2>4. Cardinality(sq) <= Cardinality(live \ {c.data})
      BY <2>2, <2>3, FS_Subset
    <2>5. Cardinality(live) <= DEPTH
      <3>1. live = Reading \cup Writing /\ Reading \cap Writing = {}
        BY DEF Reading, Writing
      <3>2. Cardinality(live) = Cardinality(Reading) + Cardinality(Writing)
        BY <2>1, <3>1, LiveFinite, FS_Union, FS_EmptySet
      <3>3. QED
        BY <2>1, <3>2 DEF IInv, Accounting, Reaping
    <2>6. QED
      BY <2>1, <2>3, <2>4, <2>5, LiveFinite, ConstantsAssumption
  <1>2. QED
    BY <1>1, Invariance, PTL

(* Only right bytes reach the destination. *)
THEOREM NeverCorrupts == Spec => []NoCorruption
  BY Invariance, PTL DEF IInv

(* A request the kernel has is left alone until it completes. *)
THEOREM KernelOwnsBlocks == Spec => KernelOwnsBlock
  <1>1. ASSUME IInv, IInv', [Next]_vars, NEW p \in inflight, p \in inflight'
        PROVE  /\ heap'[p] = heap[p]
               /\ ~heap[p].read => buf'[p] = buf[p]
               /\ p \in live'
    <2>1. p \in live' /\ p \in Pos /\ p \in live /\ \A c \in cq : p # c.data
      BY <1>1 DEF IInv, TypeOK, RingOwnership, Completed
    <2>2. CASE QueueRead
      BY <2>1, <2>2, QueueReadSets, <1>1 DEF QueueRead, IInv, TypeOK
    <2>3. ASSUME NEW c \in cq, ReapShort(c) PROVE heap'[p] = heap[p] /\ buf' = buf
      BY <1>1, <2>1, <2>3, ReapShortSets DEF ReapShort
    <2>4. ASSUME NEW c \in cq, ReapRead(c) PROVE heap'[p] = heap[p] /\ buf' = buf
      BY <1>1, <2>1, <2>4, ReapReadSets DEF ReapRead
    <2>5. ASSUME NEW c \in cq, ReapWrite(c) \/ Drain(c)
          PROVE heap'[p] = heap[p] /\ buf'[p] = buf[p]
      BY <1>1, <2>1, <2>5 DEF ReapWrite, Drain, Free, IInv, TypeOK
    <2>6. ASSUME NEW q \in Pos, KernelRead(q)
          PROVE  heap'[p] = heap[p] /\ (~heap[p].read => buf'[p] = buf[p])
      BY <1>1, <2>1, <2>6 DEF KernelRead, IInv, TypeOK
    <2>7. ASSUME \/ UNCHANGED vars \/ ControlStep \/ SubmitReads
                 \/ \E c \in cq : ReapRetry(c)
                 \/ \E q \in Pos : KernelWrite(q) \/ KernelError(q)
          PROVE  UNCHANGED <<heap, buf>>
      BY <2>7 DEF vars, memory, ControlStep, SubmitReads, ReapRetry, KernelWrite, KernelError
    <2>8. QED
      BY StepCases, <1>1, <2>1, <2>2, <2>3, <2>4, <2>5, <2>6, <2>7
  <1>2. IInv /\ IInv' /\ [Next]_vars => [BlockKept]_vars
    BY <1>1 DEF BlockKept
  <1>3. QED
    BY <1>2, Invariance, PTL DEF Spec, KernelOwnsBlock

-----------------------------------------------------------------------------
(***************************************************************************)
(* What file_uring2.c achieves when io_uring_submit does not fail and no   *)
(* write is short: a result of 0 means a complete copy, and the program    *)
(* implements FileCopy.  Reads may be short or fail, requests may fail     *)
(* with EAGAIN or otherwise, malloc and the waits may fail.                *)
(***************************************************************************)

Benign == "submit" \notin Faults /\ "short_write" \notin Faults

InBlock(i, p) == p <= i /\ i < p + heap[p].first_len

(* A write is never resumed; once it has completed its block is copied.    *)
Writes == /\ \A p \in Writing : heap[p].iov_base = 0
          /\ \A c \in cq : c.data \in Writing /\ c.res >= 0 =>
                /\ c.res = heap[c.data].iov_len
                /\ \A i \in Pos : InBlock(i, c.data) => dest[i] = i

(* A byte that was queued is copied or its block is still around.          *)
Covered == \A i \in Pos : i < offset =>
              dest[i] = i \/ \E p \in live : InBlock(i, p)

Ending == /\ pc = "fill" /\ had_reads # reads => sq # {}
          /\ pc = "drain" => offset = N /\ Reading = {} /\ writes = Cardinality(live)
          /\ pc = "done" /\ ret = 0 => offset = N /\ live = {}

CInv == IInv /\ Writes /\ Covered /\ Ending

-----------------------------------------------------------------------------
LEMMA InitCInv == Init => CInv
  <1> SUFFICES ASSUME Init PROVE CInv
    OBVIOUS
  <1>1. Writing = {} /\ cq = {}
    BY DEF Init, Writing
  <1>2. Covered
    BY DEF Init, Covered, Pos
  <1>3. QED
    BY <1>1, <1>2, InitIInv DEF CInv, Writes, Ending, Init

(* When nothing is left to queue nor to turn into a write, no read is      *)
(* outstanding and every block is a write.                                 *)
LEMMA RoundOver ==
    ASSUME IInv, pc \in {"main", "reap"}, insize = 0, write_left = 0
    PROVE  offset = N /\ Reading = {} /\ writes = Cardinality(live)
  <1>1. Reading = {}
    <2>1. SUFFICES ASSUME NEW p \in Reading PROVE FALSE
      OBVIOUS
    <2>2. p \in live /\ p \in Pos /\ BlockOK(p)
      BY DEF IInv, TypeOK, Reading, Blocks
    <2>3. heap[p].first_len > 0 /\ heap[p].first_len \in Nat
      BY <2>2, Fields DEF IInv, BlockOK
    <2>4. QED
      BY <2>1, <2>3, WriteLeftSuffices
  <1>2. live = Writing
    BY <1>1 DEF Reading, Writing
  <1>3. offset = N
    BY ConstantsAssumption DEF IInv, TypeOK, Blocks
  <1>4. QED
    BY <1>1, <1>2, <1>3 DEF IInv, Accounting

LEMMA StepEnding == ASSUME Benign, CInv, [Next]_vars PROVE Ending'
  <1> USE DEF CInv
  <1>1. CASE UNCHANGED vars
    BY <1>1 DEF vars, local, ring, memory, Ending, Reading
  <1>2. CASE MainFail \/ WaitFails \/ \E c \in cq : ReapError(c) \/ DrainError(c)
    BY <1>2 DEF MainFail, WaitFails, ReapError, DrainError, Return, Ending
  <1>3. CASE MainStart \/ ReapEnds
    <2>1. /\ pc \in {"main", "reap"} /\ NextRound
          /\ UNCHANGED <<insize, offset, write_left, reads, writes, live, heap, sq, ret>>
      BY <1>3 DEF MainStart, ReapEnds, memory, ring
    <2>2. Reading' = Reading
      BY <2>1, SameBlocks
    <2>3. QED
      BY <2>1, <2>2, RoundOver DEF NextRound, Ending
  <1>4. CASE QueueRead
    BY <1>4 DEF QueueRead, Ending
  <1>5. CASE SubmitReads
    BY <1>5 DEF SubmitReads, Ending
  <1>6. CASE SubmitReadsFails
    BY <1>6 DEF SubmitReadsFails, Ending, Taken, Benign
  <1>7. ASSUME NEW c \in cq, ReapRetry(c) \/ ReapShort(c) \/ ReapRead(c) \/ ReapWrite(c)
        PROVE  Ending'
    BY <1>7 DEF ReapRetry, ReapShort, ReapRead, ReapWrite, Reaping, Ending
  <1>8. ASSUME NEW c \in cq, Drain(c) PROVE Ending'
    <2>1. pc = "drain" /\ pc' = "drain" /\ UNCHANGED offset /\ writes' = writes - 1
      BY <1>8 DEF Drain
    <2>2. Reading' = {} /\ live' = live \ {c.data} /\ c.data \in live
      BY <1>8, <2>1, FreeSets DEF Drain, Ending
    <2>3. Cardinality(live') = Cardinality(live) - 1
      BY <2>2, LiveFinite, FS_RemoveElement
    <2>4. QED
      BY <2>1, <2>2, <2>3 DEF Ending
  <1>9. CASE DrainDone
    <2>1. Cardinality(live) = 0 /\ offset = N /\ UNCHANGED <<offset, live>> /\ pc' = "done"
      BY <1>9 DEF DrainDone, Ending, local, memory, Return
    <2>2. QED
      BY <2>1, LiveFinite, FS_EmptySet DEF Ending
  <1>10. ASSUME NEW p \in Pos, KernelRead(p) \/ KernelWrite(p) \/ KernelError(p)
         PROVE  Ending'
    <2>1. UNCHANGED <<pc, local, ret, live, sq, heap>>
      BY <1>10 DEF KernelRead, KernelWrite, KernelError, Post
    <2>2. QED
      BY <2>1, SameBlocks DEF Ending, local
  <1>11. QED
    BY <1>1, <1>2, <1>3, <1>4, <1>5, <1>6, <1>7, <1>8, <1>9, <1>10
       DEF Next, Program, Kernel, Terminated, Reap, DrainStep

(* What a write does to the destination when it cannot be short. *)
LEMMA WholeWrite ==
    ASSUME Benign, CInv, NEW p \in Pos, KernelWrite(p)
    PROVE  /\ p \in Writing /\ UNCHANGED <<live, heap, offset>>
           /\ \A i \in Pos : dest'[i] = IF InBlock(i, p) THEN i ELSE dest[i]
           /\ \E n \in Nat : n = heap[p].iov_len /\ Post(p, n)
  <1> USE DEF CInv, IInv
  <1>1. PICK n \in Amounts(heap[p]) : dest' = Written(buf[p], heap[p], n) /\ Post(p, n)
    BY DEF KernelWrite
  <1>2. /\ p \in Writing /\ BlockOK(p) /\ ~heap[p].read
        /\ UNCHANGED <<live, heap, offset>>
    BY <1>1 DEF KernelWrite, Running, RingOwnership, Writing, Blocks, Post, local
  <1>3. n = heap[p].iov_len /\ n \in Nat
    BY <1>2, Fields DEF Amounts, Benign
  <1>4. /\ heap[p].iov_base = 0 /\ heap[p].offset = p /\ n = heap[p].first_len
        /\ p \in Nat /\ heap[p].first_len <= BUF_SIZE
    BY <1>2, <1>3, Fields DEF Writes, BlockOK, Pos
  <1>5. ASSUME NEW i \in Pos
        PROVE  dest'[i] = IF InBlock(i, p) THEN buf[p][i - p] ELSE dest[i]
    <2>1. 0 + (i - p) = i - p /\ i \in Nat
      BY <1>4 DEF Pos
    <2>2. QED
      BY <1>1, <1>4, <2>1 DEF Written, InBlock
  <1>6. ASSUME NEW i \in Pos, InBlock(i, p) PROVE buf[p][i - p] = i
    <2>1. Right(p, heap[p].first_len)
      BY <1>2 DEF Contents, Writing
    <2>2. i - p \in 0 .. BUF_SIZE - 1 /\ i - p < heap[p].first_len /\ p + (i - p) = i
      BY <1>4, <1>6, <1>3, ConstantsAssumption DEF InBlock, Pos
    <2>3. QED
      BY <2>1, <2>2 DEF Right
  <1>7. QED
    BY <1>1, <1>2, <1>3, <1>5, <1>6

LEMMA StepWrites == ASSUME Benign, CInv, [Next]_vars PROVE Writes'
  <1> USE DEF CInv
  <1>1. CASE UNCHANGED <<live, heap, dest>> /\ cq' \subseteq cq
    BY <1>1 DEF Writes, Writing, InBlock
  <1>2. CASE QueueRead
    <2>1. /\ cq' = cq /\ dest' = dest /\ Writing' = Writing
          /\ \A p \in live : heap'[p] = heap[p]
      BY <1>2, QueueReadSets DEF QueueRead, IInv, TypeOK
    <2>2. QED
      BY <2>1 DEF Writes, Writing, InBlock
  <1>3. ASSUME NEW c \in cq, ReapShort(c) PROVE Writes'
    <2>1. /\ cq' = cq \ {c} /\ dest' = dest /\ Writing' = Writing
          /\ \A d \in cq' : d \in cq /\ d.data # c.data
      BY <1>3, ReapShortSets DEF ReapShort, Requeue, IInv, RingOwnership
    <2>2. c.data \notin Writing
      BY <1>3, ReapShortSets, CompletedBlock, Fields DEF Writes
    <2>3. \A p \in Writing : heap'[p] = heap[p]
      BY <1>3, <2>2, ReapShortSets DEF Writing, IInv, TypeOK
    <2>4. QED
      BY <2>1, <2>3 DEF Writes, InBlock
  <1>4. ASSUME NEW c \in cq, ReapRead(c) PROVE Writes'
    <2>1. /\ cq' = cq \ {c} /\ dest' = dest /\ Writing' = Writing \cup {c.data}
          /\ \A d \in cq' : d \in cq /\ d.data # c.data
      BY <1>4, ReapReadSets DEF ReapRead, Requeue, IInv, RingOwnership
    <2>2. \A p \in Writing : heap'[p] = heap[p]
      BY <1>4, ReapReadSets DEF Writing, IInv, TypeOK
    <2>3. heap'[c.data].iov_base = 0
      BY <1>4, ReapReadSets, AsWriteFields
    <2>4. QED
      BY <2>1, <2>2, <2>3 DEF Writes, InBlock
  <1>5. ASSUME NEW c \in cq, ReapWrite(c) \/ Drain(c) PROVE Writes'
    <2>1. Free(c.data) /\ cq' = cq \ {c} /\ dest' = dest
      BY <1>5 DEF ReapWrite, Drain
    <2>2. Writing' \subseteq Writing /\ \A p \in Writing' : heap'[p] = heap[p]
      BY <2>1, FreeSets DEF Writing
    <2>3. QED
      BY <2>1, <2>2 DEF Writes, InBlock
  <1>6. ASSUME NEW p \in Pos, KernelRead(p) \/ KernelError(p) PROVE Writes'
    <2>1. PICK r : /\ Post(p, r) /\ UNCHANGED <<heap, dest>>
                   /\ p \in Writing => r < 0
      BY <1>6 DEF KernelRead, KernelError, Writing, EAGAIN, EIO
    <2>2. Writing' = Writing /\ UNCHANGED <<heap, dest>>
      BY <2>1 DEF Post, Writing
    <2>3. ASSUME NEW c \in cq', c.data \in Writing, c.res >= 0 PROVE c \in cq
      <3>1. CASE c = [data |-> p, res |-> r]
        <4>1. c.data = p /\ c.res = r
          BY <3>1
        <4>2. r < 0 /\ r \in Int
          BY <1>6, <2>1, <2>3, <4>1, StepType, CompletedBlock
             DEF KernelRead, KernelError, Post, Writing, EAGAIN, EIO
        <4>3. QED
          BY <2>3, <4>1, <4>2
      <3>2. QED
        BY <2>1, <3>1 DEF Post
    <2>4. QED
      BY <2>2, <2>3 DEF Writes, InBlock
  <1>7. ASSUME NEW p \in Pos, KernelWrite(p) PROVE Writes'
    <2>1. PICK n \in Nat : n = heap[p].iov_len /\ Post(p, n)
      BY <1>7, WholeWrite
    <2>2. /\ Writing' = Writing /\ UNCHANGED heap
          /\ \A i \in Pos : dest'[i] = IF InBlock(i, p) THEN i ELSE dest[i]
      BY <1>7, WholeWrite DEF Writing
    <2>3. ASSUME NEW c \in cq', c.data \in Writing, c.res >= 0
          PROVE  /\ c.res = heap[c.data].iov_len
                 /\ \A i \in Pos : InBlock(i, c.data) => dest'[i] = i
      <3>1. CASE c \in cq
        BY <2>2, <2>3, <3>1 DEF Writes
      <3>2. CASE c = [data |-> p, res |-> n]
        <4>1. c.data = p /\ c.res = n
          BY <3>2
        <4>2. QED
          BY <2>1, <2>2, <4>1
      <3>3. QED
        BY <2>1, <3>1, <3>2 DEF Post
    <2>4. QED
      BY <2>2, <2>3 DEF Writes, InBlock
  <1>8. ASSUME \/ UNCHANGED vars \/ ControlStep \/ SubmitReads
               \/ \E c \in cq : ReapRetry(c)
        PROVE  UNCHANGED <<live, heap, dest>> /\ cq' \subseteq cq
    BY <1>8 DEF vars, memory, ring, ControlStep, SubmitReads, ReapRetry, Requeue
  <1>9. QED
    BY StepCases, <1>1, <1>2, <1>3, <1>4, <1>5, <1>6, <1>7, <1>8

LEMMA StepCovered == ASSUME Benign, CInv, [Next]_vars PROVE Covered'
  <1> USE DEF CInv
  <1>1. CASE UNCHANGED <<live, heap, dest, offset>>
    BY <1>1 DEF Covered, InBlock
  <1>2. CASE QueueRead
    <2>1. /\ dest' = dest /\ live' = live \cup {offset} /\ offset' = offset + ThisSize
          /\ \A p \in live : heap'[p] = heap[p]
          /\ heap'[offset] = Fresh(ThisSize, offset)
          /\ ThisSize \in Nat /\ offset \in Nat
      BY <1>2, QueueReadSets DEF QueueRead, IInv, TypeOK
    <2>2. heap'[offset].first_len = ThisSize
      BY <2>1 DEF Fresh
    <2>3. ASSUME NEW i \in Pos, i < offset'
          PROVE  dest'[i] = i \/ \E p \in live' : p <= i /\ i < p + heap'[p].first_len
      <3>1. i \in Nat
        BY DEF Pos
      <3>2. CASE i < offset
        BY <2>1, <3>2 DEF Covered, InBlock
      <3>3. CASE ~(i < offset)
        BY <2>1, <2>2, <2>3, <3>1, <3>3
      <3>4. QED
        BY <3>2, <3>3
    <2>4. QED
      BY <2>3 DEF Covered, InBlock
  <1>3. ASSUME NEW c \in cq, ReapShort(c) \/ ReapRead(c) PROVE Covered'
    <2>1. UNCHANGED <<live, dest, offset>>
      BY <1>3 DEF ReapShort, ReapRead
    <2>2. \A p \in live : heap'[p].first_len = heap[p].first_len
      <3>1. ASSUME ReapShort(c), NEW p \in live PROVE heap'[p].first_len = heap[p].first_len
        <4>1. p = c.data \/ heap'[p] = heap[p]
          BY <3>1, ReapShortSets DEF IInv, TypeOK
        <4>2. heap'[c.data].first_len = heap[c.data].first_len
          BY <3>1, ReapShortSets, AdvanceFields
        <4>3. QED
          BY <4>1, <4>2
      <3>2. ASSUME ReapRead(c), NEW p \in live PROVE heap'[p].first_len = heap[p].first_len
        <4>1. p = c.data \/ heap'[p] = heap[p]
          BY <3>2, ReapReadSets DEF IInv, TypeOK
        <4>2. heap'[c.data].first_len = heap[c.data].first_len
          BY <3>2, ReapReadSets, AsWriteFields
        <4>3. QED
          BY <4>1, <4>2
      <3>3. QED
        BY <1>3, <3>1, <3>2
    <2>3. QED
      BY <2>1, <2>2 DEF Covered, InBlock
  <1>4. ASSUME NEW c \in cq, ReapWrite(c) \/ Drain(c) PROVE Covered'
    <2>1. Free(c.data) /\ UNCHANGED <<dest, offset>> /\ c.data \in live
      BY <1>4, CompletedBlock DEF ReapWrite, Drain
    <2>2. c.data \in Writing /\ c.res >= 0
      <3>1. CASE ReapWrite(c)
        BY <2>1, <3>1, CompletedBlock, Fields DEF ReapWrite, Writing, IInv
      <3>2. CASE Drain(c)
        BY <2>1, <3>2 DEF Drain, Ending, Writing, Reading
      <3>3. QED
        BY <1>4, <3>1, <3>2
    <2>3. \A i \in Pos : InBlock(i, c.data) => dest[i] = i
      BY <2>2 DEF Writes
    <2>4. live' = live \ {c.data} /\ \A p \in live' : heap'[p] = heap[p]
      BY <2>1, FreeSets
    <2>5. QED
      BY <2>1, <2>3, <2>4 DEF Covered, InBlock
  <1>5. ASSUME NEW p \in Pos, KernelWrite(p) PROVE Covered'
    <2>1. /\ UNCHANGED <<live, heap, offset>>
          /\ \A i \in Pos : dest'[i] = IF InBlock(i, p) THEN i ELSE dest[i]
      BY <1>5, WholeWrite
    <2>2. QED
      BY <2>1 DEF Covered, InBlock
  <1>6. ASSUME \/ UNCHANGED vars \/ ControlStep \/ SubmitReads
               \/ \E c \in cq : ReapRetry(c)
               \/ \E p \in Pos : KernelRead(p) \/ KernelError(p)
        PROVE  UNCHANGED <<live, heap, dest, offset>>
    BY <1>6 DEF vars, memory, local, ControlStep, SubmitReads, ReapRetry, KernelRead,
                KernelError, Post
  <1>7. QED
    BY StepCases, <1>1, <1>2, <1>3, <1>4, <1>5, <1>6

-----------------------------------------------------------------------------
LEMMA CopyInvariance == ASSUME Benign PROVE Spec => []CInv
  <1>1. CInv /\ [Next]_vars => CInv'
    BY StepType, StepOwnership, StepAccounting, StepBlocks, StepContents,
       StepWriteLeft, StepNoCorruption, StepWrites, StepCovered, StepEnding
       DEF CInv, IInv
  <1>2. QED
    BY InitCInv, <1>1, PTL DEF Spec

LEMMA DoneIsComplete == ASSUME CInv PROVE CopyComplete /\ AllFreed
  <1>1. ASSUME offset = N, live = {}, NEW i \in Pos PROVE dest[i] = i
    BY <1>1, ConstantsAssumption DEF CInv, Covered, Pos
  <1>2. QED
    BY <1>1 DEF CInv, Ending, CopyComplete, AllFreed

(* A result of 0 means that every byte of the source is in the destination. *)
THEOREM CopyIsComplete == ASSUME Benign PROVE Spec => []CopyComplete
  BY CopyInvariance, DoneIsComplete, PTL

(* A result of 0 means that every block was freed. *)
THEOREM NothingLeaks == ASSUME Benign PROVE Spec => []AllFreed
  BY CopyInvariance, DoneIsComplete, PTL

-----------------------------------------------------------------------------
(* Refinement: the kernel's writes are the deliveries of FileCopy, the     *)
(* return of 0 its success, every other return its failure.                *)

Result == IF pc # "done" THEN "running" ELSE IF ret = 0 THEN "ok" ELSE "failed"

LEMMA InitRefines == Init => Copy!Init
  BY DEF Init, Copy!Init, Copy!Pos, Copy!Hole, Pos, Hole

LEMMA StepRefines ==
    ASSUME Benign, CInv, [Next]_vars
    PROVE  [Copy!Next]_<<dest, Result>>
  <1> USE DEF Copy!Next, Copy!Pos, Pos, Result
  <1>1. CASE UNCHANGED <<dest, pc, ret>>
    BY <1>1
  <1>2. ASSUME NEW p \in Pos, KernelWrite(p) PROVE Copy!Next
    <2>1. /\ \A i \in Pos : dest'[i] = IF InBlock(i, p) THEN i ELSE dest[i]
          /\ dest' \in [Pos -> Int] /\ UNCHANGED <<pc, ret>> /\ pc # "done"
      <3>1. dest' \in [Pos -> Int]
        BY StepType DEF CInv, TypeOK
      <3>2. UNCHANGED <<pc, ret>> /\ pc # "done"
        BY <1>2 DEF KernelWrite, Running, Post
      <3>3. QED
        BY <1>2, <3>1, <3>2, WholeWrite
    <2> DEFINE S == {i \in Pos : InBlock(i, p)}
    <2>2. dest' = [i \in Pos |-> IF i \in S THEN i ELSE dest[i]]
      BY <2>1
    <2>3. Copy!Deliver(S)
      BY <2>1, <2>2 DEF Copy!Deliver
    <2>4. QED
      BY <2>3
  <1>3. CASE DrainDone
    <2>1. /\ UNCHANGED dest /\ pc = "drain" /\ pc' = "done" /\ ret' = 0
      BY <1>3 DEF DrainDone, Return
    <2>2. \A i \in Pos : dest'[i] = i
      <3>1. offset = N /\ Cardinality(live) = 0
        BY <1>3 DEF DrainDone, CInv, Ending
      <3>2. live = {}
        BY <3>1, LiveFinite, FS_EmptySet DEF CInv
      <3>3. QED
        BY <2>1, <3>1, <3>2, ConstantsAssumption DEF CInv, Covered
    <2>3. Copy!Succeed
      BY <2>1, <2>2 DEF Copy!Succeed
    <2>4. QED
      BY <2>3
  <1>4. CASE MainFail \/ WaitFails \/ \E c \in cq : ReapError(c) \/ DrainError(c)
    <2>1. /\ UNCHANGED dest /\ pc # "done" /\ pc' = "done" /\ ret' \in {-1, 1}
      BY <1>4 DEF MainFail, WaitFails, ReapError, DrainError, Return, Reaping
    <2>2. Copy!Fail
      BY <2>1 DEF Copy!Fail
    <2>3. QED
      BY <2>2
  <1>5. CASE MainStart \/ ReapEnds \/ QueueRead \/ SubmitReads \/ SubmitReadsFails
    <2>1. UNCHANGED <<dest, ret>> /\ pc # "done" /\ pc' # "done"
      BY <1>5 DEF MainStart, ReapEnds, QueueRead, SubmitReads, SubmitReadsFails, NextRound
    <2>2. QED
      BY <2>1
  <1>6. ASSUME NEW c \in cq,
               ReapRetry(c) \/ ReapShort(c) \/ ReapRead(c) \/ ReapWrite(c) \/ Drain(c)
        PROVE  UNCHANGED <<dest, pc, ret>>
    BY <1>6 DEF ReapRetry, ReapShort, ReapRead, ReapWrite, Drain
  <1>7. ASSUME NEW p \in Pos, KernelRead(p) \/ KernelError(p)
        PROVE  UNCHANGED <<dest, pc, ret>>
    BY <1>7 DEF KernelRead, KernelError, Post
  <1>8. QED
    BY <1>1, <1>2, <1>3, <1>4, <1>5, <1>6, <1>7
       DEF Next, Program, Kernel, Terminated, Reap, DrainStep, vars

(* file_uring2.c implements FileCopy. *)
THEOREM Refinement == ASSUME Benign PROVE Spec => RefinesFileCopy
  <1>1. CInv /\ [Next]_vars => [Copy!Next]_<<dest, Result>>
    BY StepRefines
  <1>2. QED
    BY InitRefines, <1>1, CopyInvariance, PTL DEF Spec, RefinesFileCopy, Copy!Spec, Result
=============================================================================
