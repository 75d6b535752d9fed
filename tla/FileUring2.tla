----------------------------- MODULE FileUring2 -----------------------------
(***************************************************************************)
(* io_uring/file_uring2.c: copy a file through one io_uring with up to     *)
(* DEPTH requests outstanding.  Reads and writes are in flight at the same *)
(* time; each block is read, turned into a write in place and freed when   *)
(* the write is done; short transfers and EAGAIN are queued again.         *)
(*                                                                         *)
(* The program and the kernel interleave.  A block of memory (struct       *)
(* io_data) is named by the file offset it is allocated for, which is      *)
(* handed out once.  The completion queue is a set: the kernel completes   *)
(* requests in any order, so the order of the queue adds no behaviour.     *)
(***************************************************************************)
EXTENDS Integers, FiniteSets

CONSTANTS N,            \* size of the source file (insize at the start)
          BUF_SIZE,     \* largest request
          DEPTH,        \* entries of the submission queue
          Faults        \* what the environment may do to the program

FaultKinds == {"open",          \* open, queue_init or fstat fails
               "nomem",         \* malloc fails
               "submit",        \* io_uring_submit takes some or none
               "intr",          \* io_uring_wait_cqe fails
               "eagain",        \* a request completes with -EAGAIN
               "eio",           \* a request completes with another error
               "short_read",    \* a read transfers fewer bytes than asked
               "short_write",   \* a write does
               "eof"}           \* a read finds the source truncated

ASSUME ConstantsAssumption ==
    /\ N \in Nat
    /\ BUF_SIZE \in Nat \ {0}
    /\ DEPTH \in Nat \ {0}
    /\ Faults \subseteq FaultKinds

VARIABLES
    pc,                 \* "main", "fill", "reap", "drain", "done"
    insize, offset,     \* bytes not yet queued, and where they start
    write_left,         \* bytes not yet turned into a write
    reads, writes,      \* requests the program believes outstanding
    had_reads, got_comp,\* locals of one round of the outer loop
    ret,                \* exit status
    live,               \* blocks malloc has handed out
    heap, buf,          \* their struct io_data, and the bytes after it
    sq, inflight, cq,   \* queued, taken by the kernel, completed
    dest                \* the destination file

Pos  == 0 .. N - 1
Junk == -1              \* a byte of malloc'ed memory nobody wrote
Hole == -2              \* a position of the destination nobody wrote
EIO    == -5
EAGAIN == -11

local == <<insize, offset, write_left, reads, writes, had_reads, got_comp>>
ring  == <<sq, inflight, cq>>
memory == <<live, heap, buf>>
vars  == <<pc, local, ret, memory, ring, dest>>

(* struct io_data; iov_base counts from data + 1, where the bytes are. *)
IoData == [read : BOOLEAN, first_offset : Nat, offset : Nat, first_len : Nat,
           iov_base : Nat, iov_len : Nat]
Bytes  == [0 .. BUF_SIZE - 1 -> Int]

Fresh(size, off) ==
    [read |-> TRUE, first_offset |-> off, offset |-> off, first_len |-> size,
     iov_base |-> 0, iov_len |-> size]
Uninitialised == [j \in 0 .. BUF_SIZE - 1 |-> Junk]

(* d with the fields that describe the transfer to make replaced. *)
Request(d, rd, off, base, len) ==
    [read |-> rd, first_offset |-> d.first_offset, offset |-> off,
     first_len |-> d.first_len, iov_base |-> base, iov_len |-> len]

ThisSize == IF insize > BUF_SIZE THEN BUF_SIZE ELSE insize

Init == /\ pc = "main"
        /\ insize = N /\ offset = 0 /\ write_left = N
        /\ reads = 0 /\ writes = 0 /\ had_reads = 0 /\ got_comp = FALSE
        /\ ret = 0
        /\ live = {}
        /\ heap = [p \in Pos |-> Fresh(0, 0)]
        /\ buf = [p \in Pos |-> Uninitialised]
        /\ sq = {} /\ inflight = {} /\ cq = {}
        /\ dest = [i \in Pos |-> Hole]

Return(r) == pc' = "done" /\ ret' = r

-----------------------------------------------------------------------------
(* The submission queue.  io_uring_submit hands every queued entry to the  *)
(* kernel; a failing one takes a part, and an entry it leaves stays queued *)
(* for the next call.                                                      *)

Taken(Q) == IF "submit" \in Faults THEN SUBSET Q ELSE {Q}

(* Mutant of Requeue: io_uring_cqe_seen is forgotten. *)
RequeueUnseen(c) == \E S \in Taken(sq \cup {c.data}) :
                       /\ inflight' = inflight \cup S
                       /\ sq' = (sq \cup {c.data}) \ S
                       /\ UNCHANGED cq

(* queue_prepped followed by io_uring_submit, whose result is ignored, and *)
(* io_uring_cqe_seen of the completion that caused it.                     *)
Requeue(c) == \E S \in Taken(sq \cup {c.data}) :
                 /\ inflight' = inflight \cup S
                 /\ sq' = (sq \cup {c.data}) \ S
                 /\ cq' = cq \ {c}

-----------------------------------------------------------------------------
(* main and the head of copy_file. *)

MainFail == /\ pc = "main" /\ "open" \in Faults
            /\ Return(-1)
            /\ UNCHANGED <<local, memory, ring, dest>>

(* The test of the outer while: a new round, or the final drain. *)
NextRound == /\ pc' = IF insize # 0 \/ write_left # 0 THEN "fill" ELSE "drain"
             /\ had_reads' = reads

MainStart == /\ pc = "main"
             /\ NextRound
             /\ UNCHANGED <<insize, offset, write_left, reads, writes, got_comp,
                            ret, memory, ring, dest>>

-----------------------------------------------------------------------------
(* Filling the ring. *)

(* Mutant of SlotFree: one request too many. *)
SlotFreeOffByOne == reads + writes <= DEPTH

SlotFree == reads + writes < DEPTH

(* queue_read fails if malloc does or if there is no free entry. *)
QueueReadFails == "nomem" \in Faults \/ Cardinality(sq) >= DEPTH

QueueRead == /\ pc = "fill" /\ insize # 0 /\ SlotFree
             /\ Cardinality(sq) < DEPTH
             /\ live' = live \cup {offset}
             /\ heap' = [heap EXCEPT ![offset] = Fresh(ThisSize, offset)]
             /\ buf' = [buf EXCEPT ![offset] = Uninitialised]
             /\ sq' = sq \cup {offset}
             /\ insize' = insize - ThisSize
             /\ offset' = offset + ThisSize
             /\ reads' = reads + 1
             /\ UNCHANGED <<pc, write_left, writes, had_reads, got_comp, ret,
                            inflight, cq, dest>>

FillEnds == insize = 0 \/ ~SlotFree \/ QueueReadFails

(* One submit for all reads of the round, or none if none was queued. *)
SubmitReads == /\ pc = "fill" /\ FillEnds
               /\ IF had_reads = reads
                  THEN UNCHANGED ring
                  ELSE \E S \in Taken(sq) : /\ S # {}
                                            /\ inflight' = inflight \cup S
                                            /\ sq' = sq \ S
                                            /\ UNCHANGED cq
               /\ pc' = "reap"
               /\ got_comp' = FALSE
               /\ UNCHANGED <<insize, offset, write_left, reads, writes,
                              had_reads, ret, memory, dest>>

(* The submit fails: the code leaves the outer loop and drains. *)
SubmitReadsFails == /\ pc = "fill" /\ FillEnds
                    /\ had_reads # reads
                    /\ {} \in Taken(sq)
                    /\ pc' = "drain"
                    /\ UNCHANGED <<local, ret, memory, ring, dest>>

-----------------------------------------------------------------------------
(* Reaping.  A completion is taken after a wait (the first of a round) or  *)
(* a peek; both return the same entry, and peek may find none.             *)

Reaping == pc = "reap" /\ write_left # 0

ReapRetry(c) ==
    /\ Reaping /\ c.res = EAGAIN
    /\ Requeue(c)
    /\ got_comp' = TRUE
    /\ UNCHANGED <<pc, insize, offset, write_left, reads, writes, had_reads,
                   ret, memory, dest>>

ReapError(c) ==
    /\ Reaping /\ c.res < 0 /\ c.res # EAGAIN
    /\ got_comp' = TRUE
    /\ Return(1)
    /\ UNCHANGED <<insize, offset, write_left, reads, writes, had_reads,
                   memory, ring, dest>>

(* Mutant of Advance: the file offset is not moved. *)
AdvanceBufferOnly(d, n) ==
    Request(d, d.read, d.offset, d.iov_base + n, d.iov_len - n)

(* A short transfer: advance the request past what was done. *)
Advance(d, n) == Request(d, d.read, d.offset + n, d.iov_base + n, d.iov_len - n)

ReapShort(c) ==
    /\ Reaping /\ c.res >= 0 /\ c.res # heap[c.data].iov_len
    /\ heap' = [heap EXCEPT ![c.data] = Advance(@, c.res)]
    /\ Requeue(c)
    /\ got_comp' = TRUE
    /\ UNCHANGED <<pc, insize, offset, write_left, reads, writes, had_reads,
                   ret, live, buf, dest>>

(* Mutant of AsWrite: the request is not rewound to the block's start. *)
AsWriteNoRewind(d) == Request(d, FALSE, d.offset, d.iov_base, d.iov_len)

(* queue_write: the same block, from its start, as a write. *)
AsWrite(d) == Request(d, FALSE, d.first_offset, 0, d.first_len)

(* Mutant of ReapRead: the block is freed once its write is queued. *)
ReapReadFreesEarly(c) ==
    /\ Reaping /\ c.res = heap[c.data].iov_len /\ heap[c.data].read
    /\ heap' = [heap EXCEPT ![c.data] = AsWrite(@)]
    /\ live' = live \ {c.data}
    /\ Requeue(c)
    /\ write_left' = write_left - heap[c.data].first_len
    /\ reads' = reads - 1
    /\ writes' = writes + 1
    /\ got_comp' = TRUE
    /\ UNCHANGED <<pc, insize, offset, had_reads, ret, buf, dest>>

ReapRead(c) ==
    /\ Reaping /\ c.res = heap[c.data].iov_len /\ heap[c.data].read
    /\ heap' = [heap EXCEPT ![c.data] = AsWrite(@)]
    /\ Requeue(c)
    /\ write_left' = write_left - heap[c.data].first_len
    /\ reads' = reads - 1
    /\ writes' = writes + 1
    /\ got_comp' = TRUE
    /\ UNCHANGED <<pc, insize, offset, had_reads, ret, live, buf, dest>>

(* free(data): what the block holds afterwards means nothing. *)
Free(p) == /\ live' = live \ {p}
           /\ heap' = [heap EXCEPT ![p] = Fresh(0, 0)]
           /\ buf' = [buf EXCEPT ![p] = Uninitialised]

(* Mutant of ReapWrite: a finished write is counted as a read. *)
ReapWriteWrongCounter(c) ==
    /\ Reaping /\ c.res = heap[c.data].iov_len /\ ~heap[c.data].read
    /\ Free(c.data)
    /\ reads' = reads - 1
    /\ cq' = cq \ {c}
    /\ got_comp' = TRUE
    /\ UNCHANGED <<pc, insize, offset, write_left, writes, had_reads, ret,
                   sq, inflight, dest>>

ReapWrite(c) ==
    /\ Reaping /\ c.res = heap[c.data].iov_len /\ ~heap[c.data].read
    /\ Free(c.data)
    /\ writes' = writes - 1
    /\ cq' = cq \ {c}
    /\ got_comp' = TRUE
    /\ UNCHANGED <<pc, insize, offset, write_left, reads, had_reads, ret,
                   sq, inflight, dest>>

(* No byte left to turn into a write, or peek found the queue empty. *)
ReapEnds == /\ pc = "reap"
            /\ write_left = 0 \/ (got_comp /\ cq = {})
            /\ NextRound
            /\ UNCHANGED <<insize, offset, write_left, reads, writes, got_comp,
                           ret, memory, ring, dest>>

WaitFails == /\ \/ Reaping /\ ~got_comp
                \/ pc = "drain" /\ writes # 0
             /\ "intr" \in Faults
             /\ Return(1)
             /\ UNCHANGED <<local, memory, ring, dest>>

-----------------------------------------------------------------------------
(* The drain after the loop.  It compares no lengths and looks at no kind. *)

Drain(c) == /\ pc = "drain" /\ writes # 0 /\ c.res >= 0
            /\ Free(c.data)
            /\ writes' = writes - 1
            /\ cq' = cq \ {c}
            /\ UNCHANGED <<pc, insize, offset, write_left, reads, had_reads,
                           got_comp, ret, sq, inflight, dest>>

DrainError(c) == /\ pc = "drain" /\ writes # 0 /\ c.res < 0
                 /\ Return(1)
                 /\ UNCHANGED <<local, memory, ring, dest>>

DrainDone == /\ pc = "drain" /\ writes = 0
             /\ Return(0)
             /\ UNCHANGED <<local, memory, ring, dest>>

-----------------------------------------------------------------------------
(* The kernel.  It may complete any request it has taken, until the        *)
(* program's io_uring_queue_exit.                                          *)

Post(p, r) == /\ inflight' = inflight \ {p}
              /\ cq' = cq \cup {[data |-> p, res |-> r]}
              /\ UNCHANGED <<pc, local, ret, live, sq>>

Running(p) == pc # "done" /\ p \in inflight

(* How many bytes a request of d may transfer. *)
Amounts(d) == IF d.read THEN {n \in 0 .. d.iov_len : \/ n = d.iov_len
                                                     \/ n > 0 /\ "short_read" \in Faults
                                                     \/ n = 0 /\ "eof" \in Faults}
                        ELSE {n \in 1 .. d.iov_len : \/ n = d.iov_len
                                                     \/ "short_write" \in Faults}

(* readv of n bytes into the buffer of d; writev of n bytes from it. *)
Filled(b, d, n) == [j \in 0 .. BUF_SIZE - 1 |->
                       IF j >= d.iov_base /\ j < d.iov_base + n
                       THEN d.offset + (j - d.iov_base) ELSE b[j]]

Written(b, d, n) == [i \in Pos |-> IF i >= d.offset /\ i < d.offset + n
                                   THEN b[d.iov_base + (i - d.offset)]
                                   ELSE dest[i]]

KernelRead(p) == /\ Running(p) /\ heap[p].read
                 /\ \E n \in Amounts(heap[p]) :
                       /\ buf' = [buf EXCEPT ![p] = Filled(@, heap[p], n)]
                       /\ Post(p, n)
                 /\ UNCHANGED <<heap, dest>>

KernelWrite(p) == /\ Running(p) /\ ~heap[p].read
                  /\ \E n \in Amounts(heap[p]) :
                        /\ dest' = Written(buf[p], heap[p], n)
                        /\ Post(p, n)
                  /\ UNCHANGED <<heap, buf>>

KernelError(p) == /\ Running(p)
                  /\ \/ "eagain" \in Faults /\ Post(p, EAGAIN)
                     \/ "eio" \in Faults /\ Post(p, EIO)
                  /\ UNCHANGED <<heap, buf, dest>>

-----------------------------------------------------------------------------
Reap == \E c \in cq : \/ ReapRetry(c) \/ ReapError(c) \/ ReapShort(c)
                      \/ ReapRead(c) \/ ReapWrite(c)

DrainStep == \E c \in cq : Drain(c) \/ DrainError(c)

Program == \/ MainFail \/ MainStart
           \/ QueueRead \/ SubmitReads \/ SubmitReadsFails
           \/ Reap \/ ReapEnds
           \/ DrainStep \/ DrainDone

Kernel == \E p \in Pos : KernelRead(p) \/ KernelWrite(p) \/ KernelError(p)

Terminated == pc = "done" /\ UNCHANGED vars

Next == Program \/ WaitFails \/ Kernel \/ Terminated

Spec == Init /\ [][Next]_vars

(* The program is scheduled, and the kernel does not answer EAGAIN for ever: *)
(* a request queued again and again is carried out at last.  Nothing is owed *)
(* to a wait: no signal need ever interrupt one, so that a wait for which    *)
(* nothing is under way lasts.                                               *)
Fairness == /\ WF_vars(Program)
            /\ \A p \in Pos : /\ SF_vars(KernelRead(p))
                              /\ SF_vars(KernelWrite(p))

FairSpec == Spec /\ Fairness

-----------------------------------------------------------------------------
(* Properties. *)

(* The counters of copy_file (two unsigned, the others off_t) count down   *)
(* what is left and outstanding: none of them goes below zero, whatever    *)
(* the environment does, and the block a completion names is one           *)
(* queue_read could have made.                                             *)
TypeOK ==
    /\ pc \in {"main", "fill", "reap", "drain", "done"}
    /\ insize \in Nat /\ offset \in Nat /\ write_left \in Nat
    /\ reads \in Nat /\ writes \in Nat /\ had_reads \in Nat
    /\ got_comp \in BOOLEAN
    /\ ret \in {-1, 0, 1}
    /\ live \subseteq Pos
    /\ heap \in [Pos -> IoData] /\ buf \in [Pos -> Bytes]
    /\ sq \subseteq Pos /\ inflight \subseteq Pos
    /\ cq \subseteq [data : Pos, res : Int]
    /\ dest \in [Pos -> Int]

Completed == {c.data : c \in cq}
Reading   == {p \in live : heap[p].read}
Writing   == {p \in live : ~heap[p].read}

(* Every block that is not freed is in exactly one place: queued, with the *)
(* kernel, or in one completion.  So copy_file never frees or reuses a     *)
(* block the kernel still has, never frees one twice and leaks none, under *)
(* every fault.                                                            *)
RingOwnership ==
    /\ live = sq \cup inflight \cup Completed
    /\ sq \cap inflight = {}
    /\ (sq \cup inflight) \cap Completed = {}
    /\ \A c, d \in cq : c.data = d.data => c = d

(* In the loop the counters reads and writes are the numbers of blocks     *)
(* being read and written, at most DEPTH together; in the drain there are  *)
(* at least as many blocks as completions it is going to wait for.         *)
Accounting ==
    /\ pc \in {"main", "fill", "reap"} =>
          /\ reads = Cardinality(Reading)
          /\ writes = Cardinality(Writing)
          /\ reads + writes <= DEPTH
    /\ pc = "drain" => writes <= Cardinality(live)

(* queue_prepped uses the result of io_uring_get_sqe unchecked: whenever a *)
(* completion can make it queue again, an entry is free.                   *)
SqeAvailable == Reaping /\ cq # {} => Cardinality(sq) < DEPTH

(* No position of the destination ever holds a byte that is not the one    *)
(* the source has there: not of another block, not of memory malloc left   *)
(* uninitialised.                                                          *)
NoCorruption == \A i \in Pos : dest[i] \in {Hole, i}

BlockKept == \A p \in inflight \cap inflight' :
                /\ heap'[p] = heap[p]
                /\ ~heap[p].read => buf'[p] = buf[p]
                /\ p \in live'

(* While the kernel has a request neither its iovec nor its buffer changes *)
(* under it, and its block stays allocated.                                *)
KernelOwnsBlock == [][BlockKept]_vars

(* A copy that returns 0 has copied every byte. *)
CopyComplete == pc = "done" /\ ret = 0 => \A i \in Pos : dest[i] = i

(* A copy that returns 0 has freed every block. *)
AllFreed == pc = "done" /\ ret = 0 => live = {}

(* copy_file returns: it never waits, in the loop or in the drain, for a   *)
(* completion that nothing outstanding will bring.                         *)
Terminates == <>(pc = "done")

(* The program is a FileCopy: only bytes in their right places arrive, and *)
(* it ends with 0 only when all are there.                                 *)
Copy == INSTANCE FileCopy WITH
          result <- IF pc # "done" THEN "running"
                    ELSE IF ret = 0 THEN "ok" ELSE "failed"

RefinesFileCopy == Copy!Spec
=============================================================================
