--------------------------- MODULE FileUringBatch ---------------------------
(***************************************************************************)
(* io_uring/file_uring_single_buffer.c and file_uring_multi_buffer.c: copy *)
(* a file in batches of up to DEPTH blocks.  A batch submits its reads,    *)
(* turns each read completion into a write (read_cqe_recv), submits the    *)
(* writes and waits for them (write_cqe_recv).  The two programs differ in *)
(* how long the write is: what was read, or the whole block.               *)
(*                                                                         *)
(* A block is named by its file offset, handed out once.  Here the order   *)
(* of the completion queue matters, because write_cqe_recv leaves a batch  *)
(* early without consuming what is left of it.                             *)
(***************************************************************************)
EXTENDS Integers, Sequences, FiniteSets

CONSTANTS N, BUF_SIZE,
          Settings      \* programs, rings and environments

FaultKinds == {"open", "stat", "nomem", "submit", "intr", "read_error", "write_error",
               "short_read", "short_write"}

ASSUME ConstantsAssumption ==
    /\ N \in Nat /\ BUF_SIZE \in Nat \ {0}
    /\ \A s \in Settings : /\ s.variant \in {"single", "multi"}
                          /\ s.depth \in Nat \ {0}
                          /\ s.faults \subseteq FaultKinds

VARIABLES
    setting,            \* the one of Settings this behaviour is in
    pc,                 \* "main", "fill", "read_recv", "write_recv", "done"
    insize, offset,     \* bytes not yet queued, and where they start
    reads, writes,      \* size of the batch being queued, being reaped
    i,                  \* loop counter of the two receive functions
    ret,                \* exit status
    live,               \* blocks malloc has handed out
    got,                \* bytes of a block's buffer that were read
    sq, inflight,       \* requests queued, and taken by the kernel
    cq,                 \* completions, a FIFO
    dest                \* the destination file

local  == <<insize, offset, reads, writes, i>>
memory == <<live, got>>
ring   == <<sq, inflight, cq>>
vars   == <<setting, pc, local, ret, memory, ring, dest>>

Variant == setting.variant
DEPTH   == setting.depth    \* entries of the submission queue
Faults  == setting.faults   \* what the environment may do to the program

Pos  == 0 .. N - 1
Junk == -1              \* a byte of malloc'ed memory nobody wrote
Hole == -2              \* a position of the destination nobody wrote
EIO  == -5
SIGSEGV == 139          \* exit status of a NULL dereference

Size(p) == IF BUF_SIZE > N - p THEN N - p ELSE BUF_SIZE
Request(op, p, n) == [op |-> op, data |-> p, len |-> n]

(* What io_uring_submit takes of the queue, and the result of the call. *)
Taken(Q) == IF "submit" \in Faults THEN SUBSET Q ELSE {Q}
SubmitFails(Q) == Q # {} /\ "submit" \in Faults
Submit(Q) == \E S \in Taken(Q) : /\ S # {} \/ Q = {}
                                 /\ inflight' = inflight \cup S
                                 /\ sq' = Q \ S

Exit(r) == pc' = "done" /\ ret' = r

Init == /\ setting \in Settings
        /\ pc = "main"
        /\ insize = N /\ offset = 0 /\ reads = 0 /\ writes = 0 /\ i = 0
        /\ ret = 0
        /\ live = {} /\ got = [p \in Pos |-> 0]
        /\ sq = {} /\ inflight = {} /\ cq = <<>>
        /\ dest = [p \in Pos |-> Hole]

-----------------------------------------------------------------------------
MainFail == /\ pc = "main" /\ "open" \in Faults
            /\ Exit(-1)
            /\ UNCHANGED <<setting, local, memory, ring, dest>>

(* get_file_size returns -1 on failure, which main takes for a size: the   *)
(* loop ends at once because 0 >= -1.                                      *)
MainStart == /\ pc = "main"
             /\ \/ insize' = insize
                \/ "stat" \in Faults /\ insize' = -1
             /\ IF insize' > 0 THEN pc' = "fill" /\ UNCHANGED ret ELSE Exit(0)
             /\ UNCHANGED <<setting, offset, reads, writes, i, memory, ring, dest>>

(* One round of main's loop: a block and its read; the last of a batch is  *)
(* followed by the submit.                                                 *)
ThisSize == IF BUF_SIZE > insize THEN insize ELSE BUF_SIZE

(* Mutant of BatchFull: the batch is one longer than the ring. *)
BatchOverfull == ThisSize = insize \/ reads >= DEPTH

BatchFull == ThisSize = insize \/ reads + 1 >= DEPTH

(* Neither malloc nor io_uring_get_sqe is checked for NULL. *)
SqFull == Cardinality(sq) >= DEPTH

NewBlock == /\ pc = "fill" /\ insize > 0 /\ ~SqFull
            /\ live' = live \cup {offset}
            /\ got' = [got EXCEPT ![offset] = 0]
            /\ insize' = insize - ThisSize
            /\ offset' = offset + ThisSize
            /\ UNCHANGED <<setting, cq, dest>>

QueueRead == /\ NewBlock /\ ~BatchFull
             /\ sq' = sq \cup {Request("read", offset, ThisSize)}
             /\ reads' = reads + 1
             /\ UNCHANGED <<pc, writes, i, ret, inflight>>

SubmitReads == /\ NewBlock /\ BatchFull
               /\ Submit(sq \cup {Request("read", offset, ThisSize)})
               /\ writes' = reads + 1 /\ reads' = 0 /\ i' = 0
               /\ pc' = "read_recv"
               /\ UNCHANGED ret

SubmitReadsFails == /\ NewBlock /\ BatchFull
                    /\ SubmitFails(sq \cup {Request("read", offset, ThisSize)})
                    /\ sq' = sq \cup {Request("read", offset, ThisSize)}
                    /\ reads' = reads + 1
                    /\ Exit(1)
                    /\ UNCHANGED <<writes, i, inflight>>

-----------------------------------------------------------------------------
(* read_cqe_recv: writes completions, each taken for a finished read. *)

(* Mutant of WriteLength: a byte too many. *)
WriteLengthPlusOne(c) == IF c.res < BUF_SIZE THEN c.res + 1 ELSE c.res

WriteLength(c) == IF Variant = "single" THEN c.res ELSE Size(c.data)

Free(p) == live' = live \ {p} /\ got' = [got EXCEPT ![p] = 0]

Receiving(f) == pc = f /\ i < writes /\ cq # <<>>

ReadRecv == /\ Receiving("read_recv") /\ (Head(cq).res < 0 \/ ~SqFull)
            /\ LET c == Head(cq) IN
               IF c.res < 0
               THEN Free(c.data) /\ UNCHANGED sq
               ELSE /\ sq' = sq \cup {Request("write", c.data, WriteLength(c))}
                    /\ UNCHANGED memory
            /\ cq' = Tail(cq)
            /\ i' = i + 1
            /\ UNCHANGED <<setting, pc, insize, offset, reads, writes, ret, inflight, dest>>

NullDeref == /\ \/ pc = "fill" /\ insize > 0 /\ ("nomem" \in Faults \/ SqFull)
                \/ Receiving("read_recv") /\ Head(cq).res >= 0 /\ SqFull
             /\ Exit(SIGSEGV)
             /\ UNCHANGED <<setting, local, memory, ring, dest>>

SubmitWrites == /\ pc = "read_recv" /\ i = writes
                /\ Submit(sq)
                /\ i' = 0
                /\ pc' = "write_recv"
                /\ UNCHANGED <<setting, insize, offset, reads, writes, ret, memory, cq, dest>>

SubmitWritesFails == /\ pc = "read_recv" /\ i = writes /\ SubmitFails(sq)
                     /\ Exit(1)
                     /\ UNCHANGED <<setting, local, memory, ring, dest>>

ReadWaitFails == /\ pc = "read_recv" /\ i < writes /\ "intr" \in Faults
                 /\ Exit(1)
                 /\ UNCHANGED <<setting, local, memory, ring, dest>>

-----------------------------------------------------------------------------
(* write_cqe_recv: as many completions, each taken for a finished write.   *)

(* Mutant of WriteRecv: the completion is not marked seen. *)
WriteRecvUnseen == /\ Receiving("write_recv") /\ Head(cq).res >= 0
                   /\ Free(Head(cq).data)
                   /\ i' = i + 1
                   /\ UNCHANGED <<setting, pc, insize, offset, reads, writes, ret, ring, dest>>

(* Mutant of WriteRecv: the completion is neither seen nor counted. *)
WriteRecvAgain == /\ Receiving("write_recv") /\ Head(cq).res >= 0
                  /\ Free(Head(cq).data)
                  /\ UNCHANGED <<setting, pc, local, ret, ring, dest>>

WriteRecv == /\ Receiving("write_recv") /\ Head(cq).res >= 0
             /\ Free(Head(cq).data)
             /\ cq' = Tail(cq)
             /\ i' = i + 1
             /\ UNCHANGED <<setting, pc, insize, offset, reads, writes, ret, sq, inflight, dest>>

(* Mutant of BatchOver: the last write is not waited for. *)
BatchOverEarly == i + 1 >= writes

(* All completions, a failed wait, or a failed write, whose completion and *)
(* those behind it stay in the queue: main goes on with the next batch.    *)
BatchOver == \/ i = writes
             \/ "intr" \in Faults
             \/ Receiving("write_recv") /\ Head(cq).res < 0

EndBatch == /\ pc = "write_recv" /\ BatchOver
            /\ writes' = 0 /\ i' = 0
            /\ IF insize = 0 THEN Exit(0) ELSE pc' = "fill" /\ UNCHANGED ret
            /\ UNCHANGED <<setting, insize, offset, reads, memory, ring, dest>>

-----------------------------------------------------------------------------
(* The kernel.  It may complete any request it has taken. *)

Post(q, r) == /\ inflight' = inflight \ {q}
              /\ cq' = Append(cq, [data |-> q.data, res |-> r])
              /\ UNCHANGED <<setting, pc, local, ret, live, sq>>

Running(q, op) == pc # "done" /\ q.op = op

KernelRead(q) == /\ Running(q, "read")
                 /\ \E n \in IF "short_read" \in Faults THEN 0 .. q.len ELSE {q.len} :
                       /\ got' = [got EXCEPT ![q.data] = n]
                       /\ Post(q, n)
                 /\ UNCHANGED dest

KernelWrite(q) ==
    /\ Running(q, "write")
    /\ \E n \in IF "short_write" \in Faults THEN 0 .. q.len ELSE {q.len} :
          /\ dest' = [k \in Pos |-> IF k >= q.data /\ k < q.data + n
                                    THEN IF k < q.data + got[q.data] THEN k ELSE Junk
                                    ELSE dest[k]]
          /\ Post(q, n)
    /\ UNCHANGED got

KernelError(q) == /\ \/ Running(q, "read") /\ "read_error" \in Faults
                     \/ Running(q, "write") /\ "write_error" \in Faults
                  /\ Post(q, EIO)
                  /\ UNCHANGED <<got, dest>>

-----------------------------------------------------------------------------
Program == \/ MainFail \/ MainStart
           \/ QueueRead \/ SubmitReads \/ SubmitReadsFails \/ NullDeref
           \/ ReadRecv \/ SubmitWrites \/ SubmitWritesFails \/ ReadWaitFails
           \/ WriteRecv \/ EndBatch

Kernel == \E q \in inflight : KernelRead(q) \/ KernelWrite(q) \/ KernelError(q)

Terminated == pc = "done" /\ UNCHANGED vars

Next == Program \/ Kernel \/ Terminated

Spec == Init /\ [][Next]_vars

(* The program is scheduled and every submitted request completes. *)
FairSpec == Spec /\ WF_vars(Program) /\ WF_vars(Kernel)

-----------------------------------------------------------------------------
(* Properties. *)

Requested  == {q.data : q \in sq \cup inflight}
Completed  == {cq[k].data : k \in DOMAIN cq}

(* Whatever fails and in whatever order the leftovers of an abandoned      *)
(* batch come back, every block is freed at most once, none is freed while *)
(* the kernel works on it and no completion names a freed one.             *)
BlockOwnership ==
    /\ live = Requested \cup Completed
    /\ Requested \cap Completed = {}
    /\ Cardinality(sq) + Cardinality(inflight) = Cardinality(Requested)
    /\ Len(cq) = Cardinality(Completed)

(* io_uring_get_sqe is used unchecked, and the leftovers of an abandoned   *)
(* batch are queued on top of the new one: still it never returns NULL, as *)
(* long as every submission is taken whole.                                *)
SqeAvailable == Faults \cap {"submit", "nomem"} = {} => ret # SIGSEGV

(* No position of the destination holds anything but the source's byte.    *)
(* The multi_buffer program writes whole blocks, so it needs whole reads.  *)
NoJunk == Variant = "single" \/ "short_read" \notin Faults =>
             \A k \in Pos : dest[k] \in {Hole, k}

(* The failures after which the programs carry on as if nothing happened.  *)
Unnoticed == {"stat", "intr", "write_error", "short_read", "short_write"}

(* An exit status of 0 means that the copy is complete, unless one of the  *)
(* failures the programs do not notice can happen.                         *)
CopyComplete == Faults \cap Unnoticed = {} =>
                   (pc = "done" /\ ret = 0 => \A k \in Pos : dest[k] = k)
=============================================================================
