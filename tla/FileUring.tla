------------------------------ MODULE FileUring ------------------------------
(***************************************************************************)
(* io_uring/file_uring.c: queue a read for every block of the file, submit *)
(* once, then append each block to the destination in the order in which   *)
(* the reads complete.                                                     *)
(*                                                                         *)
(* Block k is the bytes from k * BUF_SIZE on; the destination is the       *)
(* sequence of the source positions whose bytes were written to it.        *)
(***************************************************************************)
EXTENDS Integers, Sequences, FiniteSets

CONSTANTS MaxSize,      \* bound on the size of the source file
          BUF_SIZE, DEPTH,
          FaultSets     \* what may fail in a run: one of these sets of faults

FaultKinds == {"open", "stat", "nomem", "submit", "intr", "eio", "short_read", "enospc"}

VARIABLES size,         \* size of the source file
          Faults,       \* what may fail
          file_sz,      \* what get_file_size says
          pc,           \* "main", "queue", "submit", "reap", "done"
          index,        \* the block to queue next (i; offset = i * BUF_SIZE)
          ret, j,       \* entries submitted, and completions handled
          status,       \* exit status
          sq, inflight, \* blocks queued, and with the kernel
          cq,           \* completions [data, res]
          dest

given == <<size, Faults>>
ring == <<sq, inflight, cq>>
vars == <<given, file_sz, pc, index, ret, j, status, ring, dest>>

EIO     == -5
SIGSEGV == 139

Blocks == 0 .. MaxSize \div BUF_SIZE
Size(k) == IF size - k * BUF_SIZE < BUF_SIZE THEN size - k * BUF_SIZE ELSE BUF_SIZE
Bytes(k, n) == [x \in 1 .. n |-> k * BUF_SIZE + x - 1]

Exit(s) == pc' = "done" /\ status' = s

Init == /\ size \in 0 .. MaxSize /\ Faults \in FaultSets /\ file_sz = 0
        /\ pc = "main" /\ index = 0 /\ ret = 0 /\ j = 0 /\ status = 0
        /\ sq = {} /\ inflight = {} /\ cq = {} /\ dest = <<>>

MainFail == /\ pc = "main" /\ "open" \in Faults
            /\ Exit(-1)
            /\ UNCHANGED <<given, file_sz, index, ret, j, ring, dest>>

MainStart == /\ pc = "main"
             /\ \/ file_sz' = size
                \/ "stat" \in Faults /\ file_sz' = -1
             /\ pc' = "queue"
             /\ UNCHANGED <<given, index, ret, j, status, ring, dest>>

(* One round of the queueing loop.  The test is offset > file_sz, so a     *)
(* file of whole blocks gets one more read, of no bytes.                   *)
LastBlock == (index + 1) * BUF_SIZE > file_sz

QueueRead == /\ pc = "queue" /\ Cardinality(sq) < DEPTH
             /\ sq' = sq \cup {index}
             /\ index' = index + 1
             /\ pc' = IF LastBlock THEN "submit" ELSE "queue"
             /\ UNCHANGED <<given, file_sz, ret, j, status, inflight, cq, dest>>

(* malloc returns NULL, which memset writes to, or io_uring_get_sqe does,  *)
(* which io_uring_prep_read writes to.                                     *)
NullDeref == /\ pc = "queue" /\ ("nomem" \in Faults \/ Cardinality(sq) >= DEPTH)
             /\ Exit(SIGSEGV)
             /\ UNCHANGED <<given, file_sz, index, ret, j, ring, dest>>

(* The kernel takes the entries in order, and may not take all of them. *)
Submit == /\ pc = "submit"
          /\ ret' \in IF "submit" \in Faults THEN 1 .. index ELSE {index}
          /\ inflight' = {k \in sq : k < ret'}
          /\ sq' = sq \ inflight'
          /\ pc' = "reap"
          /\ UNCHANGED <<given, file_sz, index, j, status, cq, dest>>

SubmitFails == /\ pc = "submit" /\ "submit" \in Faults
               /\ Exit(-1)
               /\ UNCHANGED <<given, file_sz, index, ret, j, ring, dest>>

(* write() of res bytes at the current position.  A negative res becomes a *)
(* huge length, which write refuses; it may also write less than asked.    *)
Write(c) == /\ pc = "reap" /\ j < ret /\ c.res >= 0
            /\ \E n \in IF "enospc" \in Faults THEN 0 .. c.res ELSE {c.res} :
                  dest' = dest \o Bytes(c.data, n)
            /\ cq' = cq \ {c}
            /\ j' = j + 1
            /\ UNCHANGED <<given, file_sz, pc, index, ret, status, sq, inflight>>

WriteFails(c) == /\ pc = "reap" /\ j < ret
                 /\ c.res < 0 \/ "enospc" \in Faults
                 /\ Exit(-1)
                 /\ UNCHANGED <<given, file_sz, index, ret, j, ring, dest>>

WaitFails == /\ pc = "reap" /\ j < ret /\ "intr" \in Faults
             /\ Exit(-1)
             /\ UNCHANGED <<given, file_sz, index, ret, j, ring, dest>>

Finish == /\ pc = "reap" /\ j = ret
          /\ Exit(0)
          /\ UNCHANGED <<given, file_sz, index, ret, j, ring, dest>>

(* The kernel completes the reads in any order. *)
Complete(k) == /\ pc # "done" /\ k \in inflight
               /\ \E r \in {Size(k)}
                           \cup (IF "short_read" \in Faults THEN 0 .. Size(k) ELSE {})
                           \cup (IF "eio" \in Faults THEN {EIO} ELSE {}) :
                     cq' = cq \cup {[data |-> k, res |-> r]}
               /\ inflight' = inflight \ {k}
               /\ UNCHANGED <<given, file_sz, pc, index, ret, j, status, sq, dest>>

Program == \/ MainFail \/ MainStart \/ QueueRead \/ NullDeref
           \/ Submit \/ SubmitFails \/ Finish
           \/ \E c \in cq : Write(c) \/ WriteFails(c)

Kernel == \E k \in Blocks : Complete(k)

Terminated == pc = "done" /\ UNCHANGED vars

Next == Program \/ WaitFails \/ Kernel \/ Terminated

Spec == Init /\ [][Next]_vars

(* The program is scheduled and every submitted request completes; no wait *)
(* is owed an interruption.                                                *)
FairSpec == Spec /\ WF_vars(Program) /\ WF_vars(Kernel)

-----------------------------------------------------------------------------
(* When nothing fails and the reads fit in the ring, the program that ends *)
(* with 0 wrote every byte of the file exactly once: a completion is       *)
(* consumed once and its block appended once.  (Their order is that of the *)
(* completions, which need not be that of the file.)                       *)
AllBytes == pc = "done" /\ Faults = {} /\ size < DEPTH * BUF_SIZE =>
               /\ status = 0
               /\ Len(dest) = size
               /\ \A b \in 0 .. size - 1 : \E x \in DOMAIN dest : dest[x] = b
=============================================================================
