---------------------------- MODULE MCOtherCopies ----------------------------
(***************************************************************************)
(* Instances for TLC of the copy programs besides file_uring2: the two     *)
(* that copy in batches, in environments without the faults that each      *)
(* property has to leave out, and those that write with write(2), fwrite   *)
(* and sendfile.  A behaviour is one run of one of them, chosen at the     *)
(* start.                                                                  *)
(***************************************************************************)
EXTENDS FileUringBatch

CONSTANTS MaxSize,      \* of the source files of the other three
          RingDepth,    \* of file_uring
          StdioSize     \* of normal

ASSUME SizesAssumption == {MaxSize, StdioSize} \subseteq Nat /\ RingDepth \in Nat \ {0}

VARIABLES which,        \* "batch", "file_uring", "normal" or "sendfile"
          size, u_faults, file_sz, u_pc, index, u_ret, j, u_status,
          u_sq, u_inflight, u_cq, u_dest,
          n_faults, n_pc, rd, bytes_read, wr, flushed, error, n_status,
          s_faults, s_pc, opened, bytes_sent, written, s_status

uring  == <<size, u_faults, file_sz, u_pc, index, u_ret, j, u_status,
            u_sq, u_inflight, u_cq, u_dest>>
normal == <<n_faults, n_pc, rd, bytes_read, wr, flushed, error, n_status>>
send   == <<s_faults, s_pc, opened, bytes_sent, written, s_status>>
all    == <<which, vars, uring, normal, send>>

Environments == {FaultKinds,
                 FaultKinds \ {"submit", "nomem"},
                 FaultKinds \ Unnoticed,
                 FaultKinds \ {"read_error", "submit", "intr"}}

BothPrograms == [variant : {"single", "multi"}, depth : {1, 2}, faults : Environments]

UringFaults == {"open", "stat", "nomem", "submit", "intr", "eio", "short_read", "enospc"}

FU == INSTANCE FileUring WITH
        DEPTH <- RingDepth, FaultSets <- {{}, UringFaults}, Faults <- u_faults, pc <- u_pc,
        ret <- u_ret, status <- u_status, sq <- u_sq, inflight <- u_inflight,
        cq <- u_cq, dest <- u_dest

StdioFaults == {{"open", "read", "write"}, {"open", "read", "write", "close"}}

NC == INSTANCE NormalCopy WITH
        N <- MaxSize, FaultSets <- StdioFaults, Faults <- n_faults,
        pc <- n_pc, status <- n_status

SendFaults == {{"open", "send"}, {"open", "send", "short"}}

SF == INSTANCE SendFile WITH
        N <- MaxSize, FaultSets <- SendFaults, Faults <- s_faults,
        pc <- s_pc, status <- s_status

MCInit == /\ which \in {"batch", "file_uring", "normal", "sendfile"}
          /\ Init /\ FU!Init /\ NC!Init /\ SF!Init
          /\ which # "batch" =>
                setting = [variant |-> "single", depth |-> 1, faults |-> FaultKinds]
          /\ which # "file_uring" => size = 0 /\ u_faults = {}
          /\ which # "normal" => n_faults = {"open", "read", "write"}
          /\ which # "sendfile" => s_faults = {"open", "send"}

Batch(A)  == which = "batch" /\ A /\ UNCHANGED <<which, uring, normal, send>>
Uring(A)  == which = "file_uring" /\ A /\ UNCHANGED <<which, vars, normal, send>>
Normal(A) == which = "normal" /\ A /\ UNCHANGED <<which, vars, uring, send>>
Send(A)   == which = "sendfile" /\ A /\ UNCHANGED <<which, vars, uring, normal>>

MCNext == \/ Batch(Program) \/ Batch(Kernel) \/ Batch(Terminated)
          \/ Uring(FU!Next) \/ Normal(NC!Next) \/ Send(SF!Next)

(* A program is scheduled and every submitted request completes. *)
MCSpec == /\ MCInit /\ [][MCNext]_all
          /\ WF_all(Batch(Program)) /\ WF_all(Batch(Kernel))
          /\ WF_all(Uring(FU!Program)) /\ WF_all(Uring(FU!Kernel))

(* A batch program that ends with 0 has copied every byte, unless one of   *)
(* the failures it does not notice happens, and file_uring has appended    *)
(* every byte once when nothing fails.                                     *)
CopiesComplete == CopyComplete /\ FU!AllBytes

(* normal and sendfile are FileCopies: they report success only for a      *)
(* complete copy, except that normal overlooks a failing fclose, which     *)
(* costs it at most what stdio held back, and sendfile a call that         *)
(* transfers less than asked.                                              *)
PlainRefineFileCopy == NC!RefinesFileCopy /\ SF!RefinesFileCopy

(* The programs with a ring end: file_uring whatever fails, since it waits *)
(* for as many completions as were submitted; the others unless a read     *)
(* fails or a submission is refused, which leaves fewer writes than        *)
(* write_cqe_recv waits for.  Nothing of this rests on an interrupted wait.*)
Ended == \/ which = "batch" /\ (pc = "done" \/ Faults \cap {"read_error", "submit"} # {})
         \/ which = "file_uring" /\ u_pc = "done"
         \/ which \in {"normal", "sendfile"}
CopiesEnd == <>Ended
=============================================================================
