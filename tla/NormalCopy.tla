----------------------------- MODULE NormalCopy -----------------------------
(***************************************************************************)
(* io_uring/normal.c: copy a file with fread and fwrite.  stdio keeps what *)
(* was given to fwrite in a buffer and writes it out when the buffer is    *)
(* full and at fclose; the destination is always a prefix of the source,   *)
(* so positions describe it.                                               *)
(***************************************************************************)
EXTENDS Integers

CONSTANTS N,            \* size of the source file
          BUF_SIZE,     \* size of one fread
          StdioSize,    \* bytes stdio may hold back
          FaultSets     \* what may fail in a run: one of these sets, made of
                        \* "open", "read", "write", and "close", the last flush

VARIABLES Faults,       \* what may fail
          pc,           \* "main", "read", "write", "close", "exit", "done"
          rd,           \* bytes read from the source
          bytes_read,   \* result of the last fread
          wr,           \* bytes handed to fwrite
          flushed,      \* bytes of the destination file
          error,        \* ferror(source_fp)
          status        \* exit status; 0 comes with "File copied successfully."

vars == <<Faults, pc, rd, bytes_read, wr, flushed, error, status>>

Least(a, b) == IF a < b THEN a ELSE b

Init == /\ Faults \in FaultSets
        /\ pc = "main" /\ rd = 0 /\ bytes_read = 0 /\ wr = 0 /\ flushed = 0
        /\ error = FALSE /\ status = 0

MainFail == /\ pc = "main" /\ "open" \in Faults
            /\ pc' = "done" /\ status' = 1
            /\ UNCHANGED <<Faults, rd, bytes_read, wr, flushed, error>>

MainStart == /\ pc = "main" /\ pc' = "read"
             /\ UNCHANGED <<Faults, rd, bytes_read, wr, flushed, error, status>>

(* fread returns less than asked only at the end of the file or on error. *)
Read == /\ pc = "read"
        /\ \/ /\ bytes_read' = Least(BUF_SIZE, N - rd)
              /\ UNCHANGED error
           \/ /\ "read" \in Faults /\ error' = TRUE
              /\ bytes_read' \in 0 .. Least(BUF_SIZE, N - rd)
        /\ rd' = rd + bytes_read'
        /\ pc' = IF bytes_read' > 0 THEN "write" ELSE "close"
        /\ UNCHANGED <<Faults, wr, flushed, status>>

Write == /\ pc = "write"
         /\ wr' = wr + bytes_read
         /\ flushed' \in {f \in flushed .. wr' : wr' - f <= StdioSize}
         /\ pc' = "read"
         /\ UNCHANGED <<Faults, rd, bytes_read, error, status>>

(* fwrite reports less than asked; both files are closed, exit(FAILURE). *)
WriteFails == /\ pc = "write" /\ "write" \in Faults
              /\ flushed' \in flushed .. wr + bytes_read - 1
              /\ wr' = flushed'
              /\ pc' = "exit" /\ status' = 1
              /\ UNCHANGED <<Faults, rd, bytes_read, error>>

(* Mutant of Close: the test of ferror is missing. *)
CloseIgnoresError == /\ pc = "close"
                     /\ flushed' = wr
                     /\ status' = 0
                     /\ pc' = "exit"
                     /\ UNCHANGED <<Faults, rd, bytes_read, wr, error>>

(* fclose writes out what stdio holds; main ignores whether it could.      *)
Close == /\ pc = "close"
         /\ flushed' \in IF "close" \in Faults THEN flushed .. wr ELSE {wr}
         /\ status' = IF error THEN 1 ELSE 0
         /\ pc' = "exit"
         /\ UNCHANGED <<Faults, rd, bytes_read, wr, error>>

(* The message and the return, or exit(EXIT_FAILURE). *)
Exit == /\ pc = "exit" /\ pc' = "done"
        /\ UNCHANGED <<Faults, rd, bytes_read, wr, flushed, error, status>>

Terminated == pc = "done" /\ UNCHANGED vars

Next == MainFail \/ MainStart \/ Read \/ Write \/ WriteFails \/ Close \/ Exit
        \/ Terminated

Spec == Init /\ [][Next]_vars

-----------------------------------------------------------------------------
Dest   == [k \in 0 .. N - 1 |-> IF k < flushed THEN k ELSE -2]
Result == IF pc # "done" THEN "running" ELSE IF status = 0 THEN "ok" ELSE "failed"

Copy == INSTANCE FileCopy WITH dest <- Dest, result <- Result

(* "File copied successfully." although the last flush failed: what stdio  *)
(* held back is missing.                                                   *)
Overlooked == /\ "close" \in Faults
              /\ Result = "running" /\ Result' = "ok"
              /\ N - flushed <= StdioSize
              /\ UNCHANGED Dest

(* The program is a FileCopy, errors of fread and fwrite included: it      *)
(* prints "File copied successfully." for a complete copy or, when fclose  *)
(* may fail, for one that lacks no more than stdio's buffer.               *)
RefinesFileCopy == Copy!Init /\ [][Copy!Next \/ Overlooked]_<<Dest, Result>>
=============================================================================
