------------------------------ MODULE SendFile ------------------------------
(***************************************************************************)
(* sendfile/copy.c: copy a file with one call of sendfile.  The call may   *)
(* transfer less than asked; the program then prints that count and ends   *)
(* with status 0.  The results of open and fstat are not looked at.        *)
(***************************************************************************)
EXTENDS Integers

CONSTANTS N,            \* size of the source file
          FaultSets     \* what may fail in a run: one of these sets, made of
                        \* "open", "send", and "short", less is transferred

VARIABLES Faults,       \* what may fail
          pc,           \* "open", "sendfile", "print", "done"
          opened,       \* both files could be opened
          bytes_sent,   \* result of sendfile
          written,      \* bytes of the destination
          status        \* exit status

vars == <<Faults, pc, opened, bytes_sent, written, status>>

Init == /\ Faults \in FaultSets
        /\ pc = "open" /\ opened = FALSE /\ bytes_sent = 0 /\ written = 0 /\ status = 0

(* A file that does not open is noticed by nobody before sendfile. *)
Open == /\ pc = "open" /\ pc' = "sendfile"
        /\ opened' \in {TRUE} \cup IF "open" \in Faults THEN {FALSE} ELSE {}
        /\ UNCHANGED <<Faults, bytes_sent, written, status>>

Sendfile == /\ pc = "sendfile" /\ opened
            /\ written' \in IF "short" \in Faults THEN 0 .. N ELSE {N}
            /\ bytes_sent' = written'
            /\ pc' = "print"
            /\ UNCHANGED <<Faults, opened, status>>

(* -1 from the call, a bad descriptor included. *)
SendfileFails == /\ pc = "sendfile" /\ (~opened \/ "send" \in Faults)
                 /\ bytes_sent' = -1
                 /\ pc' = "print"
                 /\ UNCHANGED <<Faults, opened, written, status>>

(* The message and the return. *)
Finish == /\ pc = "print"
          /\ status' = IF bytes_sent = -1 THEN 1 ELSE 0
          /\ pc' = "done"
          /\ UNCHANGED <<Faults, opened, bytes_sent, written>>

Terminated == pc = "done" /\ UNCHANGED vars

Next == Open \/ Sendfile \/ SendfileFails \/ Finish \/ Terminated

Spec == Init /\ [][Next]_vars

-----------------------------------------------------------------------------
Dest   == [k \in 0 .. N - 1 |-> IF k < written THEN k ELSE -2]
Result == IF pc # "done" THEN "running" ELSE IF status = 0 THEN "ok" ELSE "failed"

Copy == INSTANCE FileCopy WITH dest <- Dest, result <- Result

(* "Successfully copied" and status 0 although the call transferred less   *)
(* than it was asked to: the number printed is all that tells.             *)
Overlooked == /\ "short" \in Faults
              /\ Result = "running" /\ Result' = "ok"
              /\ bytes_sent = written /\ written < N
              /\ UNCHANGED Dest

(* The program is a FileCopy, unless sendfile transfers less than asked:   *)
(* files that did not open and a failing call never end in "Successfully   *)
(* copied" and status 0.                                                   *)
RefinesFileCopy == Copy!Init /\ [][Copy!Next \/ Overlooked]_<<Dest, Result>>
=============================================================================
