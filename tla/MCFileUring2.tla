---------------------------- MODULE MCFileUring2 ----------------------------
(* Instances of FileUring2 for TLC; the .cfg files give N, BUF_SIZE, DEPTH *)
(* and choose one of these fault sets.                                     *)
EXTENDS FileUring2

AllFaults == FaultKinds

(* The faults that copy_file copes with.  A refused submission and a short *)
(* write break the copy; a failed malloc with nothing outstanding makes it *)
(* wait for nothing; at the end of a truncated source it reads for ever.   *)
Handled == {"open", "intr", "eagain", "eio", "short_read"}
=============================================================================
