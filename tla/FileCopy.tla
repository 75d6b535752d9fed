------------------------------ MODULE FileCopy ------------------------------
(***************************************************************************)
(* What every copy program of this repository promises: the bytes of the   *)
(* source file reach the same positions of the destination, in any order   *)
(* and in pieces of any size, and the program reports success only when    *)
(* all of them are there.  A program that fails may leave any part behind. *)
(*                                                                         *)
(* Position i of the source holds the byte i, so a byte that reaches the   *)
(* wrong place can be told from the right one.                             *)
(***************************************************************************)
EXTENDS Integers

CONSTANT N              \* size of the source file

VARIABLES dest,         \* the destination file, one entry per position
          result        \* "running", then "ok" or "failed"

Pos  == 0 .. N - 1
Hole == -2              \* a position of the destination never written

TypeOK == /\ dest \in [Pos -> Pos \cup {Hole}]
          /\ result \in {"running", "ok", "failed"}

Init == /\ dest = [i \in Pos |-> Hole]
        /\ result = "running"

(* Some positions receive the bytes the source has there. *)
Deliver(S) == /\ result = "running"
              /\ dest' = [i \in Pos |-> IF i \in S THEN i ELSE dest[i]]
              /\ UNCHANGED result

Succeed == /\ result = "running"
           /\ \A i \in Pos : dest[i] = i
           /\ result' = "ok"
           /\ UNCHANGED dest

Fail == /\ result = "running"
        /\ result' = "failed"
        /\ UNCHANGED dest

Next == \/ \E S \in SUBSET Pos : Deliver(S)
        \/ Succeed
        \/ Fail

Spec == Init /\ [][Next]_<<dest, result>>
=============================================================================
