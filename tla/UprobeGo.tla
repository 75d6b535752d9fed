------------------------------ MODULE UprobeGo ------------------------------
(***************************************************************************)
(* eBPF/uprobe_go.bpf.c and handle_event of uprobe_go.c: a probe at a Go   *)
(* function copies its string argument, which has a length and no          *)
(* terminator, into a slot of the ring buffer, and the user program prints *)
(* the slot as a C string.                                                 *)
(*                                                                         *)
(* A slot of the ring is not cleared when it is reserved again.  A byte is *)
(* the call it came from and its position, or NUL.                         *)
(***************************************************************************)
EXTENDS Integers, Sequences

CONSTANTS CODE_SIZE,    \* sizeof(e->stock_code), 16 in the code
          Slots,        \* events the ring holds
          MaxCalls      \* bound on the calls of FetchStock

VARIABLES stock_code,   \* content of each slot of the ring
          produced, consumed, \* events submitted and events printed
          arg           \* per call reported, the length of its argument

vars == <<stock_code, produced, consumed, arg>>

NUL == <<>>
Slot(k) == k % Slots
Byte(call, x) == <<call, x>>

Init == /\ stock_code = [k \in 0 .. Slots - 1 |-> [x \in 0 .. CODE_SIZE - 1 |-> NUL]]
        /\ produced = 0 /\ consumed = 0
        /\ arg = <<>>

(* Mutant of str_len: the last byte is not kept for the terminator. *)
str_lenFull(cx) == IF cx > CODE_SIZE THEN CODE_SIZE ELSE cx

str_len(cx) == IF cx > CODE_SIZE - 1 THEN CODE_SIZE - 1 ELSE cx

(* A call with an argument of cx bytes; without a free slot it is not      *)
(* reported.  A copy that faults clears the bytes asked for.               *)
uprobe_fetch_stock(cx, faults) ==
    /\ produced < MaxCalls /\ produced - consumed < Slots
    /\ stock_code' = [stock_code EXCEPT ![Slot(produced)] =
          [x \in 0 .. CODE_SIZE - 1 |->
             IF x >= str_len(cx) THEN @[x] ELSE IF faults THEN NUL ELSE Byte(produced, x)]]
    /\ produced' = produced + 1
    /\ arg' = Append(arg, IF faults THEN 0 ELSE cx)
    /\ UNCHANGED consumed

(* What printf makes of a slot: the bytes before the first terminator.     *)
Printed(code) ==
    LET Ends == {x \in DOMAIN code : code[x] = NUL}
        end  == IF Ends = {} THEN CODE_SIZE ELSE CHOOSE x \in Ends : \A y \in Ends : x <= y
    IN  [x \in 0 .. end - 1 |-> code[x]]

handle_event == /\ consumed < produced
                /\ consumed' = consumed + 1
                /\ UNCHANGED <<stock_code, produced, arg>>

Next == \/ \E cx \in 0 .. CODE_SIZE + 1, faults \in BOOLEAN : uprobe_fetch_stock(cx, faults)
        \/ handle_event

Spec == Init /\ [][Next]_vars

-----------------------------------------------------------------------------
(* Properties. *)

(* However long the arguments and however often the slots are used again,  *)
(* printing an event stops inside it and starts with the argument, cut to  *)
(* what an event holds; what follows can only be the rest of a longer      *)
(* argument that an earlier call left in the slot.                         *)
NamePrinted ==
    \A k \in consumed .. produced - 1 :
       LET shown == Printed(stock_code[Slot(k)])
           n     == str_len(arg[k + 1])
       IN  /\ CODE_SIZE - 1 \notin DOMAIN shown
           /\ \A x \in 0 .. n - 1 : x \in DOMAIN shown /\ shown[x] = Byte(k, x)
           /\ \A x \in DOMAIN shown : x >= n =>
                 \E c \in 0 .. k - 1 : shown[x] = Byte(c, x) /\ str_len(arg[c + 1]) > x
=============================================================================
