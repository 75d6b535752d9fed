------------------------------ MODULE MCMqueue ------------------------------
(* Instances of Mqueue for TLC. *)
EXTENDS Mqueue

Lines     == {"hello", "exit", "long"}
StopLines == {"exit"}
LongLines == {"long"}

AnyOrSenderFirst == {[order |-> "any", faults |-> FaultKinds],
                     [order |-> "sender_first", faults |-> {}]}
ReceiverFirst    == {[order |-> "receiver_first", faults |-> {}]}
=============================================================================
