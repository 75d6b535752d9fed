------------------------------- MODULE Mqueue -------------------------------
(***************************************************************************)
(* mqueue/mqueue_sender.c and mqueue/mqueue_receive.c: two processes that  *)
(* share a POSIX message queue by its name.  Each creates the queue if it  *)
(* is not there; the sender first removes the name, the receiver removes   *)
(* it when it is done.                                                     *)
(*                                                                         *)
(* A queue outlives its name as long as a process has it open, so it is    *)
(* modelled by its own identity.  A message is a line of input; StopMsg    *)
(* are the lines that begin with MSG_STOP, FullMsg those that with their   *)
(* terminator take all of the MAX_SIZE bytes.                              *)
(***************************************************************************)
EXTENDS Integers, Sequences

CONSTANTS Msg, StopMsg, \* what the user may type, and the lines that stop
          FullMsg,      \* the lines that fill a message
          MaxLines,     \* lines typed before the end of the input
          MaxSent,      \* bound on the messages sent (see Fgets)
          mq_maxmsg,    \* capacity of a queue
          Settings      \* how the programs are started: one of these records

(* What may fail: the calls, "eof" the input, which may then end without a *)
(* line that stops, and "full": lines may fill a message.                  *)
FaultKinds == {"open", "send", "receive", "close", "eof", "full"}

ASSUME MqueueAssumption ==
    /\ StopMsg \subseteq Msg /\ FullMsg \subseteq Msg
    /\ MaxLines \in Nat \ {0} /\ MaxSent \in Nat /\ mq_maxmsg \in Nat \ {0}
    /\ Settings \subseteq [order : {"any", "receiver_first", "sender_first"},
                           faults : SUBSET FaultKinds]

VARIABLES setting,      \* how the programs were started, fixed
          spc, rpc,     \* where the two programs are
          smq, rmq,     \* the queue each has open
          buffer,       \* the sender's line, "" before the first
          lines,        \* lines typed
          name,         \* the queue QUEUE_NAME names, or None
          made,         \* queues made so far; the first existed before
          queue,        \* their contents
          sent, received

sender   == <<setting, spc, smq, buffer, lines, sent>>
receiver == <<setting, rpc, rmq, received>>
posix    == <<name, made, queue>>
vars     == <<sender, receiver, posix>>

(* Which program is started first, and what may fail. *)
Order  == setting.order
Faults == setting.faults

None   == 0
Stale  == 1             \* a queue left over from an earlier run
Queues == 1 .. 3

Init == /\ setting \in Settings
        /\ spc = "unlink" /\ rpc = "open" /\ smq = None /\ rmq = None
        /\ buffer = "" /\ lines = 0 /\ sent = <<>> /\ received = <<>>
        /\ name \in {None, Stale} /\ made = Stale
        /\ \E old \in {<<>>} \cup {<<m>> : m \in Msg \ FullMsg} :
              queue = [k \in Queues |-> IF k = Stale THEN old ELSE <<>>]

(* mq_open with O_CREAT: the queue of that name, or a new one. *)
Opened == IF name = None THEN made + 1 ELSE name
OpenQueue == /\ name' = Opened
             /\ made' = IF name = None THEN made + 1 ELSE made
             /\ UNCHANGED queue

IsStop(m) == m \in StopMsg

-----------------------------------------------------------------------------
(* mqueue_sender.c *)

SenderMayStart == Order = "receiver_first" => rpc # "open"

(* Mutant of SenderUnlink: the name is left alone. *)
SenderKeepsName == /\ spc = "unlink" /\ SenderMayStart
                   /\ spc' = "open"
                   /\ UNCHANGED <<smq, buffer, lines, sent, receiver, posix>>

SenderUnlink == /\ spc = "unlink" /\ SenderMayStart
                /\ name' = None
                /\ spc' = "open"
                /\ UNCHANGED <<smq, buffer, lines, sent, receiver, made, queue>>

SenderOpen == /\ spc = "open"
              /\ OpenQueue /\ smq' = Opened
              /\ spc' = "fgets"
              /\ UNCHANGED <<buffer, lines, sent, receiver>>

SenderOpenFails == /\ spc = "open" /\ "open" \in Faults
                   /\ spc' = "failed"
                   /\ UNCHANGED <<smq, buffer, lines, sent, receiver, posix>>

(* A line; at the end of the input fgets fails unnoticed and the buffer    *)
(* keeps the line before, which is then sent again and again: MaxSent      *)
(* bounds the model, not the program.                                      *)
Typed == LET Lines == IF "full" \in Faults THEN Msg ELSE Msg \ FullMsg
         IN  IF lines + 1 < MaxLines \/ "eof" \in Faults THEN Lines ELSE Lines \cap StopMsg

Fgets == /\ spc = "fgets" /\ Len(sent) < MaxSent
         /\ IF lines < MaxLines
            THEN \E m \in Typed : buffer' = m /\ lines' = lines + 1
            ELSE UNCHANGED <<buffer, lines>>
         /\ spc' = "send"
         /\ UNCHANGED <<smq, sent, receiver, posix>>

(* Mutant of Send: the stop line ends the sender before it is sent. *)
SendStopsFirst ==
    /\ spc = "send" /\ Len(queue[smq]) < mq_maxmsg
    /\ queue' = IF IsStop(buffer) THEN queue ELSE [queue EXCEPT ![smq] = Append(@, buffer)]
    /\ sent' = Append(sent, buffer)
    /\ spc' = IF IsStop(buffer) THEN "close" ELSE "fgets"
    /\ UNCHANGED <<smq, buffer, lines, receiver, name, made>>

(* Mutant of Send: the line that stops does not. *)
SendGoesOn == /\ spc = "send" /\ Len(queue[smq]) < mq_maxmsg
              /\ queue' = [queue EXCEPT ![smq] = Append(@, buffer)]
              /\ sent' = Append(sent, buffer)
              /\ spc' = "fgets"
              /\ UNCHANGED <<smq, buffer, lines, receiver, name, made>>

Send == /\ spc = "send" /\ Len(queue[smq]) < mq_maxmsg
        /\ queue' = [queue EXCEPT ![smq] = Append(@, buffer)]
        /\ sent' = Append(sent, buffer)
        /\ spc' = IF IsStop(buffer) THEN "close" ELSE "fgets"
        /\ UNCHANGED <<smq, buffer, lines, receiver, name, made>>

SendFails == /\ spc = "send" /\ "send" \in Faults
             /\ spc' = "fgets"
             /\ UNCHANGED <<smq, buffer, lines, sent, receiver, posix>>

SenderClose == /\ spc = "close"
               /\ spc' \in {"done"} \cup IF "close" \in Faults THEN {"failed"} ELSE {}
               /\ UNCHANGED <<smq, buffer, lines, sent, receiver, posix>>

-----------------------------------------------------------------------------
(* mqueue_receive.c *)

ReceiverMayStart == Order = "sender_first" => spc \notin {"unlink", "open"}

ReceiverOpen == /\ rpc = "open" /\ ReceiverMayStart
                /\ OpenQueue /\ rmq' = Opened
                /\ rpc' = "receive"
                /\ UNCHANGED <<received, sender>>

ReceiverOpenFails == /\ rpc = "open" /\ ReceiverMayStart /\ "open" \in Faults
                     /\ rpc' = "failed"
                     /\ UNCHANGED <<rmq, received, sender, posix>>

(* Where the receiver goes after message m.  The terminator of a message   *)
(* that fills the buffer lands one past it: whether that byte is unused or *)
(* belongs to mq is up to the compiler, and without mq no call succeeds.   *)
After(m) == IF IsStop(m) THEN {"close"}
            ELSE {"receive"} \cup IF m \in FullMsg THEN {"mq_overwritten"} ELSE {}

Receive == /\ rpc = "receive" /\ queue[rmq] # <<>>
           /\ received' = Append(received, Head(queue[rmq]))
           /\ queue' = [queue EXCEPT ![rmq] = Tail(@)]
           /\ rpc' \in After(Head(queue[rmq]))
           /\ UNCHANGED <<rmq, sender, name, made>>

(* An error is reported and the loop goes on. *)
ReceiveFails == /\ \/ rpc = "receive" /\ "receive" \in Faults
                   \/ rpc = "mq_overwritten"
                /\ UNCHANGED vars

ReceiverClose == /\ rpc = "close"
                 /\ rpc' \in {"unlink"} \cup IF "close" \in Faults THEN {"failed"} ELSE {}
                 /\ UNCHANGED <<rmq, received, sender, posix>>

(* mq_unlink fails if the name is already gone. *)
ReceiverUnlink == /\ rpc = "unlink"
                  /\ rpc' = IF name = None THEN "failed" ELSE "done"
                  /\ name' = None
                  /\ UNCHANGED <<rmq, received, sender, made, queue>>

-----------------------------------------------------------------------------
Sender   == \/ SenderUnlink \/ SenderOpen \/ SenderOpenFails \/ Fgets
            \/ Send \/ SendFails \/ SenderClose
Receiver == \/ ReceiverOpen \/ ReceiverOpenFails \/ Receive \/ ReceiveFails
            \/ ReceiverClose \/ ReceiverUnlink

Next == Sender \/ Receiver

Spec == Init /\ [][Next]_vars

(* Both processes are scheduled and the user keeps typing. *)
FairSpec == Spec /\ WF_vars(Sender) /\ WF_vars(Receiver)

-----------------------------------------------------------------------------
(* Properties. *)

SameQueue == smq # None /\ smq = rmq

(* Whoever starts first, whatever fails and whatever an earlier run left   *)
(* behind: on a queue that both have open, every message of this sender is *)
(* received once and in order or still waits, and no other is there.       *)
NothingLost == SameQueue => sent = received \o queue[smq]

(* A receiver that stops has seen all that its sender will ever send, even *)
(* if lines fill a message or the calls that close fail.                   *)
CleanEnd == SameQueue /\ rpc \in {"unlink", "done"} =>
               queue[smq] = <<>> /\ spc \in {"close", "done", "failed"}

(* With the sender started first, no failing call and no line that fills a *)
(* message, both programs end once the stop line is typed.                 *)
BothEnd == Order = "sender_first" /\ Faults = {} => <>(spc = "done" /\ rpc = "done")

(* The same in whatever order they are started; the README of the programs *)
(* starts the receiver first.                                              *)
BothEndInAnyOrder == Faults = {} => <>(spc = "done" /\ rpc = "done")
=============================================================================
