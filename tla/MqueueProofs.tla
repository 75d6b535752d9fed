---------------------------- MODULE MqueueProofs ----------------------------
(***************************************************************************)
(* Proofs about the message queue programs, for all lines, capacities,     *)
(* faults, orders of the start and contents of an old queue.               *)
(***************************************************************************)
EXTENDS Mqueue, TLAPS

(* The two programs together make at most two queues beside the old one,   *)
(* and the sender never has the old one: it removes the name first.        *)
QueuesInv ==
    /\ name \in None .. made /\ smq \in None .. made /\ rmq \in None .. made
    /\ made \in Queues
    /\ spc \in {"unlink", "open"} \/ rpc = "open" => made <= 2
    /\ spc \in {"unlink", "open"} /\ rpc = "open" => made <= 1
    /\ spc \in {"unlink", "open"} => smq = None /\ sent = <<>>
    /\ spc \in {"fgets", "send"} => smq # None
    /\ rpc = "open" => rmq = None /\ received = <<>>
    /\ rpc = "receive" => rmq # None
    /\ smq # Stale
    /\ spc # "unlink" => name # Stale

MessagesInv ==
    /\ queue \in [Queues -> Seq(Msg)]
    /\ sent \in Seq(Msg) /\ received \in Seq(Msg)
    /\ lines \in Nat
    /\ lines > 0 => buffer \in Msg
    /\ spc = "send" => lines > 0

(* A new queue holds what the sender put there; a receiver with a queue of *)
(* its own finds nothing.                                                  *)
DeliveryInv ==
    /\ \A k \in Queues : k # Stale /\ k # smq => queue[k] = <<>>
    /\ smq # None /\ smq # rmq => sent = queue[smq]
    /\ rmq \notin {None, Stale, smq} => received = <<>>
    /\ NothingLost

(* A line that stops is the last one the sender sends, and the last one    *)
(* the receiver receives.                                                  *)
StopInv ==
    /\ \A i \in 1 .. Len(sent) : IsStop(sent[i]) =>
          i = Len(sent) /\ spc \in {"close", "done", "failed"}
    /\ rpc \in {"close", "unlink", "done"} =>
          received # <<>> /\ IsStop(received[Len(received)])

MqInv == QueuesInv /\ MessagesInv /\ DeliveryInv /\ StopInv

-----------------------------------------------------------------------------
(* Moving the first element of a queue to the end of what was received     *)
(* keeps the two together the same.                                        *)
LEMMA MoveHead ==
    ASSUME NEW S, NEW r \in Seq(S), NEW q \in Seq(S), q # <<>>
    PROVE  Append(r, Head(q)) \o Tail(q) = r \o q
  OBVIOUS

(* A step keeps what is known of the queues, ... *)
LEMMA QueuesStep == ASSUME QueuesInv, MessagesInv, [Next]_vars PROVE QueuesInv'
  <1> USE MqueueAssumption DEF sender, receiver, posix, None, Stale, Queues,
      OpenQueue, Opened, QueuesInv, MessagesInv, After
  <1>1. CASE UNCHANGED vars
    BY <1>1 DEF vars
  <1>2. CASE SenderUnlink
    BY <1>2 DEF SenderUnlink
  <1>3. CASE SenderOpen
    BY <1>3 DEF SenderOpen
  <1>4. CASE SenderOpenFails
    BY <1>4 DEF SenderOpenFails
  <1>5. CASE Fgets
    BY <1>5 DEF Fgets
  <1>6. CASE Send
    BY <1>6 DEF Send
  <1>7. CASE SendFails
    BY <1>7 DEF SendFails
  <1>8. CASE SenderClose
    BY <1>8 DEF SenderClose
  <1>9. CASE ReceiverOpen
    BY <1>9 DEF ReceiverOpen
  <1>10. CASE ReceiverOpenFails
    BY <1>10 DEF ReceiverOpenFails
  <1>11. CASE Receive
    BY <1>11 DEF Receive
  <1>12. CASE ReceiveFails
    BY <1>12 DEF ReceiveFails, vars
  <1>13. CASE ReceiverClose
    BY <1>13 DEF ReceiverClose
  <1>14. CASE ReceiverUnlink
    BY <1>14 DEF ReceiverUnlink
  <1> QED
    BY <1>1, <1>2, <1>3, <1>4, <1>5, <1>6, <1>7, <1>8, <1>9, <1>10, <1>11,
       <1>12, <1>13, <1>14 DEF Next, Sender, Receiver

(* ... of the messages, ... *)
LEMMA MessagesStep == ASSUME QueuesInv, MessagesInv, [Next]_vars PROVE MessagesInv'
  <1> USE MqueueAssumption DEF sender, receiver, posix, None, Stale, Queues,
      OpenQueue, Opened, QueuesInv, MessagesInv, Typed
  <1>1. CASE UNCHANGED vars
    BY <1>1 DEF vars
  <1>2. CASE SenderUnlink
    BY <1>2 DEF SenderUnlink
  <1>3. CASE SenderOpen
    BY <1>3 DEF SenderOpen
  <1>4. CASE SenderOpenFails
    BY <1>4 DEF SenderOpenFails
  <1>5. CASE Fgets
    BY <1>5 DEF Fgets
  <1>6. CASE Send
    BY <1>6 DEF Send
  <1>7. CASE SendFails
    BY <1>7 DEF SendFails
  <1>8. CASE SenderClose
    BY <1>8 DEF SenderClose
  <1>9. CASE ReceiverOpen
    BY <1>9 DEF ReceiverOpen
  <1>10. CASE ReceiverOpenFails
    BY <1>10 DEF ReceiverOpenFails
  <1>11. CASE Receive
    BY <1>11 DEF Receive
  <1>12. CASE ReceiveFails
    BY <1>12 DEF ReceiveFails, vars
  <1>13. CASE ReceiverClose
    BY <1>13 DEF ReceiverClose
  <1>14. CASE ReceiverUnlink
    BY <1>14 DEF ReceiverUnlink
  <1> QED
    BY <1>1, <1>2, <1>3, <1>4, <1>5, <1>6, <1>7, <1>8, <1>9, <1>10, <1>11,
       <1>12, <1>13, <1>14 DEF Next, Sender, Receiver

(* ... that nothing is lost, ... *)
LEMMA DeliveryStep == ASSUME QueuesInv, MessagesInv, DeliveryInv, [Next]_vars PROVE DeliveryInv'
  <1> USE MqueueAssumption DEF sender, receiver, posix, None, Stale, Queues,
      OpenQueue, Opened, QueuesInv, MessagesInv, DeliveryInv, NothingLost, SameQueue
  <1>1. CASE UNCHANGED vars
    BY <1>1 DEF vars
  <1>2. CASE SenderUnlink
    BY <1>2 DEF SenderUnlink
  <1>3. CASE SenderOpen
    BY <1>3 DEF SenderOpen
  <1>4. CASE SenderOpenFails
    BY <1>4 DEF SenderOpenFails
  <1>5. CASE Fgets
    BY <1>5 DEF Fgets
  <1>6. CASE Send
    <2>1. /\ buffer \in Msg /\ smq \in Queues /\ smq # Stale
          /\ queue' = [queue EXCEPT ![smq] = Append(queue[smq], buffer)]
          /\ sent' = Append(sent, buffer)
          /\ UNCHANGED <<smq, rmq, received>>
      BY <1>6 DEF Send
    <2>2. /\ queue'[smq] = Append(queue[smq], buffer)
          /\ \A k \in Queues : k # smq => queue'[k] = queue[k]
      BY <2>1
    <2>3. sent = received \o queue[smq] => sent' = received \o queue'[smq]
      <3>1. queue[smq] \in Seq(Msg)
        BY <2>1
      <3>2. Append(received \o queue[smq], buffer) = received \o Append(queue[smq], buffer)
        <4> HIDE DEF QueuesInv, DeliveryInv, MessagesInv
        <4>1. received \in Seq(Msg) /\ buffer \in Msg
          BY <2>1 DEF MessagesInv
        <4>2. QED
          BY <3>1, <4>1
      <3>3. QED
        BY <2>1, <2>2, <3>2
    <2>4. QED
      BY <2>1, <2>2, <2>3
  <1>7. CASE SendFails
    BY <1>7 DEF SendFails
  <1>8. CASE SenderClose
    BY <1>8 DEF SenderClose
  <1>9. CASE ReceiverOpen
    BY <1>9 DEF ReceiverOpen
  <1>10. CASE ReceiverOpenFails
    BY <1>10 DEF ReceiverOpenFails
  <1>11. CASE Receive
    <2>1. /\ rmq \in Queues /\ queue[rmq] # <<>>
          /\ queue' = [queue EXCEPT ![rmq] = Tail(queue[rmq])]
          /\ received' = Append(received, Head(queue[rmq]))
          /\ UNCHANGED <<smq, rmq, sent>>
      BY <1>11 DEF Receive
    <2>2. /\ queue'[rmq] = Tail(queue[rmq])
          /\ \A k \in Queues : k # rmq => queue'[k] = queue[k]
      BY <2>1
    <2>3. received' \o queue'[rmq] = received \o queue[rmq]
      <3>1. queue[rmq] \in Seq(Msg)
        BY <2>1
      <3>2. Append(received, Head(queue[rmq])) \o Tail(queue[rmq]) = received \o queue[rmq]
        BY <2>1, <3>1, MoveHead
      <3>3. QED
        BY <2>1, <2>2, <3>2
    <2>4. rmq = Stale \/ rmq = smq
      BY <2>1
    <2>5. (smq # None /\ smq = rmq => sent = received \o queue[smq])'
      BY <2>1, <2>3
    <2>6. (smq # None /\ smq # rmq => sent = queue[smq])'
      BY <2>1, <2>2
    <2>7. (\A k \in Queues : k # Stale /\ k # smq => queue[k] = <<>>)'
      BY <2>1, <2>2, <2>4
    <2>8. (rmq \notin {None, Stale, smq} => received = <<>>)'
      BY <2>1, <2>4
    <2>9. QED
      BY <2>5, <2>6, <2>7, <2>8
  <1>12. CASE ReceiveFails
    BY <1>12 DEF ReceiveFails, vars
  <1>13. CASE ReceiverClose
    BY <1>13 DEF ReceiverClose
  <1>14. CASE ReceiverUnlink
    BY <1>14 DEF ReceiverUnlink
  <1> QED
    BY <1>1, <1>2, <1>3, <1>4, <1>5, <1>6, <1>7, <1>8, <1>9, <1>10, <1>11,
       <1>12, <1>13, <1>14 DEF Next, Sender, Receiver

(* ... and that a stop is the end. *)
LEMMA StopStep == ASSUME QueuesInv, MessagesInv, DeliveryInv, StopInv, [Next]_vars PROVE StopInv'
  <1> USE MqueueAssumption DEF sender, receiver, posix, None, Stale, Queues,
      OpenQueue, Opened, QueuesInv, MessagesInv, StopInv, IsStop, After
  <1>1. CASE UNCHANGED vars
    BY <1>1 DEF vars
  <1>2. CASE SenderUnlink
    BY <1>2 DEF SenderUnlink
  <1>3. CASE SenderOpen
    BY <1>3 DEF SenderOpen
  <1>4. CASE SenderOpenFails
    BY <1>4 DEF SenderOpenFails
  <1>5. CASE Fgets
    BY <1>5 DEF Fgets
  <1>6. CASE Send
    BY <1>6 DEF Send
  <1>7. CASE SendFails
    BY <1>7 DEF SendFails
  <1>8. CASE SenderClose
    BY <1>8 DEF SenderClose
  <1>9. CASE ReceiverOpen
    BY <1>9 DEF ReceiverOpen
  <1>10. CASE ReceiverOpenFails
    BY <1>10 DEF ReceiverOpenFails
  <1>11. CASE Receive
    BY <1>11 DEF Receive
  <1>12. CASE ReceiveFails
    BY <1>12 DEF ReceiveFails, vars
  <1>13. CASE ReceiverClose
    BY <1>13 DEF ReceiverClose
  <1>14. CASE ReceiverUnlink
    BY <1>14 DEF ReceiverUnlink
  <1> QED
    BY <1>1, <1>2, <1>3, <1>4, <1>5, <1>6, <1>7, <1>8, <1>9, <1>10, <1>11,
       <1>12, <1>13, <1>14 DEF Next, Sender, Receiver

LEMMA MqInvHolds == Spec => []MqInv
  <1>1. ASSUME Init PROVE MqInv
    <2> USE DEF None, Stale, Queues
    <2>1. PICK old \in {<<>>} \cup {<<m>> : m \in Msg \ FullMsg} :
             queue = [k \in Queues |-> IF k = Stale THEN old ELSE <<>>]
      BY <1>1, Zenon DEF Init
    <2>2. old \in Seq(Msg)
      <3>1. ASSUME NEW m \in Msg PROVE <<m>> \in Seq(Msg)
        OBVIOUS
      <3>2. <<>> \in Seq(Msg)
        OBVIOUS
      <3>3. QED
        BY <2>1, <3>1, <3>2, Zenon
    <2>3. /\ queue \in [Queues -> Seq(Msg)]
          /\ \A k \in Queues : k # Stale => queue[k] = <<>>
      BY <2>1, <2>2
    <2>4. /\ spc = "unlink" /\ rpc = "open" /\ smq = None /\ rmq = None /\ lines = 0
          /\ sent = <<>> /\ received = <<>> /\ name \in {None, Stale} /\ made = Stale
      BY <1>1 DEF Init
    <2>5. QueuesInv /\ MessagesInv
      BY <2>3, <2>4 DEF QueuesInv, MessagesInv
    <2>6. DeliveryInv /\ StopInv
      BY <2>3, <2>4 DEF DeliveryInv, StopInv, NothingLost, SameQueue
    <2>7. QED
      BY <2>5, <2>6 DEF MqInv
  <1>2. MqInv /\ [Next]_vars => MqInv'
    BY QueuesStep, MessagesStep, DeliveryStep, StopStep DEF MqInv
  <1>3. QED
    BY <1>1, <1>2, PTL DEF Spec

(* On a queue that both programs have open, every message of the sender is *)
(* received once and in order or still waits, and nothing else is there.   *)
THEOREM NothingLostHolds == Spec => []NothingLost
  <1>1. MqInv => NothingLost
    BY DEF MqInv, DeliveryInv
  <1>2. QED
    BY <1>1, MqInvHolds, PTL

(* A receiver that stops has seen all that its sender will ever send. *)
THEOREM CleanEndHolds == Spec => []CleanEnd
  <1>1. MqInv => CleanEnd
    <2> SUFFICES ASSUME MqInv, SameQueue, rpc \in {"unlink", "done"}
                 PROVE  queue[smq] = <<>> /\ spc \in {"close", "done", "failed"}
      BY DEF CleanEnd
    <2> DEFINE n == Len(received)
    <2>1. /\ queue[smq] \in Seq(Msg) /\ received \in Seq(Msg)
          /\ sent = received \o queue[smq]
      BY DEF MqInv, QueuesInv, MessagesInv, DeliveryInv, NothingLost, SameQueue,
             None, Queues
    <2>2. n > 0 /\ IsStop(received[n])
      BY <2>1 DEF MqInv, StopInv
    <2>3. n \in 1 .. Len(sent) /\ sent[n] = received[n]
      BY <2>1, <2>2
    <2>4. n = Len(sent) /\ spc \in {"close", "done", "failed"}
      BY <2>2, <2>3 DEF MqInv, StopInv
    <2>5. QED
      BY <2>1, <2>4
  <1>2. QED
    BY <1>1, MqInvHolds, PTL
=============================================================================
