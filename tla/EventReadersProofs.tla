------------------------- MODULE EventReadersProofs -------------------------
(***************************************************************************)
(* Proofs about the parts that carry events to a user program: the taps    *)
(* for all packets and capacities, the unlink tracer for all threads and   *)
(* processes, the Go tracer for all sizes of an event and of the ring, the *)
(* inotify programs for all events, buffers and queues, the asynchronous   *)
(* read for all results.                                                   *)
(***************************************************************************)
EXTENDS MCEventReaders, WellFoundedInduction, TLAPS

(* The taps: an event in the ring is that of a packet that is reported. *)
TapEvents == {Event(p) : p \in {q \in Packets : Reported(q)}}

TapInv == /\ Variant \in {"tc", "xdp"}
          /\ rb \in Seq(TapEvents)
          /\ \/ last = NoPacket
             \/ \E p \in Packets :
                  last = [packet |-> p, verdict |-> IF Dropped(p) THEN "drop" ELSE "pass"]

LEMMA TapStep == ASSUME TapInv, [Next]_vars PROVE TapInv'
  <1>1. CASE UNCHANGED vars
    BY <1>1 DEF vars, TapInv, TapEvents, Event, Reported, Dropped, copy_len
  <1>2. ASSUME NEW p \in Packets, Handle(p) PROVE TapInv'
    <2>1. TapEvents' = TapEvents
      BY <1>2 DEF Handle, TapEvents, Event, Reported, Dropped, copy_len
    <2>2. Reported(p) => Event(p) \in TapEvents
      BY DEF TapEvents
    <2>3. rb' \in Seq(TapEvents)
      BY <1>2, <2>2 DEF Handle, TapInv
    <2>4. last' = [packet |-> p, verdict |-> IF Dropped(p)' THEN "drop" ELSE "pass"]
      BY <1>2 DEF Handle, Dropped
    <2>5. QED
      BY <1>2, <2>1, <2>3, <2>4 DEF Handle, TapInv
  <1>3. CASE Poll
    <2>1. TapEvents' = TapEvents /\ UNCHANGED <<Variant, last>>
      BY <1>3 DEF Poll, TapEvents, Event, Reported, Dropped, copy_len
    <2>2. rb' \in Seq(TapEvents)
      BY <1>3 DEF Poll, TapInv
    <2>3. QED
      BY <2>1, <2>2 DEF TapInv, Dropped
  <1>4. QED
    BY <1>1, <1>2, <1>3 DEF Next

(* The fields of a packet are numbers. *)
LEMMA PacketFields ==
    ASSUME NEW p \in Packets
    PROVE  /\ p.ihl \in Nat /\ p.doff \in Nat /\ p.len \in Nat
           /\ p.source \in Nat /\ p.dest \in Nat
  BY HttpTapAssumption

(* What the copy takes from a packet that is reported. *)
LEMMA CopyRight ==
    ASSUME Variant \in {"tc", "xdp"}, NEW p \in Packets, Reported(p)
    PROVE  LET e == Event(p)
               n == available_len(p)
           IN  /\ e.packet = p
               /\ n >= 0 /\ e.from + e.copied <= p.len /\ e.copied <= CAP
               /\ \/ e.copied = IF n < CAP THEN n ELSE CAP
                  \/ Variant = "tc" /\ n = CAP - 1
  <1>1. payload(p) \in Nat /\ p.len \in Nat /\ payload(p) <= p.len
    BY PacketFields DEF payload, l4, l3, ethhdr, Reported
  <1>2. QED
    BY <1>1, HttpTapAssumption DEF Event, copy_len, available_len

LEMMA TapRight == ASSUME TapInv PROVE VerdictRight /\ CaptureRight
  <1>1. VerdictRight
    <2> SUFFICES ASSUME NEW p \in Packets,
                        last = [packet |-> p, verdict |-> IF Dropped(p) THEN "drop" ELSE "pass"]
                 PROVE  VerdictRight
      BY DEF TapInv, VerdictRight
    <2>1. QED
      BY PacketFields DEF VerdictRight, Dropped, IsTcp, Complete, l3, l4, ethhdr, iphdr, tcphdr
  <1>2. ASSUME NEW k \in DOMAIN rb
        PROVE  \E p \in Packets : Reported(p) /\ rb[k] = Event(p)
    <2>1. rb[k] \in TapEvents
      BY DEF TapInv
    <2>2. QED
      BY <2>1 DEF TapEvents
  <1>3. CaptureRight
    BY <1>2, CopyRight DEF TapInv, CaptureRight, CopyInBounds, EventComplete, Events
  <1>4. QED
    BY <1>1, <1>3

-----------------------------------------------------------------------------
(* The unlink tracer: an entry belongs to a process inside do_unlinkat,    *)
(* and for a thread without siblings it is the entry of its own call.      *)
UnlinkTypes ==
    /\ tgid \in [Thread -> Process]
    /\ u_pc \in [Thread -> {"idle", "unlinking", "reporting"}]
    /\ name \in [Thread -> File] /\ cached \in [Thread -> File]
    /\ fresh \in [Thread -> BOOLEAN]
    /\ DOMAIN infomap \subseteq Process
    /\ \A p \in DOMAIN infomap : infomap[p] \in File

OwnEntry ==
    \A t \in Thread : UT!Siblings(t) = {} =>
       /\ fresh[t]
       /\ u_pc[t] = "unlinking" /\ tgid[t] \in DOMAIN infomap => infomap[tgid[t]] = name[t]
       /\ u_pc[t] = "reporting" => cached[t] = name[t]

TrueEvents == {e \in [pid : Process, filename : File, of : Thread, call : File] :
                  UT!Siblings(e.of) = {} => e.filename = e.call}

UnlinkInv == UnlinkTypes /\ UT!NoStaleEntry /\ OwnEntry /\ u_rb \in Seq(TrueEvents)

LEMMA UnlinkStep == ASSUME UnlinkInv, [UT!Next]_(UT!vars) PROVE UnlinkInv'
  <1> USE DEF UT!NoStaleEntry, UT!Siblings
  <1>0. UnlinkTypes /\ UT!NoStaleEntry /\ OwnEntry /\ u_rb \in Seq(TrueEvents)
    BY DEF UnlinkInv
  <1>1. CASE UNCHANGED UT!vars
    <2>1. TrueEvents' = TrueEvents
      BY <1>1 DEF UT!vars, TrueEvents
    <2>2. u_rb' \in Seq(TrueEvents)'
      BY <1>0, <1>1, <2>1 DEF UT!vars
    <2>3. (UnlinkTypes /\ UT!NoStaleEntry /\ OwnEntry)'
      BY <1>0, <1>1 DEF UT!vars, UnlinkTypes, OwnEntry
    <2>4. QED
      BY <2>2, <2>3 DEF UnlinkInv
  <1>2. ASSUME NEW t \in Thread, NEW f \in File, UT!do_unlinkat_entry(t, f) PROVE UnlinkInv'
    <2> USE <1>0, <1>2 DEF UT!do_unlinkat_entry, UT!Updated, UT!Disturb
    <2>1. UnlinkTypes'
      <3>1. fresh' \in [Thread -> BOOLEAN]
        BY DEF UnlinkTypes
      <3>2. (DOMAIN infomap \subseteq Process /\ \A p \in DOMAIN infomap : infomap[p] \in File)'
        BY DEF UnlinkTypes
      <3>3. QED
        BY <3>1, <3>2 DEF UnlinkTypes
    <2>2. UT!NoStaleEntry'
      BY DEF UnlinkTypes
    <2>3. OwnEntry'
      BY DEF UnlinkTypes, OwnEntry
    <2>4. u_rb' \in Seq(TrueEvents)'
      BY DEF TrueEvents
    <2>5. QED
      BY <2>1, <2>2, <2>3, <2>4 DEF UnlinkInv
  <1>3. ASSUME NEW t \in Thread, UT!do_unlinkat_exit(t) PROVE UnlinkInv'
    <2> USE <1>0, <1>3 DEF UT!do_unlinkat_exit
    <2>1. UnlinkTypes'
      BY DEF UnlinkTypes
    <2>2. UT!NoStaleEntry'
      BY DEF UnlinkTypes
    <2>3. OwnEntry'
      BY DEF UnlinkTypes, OwnEntry
    <2>4. u_rb' \in Seq(TrueEvents)'
      BY DEF TrueEvents
    <2>5. QED
      BY <2>1, <2>2, <2>3, <2>4 DEF UnlinkInv
  <1>4. ASSUME NEW t \in Thread, UT!Report(t) PROVE UnlinkInv'
    <2> USE <1>0, <1>4 DEF UT!Report, UT!Deleted, UT!Restrict, UT!Disturb
    <2>1. UnlinkTypes'
      BY DEF UnlinkTypes
    <2>2. UT!NoStaleEntry'
      BY DEF UnlinkTypes
    <2>3. OwnEntry'
      BY DEF UnlinkTypes, OwnEntry
    <2>4. u_rb' \in Seq(TrueEvents)'
      <3> HIDE <1>4
      <3>1. TrueEvents' = TrueEvents
        BY <1>4 DEF TrueEvents
      <3>2. ASSUME NEW f \in UT!Cached(t)
            PROVE  [pid |-> tgid[t], filename |-> f, of |-> t, call |-> name[t]] \in TrueEvents
        <4>1. /\ f \in File
              /\ UT!Siblings(t) = {} => f = name[t]
          BY <1>4 DEF UnlinkTypes, OwnEntry, UT!Cached, UT!Range
        <4>2. QED
          BY <4>1 DEF TrueEvents, UnlinkTypes
      <3>3. u_rb' \in Seq(TrueEvents)
        <4> HIDE DEF UT!Deleted, UT!Restrict, UT!Disturb, UT!Siblings
        <4>1. CASE UNCHANGED u_rb
          BY <4>1
        <4>2. CASE ~UNCHANGED u_rb
          <5>1. PICK f \in UT!Cached(t) :
                   u_rb' = Append(u_rb, [pid |-> tgid[t], filename |-> f, of |-> t, call |-> name[t]])
            BY <1>4, <4>2, Zenon
          <5>2. QED
            BY <3>2, <5>1
        <4>3. QED
          BY <4>1, <4>2
      <3>4. QED
        BY <3>1, <3>3
    <2>5. QED
      BY <2>1, <2>2, <2>3, <2>4 DEF UnlinkInv
  <1>5. CASE UT!Poll
    <2> USE <1>0, <1>5 DEF UT!Poll
    <2>1. TrueEvents' = TrueEvents
      BY DEF TrueEvents
    <2>2. u_rb' \in Seq(TrueEvents)
      OBVIOUS
    <2>3. QED
      BY <2>1, <2>2 DEF UnlinkInv, UnlinkTypes, OwnEntry
  <1>6. QED
    BY <1>1, <1>2, <1>3, <1>4, <1>5 DEF UT!Next
-----------------------------------------------------------------------------
(* Arithmetic of a ring: numbers closer than its size have different       *)
(* places in it, and a set of numbers has a least one.                     *)
LEMMA Quotient ==
    ASSUME NEW N \in Nat, N > 0, NEW a \in Int
    PROVE  a \div N \in Int /\ a - (a % N) = (a \div N) * N
  BY SMT

LEMMA Multiple ==
    ASSUME NEW N \in Nat, N > 0, NEW d \in Int, d > 0
    PROVE  d * N >= N
  BY SMT

LEMMA PlacesDiffer ==
    ASSUME NEW N \in Nat, N > 0, NEW a \in Nat, NEW b \in Nat, a < b, b - a < N
    PROVE  a % N # b % N
  <1> SUFFICES ASSUME a % N = b % N PROVE FALSE
    OBVIOUS
  <1>1. a \div N \in Int /\ b \div N \in Int
    BY Quotient
  <1>2. b - a = (b \div N) * N - (a \div N) * N
    BY Quotient
  <1> DEFINE d == b \div N - a \div N
  <1>3. d \in Int /\ b - a = d * N
    BY <1>1, <1>2, SMT
  <1>4. CASE d > 0
    BY <1>3, <1>4, Multiple
  <1>5. CASE d = 0
    BY <1>3, <1>5
  <1>6. CASE d < 0
    <2>1. (-d) \in Int /\ -d > 0 /\ (-d) * N = a - b
      BY <1>3, <1>6, SMT
    <2>2. QED
      BY <2>1, Multiple
  <1>7. QED
    BY <1>3, <1>4, <1>5, <1>6

LEMMA LeastExists ==
    ASSUME NEW S \in SUBSET Nat, S # {}
    PROVE  \E x \in S : \A y \in S : x <= y
  <1> DEFINE R == {ss \in Nat \X Nat : ss[1] < ss[2]}
  <1>1. IsWellFoundedOn(R, Nat)
    BY NatLessThanWellFounded, Zenon DEF OpToRel
  <1>2. \A x, y \in Nat : <<y, x>> \notin R => x <= y
    <2>1. ASSUME NEW x \in Nat, NEW y \in Nat, y < x PROVE <<y, x>> \in R
      BY <2>1
    <2>2. QED
      BY <2>1
  <1> HIDE DEF R
  <1>3. PICK x \in S : \A y \in S : ~(<<y, x>> \in R)
    BY <1>1, WFMin
  <1>4. QED
    BY <1>2, <1>3
-----------------------------------------------------------------------------
(* The Go tracer: a byte of the ring is NUL or what a call reported so far *)
(* had at its place, and in an event not yet printed it is no later call's.*)
Left(s, x, c) == stock_code[s][x] = UG!Byte(c, x) /\ UG!str_len(arg[c + 1]) > x

UprobeTypes ==
    /\ arg \in Seq(Nat) /\ produced = Len(arg)
    /\ consumed \in Nat /\ consumed <= produced /\ produced - consumed <= Slots
    /\ stock_code \in [0 .. Slots - 1 -> [0 .. CODE_SIZE - 1 -> {UG!NUL} \cup (Nat \X Nat)]]

EveryByte ==
    \A s \in 0 .. Slots - 1, x \in 0 .. CODE_SIZE - 1 :
       stock_code[s][x] = UG!NUL \/ \E c \in 0 .. produced - 1 : Left(s, x, c)

PendingBytes ==
    \A k \in consumed .. produced - 1, x \in 0 .. CODE_SIZE - 1 :
       /\ stock_code[UG!Slot(k)][x] = UG!NUL \/ \E c \in 0 .. k : Left(UG!Slot(k), x, c)
       /\ x < UG!str_len(arg[k + 1]) => stock_code[UG!Slot(k)][x] = UG!Byte(k, x)

UprobeInv == UprobeTypes /\ EveryByte /\ PendingBytes

LEMMA UprobeStep == ASSUME UprobeInv, [UG!Next]_(UG!vars) PROVE UprobeInv'
  <1>0. UprobeTypes /\ EveryByte /\ PendingBytes
    BY DEF UprobeInv
  <1>1. CASE UNCHANGED UG!vars
    BY <1>1 DEF UG!vars, UprobeInv, UprobeTypes, EveryByte, PendingBytes, Left
  <1>2. ASSUME NEW cx \in 0 .. CODE_SIZE + 1, NEW faults \in BOOLEAN,
               UG!uprobe_fetch_stock(cx, faults)
        PROVE  UprobeInv'
    <2> DEFINE n == UG!str_len(cx)
               s0 == UG!Slot(produced)
               new == [x \in 0 .. CODE_SIZE - 1 |->
                         IF x >= n THEN stock_code[s0][x]
                         ELSE IF faults THEN UG!NUL ELSE UG!Byte(produced, x)]
    <2>1. /\ produced \in Nat /\ cx \in Nat /\ n \in Nat /\ n <= CODE_SIZE - 1
          /\ s0 \in 0 .. Slots - 1
      BY <1>0, ReadersAssumption DEF UprobeTypes, UG!Slot, UG!str_len
    <2>2. /\ stock_code' = [stock_code EXCEPT ![s0] = new]
          /\ produced' = produced + 1 /\ consumed' = consumed
          /\ produced - consumed < Slots
          /\ arg' = Append(arg, IF faults THEN 0 ELSE cx)
      BY <1>2 DEF UG!uprobe_fetch_stock
    <2>3. /\ new \in [0 .. CODE_SIZE - 1 -> {UG!NUL} \cup (Nat \X Nat)]
          /\ \A x \in 0 .. CODE_SIZE - 1 :
                new[x] = IF x >= n THEN stock_code[s0][x]
                         ELSE IF faults THEN UG!NUL ELSE UG!Byte(produced, x)
      <3>1. ASSUME NEW x \in 0 .. CODE_SIZE - 1
            PROVE  /\ UG!Byte(produced, x) \in Nat \X Nat
                   /\ stock_code[s0][x] \in {UG!NUL} \cup (Nat \X Nat)
        <4>1. x \in Nat
          BY ReadersAssumption
        <4>2. QED
          BY <1>0, <2>1, <4>1 DEF UprobeTypes, UG!Byte
      <3> HIDE DEF n, s0
      <3>2. QED
        BY <3>1
    <2> HIDE DEF n, s0, new
    <2>4. UprobeTypes'
      <3>1. UG!NUL' = UG!NUL
        BY DEF UG!NUL
      <3>2. stock_code' \in [0 .. Slots - 1 -> [0 .. CODE_SIZE - 1 -> {UG!NUL} \cup (Nat \X Nat)]]
        BY <1>0, <2>1, <2>2, <2>3 DEF UprobeTypes
      <3>3. arg' \in Seq(Nat) /\ produced' = Len(arg')
        BY <1>0, <2>1, <2>2 DEF UprobeTypes
      <3>4. consumed \in Nat /\ consumed <= produced' /\ produced' - consumed <= Slots
        BY <1>0, <2>1, <2>2, ReadersAssumption DEF UprobeTypes
      <3>5. QED
        BY <2>2, <3>1, <3>2, <3>3, <3>4 DEF UprobeTypes
    <2>5. /\ \A c \in 0 .. produced - 1 : arg'[c + 1] = arg[c + 1]
          /\ arg'[produced + 1] = IF faults THEN 0 ELSE cx
      BY <1>0, <2>1, <2>2 DEF UprobeTypes
    <2>6. \A s \in 0 .. Slots - 1 : stock_code'[s] = IF s = s0 THEN new ELSE stock_code[s]
      BY <1>0, <2>1, <2>2 DEF UprobeTypes
    <2>7. /\ \A s, x, c : Left(s, x, c)' <=>
                stock_code'[s][x] = UG!Byte(c, x) /\ UG!str_len(arg'[c + 1]) > x
          /\ EveryByte' <=> \A s \in 0 .. Slots - 1, x \in 0 .. CODE_SIZE - 1 :
                stock_code'[s][x] = UG!NUL \/ \E c \in 0 .. produced : Left(s, x, c)'
          /\ PendingBytes' <=> \A k \in consumed .. produced, x \in 0 .. CODE_SIZE - 1 :
                /\ stock_code'[UG!Slot(k)][x] = UG!NUL \/ \E c \in 0 .. k : Left(UG!Slot(k), x, c)'
                /\ x < UG!str_len(arg'[k + 1]) => stock_code'[UG!Slot(k)][x] = UG!Byte(k, x)
      <3>1. \A s, x, c : Left(s, x, c)' <=>
                stock_code'[s][x] = UG!Byte(c, x) /\ UG!str_len(arg'[c + 1]) > x
        BY DEF Left, UG!Byte, UG!str_len
      <3>2. produced' - 1 = produced /\ consumed' = consumed
        BY <2>1, <2>2
      <3>3. EveryByte' <=> \A s \in 0 .. Slots - 1, x \in 0 .. CODE_SIZE - 1 :
                stock_code'[s][x] = UG!NUL \/ \E c \in 0 .. produced : Left(s, x, c)'
        BY <3>2, Zenon DEF EveryByte, UG!NUL
      <3>4. PendingBytes' <=> \A k \in consumed .. produced, x \in 0 .. CODE_SIZE - 1 :
                /\ stock_code'[UG!Slot(k)][x] = UG!NUL \/ \E c \in 0 .. k : Left(UG!Slot(k), x, c)'
                /\ x < UG!str_len(arg'[k + 1]) => stock_code'[UG!Slot(k)][x] = UG!Byte(k, x)
        BY <3>2, Zenon DEF PendingBytes, UG!NUL, UG!Slot, UG!Byte, UG!str_len
      <3>5. QED
        BY <3>1, <3>3, <3>4
    <2>8. EveryByte'
      <3> SUFFICES ASSUME NEW s \in 0 .. Slots - 1, NEW x \in 0 .. CODE_SIZE - 1
                   PROVE  stock_code'[s][x] = UG!NUL \/ \E c \in 0 .. produced : Left(s, x, c)'
        BY <2>7
      <3>1. \A c \in 0 .. produced - 1 :
               Left(s, x, c) /\ stock_code'[s][x] = stock_code[s][x] => Left(s, x, c)'
        BY <2>5, <2>7 DEF Left
      <3>2. stock_code'[s][x] = stock_code[s][x] =>
               stock_code'[s][x] = UG!NUL \/ \E c \in 0 .. produced : Left(s, x, c)'
        BY <1>0, <2>1, <3>1 DEF EveryByte
      <3>3. ASSUME stock_code'[s][x] # stock_code[s][x], stock_code'[s][x] # UG!NUL,
                   NEW c \in {produced}
            PROVE  Left(s, x, c)'
        <4>1. ~faults /\ ~(x >= n) /\ stock_code'[s][x] = UG!Byte(c, x)
          BY <2>3, <2>6, <3>3
        <4>2. UG!str_len(arg'[c + 1]) = n
          BY <2>5, <4>1 DEF n
        <4>3. n > x
          BY <2>1, <4>1, ReadersAssumption
        <4>4. QED
          BY <2>7, <4>1, <4>2, <4>3
      <3>4. produced \in 0 .. produced
        BY <2>1
      <3>5. QED
        BY <3>2, <3>3, <3>4
    <2>9. PendingBytes'
      <3> SUFFICES ASSUME NEW k \in consumed .. produced, NEW x \in 0 .. CODE_SIZE - 1
                   PROVE  /\ \/ stock_code'[UG!Slot(k)][x] = UG!NUL
                             \/ \E c \in 0 .. k : Left(UG!Slot(k), x, c)'
                          /\ x < UG!str_len(arg'[k + 1]) =>
                                stock_code'[UG!Slot(k)][x] = UG!Byte(k, x)
        BY <2>7
      <3>1. CASE k = produced
        <4>1. stock_code'[UG!Slot(k)][x] = UG!NUL \/ \E c \in 0 .. k : Left(UG!Slot(k), x, c)'
          BY <2>1, <2>7, <2>8, <3>1 DEF s0
        <4>2. x < UG!str_len(arg'[k + 1]) => stock_code'[UG!Slot(k)][x] = UG!Byte(k, x)
          BY <2>1, <2>3, <2>5, <2>6, <3>1, ReadersAssumption DEF UG!str_len, n, s0
        <4>3. QED
          BY <4>1, <4>2
      <3>2. CASE k # produced
        <4>1. k \in consumed .. produced - 1 /\ k \in Nat /\ k < produced
          BY <1>0, <2>1, <3>2 DEF UprobeTypes
        <4>2. UG!Slot(k) \in 0 .. Slots - 1 /\ UG!Slot(k) # s0
          <5>1. Slots \in Nat /\ Slots > 0 /\ produced - k < Slots
            <6>1. produced - consumed < Slots /\ consumed \in Nat
              BY <1>0, <2>2 DEF UprobeTypes
            <6>2. Slots \in Nat /\ Slots > 0
              BY ReadersAssumption
            <6>3. QED
              BY <2>1, <4>1, <6>1, <6>2
          <5>2. k % Slots # produced % Slots /\ k % Slots \in 0 .. Slots - 1
            BY <2>1, <4>1, <5>1, PlacesDiffer
          <5>3. QED
            BY <5>2 DEF UG!Slot, s0
        <4>3. stock_code'[UG!Slot(k)] = stock_code[UG!Slot(k)]
          BY <2>6, <4>2
        <4>4. \A c \in 0 .. k : Left(UG!Slot(k), x, c) => Left(UG!Slot(k), x, c)'
          BY <2>1, <2>5, <2>7, <4>1, <4>3 DEF Left
        <4>5. QED
          BY <1>0, <2>1, <2>5, <4>1, <4>3, <4>4 DEF PendingBytes
      <3>3. QED
        BY <3>1, <3>2
    <2>10. QED
      BY <2>4, <2>8, <2>9 DEF UprobeInv
  <1>3. CASE UG!handle_event
    <2>1. /\ UprobeTypes' /\ consumed' = consumed + 1 /\ UNCHANGED <<stock_code, produced, arg>>
      BY <1>0, <1>3, ReadersAssumption DEF UG!handle_event, UprobeTypes, UG!NUL
    <2>2. EveryByte' /\ PendingBytes'
      BY <1>0, <2>1 DEF UprobeTypes, EveryByte, PendingBytes, Left
    <2>3. QED
      BY <2>1, <2>2 DEF UprobeInv
  <1>4. QED
    BY <1>1, <1>2, <1>3 DEF UG!Next

(* What printf takes from a slot ends before its first terminator. *)
LEMMA PrintedRight ==
    ASSUME NEW code, DOMAIN code = 0 .. CODE_SIZE - 1, code[CODE_SIZE - 1] = UG!NUL
    PROVE  LET printed == UG!Printed(code)
           IN  /\ DOMAIN printed \subseteq 0 .. CODE_SIZE - 2
               /\ \A x \in DOMAIN printed : printed[x] = code[x] /\ code[x] # UG!NUL
               /\ \A n \in Nat : n < CODE_SIZE /\ (\A x \in 0 .. n - 1 : code[x] # UG!NUL)
                     => 0 .. n - 1 \subseteq DOMAIN printed
  <1> DEFINE Ends == {x \in DOMAIN code : code[x] = UG!NUL}
             Least(x) == x \in Ends /\ \A y \in Ends : x <= y
             end == CHOOSE x \in Ends : \A y \in Ends : x <= y
  <1>1. CODE_SIZE - 1 \in Ends /\ Ends \in SUBSET Nat
    BY ReadersAssumption
  <1>2. \E x \in Ends : \A y \in Ends : x <= y
    <2> HIDE DEF Ends
    <2>1. QED
      BY <1>1, LeastExists
  <1>3. end \in Ends /\ \A y \in Ends : end <= y
    <2> HIDE DEF Ends
    <2>1. QED
      BY <1>2
  <1>4. UG!Printed(code) = [x \in 0 .. end - 1 |-> code[x]]
    BY <1>1 DEF UG!Printed
  <1> HIDE DEF end
  <1>5. end \in Nat /\ end <= CODE_SIZE - 1 /\ code[end] = UG!NUL
    BY <1>1, <1>3, ReadersAssumption
  <1>6. \A x \in 0 .. end - 1 : code[x] # UG!NUL
    BY <1>3, <1>5, ReadersAssumption
  <1>7. QED
    BY <1>4, <1>5, <1>6, ReadersAssumption

LEMMA UprobeRight == ASSUME UprobeInv PROVE UG!NamePrinted
  <1>1. UprobeTypes /\ EveryByte /\ PendingBytes
    BY DEF UprobeInv
  <1> SUFFICES ASSUME NEW k \in consumed .. produced - 1
               PROVE  LET printed == UG!Printed(stock_code[UG!Slot(k)])
                          n     == UG!str_len(arg[k + 1])
                      IN  /\ CODE_SIZE - 1 \notin DOMAIN printed
                          /\ \A x \in 0 .. n - 1 : x \in DOMAIN printed /\ printed[x] = UG!Byte(k, x)
                          /\ \A x \in DOMAIN printed : x >= n =>
                                \E c \in 0 .. k - 1 :
                                   printed[x] = UG!Byte(c, x) /\ UG!str_len(arg[c + 1]) > x
    BY DEF UG!NamePrinted
  <1> DEFINE code == stock_code[UG!Slot(k)]
             n == UG!str_len(arg[k + 1])
  <1>2. k \in Nat /\ k < Len(arg) /\ UG!Slot(k) \in 0 .. Slots - 1
    BY <1>1, ReadersAssumption DEF UprobeTypes, UG!Slot
  <1>3. \A c \in 0 .. k : arg[c + 1] \in Nat
    BY <1>1, <1>2 DEF UprobeTypes
  <1>4. \A c \in 0 .. k : UG!str_len(arg[c + 1]) \in Nat /\ UG!str_len(arg[c + 1]) <= CODE_SIZE - 1
    BY <1>3, ReadersAssumption DEF UG!str_len
  <1>5. DOMAIN code = 0 .. CODE_SIZE - 1 /\ code[CODE_SIZE - 1] = UG!NUL
    <2>1. DOMAIN code = 0 .. CODE_SIZE - 1
      BY <1>1, <1>2 DEF UprobeTypes
    <2>2. CODE_SIZE - 1 \in 0 .. CODE_SIZE - 1
      BY ReadersAssumption
    <2>3. QED
      BY <1>1, <1>2, <1>4, <2>1, <2>2, ReadersAssumption DEF PendingBytes, Left
  <1>6. \A x \in 0 .. n - 1 : code[x] = UG!Byte(k, x) /\ code[x] # UG!NUL
    <2>1. ASSUME NEW x \in 0 .. n - 1 PROVE code[x] = UG!Byte(k, x)
      BY <1>1, <1>2, <1>4, ReadersAssumption DEF PendingBytes
    <2>2. \A x : UG!Byte(k, x) # UG!NUL
      BY DEF UG!Byte, UG!NUL
    <2>3. QED
      BY <2>1, <2>2
  <1>7. \A x \in 0 .. CODE_SIZE - 1 : code[x] # UG!NUL /\ x >= n =>
           \E c \in 0 .. k - 1 : code[x] = UG!Byte(c, x) /\ UG!str_len(arg[c + 1]) > x
    <2> SUFFICES ASSUME NEW x \in 0 .. CODE_SIZE - 1, code[x] # UG!NUL, x >= n
                 PROVE  \E c \in 0 .. k - 1 :
                           code[x] = UG!Byte(c, x) /\ UG!str_len(arg[c + 1]) > x
      OBVIOUS
    <2>1. PICK c \in 0 .. k : Left(UG!Slot(k), x, c)
      BY <1>1 DEF PendingBytes
    <2>2. c # k
      BY <1>2, <1>4, <2>1, ReadersAssumption DEF Left
    <2>3. c \in 0 .. k - 1
      BY <1>2, <2>2
    <2>4. QED
      BY <2>1, <2>3 DEF Left
  <1> DEFINE printed == UG!Printed(code)
  <1>8. /\ DOMAIN printed \subseteq 0 .. CODE_SIZE - 2
        /\ \A x \in DOMAIN printed : printed[x] = code[x] /\ code[x] # UG!NUL
        /\ 0 .. n - 1 \subseteq DOMAIN printed
    <2> HIDE DEF code, n
    <2>1. n \in Nat /\ n < CODE_SIZE
      BY <1>2, <1>4, ReadersAssumption DEF n
    <2>2. QED
      BY <1>5, <1>6, <2>1, PrintedRight
  <1> HIDE DEF code, n, printed
  <1>9. /\ CODE_SIZE - 1 \notin DOMAIN printed
        /\ \A x \in 0 .. n - 1 : x \in DOMAIN printed /\ printed[x] = UG!Byte(k, x)
        /\ \A x \in DOMAIN printed : x >= n =>
              \E c \in 0 .. k - 1 : printed[x] = UG!Byte(c, x) /\ UG!str_len(arg[c + 1]) > x
    BY <1>6, <1>7, <1>8, ReadersAssumption
  <1>10. QED
    BY <1>9 DEF code, n, printed
-----------------------------------------------------------------------------
(* The asynchronous read: one request becomes one completion, which is     *)
(* counted once, and one result.                                           *)
One(b) == IF b THEN 1 ELSE 0
Counted == efd + One(unsignalled) + One(a_pc = "getevents")
Requests == One(inflight) + Len(ring) + Len(results)

AioTypes == /\ efd \in Nat /\ ring \in Seq(Results) /\ results \in Seq(Results)
            /\ inflight \in BOOLEAN /\ unsignalled \in BOOLEAN

AioCounts == /\ Counted = Len(ring)
             /\ Requests <= IF a_pc \in {"main", "submit"} THEN 0 ELSE 1

AioInv == AioTypes /\ AioCounts

LEMMA Ones == /\ One(TRUE) = 1 /\ One(FALSE) = 0
              /\ \A b \in BOOLEAN : One(b) \in {0, 1}
  BY DEF One

LEMMA AioNumbers ==
    ASSUME AioTypes
    PROVE  /\ Len(ring) \in Nat /\ Len(results) \in Nat /\ efd \in Nat
           /\ One(unsignalled) \in {0, 1} /\ One(inflight) \in {0, 1}
           /\ One(a_pc = "getevents") \in {0, 1}
           /\ a_pc = "getevents" => One(a_pc = "getevents") = 1
           /\ a_pc # "getevents" => One(a_pc = "getevents") = 0
  <1>1. /\ a_pc = "getevents" => One(a_pc = "getevents") = 1
        /\ a_pc # "getevents" => One(a_pc = "getevents") = 0
    BY DEF One
  <1>2. One(unsignalled) \in {0, 1} /\ One(inflight) \in {0, 1}
    BY Ones DEF AioTypes
  <1>3. Len(ring) \in Nat /\ Len(results) \in Nat /\ efd \in Nat
    BY DEF AioTypes
  <1>4. QED
    BY <1>1, <1>2, <1>3

LEMMA AioTypesStep == ASSUME AioTypes, [AR!Next]_(AR!vars) PROVE AioTypes'
  <1> USE DEF AioTypes
  <1>1. CASE UNCHANGED AR!vars
    BY <1>1 DEF AR!vars
  <1>2. CASE AR!MainFails \/ AR!Prepare \/ AR!EpollCtl \/ AR!EpollWait \/ AR!EpollTimeout
    BY <1>2 DEF AR!MainFails, AR!Prepare, AR!EpollCtl, AR!EpollWait, AR!EpollTimeout
  <1>3. CASE AR!IoSubmit
    BY <1>3 DEF AR!IoSubmit
  <1>4. CASE AR!ReadEventfd
    BY <1>4 DEF AR!ReadEventfd
  <1>5. CASE AR!IoGetevents
    BY <1>5 DEF AR!IoGetevents
  <1>6. CASE AR!Complete
    <2>1. inflight' \in BOOLEAN /\ unsignalled' \in BOOLEAN
      BY <1>6 DEF AR!Complete
    <2>2. efd' \in Nat /\ ring' \in Seq(Results) /\ results' \in Seq(Results)
      BY <1>6 DEF AR!Complete
    <2>3. QED
      BY <2>1, <2>2
  <1>7. CASE AR!Signal
    <2>1. inflight' \in BOOLEAN /\ unsignalled' \in BOOLEAN
      BY <1>7 DEF AR!Signal
    <2>2. efd' \in Nat /\ ring' \in Seq(Results) /\ results' \in Seq(Results)
      BY <1>7 DEF AR!Signal
    <2>3. QED
      BY <2>1, <2>2
  <1>8. QED
    BY <1>1, <1>2, <1>3, <1>4, <1>5, <1>6, <1>7 DEF AR!Next, AR!Program, AR!Kernel

LEMMA AioStep == ASSUME AioInv, [AR!Next]_(AR!vars) PROVE AioInv'
  <1>0. AioTypes /\ AioCounts /\ AioTypes'
    BY AioTypesStep DEF AioInv
  <1> SUFFICES AioCounts'
    BY <1>0 DEF AioInv
  <1>a. /\ Len(ring) \in Nat /\ Len(results) \in Nat /\ efd \in Nat
        /\ One(unsignalled) \in {0, 1} /\ One(inflight) \in {0, 1}
        /\ One(a_pc = "getevents") \in {0, 1}
        /\ a_pc = "getevents" => One(a_pc = "getevents") = 1
        /\ a_pc # "getevents" => One(a_pc = "getevents") = 0
    BY <1>0, AioNumbers
  <1>b. /\ a_pc' = "getevents" => One((a_pc = "getevents")') = 1
        /\ a_pc' # "getevents" => One((a_pc = "getevents")') = 0
    BY DEF One
  <1>c. Counted' = efd' + One(unsignalled') + One((a_pc = "getevents")')
    BY Zenon DEF Counted, One
  <1>d. Requests' = One(inflight') + Len(ring') + Len(results')
    BY Zenon DEF Requests, One
  <1> USE <1>0, <1>a, <1>b, <1>c, <1>d
  <1>1. CASE UNCHANGED AR!vars
    BY <1>1 DEF AR!vars, AioCounts, Counted, Requests
  <1>2. CASE AR!MainFails \/ AR!Prepare \/ AR!EpollCtl \/ AR!EpollWait \/ AR!EpollTimeout
    <2>1. /\ a_pc # "getevents" /\ a_pc' # "getevents"
          /\ a_pc' \in {"main", "submit"} => a_pc \in {"main", "submit"}
      BY <1>2 DEF AR!MainFails, AR!Prepare, AR!EpollCtl, AR!EpollWait, AR!EpollTimeout
    <2>2. UNCHANGED <<inflight, ring, unsignalled, efd, results>>
      BY <1>2 DEF AR!MainFails, AR!Prepare, AR!EpollCtl, AR!EpollWait, AR!EpollTimeout
    <2>3. QED
      BY <2>1, <2>2 DEF AioCounts, Counted, Requests
  <1>3. CASE AR!IoSubmit
    <2>1. /\ a_pc = "submit" /\ a_pc' = "epoll" /\ inflight' = TRUE
          /\ UNCHANGED <<ring, unsignalled, efd, results>>
      BY <1>3 DEF AR!IoSubmit
    <2>2. One(inflight') = 1
      BY <2>1, Ones
    <2>3. QED
      BY <2>1, <2>2 DEF AioCounts, Counted, Requests
  <1>4. CASE AR!ReadEventfd
    <2>1. /\ a_pc = "read" /\ a_pc' = "getevents" /\ efd > 0 /\ efd' = 0
          /\ UNCHANGED <<inflight, ring, unsignalled, results>>
      BY <1>4 DEF AR!ReadEventfd
    <2>2. QED
      BY <2>1 DEF AioCounts, Counted, Requests
  <1>5. CASE AR!IoGetevents
    <2>1. /\ a_pc' = "wait" /\ a_pc = "getevents" /\ UNCHANGED <<inflight, unsignalled, efd>>
          /\ Len(ring') = Len(ring) - 1 /\ Len(results') = Len(results) + 1
      BY <1>5 DEF AR!IoGetevents, AioTypes
    <2>2. QED
      BY <2>1 DEF AioCounts, Counted, Requests
  <1>6. CASE AR!Complete
    <2>1. /\ inflight = TRUE /\ inflight' = FALSE /\ unsignalled' = TRUE
          /\ UNCHANGED <<a_pc, efd, results>>
      BY <1>6 DEF AR!Complete, AioTypes
    <2>2. Len(ring') = Len(ring) + 1
      BY <1>6 DEF AR!Complete, AioTypes
    <2>3. One(inflight) = 1 /\ One(inflight') = 0 /\ One(unsignalled') = 1
      BY <2>1, Ones
    <2>4. QED
      BY <2>1, <2>2, <2>3 DEF AioCounts, Counted, Requests
  <1>7. CASE AR!Signal
    <2>1. /\ unsignalled = TRUE /\ unsignalled' = FALSE /\ efd' = efd + 1
          /\ UNCHANGED <<a_pc, inflight, ring, results>>
      BY <1>7 DEF AR!Signal, AioTypes
    <2>2. One(unsignalled) = 1 /\ One(unsignalled') = 0
      BY <2>1, Ones
    <2>3. QED
      BY <2>1, <2>2 DEF AioCounts, Counted, Requests
  <1>8. QED
    BY <1>1, <1>2, <1>3, <1>4, <1>5, <1>6, <1>7 DEF AR!Next, AR!Program, AR!Kernel

LEMMA AioRight == ASSUME AioInv PROVE AR!CompletionThere
  <1>1. AioTypes /\ AioCounts
    BY DEF AioInv
  <1>2. QED
    BY <1>1, AioNumbers DEF AioCounts, Counted, Requests, AR!CompletionThere
-----------------------------------------------------------------------------
(* inotify: events of any lengths lie one behind the other in the buffer.  *)

(* Induction over the natural numbers, for the elements of a set. *)
LEMMA SetInduction ==
    ASSUME NEW S, 0 \in S, \A n \in Nat : n \in S => n + 1 \in S
    PROVE  Nat \subseteq S
  <1> SUFFICES ASSUME Nat \ S # {} PROVE FALSE
    OBVIOUS
  <1>1. PICK x \in Nat \ S : \A y \in Nat \ S : x <= y
    <2> DEFINE T == Nat \ S
    <2>1. T \in SUBSET Nat /\ T # {}
      OBVIOUS
    <2> HIDE DEF T
    <2>2. \E x \in T : \A y \in T : x <= y
      BY <2>1, LeastExists
    <2>3. QED
      BY <2>2 DEF T
  <1>2. x # 0 /\ x - 1 \in Nat /\ ~(x <= x - 1) /\ (x - 1) + 1 = x
    BY <1>1
  <1>3. QED
    BY <1>1, <1>2

AllEvents == EventKind \cup {IGNORED, OVERFLOW}

LEMMA EventSizes ==
    ASSUME NEW e \in AllEvents
    PROVE  NF!Size(e) \in Nat /\ NF!Size(e) > 0 /\ NF!Size(e) <= EVENTS_BUF_SIZE
  BY EventsAssumption DEF AllEvents, NF!Size

(* Where events end is what the definition says, and grows. *)
EndsUpto(s, k, f) == /\ f \in [0 .. k -> Nat] /\ f[0] = 0
                     /\ \A n \in 1 .. k : f[n] = f[n - 1] + NF!Size(s[n])

LEMMA EndsAre ==
    ASSUME NEW s \in Seq(AllEvents)
    PROVE  /\ NF!Ends(s)[0] = 0
           /\ \A n \in 0 .. Len(s) : NF!Ends(s)[n] \in Nat
           /\ \A n \in 1 .. Len(s) : NF!Ends(s)[n] = NF!Ends(s)[n - 1] + NF!Size(s[n])
  <1>0. PICK N : N = Len(s)
    OBVIOUS
  <1>1. N \in Nat /\ \A n \in 1 .. N : NF!Size(s[n]) \in Nat
    BY <1>0, EventSizes
  <1> DEFINE S == {k \in Nat : k <= N => \E f : EndsUpto(s, k, f)}
  <1>2. 0 \in S
    <2>1. EndsUpto(s, 0, [n \in 0 .. 0 |-> 0])
      BY DEF EndsUpto
    <2>2. QED
      BY <2>1
  <1>3. ASSUME NEW k \in Nat, k \in S PROVE k + 1 \in S
    <2> SUFFICES ASSUME k + 1 <= N PROVE \E f : EndsUpto(s, k + 1, f)
      OBVIOUS
    <2>1. PICK f : EndsUpto(s, k, f)
      BY <1>1, <1>3
    <2>2. PICK z : z = NF!Size(s[k + 1])
      OBVIOUS
    <2>3. z \in Nat /\ f[k] \in Nat
      BY <1>1, <2>1, <2>2 DEF EndsUpto
    <2> DEFINE g == [n \in 0 .. k + 1 |-> IF n = k + 1 THEN f[k] + z ELSE f[n]]
    <2>4. g \in [0 .. k + 1 -> Nat] /\ g[0] = 0
      BY <2>1, <2>3 DEF EndsUpto
    <2>5. ASSUME NEW n \in 1 .. k + 1 PROVE g[n] = g[n - 1] + NF!Size(s[n])
      <3>1. CASE n = k + 1
        BY <2>2, <3>1
      <3>2. CASE n \in 1 .. k
        BY <2>1, <3>2 DEF EndsUpto
      <3>3. QED
        BY <3>1, <3>2
    <2>6. EndsUpto(s, k + 1, g)
      BY <2>4, <2>5 DEF EndsUpto
    <2>7. QED
      BY <2>6
  <1>4. N \in S
    <2> HIDE DEF S
    <2>1. QED
      BY <1>1, <1>2, <1>3, SetInduction
  <1>5. PICK f : EndsUpto(s, N, f)
    BY <1>1, <1>4
  <1> HIDE DEF S
  <1>6. f = [n \in 0 .. N |-> IF n = 0 THEN 0 ELSE f[n - 1] + NF!Size(s[n])]
    BY <1>1, <1>5 DEF EndsUpto
  <1>7. PICK t : t = NF!Ends(s)
    OBVIOUS
  <1>8. t = [n \in 0 .. N |-> IF n = 0 THEN 0 ELSE t[n - 1] + NF!Size(s[n])]
    BY <1>0, <1>6, <1>7 DEF NF!Ends
  <1>9. t[0] = 0 /\ \A n \in 1 .. N : t[n] = t[n - 1] + NF!Size(s[n])
    <2>1. ASSUME NEW n \in 1 .. N PROVE t[n] = t[n - 1] + NF!Size(s[n])
      BY <1>1, <1>8
    <2>2. t[0] = 0
      BY <1>1, <1>8
    <2>3. QED
      BY <2>1, <2>2
  <1>10. \A n \in 0 .. N : t[n] \in Nat
    <2> DEFINE U == {k \in Nat : k <= N => t[k] \in Nat}
    <2>1. 0 \in U
      BY <1>9
    <2>2. ASSUME NEW k \in Nat, k \in U PROVE k + 1 \in U
      <3> SUFFICES ASSUME k + 1 <= N PROVE t[k + 1] \in Nat
        OBVIOUS
      <3>1. k + 1 \in 1 .. N /\ (k + 1) - 1 = k /\ t[k] \in Nat
        BY <1>1, <2>2
      <3>2. QED
        BY <1>1, <1>9, <3>1
    <2>3. Nat \subseteq U
      <3> HIDE DEF U
      <3>1. QED
        BY <2>1, <2>2, SetInduction
    <2>4. QED
      BY <1>1, <2>3
  <1>11. QED
    BY <1>0, <1>7, <1>9, <1>10

LEMMA EndsGrow ==
    ASSUME NEW s \in Seq(AllEvents), NEW m \in 0 .. Len(s), NEW n \in 0 .. Len(s), m < n
    PROVE  NF!Ends(s)[m] < NF!Ends(s)[n]
  <1>1. PICK t, N : t = NF!Ends(s) /\ N = Len(s)
    OBVIOUS
  <1>2. N \in Nat /\ \A k \in 0 .. N : t[k] \in Nat
    BY <1>1, EndsAre
  <1>3. \A k \in 1 .. N : t[k - 1] < t[k]
    <2>1. ASSUME NEW k \in 1 .. N PROVE t[k - 1] < t[k]
      <3>0. s[k] \in AllEvents
        BY <1>1
      <3>1. t[k] = t[k - 1] + NF!Size(s[k]) /\ NF!Size(s[k]) \in Nat /\ NF!Size(s[k]) > 0
        BY <1>1, <3>0, EndsAre, EventSizes
      <3>2. t[k - 1] \in Nat
        BY <1>2
      <3>3. QED
        BY <3>1, <3>2
    <2>2. QED
      BY <2>1
  <1> DEFINE U == {k \in Nat : m + k + 1 <= N => t[m] < t[m + k + 1]}
  <1>4. 0 \in U
    <2> SUFFICES ASSUME m + 0 + 1 <= N PROVE t[m] < t[m + 0 + 1]
      OBVIOUS
    <2>1. m + 1 \in 1 .. N /\ (m + 1) - 1 = m /\ m + 0 + 1 = m + 1
      BY <1>1, <1>2
    <2>2. QED
      BY <1>3, <2>1
  <1>5. ASSUME NEW k \in Nat, k \in U PROVE k + 1 \in U
    <2> SUFFICES ASSUME m + (k + 1) + 1 <= N PROVE t[m] < t[m + (k + 1) + 1]
      OBVIOUS
    <2>1. PICK x \in 1 .. N : x = m + (k + 1) + 1 /\ x - 1 = m + k + 1
      BY <1>1, <1>2
    <2>2. t[m] < t[x - 1]
      BY <1>2, <1>5, <2>1
    <2>3. t[x - 1] < t[x] /\ t[x] \in Nat /\ t[x - 1] \in Nat /\ t[m] \in Nat
      BY <1>1, <1>2, <1>3, <2>1
    <2>4. QED
      BY <2>1, <2>2, <2>3
  <1>6. Nat \subseteq U
    <2> HIDE DEF U
    <2>1. QED
      BY <1>4, <1>5, SetInduction
  <1>7. n - m - 1 \in Nat /\ m + (n - m - 1) + 1 = n /\ n <= N
    BY <1>1, <1>2
  <1>8. t[m] < t[n]
    BY <1>6, <1>7
  <1>9. QED
    BY <1>1, <1>8

(* A read takes at least one event, and no more than there are. *)
LEMMA FittingIs ==
    ASSUME queue \in Seq(AllEvents), queue # <<>>
    PROVE  NF!Fitting \in 1 .. Len(queue)
  <1>0. PICK N : N = Len(queue)
    OBVIOUS
  <1>1. N \in Nat /\ 1 \in 1 .. N
    BY <1>0
  <1> DEFINE S == {n \in 1 .. N : NF!Ends(queue)[n] <= EVENTS_BUF_SIZE}
  <1>2. 1 \in S
    <2>1. NF!Ends(queue)[1] = NF!Ends(queue)[0] + NF!Size(queue[1]) /\ NF!Ends(queue)[0] = 0
      <3>1. 1 - 1 = 0
        OBVIOUS
      <3>2. QED
        BY <1>0, <1>1, <3>1, EndsAre
    <2>2. NF!Size(queue[1]) \in Nat /\ NF!Size(queue[1]) <= EVENTS_BUF_SIZE
      BY <1>0, <1>1, EventSizes
    <2>3. QED
      BY <1>1, <2>1, <2>2
  <1>3. \E x \in S : \A y \in S : x >= y
    <2> DEFINE T == {N - x : x \in S}
    <2>1. T \in SUBSET Nat /\ T # {}
      BY <1>1, <1>2
    <2>2. PICK v \in T : \A y \in T : v <= y
      <3> HIDE DEF T
      <3>1. QED
        BY <2>1, LeastExists
    <2>3. PICK x \in S : v = N - x
      BY <2>2
    <2>4. ASSUME NEW y \in S PROVE x >= y
      <3>1. N - x <= N - y
        BY <2>2, <2>3
      <3>2. QED
        BY <1>1, <3>1
    <2>5. QED
      BY <2>4
  <1> HIDE DEF S
  <1>4. NF!Max(S) \in S
    BY <1>3 DEF NF!Max
  <1>5. NF!Fitting = NF!Max(S)
    BY <1>0 DEF NF!Fitting, S
  <1>6. QED
    BY <1>0, <1>4, <1>5 DEF S

(* What the kernel queued is what was shown, then what of the buffer is    *)
(* still to be walked over, then the queue; the walk stands at the end of  *)
(* an event.                                                               *)
Lines == [event : AllEvents, operate : NF!Operations \cup {"junk"}]

NotifyTypes == /\ queue \in Seq(AllEvents) /\ events \in Seq(AllEvents)
               /\ queued \in Seq(AllEvents) /\ shown \in Seq(Lines)

InStep(k) ==
    /\ Len(queued) = Len(shown) + (Len(events) - k) + Len(queue)
    /\ \A x \in 1 .. Len(shown) : queued[x] = shown[x].event
    /\ \A x \in 1 .. Len(events) - k : queued[Len(shown) + x] = events[k + x]
    /\ \A x \in 1 .. Len(queue) : queued[Len(shown) + (Len(events) - k) + x] = queue[x]

NotifyPlace ==
    /\ i_pc # "display" => events = <<>> /\ InStep(0)
    /\ i_pc = "display" => \E k \in 0 .. Len(events) : offset = NF!Ends(events)[k] /\ InStep(k)

NotifyNamed == \A x \in 1 .. Len(shown) :
                  shown[x].event # OVERFLOW => shown[x].operate = shown[x].event.operation

NotifyInv == NotifyTypes /\ NotifyPlace /\ NotifyNamed

(* The kernel queues an event, or merges it. *)
LEMMA NotifyQueued ==
    ASSUME NotifyInv, NEW e \in AllEvents, NF!Enqueue(e),
           UNCHANGED <<i_pc, events, offset, shown>>
    PROVE  NotifyInv'
  <1>0. NotifyTypes /\ NotifyPlace /\ NotifyNamed
    BY DEF NotifyInv
  <1>1. CASE UNCHANGED <<queue, queued>>
    BY <1>0, <1>1 DEF NotifyInv, NotifyTypes, NotifyPlace, NotifyNamed, InStep
  <1>2. ASSUME NEW new \in AllEvents, queue' = Append(queue, new), queued' = Append(queued, new)
        PROVE  NotifyInv'
    <2>1. /\ Len(queue') = Len(queue) + 1 /\ Len(queued') = Len(queued) + 1
          /\ \A x \in 1 .. Len(queue) : queue'[x] = queue[x]
          /\ \A x \in 1 .. Len(queued) : queued'[x] = queued[x]
          /\ queue'[Len(queue) + 1] = new /\ queued'[Len(queued) + 1] = new
          /\ queue' \in Seq(AllEvents) /\ queued' \in Seq(AllEvents)
      BY <1>0, <1>2 DEF NotifyTypes
    <2>2. Len(queue) \in Nat /\ Len(queued) \in Nat /\ Len(shown) \in Nat /\ Len(events) \in Nat
      BY <1>0 DEF NotifyTypes
    <2>3. ASSUME NEW k \in 0 .. Len(events), InStep(k) PROVE InStep(k)'
      <3>1. PICK a, r, q : a = Len(shown) /\ r = Len(events) - k /\ q = Len(queue)
        OBVIOUS
      <3>2. a \in Nat /\ r \in Nat /\ q \in Nat /\ Len(queued) = a + r + q
        BY <2>2, <2>3, <3>1 DEF InStep
      <3>3. Len(queued') = a + r + (q + 1) /\ Len(queue') = q + 1
        BY <2>1, <3>1, <3>2
      <3>4. \A x \in 1 .. a : queued'[x] = shown[x].event
        BY <2>1, <2>3, <3>1, <3>2 DEF InStep
      <3>5. \A x \in 1 .. r : queued'[a + x] = events[k + x]
        <4>1. ASSUME NEW x \in 1 .. r PROVE queued'[a + x] = events[k + x]
          <5>1. a + x \in 1 .. Len(queued)
            BY <3>2
          <5>2. QED
            BY <2>1, <2>3, <3>1, <5>1 DEF InStep
        <4>2. QED
          BY <4>1
      <3>6. \A x \in 1 .. q + 1 : queued'[a + r + x] = queue'[x]
        <4>1. ASSUME NEW x \in 1 .. q PROVE queued'[a + r + x] = queue'[x]
          <5>1. a + r + x \in 1 .. Len(queued)
            BY <3>2
          <5>2. queued[a + r + x] = queue[x]
            BY <2>3, <3>1 DEF InStep
          <5>3. QED
            BY <2>1, <3>1, <5>1, <5>2
        <4>2. queued'[a + r + (q + 1)] = queue'[q + 1]
          <5>1. a + r + (q + 1) = Len(queued) + 1
            BY <3>2
          <5>2. QED
            BY <2>1, <3>1, <5>1
        <4>3. QED
          BY <3>2, <4>1, <4>2
      <3>7. QED
        BY <3>1, <3>3, <3>4, <3>5, <3>6 DEF InStep
    <2>4. NotifyPlace'
      <3>1. CASE i_pc # "display"
        <4>1. InStep(0)'
          BY <1>0, <2>2, <2>3, <3>1 DEF NotifyPlace
        <4>2. QED
          BY <1>0, <3>1, <4>1 DEF NotifyPlace
      <3>2. CASE i_pc = "display"
        <4>1. PICK k \in 0 .. Len(events) : offset = NF!Ends(events)[k] /\ InStep(k)
          BY <1>0, <3>2 DEF NotifyPlace
        <4>2. InStep(k)'
          BY <2>3, <4>1
        <4>3. QED
          BY <3>2, <4>1, <4>2 DEF NotifyPlace
      <3>3. QED
        BY <3>1, <3>2
    <2>5. QED
      BY <1>0, <2>1, <2>4 DEF NotifyInv, NotifyTypes, NotifyNamed
  <1>3. OVERFLOW \in AllEvents
    BY DEF AllEvents
  <1>4. QED
    BY <1>1, <1>2, <1>3 DEF NF!Enqueue

(* read takes the front of the queue. *)
LEMMA NotifyRead == ASSUME NotifyInv, NF!Read PROVE NotifyInv'
  <1>0. NotifyTypes /\ NotifyPlace /\ NotifyNamed
    BY DEF NotifyInv
  <1>1. PICK F, q : F = NF!Fitting /\ q = Len(queue)
    OBVIOUS
  <1>2. /\ i_pc = "read" /\ queue # <<>> /\ events' = SubSeq(queue, 1, F)
        /\ queue' = SubSeq(queue, F + 1, q)
        /\ offset' = 0 /\ i_pc' = "display" /\ UNCHANGED <<queued, shown>>
    BY <1>1 DEF NF!Read
  <1>3. F \in 1 .. q /\ q \in Nat
    BY <1>0, <1>1, <1>2, FittingIs DEF NotifyTypes
  <1>4. /\ events' \in Seq(AllEvents) /\ Len(events') = F /\ \A x \in 1 .. F : events'[x] = queue[x]
        /\ queue' \in Seq(AllEvents) /\ Len(queue') = q - F
        /\ \A x \in 1 .. q - F : queue'[x] = queue[F + x]
    <2>1. PICK s : s = queue
      OBVIOUS
    <2>2. s \in Seq(AllEvents) /\ Len(s) = q
      BY <1>0, <1>1, <2>1 DEF NotifyTypes
    <2>3. /\ SubSeq(s, 1, F) \in Seq(AllEvents) /\ Len(SubSeq(s, 1, F)) = F
          /\ \A x \in 1 .. F : SubSeq(s, 1, F)[x] = s[x]
      BY <1>3, <2>2
    <2>4. /\ SubSeq(s, F + 1, q) \in Seq(AllEvents) /\ Len(SubSeq(s, F + 1, q)) = q - F
          /\ \A x \in 1 .. q - F : SubSeq(s, F + 1, q)[x] = s[F + x]
      BY <1>3, <2>2
    <2>5. QED
      BY <1>2, <2>1, <2>3, <2>4
  <1>5. events = <<>> /\ InStep(0)
    BY <1>0, <1>2 DEF NotifyPlace
  <1>6. InStep(0)'
    <2>1. PICK a : a = Len(shown)
      OBVIOUS
    <2>2. a \in Nat /\ Len(events) - 0 = 0
      BY <1>0, <1>5, <2>1 DEF NotifyTypes
    <2>3. /\ Len(queued) = a + q /\ \A x \in 1 .. a : queued[x] = shown[x].event
          /\ \A x \in 1 .. q : queued[a + x] = queue[x]
      BY <1>1, <1>3, <1>5, <2>1, <2>2 DEF InStep
    <2>4. Len(queued) = a + (F - 0) + (q - F)
      BY <1>3, <2>2, <2>3
    <2>5. \A x \in 1 .. F - 0 : queued[a + x] = events'[0 + x]
      BY <1>3, <1>4, <2>3
    <2>6. \A x \in 1 .. q - F : queued[a + (F - 0) + x] = queue'[x]
      <3>1. ASSUME NEW x \in 1 .. q - F PROVE queued[a + (F - 0) + x] = queue'[x]
        <4>1. F + x \in 1 .. q /\ a + (F - 0) + x = a + (F + x)
          BY <1>3, <2>2
        <4>2. QED
          BY <1>4, <2>3, <4>1
      <3>2. QED
        BY <3>1
    <2>7. QED
      BY <1>2, <1>4, <2>1, <2>3, <2>4, <2>5, <2>6 DEF InStep
  <1>7. NF!Ends(events)[0]' = 0
    <2>1. PICK s : s = events'
      OBVIOUS
    <2>2. NF!Ends(s)[0] = 0
      BY <1>4, <2>1, EndsAre
    <2>3. QED
      BY <2>1, <2>2
  <1>8. NotifyPlace'
    BY <1>2, <1>3, <1>4, <1>6, <1>7 DEF NotifyPlace
  <1>9. QED
    BY <1>0, <1>2, <1>4, <1>8 DEF NotifyInv, NotifyTypes, NotifyNamed

(* One event is displayed: the one at which the walk stands. *)
LEMMA NotifyShown == ASSUME NotifyInv, NF!display_event PROVE NotifyInv'
  <1>0. NotifyTypes /\ NotifyPlace /\ NotifyNamed
    BY DEF NotifyInv
  <1>1. /\ i_pc = "display" /\ offset < NF!Length(events)
        /\ UNCHANGED <<i_pc, queue, events, queued>>
    BY DEF NF!display_event
  <1>2. PICK e \in NF!EventsAt(offset) : \E op \in NF!Operate(e) :
           /\ shown' = Append(shown, [event |-> e, operate |-> op])
           /\ offset' = offset + NF!Size(e)
    BY DEF NF!display_event
  <1>3. PICK op \in NF!Operate(e) : /\ shown' = Append(shown, [event |-> e, operate |-> op])
                                    /\ offset' = offset + NF!Size(e)
    BY <1>2
  <1>4. PICK k \in 0 .. Len(events) : offset = NF!Ends(events)[k] /\ InStep(k)
    BY <1>0, <1>1 DEF NotifyPlace
  <1>5. PICK n \in 1 .. Len(events) : e = events[n] /\ NF!Ends(events)[n - 1] = offset
    BY <1>0, <1>2 DEF NF!EventsAt, NotifyTypes
  <1>6. n = k + 1
    <2>1. n - 1 \in 0 .. Len(events) /\ Len(events) \in Nat
      BY <1>0 DEF NotifyTypes
    <2>2. ~(n - 1 < k) /\ ~(k < n - 1)
      <3>1. NF!Ends(events)[n - 1] = NF!Ends(events)[k] /\ NF!Ends(events)[k] \in Nat
        BY <1>0, <1>4, <1>5, EndsAre DEF NotifyTypes
      <3>2. n - 1 < k => NF!Ends(events)[n - 1] < NF!Ends(events)[k]
        BY <1>0, <2>1, EndsGrow DEF NotifyTypes
      <3>3. k < n - 1 => NF!Ends(events)[k] < NF!Ends(events)[n - 1]
        BY <1>0, <2>1, EndsGrow DEF NotifyTypes
      <3>4. QED
        BY <3>1, <3>2, <3>3
    <2>3. QED
      BY <2>1, <2>2
  <1>7. e \in AllEvents
    BY <1>0, <1>5 DEF NotifyTypes
  <1>8. PICK l : l = [event |-> e, operate |-> op]
    OBVIOUS
  <1>9. l \in Lines /\ l.event = e /\ (e # OVERFLOW => l.operate = e.operation)
    <2>1. e # OVERFLOW => e \in EventKind \cup {IGNORED} /\ op = e.operation
      BY <1>3, <1>7 DEF AllEvents, NF!Operate
    <2>2. op \in NF!Operations \cup {"junk"}
      <3>1. CASE e = OVERFLOW
        BY <1>3, <3>1 DEF NF!Operate
      <3>2. CASE e # OVERFLOW
        BY <2>1, <3>2 DEF NF!Operations
      <3>3. QED
        BY <3>1, <3>2
    <2>3. QED
      BY <1>7, <1>8, <2>1, <2>2 DEF Lines
  <1>10. PICK a : a = Len(shown)
    OBVIOUS
  <1>11. /\ shown' \in Seq(Lines) /\ Len(shown') = a + 1 /\ shown'[a + 1] = l
         /\ \A x \in 1 .. a : shown'[x] = shown[x]
         /\ a \in Nat /\ Len(events) \in Nat /\ Len(queue) \in Nat
    BY <1>0, <1>3, <1>8, <1>9, <1>10 DEF NotifyTypes
  <1>12. NotifyTypes' /\ NotifyNamed'
    <2>1. ASSUME NEW x \in 1 .. a + 1
          PROVE  shown'[x].event # OVERFLOW => shown'[x].operate = shown'[x].event.operation
      <3>1. CASE x = a + 1
        BY <1>9, <1>11, <3>1
      <3>2. CASE x \in 1 .. a
        BY <1>0, <1>10, <1>11, <3>2 DEF NotifyNamed
      <3>3. QED
        BY <1>11, <3>1, <3>2
    <2>2. QED
      BY <1>0, <1>1, <1>11, <2>1 DEF NotifyTypes, NotifyNamed
  <1>13. InStep(k + 1)'
    <2>1. PICK N, q : N = Len(events) /\ q = Len(queue)
      OBVIOUS
    <2>2. N \in Nat /\ q \in Nat /\ k + 1 <= N /\ k \in Nat
      BY <1>6, <1>11, <2>1
    <2>3. /\ Len(queued) = a + (N - k) + q
          /\ \A x \in 1 .. a : queued[x] = shown[x].event
          /\ \A x \in 1 .. N - k : queued[a + x] = events[k + x]
          /\ \A x \in 1 .. q : queued[a + (N - k) + x] = queue[x]
      BY <1>4, <1>10, <2>1 DEF InStep
    <2>4. Len(queued) = (a + 1) + (N - (k + 1)) + q
      BY <1>11, <2>2, <2>3
    <2>5. \A x \in 1 .. a + 1 : queued[x] = shown'[x].event
      <3>1. queued[a + 1] = shown'[a + 1].event
        BY <1>5, <1>6, <1>9, <1>11, <2>2, <2>3
      <3>2. \A x \in 1 .. a : queued[x] = shown'[x].event
        BY <1>11, <2>3
      <3>3. QED
        BY <1>11, <3>1, <3>2
    <2>6. \A x \in 1 .. N - (k + 1) : queued[(a + 1) + x] = events[(k + 1) + x]
      <3>1. ASSUME NEW x \in 1 .. N - (k + 1) PROVE queued[(a + 1) + x] = events[(k + 1) + x]
        <4>1. x + 1 \in 1 .. N - k /\ a + (x + 1) = (a + 1) + x /\ k + (x + 1) = (k + 1) + x
          BY <1>11, <2>2
        <4>2. QED
          BY <2>3, <4>1
      <3>2. QED
        BY <3>1
    <2>7. \A x \in 1 .. q : queued[(a + 1) + (N - (k + 1)) + x] = queue[x]
      <3>1. ASSUME NEW x \in 1 .. q PROVE queued[(a + 1) + (N - (k + 1)) + x] = queue[x]
        <4>0. a \in Nat /\ N \in Nat /\ k \in Nat /\ x \in Int
          BY <1>11, <2>2
        <4>1. (a + 1) + (N - (k + 1)) + x = a + (N - k) + x
          BY <4>0
        <4>2. QED
          BY <2>3, <4>1
      <3>2. QED
        BY <3>1
    <2>8. QED
      BY <1>1, <1>11, <2>1, <2>4, <2>5, <2>6, <2>7 DEF InStep
  <1>14. offset' = NF!Ends(events)[k + 1] /\ k + 1 \in 0 .. Len(events)
    <2>1. k + 1 \in 1 .. Len(events) /\ (k + 1) - 1 = k
      BY <1>6
    <2>2. NF!Ends(events)[k + 1] = NF!Ends(events)[k] + NF!Size(events[k + 1])
      BY <1>0, <2>1, EndsAre DEF NotifyTypes
    <2>3. QED
      BY <1>3, <1>4, <1>5, <1>6, <2>1, <2>2
  <1>15. PICK m : m = k + 1
    OBVIOUS
  <1>16. m \in 0 .. Len(events') /\ offset' = NF!Ends(events')[m] /\ InStep(m)'
    BY <1>1, <1>13, <1>14, <1>15
  <1>17. NotifyPlace'
    BY <1>1, <1>16 DEF NotifyPlace
  <1>18. QED
    BY <1>12, <1>17 DEF NotifyInv

(* The walk is over when all of the buffer was displayed. *)
LEMMA NotifyRound == ASSUME NotifyInv, NF!RoundEnds PROVE NotifyInv'
  <1>0. NotifyTypes /\ NotifyPlace /\ NotifyNamed
    BY DEF NotifyInv
  <1>1. /\ i_pc = "display" /\ offset >= NF!Length(events) /\ events' = <<>>
        /\ i_pc' # "display" /\ UNCHANGED <<queue, queued, shown>>
    BY DEF NF!RoundEnds, NF!LoopStart
  <1>2. PICK k \in 0 .. Len(events) : offset = NF!Ends(events)[k] /\ InStep(k)
    BY <1>0, <1>1 DEF NotifyPlace
  <1>3. Len(events) \in Nat /\ Len(events) \in 0 .. Len(events)
    BY <1>0 DEF NotifyTypes
  <1>4. k = Len(events)
    <2>1. k < Len(events) => NF!Ends(events)[k] < NF!Ends(events)[Len(events)]
      BY <1>0, <1>3, EndsGrow DEF NotifyTypes
    <2>2. NF!Ends(events)[k] \in Nat /\ NF!Ends(events)[Len(events)] \in Nat
      BY <1>0, <1>3, EndsAre DEF NotifyTypes
    <2>3. ~(k < Len(events))
      BY <1>1, <1>2, <2>1, <2>2 DEF NF!Length
    <2>4. QED
      BY <1>3, <2>3
  <1>5. InStep(0)'
    <2>1. Len(events) - k = 0 /\ Len(events') - 0 = 0
      BY <1>1, <1>3, <1>4
    <2>2. PICK a, q : a = Len(shown) /\ q = Len(queue)
      OBVIOUS
    <2>3. /\ Len(queued) = a + 0 + q
          /\ \A x \in 1 .. a : queued[x] = shown[x].event
          /\ \A x \in 1 .. q : queued[a + 0 + x] = queue[x]
      BY <1>2, <2>1, <2>2 DEF InStep
    <2>4. 1 .. (Len(events') - 0) = {}
      BY <2>1
    <2>5. QED
      BY <1>1, <2>1, <2>2, <2>3, <2>4 DEF InStep
  <1>6. QED
    BY <1>0, <1>1, <1>5 DEF NotifyInv, NotifyTypes, NotifyPlace, NotifyNamed

LEMMA NotifyStep == ASSUME NotifyInv, [NF!Next]_(NF!vars) PROVE NotifyInv'
  <1>1. CASE /\ UNCHANGED <<queue, events, queued, shown>>
             /\ i_pc # "display" /\ i_pc' # "display"
    BY <1>1 DEF NotifyInv, NotifyTypes, NotifyPlace, NotifyNamed, InStep
  <1>2. CASE NF!MainFails \/ NF!MainStart \/ NF!EpollFails \/ NF!EpollWait \/ NF!ReadFails
    BY <1>1, <1>2 DEF NF!MainFails, NF!MainStart, NF!EpollFails, NF!EpollWait, NF!ReadFails, NF!LoopStart
  <1>3. ASSUME NEW e \in EventKind, NF!Happens(e) PROVE NotifyInv'
    BY <1>3, NotifyQueued DEF NF!Happens, AllEvents
  <1>4. CASE NF!WatchEnds
    BY <1>4, NotifyQueued DEF NF!WatchEnds, AllEvents
  <1>5. CASE UNCHANGED NF!vars
    BY <1>5 DEF NF!vars, NotifyInv, NotifyTypes, NotifyPlace, NotifyNamed, InStep
  <1>6. QED
    BY <1>2, <1>3, <1>4, <1>5, NotifyRead, NotifyShown, NotifyRound DEF NF!Next, NF!Reader

LEMMA NotifyStart == ASSUME NF!Init PROVE NotifyInv
  <1>1. queue = <<>> /\ events = <<>> /\ queued = <<>> /\ shown = <<>> /\ i_pc = "main"
    BY DEF NF!Init
  <1>2. Len(queue) = 0 /\ Len(events) = 0 /\ Len(queued) = 0 /\ Len(shown) = 0
    BY <1>1
  <1>3. QED
    BY <1>1, <1>2 DEF NotifyInv, NotifyTypes, NotifyPlace, NotifyNamed, InStep

LEMMA SameSequence ==
    ASSUME NEW S, NEW u \in Seq(S), NEW v \in Seq(S), Len(u) = Len(v),
           \A x \in 1 .. Len(u) : u[x] = v[x]
    PROVE  u = v
  OBVIOUS

LEMMA NotifyRight == ASSUME NotifyInv PROVE NF!DisplayedInOrder
  <1>0. NotifyTypes /\ NotifyPlace /\ NotifyNamed
    BY DEF NotifyInv
  <1>1. PICK a, w : a = Len(shown) /\ w = NF!ShownEvents
    OBVIOUS
  <1>2. /\ a \in Nat /\ DOMAIN shown = 1 .. a /\ Len(events) \in Nat /\ Len(queue) \in Nat
        /\ \A x \in 1 .. a : shown[x].event \in AllEvents
    <2>1. \A x \in 1 .. a : shown[x] \in Lines
      BY <1>0, <1>1 DEF NotifyTypes
    <2>2. \A l \in Lines : l.event \in AllEvents
      BY DEF Lines
    <2>3. QED
      BY <1>0, <1>1, <2>1, <2>2 DEF NotifyTypes
  <1>3. w \in Seq(AllEvents) /\ Len(w) = a /\ \A x \in 1 .. a : w[x] = shown[x].event
    BY <1>1, <1>2 DEF NF!ShownEvents
  <1>4. PICK k \in 0 .. Len(events) : InStep(k) /\ (i_pc # "display" => k = 0)
    BY <1>0, <1>2 DEF NotifyPlace
  <1>5. Len(queued) >= a /\ \A x \in 1 .. a : queued[x] = w[x]
    BY <1>1, <1>2, <1>3, <1>4 DEF InStep
  <1>6. w = SubSeq(queued, 1, a)
    <2>1. PICK s : s = queued
      OBVIOUS
    <2>2. s \in Seq(AllEvents) /\ Len(s) >= a /\ \A x \in 1 .. a : s[x] = w[x]
      BY <1>0, <1>5, <2>1 DEF NotifyTypes
    <2>3. /\ SubSeq(s, 1, a) \in Seq(AllEvents) /\ Len(SubSeq(s, 1, a)) = a
          /\ \A x \in 1 .. a : SubSeq(s, 1, a)[x] = s[x]
      BY <1>2, <2>2
    <2>4. w = SubSeq(s, 1, a)
      BY <1>3, <2>2, <2>3, SameSequence
    <2>5. QED
      BY <2>1, <2>4
  <1>7. i_pc # "display" => queued = w \o queue
    <2> SUFFICES ASSUME i_pc # "display" PROVE queued = w \o queue
      OBVIOUS
    <2>1. PICK s, t, q : s = queued /\ t = queue /\ q = Len(queue)
      OBVIOUS
    <2>2. Len(events) = 0 /\ k = 0
      BY <1>0, <1>4 DEF NotifyPlace
    <2>3. /\ s \in Seq(AllEvents) /\ t \in Seq(AllEvents) /\ Len(t) = q /\ Len(s) = a + q /\ q \in Nat
          /\ \A x \in 1 .. q : s[a + x] = t[x]
      BY <1>0, <1>1, <1>2, <1>4, <2>1, <2>2 DEF NotifyTypes, InStep
    <2>4. \A x \in 1 .. a : s[x] = w[x]
      BY <1>5, <2>1
    <2>5. /\ w \o t \in Seq(AllEvents) /\ Len(w \o t) = a + q
          /\ \A x \in 1 .. a : (w \o t)[x] = w[x]
          /\ \A x \in 1 .. q : (w \o t)[a + x] = t[x]
      <3>1. w \in Seq(AllEvents) /\ Len(w) = a /\ t \in Seq(AllEvents) /\ Len(t) = q
        BY <1>3, <2>3
      <3>2. QED
        BY <3>1
    <2>6. ASSUME NEW x \in 1 .. a + q PROVE s[x] = (w \o t)[x]
      <3>1. CASE x <= a
        BY <1>2, <2>4, <2>5, <3>1
      <3>2. CASE x > a
        <4>1. x - a \in 1 .. q /\ a + (x - a) = x
          BY <1>2, <2>3, <3>2
        <4>2. QED
          BY <2>3, <2>5, <4>1
      <3>3. QED
        <4>1. x \in Int /\ a \in Int
          BY <1>2, <2>3
        <4>2. x <= a \/ x > a
          BY <4>1
        <4>3. QED
          BY <3>1, <3>2, <4>2, Zenon
    <2>7. s = w \o t
      BY <2>3, <2>5, <2>6, SameSequence
    <2>8. QED
      BY <2>1, <2>7
  <1>8. QED
    BY <1>0, <1>1, <1>2, <1>6, <1>7 DEF NF!DisplayedInOrder, NotifyNamed

-----------------------------------------------------------------------------
(* Every step is one of one part. *)
LEMMA StepOfOne == ASSUME [MCNext]_all
                   PROVE  /\ [Next]_vars /\ [UT!Next]_(UT!vars) /\ [UG!Next]_(UG!vars)
                          /\ [NF!Next]_(NF!vars) /\ [AR!Next]_(AR!vars)
  <1>0. UNCHANGED inotify => UNCHANGED NF!vars
    BY DEF inotify, NF!vars
  <1>1. UNCHANGED tap => UNCHANGED vars
    BY DEF tap, vars
  <1>2. UNCHANGED unlink => UNCHANGED UT!vars
    BY DEF unlink, UT!vars
  <1>3. UNCHANGED uprobe => UNCHANGED UG!vars
    BY DEF uprobe, UG!vars
  <1>4. UNCHANGED aio => UNCHANGED AR!vars
    BY DEF aio, AR!vars
  <1>5. CASE UNCHANGED all
    BY <1>0, <1>1, <1>2, <1>3, <1>4, <1>5 DEF all
  <1>6. CASE Tap(Next)
    BY <1>0, <1>2, <1>3, <1>4, <1>6 DEF Tap
  <1>7. CASE Unlink(UT!Next)
    BY <1>0, <1>1, <1>3, <1>4, <1>7 DEF Unlink
  <1>8. CASE Uprobe(UG!Next)
    BY <1>0, <1>1, <1>2, <1>4, <1>8 DEF Uprobe
  <1>9. CASE Notify(NF!Next)
    BY <1>1, <1>2, <1>3, <1>4, <1>9 DEF Notify
  <1>10. CASE Aio(AR!Next)
    BY <1>0, <1>1, <1>2, <1>3, <1>10 DEF Aio
  <1>11. QED
    BY <1>5, <1>6, <1>7, <1>8, <1>9, <1>10 DEF MCNext

ReadersInv == TapInv /\ UnlinkInv /\ UprobeInv /\ NotifyInv /\ AioInv

LEMMA ReadersInvHolds == MCSpec => []ReadersInv
  <1>1. MCInit => ReadersInv
    <2>1. Init => TapInv
      BY DEF Init, TapInv
    <2>2. UT!Init => UnlinkInv
      <3> SUFFICES ASSUME UT!Init PROVE UnlinkInv
        OBVIOUS
      <3>1. DOMAIN infomap = {}
        BY DEF UT!Init
      <3>2. UnlinkTypes
        BY <3>1, ReadersAssumption DEF UT!Init, UnlinkTypes
      <3>3. UT!NoStaleEntry /\ OwnEntry
        BY <3>1 DEF UT!Init, UT!NoStaleEntry, OwnEntry
      <3>4. u_rb \in Seq(TrueEvents)
        BY DEF UT!Init
      <3>5. QED
        BY <3>2, <3>3, <3>4 DEF UnlinkInv
    <2>3. UG!Init => UprobeInv
      <3>1. \A s \in 0 .. Slots - 1, x \in 0 .. CODE_SIZE - 1 :
               UG!Init => stock_code[s][x] = UG!NUL
        BY DEF UG!Init
      <3>2. UG!Init => UprobeTypes
        BY ReadersAssumption DEF UG!Init, UprobeTypes
      <3>3. UG!Init => consumed .. produced - 1 = {}
        BY DEF UG!Init
      <3>4. QED
        BY <3>1, <3>2, <3>3 DEF UprobeInv, EveryByte, PendingBytes
    <2>4. AR!Init => AioInv
      <3> SUFFICES ASSUME AR!Init PROVE AioInv
        OBVIOUS
      <3>1. AioTypes
        <4>1. inflight \in BOOLEAN /\ unsignalled \in BOOLEAN
          BY Zenon DEF AR!Init
        <4>2. efd \in Nat /\ ring \in Seq(Results) /\ results \in Seq(Results)
          BY DEF AR!Init
        <4>3. QED
          BY <4>1, <4>2 DEF AioTypes
      <3>2. One(unsignalled) = 0 /\ One(inflight) = 0
        BY Ones DEF AR!Init
      <3>3. QED
        BY <3>1, <3>2, AioNumbers DEF AR!Init, AioInv, AioCounts, Counted, Requests
    <2>5. QED
      BY <2>1, <2>2, <2>3, <2>4, NotifyStart DEF MCInit, ReadersInv
  <1>2. ReadersInv /\ [MCNext]_all => ReadersInv'
    BY StepOfOne, TapStep, UnlinkStep, UprobeStep, NotifyStep, AioStep DEF ReadersInv
  <1>3. QED
    BY <1>1, <1>2, PTL DEF MCSpec

(* Whatever the packets are: the tap on XDP drops every well-formed TCP    *)
(* packet to its port, drops nothing by a header that is not there, and    *)
(* the one on tc drops none.                                               *)
THEOREM VerdictRightHolds == MCSpec => []VerdictRight
  <1>1. ReadersInv => VerdictRight
    BY TapRight DEF ReadersInv
  <1>2. QED
    BY <1>1, ReadersInvHolds, PTL

(* For every packet and every capacity of an event the taps copy from      *)
(* inside the packet, and as much as fits, but for the one length that     *)
(* tc_trace.bpf.c loses.                                                   *)
THEOREM CaptureRightHolds == MCSpec => []CaptureRight
  <1>1. ReadersInv => CaptureRight
    BY TapRight DEF ReadersInv
  <1>2. QED
    BY <1>1, ReadersInvHolds, PTL

(* Every entry in the map of the unlink tracer belongs to a call that is   *)
(* under way, however many threads and processes there are.                *)
THEOREM NoStaleEntryHolds == MCSpec => []NoStaleEntry
  <1>1. ReadersInv => NoStaleEntry
    BY DEF ReadersInv, UnlinkInv, NoStaleEntry
  <1>2. QED
    BY <1>1, ReadersInvHolds, PTL

(* An event of the unlink tracer has the name of its own call when the     *)
(* process has one thread, and one of the Go tracer prints as its argument *)
(* and then what an earlier one left, for every size of event and ring.    *)
THEOREM ArgumentTruthfulHolds == MCSpec => []ArgumentTruthful
  <1>1. ReadersInv => ArgumentTruthful
    <2> SUFFICES ASSUME ReadersInv PROVE ArgumentTruthful
      OBVIOUS
    <2>1. UG!NamePrinted
      BY UprobeRight DEF ReadersInv
    <2>2. UT!EventTruthful
      BY DEF ReadersInv, UnlinkInv, UT!EventTruthful, TrueEvents
    <2>3. QED
      BY <2>1, <2>2 DEF ArgumentTruthful
  <1>2. QED
    BY <1>1, ReadersInvHolds, PTL

(* However long the events are and however a read cuts the queue: inotify  *)
(* events are printed once, in order and under the name of their           *)
(* operation, and the wait for an asynchronous read finds its completion.  *)
THEOREM ReportedInOrderHolds == MCSpec => []ReportedInOrder
  <1>1. ReadersInv => ReportedInOrder
    BY NotifyRight, AioRight DEF ReadersInv, ReportedInOrder
  <1>2. QED
    BY <1>1, ReadersInvHolds, PTL
=============================================================================
