------------------------------- MODULE HttpTap -------------------------------
(***************************************************************************)
(* eBPF/tc_trace.bpf.c and eBPF/xdp.bpf.c: a program run on every packet   *)
(* walks the Ethernet, IPv4 and TCP headers and, for HTTP traffic, copies  *)
(* the start of the payload into an event for user space.                  *)
(*                                                                         *)
(* A packet is the fields that the program reads and its length; positions *)
(* are byte offsets from ctx->data, and data_end is the length.  Of the    *)
(* payload only where it was copied from and how much is modelled.         *)
(***************************************************************************)
EXTENDS Integers, Sequences, FiniteSets

CONSTANTS Packets,      \* the packets that may arrive
          CAP,          \* sizeof(e->payload): 256 and 1024 in the code
          RingSize,     \* events the ring buffer holds
          MaxPackets    \* bound on the packets that arrive

ASSUME HttpTapAssumption ==
    /\ CAP \in Nat \ {0} /\ RingSize \in Nat \ {0} /\ MaxPackets \in Nat
    /\ \A p \in Packets : {p.ihl, p.doff, p.len, p.source, p.dest} \subseteq Nat

VARIABLES Variant,      \* the program: "tc" or "xdp", fixed
          rb,           \* events not yet polled, a FIFO
          arrived,      \* packets so far
          last          \* the last packet and its verdict

vars == <<Variant, rb, arrived, last>>

ethhdr == 14
iphdr  == 20
tcphdr == 20

NoPacket == [verdict |-> "none"]

Init == Variant \in {"tc", "xdp"} /\ rb = <<>> /\ arrived = 0 /\ last = NoPacket

-----------------------------------------------------------------------------
(* Where the headers and the payload begin. *)
l3(p) == ethhdr
l4(p) == l3(p) + p.ihl * 4
payload(p) == l4(p) + p.doff * 4

(* The checks up to the TCP header, each of which returns early. *)
IsTcp(p) == /\ p.proto = "ip"
            /\ ethhdr <= p.len
            /\ l3(p) + iphdr <= p.len
            /\ p.protocol = "tcp"
            /\ l4(p) + tcphdr <= p.len

(* The program on XDP drops what goes to port 8888 before anything else.   *)
Dropped(p) == Variant = "xdp" /\ IsTcp(p) /\ p.dest = 8888

(* Mutant of Reported: the bound of the payload is not checked. *)
ReportedUnchecked(p) == IsTcp(p) /\ ~Dropped(p) /\ (p.source = 80 \/ p.dest = 80)

Reported(p) == /\ IsTcp(p) /\ ~Dropped(p)
               /\ p.source = 80 \/ p.dest = 80
               /\ payload(p) <= p.len

available_len(p) == p.len - payload(p)

(* tc_trace.bpf.c compares with 255 and takes 256, xdp.bpf.c uses 1024 in  *)
(* both places.                                                            *)
copy_len(p) ==
    LET bound == IF Variant = "tc" THEN CAP - 1 ELSE CAP
    IN  IF available_len(p) < bound THEN available_len(p) ELSE CAP

(* The payload of the event: cleared, then copied if the copy stays inside *)
(* the packet.                                                             *)
Event(p) == [packet |-> p, from |-> payload(p),
             copied |-> IF payload(p) + copy_len(p) <= p.len THEN copy_len(p) ELSE 0]

(* Mutant of Handle: without room for its event the packet is dropped. *)
HandleOrDrop(p) ==
    /\ arrived < MaxPackets
    /\ arrived' = arrived + 1
    /\ last' = [packet |-> p, verdict |-> IF Dropped(p) \/ Len(rb) = RingSize
                                          THEN "drop" ELSE "pass"]
    /\ rb' = IF Reported(p) /\ Len(rb) < RingSize THEN Append(rb, Event(p)) ELSE rb
    /\ UNCHANGED Variant

(* One packet.  An event that finds no room is lost, the packet is not.    *)
Handle(p) ==
    /\ arrived < MaxPackets
    /\ arrived' = arrived + 1
    /\ last' = [packet |-> p, verdict |-> IF Dropped(p) THEN "drop" ELSE "pass"]
    /\ rb' = IF Reported(p) /\ Len(rb) < RingSize THEN Append(rb, Event(p)) ELSE rb
    /\ UNCHANGED Variant

(* ring_buffer__poll with handle_event, which prints HTTP payloads. *)
Poll == /\ rb # <<>>
        /\ rb' = Tail(rb)
        /\ UNCHANGED <<Variant, arrived, last>>

Next == (\E p \in Packets : Handle(p)) \/ Poll

Spec == Init /\ [][Next]_vars

-----------------------------------------------------------------------------
(* Properties.  A packet as it is meant: all its headers are there, and    *)
(* none is shorter than a header can be.                                   *)
Complete(p) == /\ p.proto = "ip" /\ p.protocol = "tcp"
               /\ p.ihl * 4 >= iphdr /\ p.doff * 4 >= tcphdr
               /\ ethhdr + p.ihl * 4 + p.doff * 4 <= p.len

Events == {rb[k] : k \in DOMAIN rb}

(* Whether the ring is full or the packet is cut short: on XDP exactly the *)
(* TCP packets to port 8888 are dropped, by a header that is in the        *)
(* packet, and tc never drops.                                             *)
VerdictRight ==
    last # NoPacket =>
       LET p == last.packet IN
          /\ last.verdict = "drop" => /\ Variant = "xdp" /\ p.dest = 8888
                                      /\ p.proto = "ip" /\ p.protocol = "tcp"
                                      /\ ethhdr + p.ihl * 4 + tcphdr <= p.len
          /\ Variant = "xdp" /\ Complete(p) /\ p.dest = 8888 => last.verdict = "drop"

(* Nothing outside the packet or beyond the event is read or written, and  *)
(* the length, which is unsigned, never wraps.                             *)
CopyInBounds == \A e \in Events : /\ available_len(e.packet) >= 0
                                  /\ e.from + e.copied <= e.packet.len
                                  /\ e.copied <= CAP

(* An event carries as much of the payload as it has room for.  Nothing is *)
(* said of one length: of a payload of CAP - 1 bytes tc_http_parse means   *)
(* to take CAP, which are not there, and its event stays empty.  So does   *)
(* that of a packet without payload, such as a bare ACK: the comment above *)
(* the check in both programs says that it keeps these out, but payload    *)
(* equals data_end for them and they pass.                                 *)
EventComplete ==
    \A e \in Events :
       LET n == available_len(e.packet)
       IN  \/ e.copied = IF n < CAP THEN n ELSE CAP
           \/ Variant = "tc" /\ n = CAP - 1
=============================================================================
