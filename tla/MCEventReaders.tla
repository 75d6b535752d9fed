--------------------------- MODULE MCEventReaders ---------------------------
(***************************************************************************)
(* Instances for TLC of the parts that carry events from the kernel to a   *)
(* user program: a behaviour is one of them at work, chosen at the start.  *)
(*                                                                         *)
(* The packets for the taps are cut at the lengths around the headers and  *)
(* the capacity of an event, with and without options.                     *)
(***************************************************************************)
EXTENDS HttpTap, TLC

CONSTANTS t1, t2, t3, p1, p2, p3, f1, f2,
          Thread, Process, Tgids, File, MaxEntries, EventSlots, Faults, \* of UnlinkTrace
          CODE_SIZE, Slots,     \* of UprobeGo
          EventKind, IGNORED, OVERFLOW, HEADER, EVENTS_BUF_SIZE,
          MaxQueued, MaxEvents, MaxInterrupts, \* of Inotify
          Results, MaxTimeouts, \* of AioRead
          MaxCalls              \* of UnlinkTrace and UprobeGo

ASSUME ReadersAssumption ==
    /\ Tgids \subseteq [Thread -> Process]
    /\ {CODE_SIZE, Slots} \subseteq Nat \ {0} /\ MaxCalls \in Nat

(* An event has a header, and each fits into the buffer of a read. *)
ASSUME EventsAssumption ==
    /\ HEADER \in Nat \ {0} /\ EVENTS_BUF_SIZE \in Nat
    /\ \A e \in EventKind \cup {IGNORED, OVERFLOW} :
          e.len \in Nat /\ HEADER + e.len <= EVENTS_BUF_SIZE

VARIABLES which,        \* "tap", "unlink", "uprobe", "inotify" or "aio"
          tgid, u_pc, name, cached, fresh, infomap, u_rb, calls,
          stock_code, produced, consumed, arg,
          program, i_pc, watching, queue, events, offset, interrupts, queued, shown,
          a_pc, inflight, ring, unsignalled, efd, timeouts, results

tap     == <<Variant, rb, arrived, last>>
unlink  == <<tgid, u_pc, name, cached, fresh, infomap, u_rb, calls>>
uprobe  == <<stock_code, produced, consumed, arg>>
inotify == <<program, i_pc, watching, queue, events, offset, interrupts, queued, shown>>
aio     == <<a_pc, inflight, ring, unsignalled, efd, timeouts, results>>
all     == <<which, tap, unlink, uprobe, inotify, aio>>

Packet(proto, protocol, ihl, doff, source, dest, len) ==
    [proto |-> proto, protocol |-> protocol, ihl |-> ihl, doff |-> doff,
     source |-> source, dest |-> dest, len |-> len]

Lengths == {0, 13, 14, 33, 34, 53} \cup 54 .. ethhdr + 24 + 24 + CAP + 1

CutPackets ==
    {Packet("ip", "tcp", h, d, s, q, n) :
        h \in {5, 6}, d \in {5, 6}, s \in {80, 1234}, q \in {80, 8888}, n \in Lengths}
    \cup {Packet("arp", "tcp", 5, 5, 80, 8888, 60), Packet("ip", "udp", 5, 5, 80, 8888, 60)}
    \cup {Packet("ip", "tcp", 0, 0, 80, 8888, n) : n \in {14, 33, 34, 60}}

OneEach == (t1 :> p1) @@ (t2 :> p2) @@ (t3 :> p3)
Shared  == (t1 :> p1) @@ (t2 :> p1) @@ (t3 :> p2)

TwoFiles     == {f1, f2}
Threads      == {t1, t2, t3}
Processes    == {p1, p2, p3}
OneEachOrNot == {OneEach, Shared}
NullName     == {"null_name"}

UT == INSTANCE UnlinkTrace WITH RingSize <- EventSlots, pc <- u_pc, rb <- u_rb

UG == INSTANCE UprobeGo

Happening(operation, len) == [operation |-> operation, len |-> len]

ThreeKinds == {Happening("OPEN", 0), Happening("CREATE", 1), Happening("DELETE", 2)}
WatchGone  == Happening("IGNORED", 0)
QueueFull  == Happening("none", 0)

NF == INSTANCE Inotify WITH pc <- i_pc

ReadResults == {-5, 0, 512}

AR == INSTANCE AioRead WITH pc <- a_pc

MCInit == /\ which \in {"tap", "unlink", "uprobe", "inotify", "aio"}
          /\ Init /\ UT!Init /\ UG!Init /\ NF!Init /\ AR!Init
          /\ which # "tap" => Variant = "tc"
          /\ which # "unlink" => tgid = OneEach /\ name[t1] = f1
          /\ which # "inotify" => program = "inotify"

Tap(A)     == which = "tap" /\ A /\ UNCHANGED <<which, unlink, uprobe, inotify, aio>>
Unlink(A)  == which = "unlink" /\ A /\ UNCHANGED <<which, tap, uprobe, inotify, aio>>
Uprobe(A)  == which = "uprobe" /\ A /\ UNCHANGED <<which, tap, unlink, inotify, aio>>
Notify(A)  == which = "inotify" /\ A /\ UNCHANGED <<which, tap, unlink, uprobe, aio>>
Aio(A)     == which = "aio" /\ A /\ UNCHANGED <<which, tap, unlink, uprobe, inotify>>

MCNext == Tap(Next) \/ Unlink(UT!Next) \/ Uprobe(UG!Next) \/ Notify(NF!Next) \/ Aio(AR!Next)

(* The programs run and the kernel completes the read; nothing else owes   *)
(* a step.                                                                 *)
MCSpec == /\ MCInit /\ [][MCNext]_all
          /\ WF_all(Notify(NF!Reader)) /\ WF_all(Aio(AR!Program)) /\ WF_all(Aio(AR!Kernel))

(* The taps copy from inside the packet and as much of a payload as fits,  *)
(* one length of the tc program aside.                                     *)
CaptureRight == CopyInBounds /\ EventComplete

(* An event tells the argument of the call it reports: the file name of a  *)
(* call by a process of one thread, the string of a Go call up to what an  *)
(* earlier event left behind it.                                           *)
ArgumentTruthful == UT!EventTruthful /\ UG!NamePrinted

(* Nothing stays behind in the map of the unlink tracer. *)
NoStaleEntry == UT!NoStaleEntry

(* inotify events are printed once and in order, and the wait for an       *)
(* asynchronous read finds its completion.                                 *)
ReportedInOrder == NF!DisplayedInOrder /\ AR!CompletionThere

(* What the kernel reports is printed, if inotify_epoll could set up epoll. *)
EverythingReported == NF!EventsShown /\ AR!ReadReported
=============================================================================
