------------------------------- MODULE Inotify -------------------------------
(***************************************************************************)
(* inotify/inotify.c and inotify/inotify_epoll.c: programs that watch a    *)
(* directory and print what happens in it.  The kernel queues events; a    *)
(* read takes as many whole ones as fit into the buffer, and the program   *)
(* walks over them by their sizes, since an event ends with a name of      *)
(* varying length.  inotify.c blocks in read, inotify_epoll.c in           *)
(* epoll_wait, with a timeout.                                             *)
(***************************************************************************)
EXTENDS Integers, Sequences, SequencesExt, FiniteSetsExt

CONSTANTS EventKind,    \* what may happen: records [operation, len], len of the name
          IGNORED,      \* the event that ends a watch
          OVERFLOW,     \* the event for a full queue, of no operation display_event knows
          HEADER,       \* sizeof(struct inotify_event)
          EVENTS_BUF_SIZE, \* no event is larger
          MaxQueued,    \* events the kernel queues
          MaxEvents,    \* bound on what happens
          MaxInterrupts \* bound on calls that fail with EINTR

Size(e) == HEADER + e.len

VARIABLES program,      \* "inotify" or "inotify_epoll", fixed
          pc,           \* "main", "wait", "read", "display", "exit", "deaf"
          watching,     \* the watch exists
          queue,        \* the kernel's queue
          events,       \* what the last read put into the buffer
          offset,       \* as in the code
          interrupts,   \* calls interrupted so far
          queued,       \* every event the kernel queued, in order
          shown         \* every line printed: an event and its operation

vars == <<program, pc, watching, queue, events, offset, interrupts, queued, shown>>

Init == /\ program \in {"inotify", "inotify_epoll"}
        /\ pc = "main" /\ watching = FALSE
        /\ queue = <<>> /\ events = <<>> /\ offset = 0 /\ interrupts = 0
        /\ queued = <<>> /\ shown = <<>>

(* Where each event of a sequence ends, when they lie one behind the other. *)
Ends(s) == LET end[n \in 0 .. Len(s)] == IF n = 0 THEN 0 ELSE end[n - 1] + Size(s[n])
           IN  end
Length(s) == Ends(s)[Len(s)]

(* Where the loop begins again. *)
LoopStart == IF program = "inotify" THEN "read" ELSE "wait"

-----------------------------------------------------------------------------
MainFails == /\ pc = "main" /\ pc' = "exit"
             /\ UNCHANGED <<program, watching, queue, events, offset, interrupts, queued, shown>>

MainStart == /\ pc = "main" /\ pc' = LoopStart
             /\ watching' = TRUE
             /\ UNCHANGED <<program, queue, events, offset, interrupts, queued, shown>>

(* epoll_create or epoll_ctl fails, which nobody looks at: the program     *)
(* calls epoll_wait for ever and is never told of an event.                *)
EpollFails == /\ pc = "main" /\ program = "inotify_epoll"
              /\ pc' = "deaf"
              /\ watching' = TRUE
              /\ UNCHANGED <<program, queue, events, offset, interrupts, queued, shown>>

(* epoll_wait reports the descriptor as long as there is something to read. *)
EpollWait == /\ pc = "wait" /\ queue # <<>>
             /\ pc' = "read"
             /\ UNCHANGED <<program, watching, queue, events, offset, interrupts, queued, shown>>

(* The longest prefix of the queue that fits. *)
Fitting == Max({n \in 1 .. Len(queue) : Ends(queue)[n] <= EVENTS_BUF_SIZE})

(* Mutant of Read: the walk goes on where the last one ended. *)
ReadKeepsOffset == /\ pc = "read" /\ queue # <<>>
                   /\ events' = SubSeq(queue, 1, Fitting)
                   /\ queue' = SubSeq(queue, Fitting + 1, Len(queue))
                   /\ pc' = "display"
                   /\ UNCHANGED <<program, watching, offset, interrupts, queued, shown>>

Read == /\ pc = "read" /\ queue # <<>>
        /\ events' = SubSeq(queue, 1, Fitting)
        /\ queue' = SubSeq(queue, Fitting + 1, Len(queue))
        /\ offset' = 0
        /\ pc' = "display"
        /\ UNCHANGED <<program, watching, interrupts, queued, shown>>

(* Mutant of ReadFails: the program ends. *)
ReadFailsEnds == /\ pc = "read" /\ interrupts < MaxInterrupts
                 /\ interrupts' = interrupts + 1
                 /\ pc' = "exit"
                 /\ UNCHANGED <<program, watching, queue, events, offset, queued, shown>>

(* inotify.c says so and goes on, inotify_epoll.c goes on. *)
ReadFails == /\ pc = "read" /\ interrupts < MaxInterrupts
             /\ interrupts' = interrupts + 1
             /\ pc' = LoopStart
             /\ UNCHANGED <<program, watching, queue, events, offset, queued, shown>>

(* What is found at an offset of the buffer. *)
EventsAt(off) == {events[k] : k \in {k \in DOMAIN events : Ends(events)[k - 1] = off}}

(* operate is set for every operation of the table and for no other: then  *)
(* it is whatever the stack holds.                                         *)
Operations == {e.operation : e \in EventKind \cup {IGNORED}}
Operate(e) == IF e = OVERFLOW THEN Operations \cup {"junk"} ELSE {e.operation}

display_event ==
    /\ pc = "display" /\ offset < Length(events)
    /\ \E e \in EventsAt(offset) : \E op \in Operate(e) :
          /\ shown' = Append(shown, [event |-> e, operate |-> op])
          /\ offset' = offset + Size(e)
    /\ UNCHANGED <<program, pc, watching, queue, events, interrupts, queued>>

(* The buffer is cleared for the next round. *)
RoundEnds == /\ pc = "display" /\ offset >= Length(events)
             /\ events' = <<>>
             /\ pc' = LoopStart
             /\ UNCHANGED <<program, watching, queue, offset, interrupts, queued, shown>>

-----------------------------------------------------------------------------
(* The kernel: an event equal to the last one in the queue is merged with  *)
(* it; a full queue takes one more, which says that it overflowed.         *)
Enqueue(e) ==
    LET new == IF Len(queue) < MaxQueued THEN e ELSE OVERFLOW
        merged == IF new = OVERFLOW THEN Contains(queue, OVERFLOW)
                  ELSE queue # <<>> /\ Last(queue) = new
    IN  IF merged
        THEN UNCHANGED <<queue, queued>>
        ELSE queue' = Append(queue, new) /\ queued' = Append(queued, new)

Happens(e) == /\ watching /\ Len(queued) < MaxEvents
              /\ Enqueue(e)
              /\ UNCHANGED <<program, pc, watching, events, offset, interrupts, shown>>

(* The directory is removed, and the watch with it. *)
WatchEnds == /\ watching /\ Len(queued) < MaxEvents
             /\ watching' = FALSE
             /\ Enqueue(IGNORED)
             /\ UNCHANGED <<program, pc, events, offset, interrupts, shown>>

-----------------------------------------------------------------------------
Reader == \/ MainFails \/ MainStart \/ EpollFails \/ EpollWait \/ Read \/ ReadFails
          \/ display_event \/ RoundEnds

Next == Reader \/ (\E e \in EventKind : Happens(e)) \/ WatchEnds

Spec == Init /\ [][Next]_vars
FairSpec == Spec /\ WF_vars(Reader)

-----------------------------------------------------------------------------
(* Properties. *)

ShownEvents == [k \in DOMAIN shown |-> shown[k].event]

(* However the events are cut into reads, and whatever fails in between:   *)
(* what is printed is what the kernel queued, every event once and in      *)
(* order, with the name of its operation unless the queue overflowed.      *)
DisplayedInOrder ==
    /\ ShownEvents = SubSeq(queued, 1, Len(shown))
    /\ pc # "display" => queued = ShownEvents \o queue
    /\ \A k \in DOMAIN shown : shown[k].event # OVERFLOW =>
          shown[k].operate = shown[k].event.operation

(* What the kernel queued is printed, unless setting up epoll failed. *)
EventsShown ==
    \A n \in 1 .. MaxEvents : Len(queued) >= n ~> Len(shown) >= n \/ pc = "deaf"
=============================================================================
