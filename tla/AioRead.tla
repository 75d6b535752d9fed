------------------------------- MODULE AioRead -------------------------------
(***************************************************************************)
(* aio/aio.c: one asynchronous read with libaio.  Its completion is put    *)
(* into the completion ring and then counted in an eventfd, which epoll    *)
(* watches; the program reads the count before it takes the completion.    *)
(***************************************************************************)
EXTENDS Integers, Sequences

CONSTANTS Results,      \* results the read may have; negative ones are errors
          MaxTimeouts   \* bound on the timeouts of epoll_wait

VARIABLES pc,           \* "main", "submit", "epoll", "wait", "read", "getevents", "exit"
          inflight,     \* the kernel has the request
          ring,         \* completions, a FIFO
          unsignalled,  \* a completion is in the ring and not yet in efd
          efd,          \* the count in the eventfd
          timeouts,     \* timeouts so far
          results       \* every result printed

vars == <<pc, inflight, ring, unsignalled, efd, timeouts, results>>

Init == /\ pc = "main" /\ inflight = FALSE /\ ring = <<>> /\ unsignalled = FALSE
        /\ efd = 0 /\ timeouts = 0 /\ results = <<>>

-----------------------------------------------------------------------------
(* io_setup, open, io_submit or epoll_ctl fails: the program exits, in the *)
(* last case with its read under way.                                      *)
MainFails == /\ pc \in {"main", "submit", "epoll"}
             /\ pc' = "exit"
             /\ UNCHANGED <<inflight, ring, unsignalled, efd, timeouts, results>>

Prepare == /\ pc = "main" /\ pc' = "submit"
           /\ UNCHANGED <<inflight, ring, unsignalled, efd, timeouts, results>>

IoSubmit == /\ pc = "submit" /\ pc' = "epoll"
            /\ inflight' = TRUE
            /\ UNCHANGED <<ring, unsignalled, efd, timeouts, results>>

EpollCtl == /\ pc = "epoll" /\ pc' = "wait"
            /\ UNCHANGED <<inflight, ring, unsignalled, efd, timeouts, results>>

(* Level triggered: it returns also for what was counted before. *)
EpollWait == /\ pc = "wait" /\ efd > 0
             /\ pc' = "read"
             /\ UNCHANGED <<inflight, ring, unsignalled, efd, timeouts, results>>

EpollTimeout == /\ pc = "wait" /\ efd = 0 /\ timeouts < MaxTimeouts
                /\ timeouts' = timeouts + 1
                /\ UNCHANGED <<pc, inflight, ring, unsignalled, efd, results>>

(* Reading an eventfd returns the count and clears it; nobody else does,   *)
(* so the count that epoll saw is still there.                             *)
ReadEventfd == /\ pc = "read" /\ efd > 0
               /\ efd' = 0
               /\ pc' = "getevents"
               /\ UNCHANGED <<inflight, ring, unsignalled, timeouts, results>>

(* Waits for at least one completion, without a timeout. *)
IoGetevents == /\ pc = "getevents" /\ ring # <<>>
               /\ results' = Append(results, Head(ring))
               /\ ring' = Tail(ring)
               /\ pc' = "wait"
               /\ UNCHANGED <<inflight, unsignalled, efd, timeouts>>

-----------------------------------------------------------------------------
(* The kernel. *)
Complete == /\ inflight
            /\ inflight' = FALSE
            /\ \E r \in Results : ring' = Append(ring, r)
            /\ unsignalled' = TRUE
            /\ UNCHANGED <<pc, efd, timeouts, results>>

Signal == /\ unsignalled
          /\ unsignalled' = FALSE
          /\ efd' = efd + 1
          /\ UNCHANGED <<pc, inflight, ring, timeouts, results>>

-----------------------------------------------------------------------------
Program == \/ MainFails \/ Prepare \/ IoSubmit \/ EpollCtl \/ EpollWait \/ EpollTimeout
           \/ ReadEventfd \/ IoGetevents
Kernel == Complete \/ Signal

Next == Program \/ Kernel

Spec == Init /\ [][Next]_vars
FairSpec == Spec /\ WF_vars(Program) /\ WF_vars(Kernel)

-----------------------------------------------------------------------------
(* Properties. *)

(* The count never runs ahead of the completions, so that the wait for a   *)
(* completion, which has no timeout, finds one, and the result of the read *)
(* is printed once.                                                        *)
CompletionThere == /\ pc = "getevents" => ring # <<>>
                   /\ efd <= Len(ring) /\ Len(results) <= 1

(* A read that was submitted is reported, unless the program gave up.      *)
ReadReported == pc = "epoll" ~> results # <<>> \/ pc = "exit"
=============================================================================
