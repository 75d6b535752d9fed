------------------------------- MODULE TcTrace -------------------------------
(***************************************************************************)
(* eBPF/tc_trace.c, the user side of the tc program: create the hook,      *)
(* attach the filter, poll until SIGINT, detach, destroy the hook.         *)
(* Several users may run it on the same interface.                         *)
(*                                                                         *)
(* The filter has handle 1 and priority 1, so that there is one place for  *)
(* it.  Destroying an ingress hook leaves the qdisc, as the comment in the *)
(* code says, and removes the filters on it.                               *)
(***************************************************************************)
EXTENDS Integers

CONSTANTS Proc,
          None,
          FaultSets     \* what may fail in a run: one of these sets of faults

(* The calls that may fail, and "killed": a process may die of a signal it *)
(* does not handle.                                                        *)
FaultKinds == {"load", "hook", "attach", "signal", "ring", "detach", "killed"}

ASSUME TcTraceAssumption ==
    /\ None \notin Proc
    /\ FaultSets \subseteq SUBSET FaultKinds

VARIABLES Faults,       \* what may fail
          pc,           \* where each process is
          hook_created, \* as in the code
          err,          \* "ok", or the call that failed
          exiting,      \* set by the signal handler
          qdisc,        \* the interface has the hook
          filter        \* whose filter is attached at handle 1, priority 1

vars == <<Faults, pc, hook_created, err, exiting, qdisc, filter>>

Init == /\ Faults \in FaultSets
        /\ pc = [p \in Proc |-> "load"]
        /\ hook_created = [p \in Proc |-> FALSE]
        /\ err = [p \in Proc |-> "ok"]
        /\ exiting = [p \in Proc |-> FALSE]
        /\ qdisc \in BOOLEAN
        /\ filter = None

Goto(p, l) == pc' = [pc EXCEPT ![p] = l]
Fail(p, e, l) == Goto(p, l) /\ err' = [err EXCEPT ![p] = e]
At(p, l) == pc[p] = l

-----------------------------------------------------------------------------
(* A bad interface name or a program that does not load. *)
LoadFails(p) == /\ At(p, "load") /\ "load" \in Faults
                /\ Fail(p, "load", "exit")
                /\ UNCHANGED <<Faults, hook_created, exiting, qdisc, filter>>

Load(p) == /\ At(p, "load") /\ Goto(p, "hook")
           /\ UNCHANGED <<Faults, hook_created, err, exiting, qdisc, filter>>

(* -EEXIST is no error, but the hook is then not ours. *)
HookCreate(p) == /\ At(p, "hook") /\ Goto(p, "attach")
                 /\ hook_created' = [hook_created EXCEPT ![p] = ~qdisc]
                 /\ qdisc' = TRUE
                 /\ UNCHANGED <<Faults, err, exiting, filter>>

HookCreateFails(p) == /\ At(p, "hook") /\ "hook" \in Faults
                      /\ Fail(p, "hook", "cleanup")
                      /\ UNCHANGED <<Faults, hook_created, exiting, qdisc, filter>>

Attach(p) == /\ At(p, "attach") /\ filter = None
             /\ filter' = p
             /\ Goto(p, "signal")
             /\ UNCHANGED <<Faults, hook_created, err, exiting, qdisc>>

AttachFails(p) == /\ At(p, "attach") /\ (filter # None \/ "attach" \in Faults)
                  /\ Fail(p, "attach", "cleanup")
                  /\ UNCHANGED <<Faults, hook_created, exiting, qdisc, filter>>

Signal(p) == /\ At(p, "signal") /\ Goto(p, "ring")
             /\ UNCHANGED <<Faults, hook_created, err, exiting, qdisc, filter>>

SignalFails(p) == /\ At(p, "signal") /\ "signal" \in Faults
                  /\ Fail(p, "signal", "cleanup")
                  /\ UNCHANGED <<Faults, hook_created, exiting, qdisc, filter>>

RingNew(p) == /\ At(p, "ring") /\ Goto(p, "loop")
              /\ UNCHANGED <<Faults, hook_created, err, exiting, qdisc, filter>>

(* err keeps the 0 of the attach. *)
RingNewFails(p) == /\ At(p, "ring") /\ "ring" \in Faults
                   /\ Goto(p, "cleanup")
                   /\ UNCHANGED <<Faults, hook_created, err, exiting, qdisc, filter>>

(* Mutant of LoopEnds: the flag is not looked at. *)
LoopForever(p) == At(p, "loop") /\ UNCHANGED vars

LoopEnds(p) == /\ At(p, "loop") /\ exiting[p]
               /\ Goto(p, "detach")
               /\ UNCHANGED <<Faults, hook_created, err, exiting, qdisc, filter>>

(* bpf_tc_detach removes whatever is attached at the handle. *)
Detach(p) == /\ At(p, "detach") /\ filter # None
             /\ filter' = None
             /\ Goto(p, "cleanup")
             /\ UNCHANGED <<Faults, hook_created, err, exiting, qdisc>>

DetachFails(p) == /\ At(p, "detach") /\ (filter = None \/ "detach" \in Faults)
                  /\ Fail(p, "detach", "cleanup")
                  /\ UNCHANGED <<Faults, hook_created, exiting, qdisc, filter>>

(* Mutant of Cleanup: the hook is destroyed whoever made it. *)
CleanupAlways(p) == /\ At(p, "cleanup")
                    /\ filter' = None
                    /\ Goto(p, "exit")
                    /\ UNCHANGED <<Faults, hook_created, err, exiting, qdisc>>

Cleanup(p) == /\ At(p, "cleanup")
              /\ filter' = IF hook_created[p] THEN None ELSE filter
              /\ Goto(p, "exit")
              /\ UNCHANGED <<Faults, hook_created, err, exiting, qdisc>>

(* SIGINT, once the handler is installed. *)
sig_int(p) == /\ pc[p] \in {"ring", "loop"} /\ ~exiting[p]
              /\ exiting' = [exiting EXCEPT ![p] = TRUE]
              /\ UNCHANGED <<Faults, pc, hook_created, err, qdisc, filter>>

Killed(p) == /\ pc[p] # "exit" /\ "killed" \in Faults
             /\ Fail(p, "killed", "exit")
             /\ UNCHANGED <<Faults, hook_created, exiting, qdisc, filter>>

-----------------------------------------------------------------------------
Main(p) == \/ LoadFails(p) \/ Load(p) \/ HookCreate(p) \/ HookCreateFails(p)
           \/ Attach(p) \/ AttachFails(p) \/ Signal(p) \/ SignalFails(p)
           \/ RingNew(p) \/ RingNewFails(p) \/ LoopEnds(p)
           \/ Detach(p) \/ DetachFails(p) \/ Cleanup(p)

Next == \E p \in Proc : Main(p) \/ sig_int(p) \/ Killed(p)

Spec == Init /\ [][Next]_vars
FairSpec == Spec /\ \A p \in Proc : WF_vars(Main(p))

-----------------------------------------------------------------------------
(* Properties. *)

(* While a process polls, its filter is attached, unless another process   *)
(* made the hook and ended: only then does a filter go with the hook, or   *)
(* the filter of a third process be taken for one's own and detached.      *)
TapStays ==
    \A p \in Proc : At(p, "loop") /\ filter # p =>
       \E q \in Proc \ {p} : hook_created[q] /\ At(q, "exit")

(* A process that ends with status 0 was stopped by its user and leaves no *)
(* filter behind, also when others came and went meanwhile, as long as the *)
(* ring can be made (when it cannot, the status is that of the attach).    *)
FilterGone ==
    "ring" \notin Faults =>
       \A p \in Proc : At(p, "exit") /\ err[p] = "ok" => exiting[p] /\ filter # p

(* After Ctrl+C a process ends, whatever fails and whatever others do. *)
InterruptStops == \A p \in Proc : exiting[p] ~> At(p, "exit")
=============================================================================
