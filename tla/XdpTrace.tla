------------------------------ MODULE XdpTrace ------------------------------
(***************************************************************************)
(* eBPF/xdp.c, the user side of the XDP program: attach it to an interface *)
(* through a link, poll until SIGINT, detach.  Several users may run it on *)
(* the same interface, which may also carry a program of somebody else     *)
(* that was attached the old way, without a link.                          *)
(*                                                                         *)
(* A link ends with the process that holds it.  bpf_xdp_detach, which      *)
(* knows no links, removes a program attached the old way and is refused   *)
(* for one attached through a link.                                        *)
(*                                                                         *)
(* The program returns -err; err is "junk" before it is first assigned,    *)
(* and otherwise the call that failed.                                     *)
(***************************************************************************)
EXTENDS Integers

CONSTANTS Proc,
          None, Foreign, \* no program, and somebody else's
          Faults         \* "load", "attach", "signal", "ring", "killed"

VARIABLES pc,           \* where each process is
          link,         \* skel->links.xdp_pass is set
          exiting,      \* set by the signal handler
          prog,         \* whose program is on the interface
          err,
          rb,           \* the ring buffer has been made
          status        \* "none", then "zero", "nonzero" or "killed"

vars == <<pc, link, exiting, prog, err, rb, status>>

Init == /\ pc = [p \in Proc |-> "load"]
        /\ link = [p \in Proc |-> FALSE]
        /\ exiting = [p \in Proc |-> FALSE]
        /\ prog \in {None, Foreign}
        /\ err = [p \in Proc |-> "junk"]
        /\ rb = [p \in Proc |-> FALSE]
        /\ status = [p \in Proc |-> "none"]

Goto(p, l) == pc' = [pc EXCEPT ![p] = l]
At(p, l) == pc[p] = l
Fail(p, e, l) == Goto(p, l) /\ err' = [err EXCEPT ![p] = e]
Exit(p, s) == Goto(p, "exit") /\ status' = [status EXCEPT ![p] = s]

-----------------------------------------------------------------------------
LoadFails(p) == /\ At(p, "load") /\ "load" \in Faults
                /\ Exit(p, "nonzero")
                /\ UNCHANGED <<link, exiting, prog, err, rb>>

Load(p) == /\ At(p, "load") /\ Goto(p, "attach")
           /\ UNCHANGED <<link, exiting, prog, err, rb, status>>

(* Mutant of Attach: the old way, which the process outlives. *)
AttachOldWay(p) == /\ At(p, "attach") /\ prog = None
                   /\ prog' = p
                   /\ Goto(p, "signal")
                   /\ UNCHANGED <<link, exiting, err, rb, status>>

Attach(p) == /\ At(p, "attach") /\ prog = None
             /\ prog' = p
             /\ link' = [link EXCEPT ![p] = TRUE]
             /\ Goto(p, "signal")
             /\ UNCHANGED <<exiting, err, rb, status>>

AttachFails(p) == /\ At(p, "attach") /\ (prog # None \/ "attach" \in Faults)
                  /\ Fail(p, "attach", "cleanup")
                  /\ UNCHANGED <<link, exiting, prog, rb, status>>

Signal(p) == /\ At(p, "signal") /\ Goto(p, "ring")
             /\ UNCHANGED <<link, exiting, prog, err, rb, status>>

SignalFails(p) == /\ At(p, "signal") /\ "signal" \in Faults
                  /\ Fail(p, "signal", "cleanup")
                  /\ UNCHANGED <<link, exiting, prog, rb, status>>

RingNew(p) == /\ At(p, "ring") /\ Goto(p, "loop")
              /\ rb' = [rb EXCEPT ![p] = TRUE]
              /\ UNCHANGED <<link, exiting, prog, err, status>>

(* err is still not assigned, nor is it when the loop ends. *)
RingNewFails(p) == /\ At(p, "ring") /\ "ring" \in Faults
                   /\ Goto(p, "cleanup")
                   /\ UNCHANGED <<link, exiting, prog, err, rb, status>>

LoopEnds(p) == /\ At(p, "loop") /\ exiting[p]
               /\ Goto(p, "cleanup")
               /\ UNCHANGED <<link, exiting, prog, err, rb, status>>

(* bpf_xdp_detach, its result ignored. *)
XdpDetach(p) == /\ At(p, "cleanup")
                /\ prog' = IF prog = Foreign THEN None ELSE prog
                /\ Goto(p, "destroy")
                /\ UNCHANGED <<link, exiting, err, rb, status>>

(* The end of a process's link: xdp_bpf__destroy, or its death. *)
Unlink(p) == /\ link' = [link EXCEPT ![p] = FALSE]
             /\ prog' = IF link[p] THEN None ELSE prog

Status(e) == IF e = "junk" THEN {"zero", "nonzero"} ELSE {"nonzero"}

Destroy(p) == /\ At(p, "destroy")
              /\ Unlink(p)
              /\ \E s \in Status(err[p]) : Exit(p, s)
              /\ UNCHANGED <<exiting, err, rb>>

Killed(p) == /\ pc[p] # "exit" /\ "killed" \in Faults
             /\ Unlink(p)
             /\ Exit(p, "killed")
             /\ UNCHANGED <<exiting, err, rb>>

(* SIGINT, once the handler is installed. *)
sig_int(p) == /\ pc[p] \in {"ring", "loop"} /\ ~exiting[p]
              /\ exiting' = [exiting EXCEPT ![p] = TRUE]
              /\ UNCHANGED <<pc, link, prog, err, rb, status>>

-----------------------------------------------------------------------------
Main(p) == \/ LoadFails(p) \/ Load(p) \/ Attach(p) \/ AttachFails(p)
           \/ Signal(p) \/ SignalFails(p) \/ RingNew(p) \/ RingNewFails(p)
           \/ LoopEnds(p) \/ XdpDetach(p) \/ Destroy(p)

Next == \E p \in Proc : Main(p) \/ sig_int(p) \/ Killed(p)

Spec == Init /\ [][Next]_vars
FairSpec == Spec /\ \A p \in Proc : WF_vars(Main(p))

-----------------------------------------------------------------------------
(* Properties. *)

(* Whatever fails or is killed, a program on the interface belongs to a    *)
(* process that runs and holds its link: none outlives its process, and    *)
(* none of two processes on one interface removes that of the other.       *)
LinkOwnsProgram == \A p \in Proc : /\ prog = p <=> link[p]
                                   /\ At(p, "exit") => ~link[p]

(* While a process polls, its program is on the interface. *)
TapStays == \A p \in Proc : At(p, "loop") => prog = p

(* A process that ends with 0 had its program on the interface, and if the *)
(* ring could be made it was stopped by its user.  That it could not be    *)
(* made does not show in the status, for err is not assigned then; nor is  *)
(* it at the regular end, which may as well report a failure.              *)
StatusTruthful ==
    \A p \in Proc : status[p] = "zero" =>
       err[p] \notin {"attach", "signal"} /\ (rb[p] => exiting[p])

(* After Ctrl+C a process ends. *)
InterruptStops == \A p \in Proc : exiting[p] ~> At(p, "exit")
=============================================================================
