----------------------------- MODULE SkelLoader -----------------------------
(***************************************************************************)
(* eBPF/kprobe_sendmsg.c, lsm_control.c, test.c and uprobe_go.c: programs  *)
(* that load a BPF program, attach it and then wait or poll.  Only         *)
(* kprobe_sendmsg handles SIGINT; the others are ended by it.              *)
(*                                                                         *)
(* The programs return -err; err is "ok" for 0, "junk" before it is first  *)
(* assigned, and otherwise the call that failed.                           *)
(***************************************************************************)
EXTENDS Integers

CONSTANT Faults         \* "load", "attach", "signal", "ring"

VARIABLES program,      \* which of the four, fixed
          pc,           \* "load", "attach", "signal", "ring", "loop", "cleanup", "exit"
          err,
          stop,         \* set by the signal handler
          attached,     \* the BPF program is attached
          failed,       \* history: the call that failed, or "none"
          status        \* "none", then "zero", "nonzero" or "killed"

vars == <<program, pc, err, stop, attached, failed, status>>

Program == {"kprobe_sendmsg", "lsm_control", "test", "uprobe_go"}

Init == /\ program \in Program
        /\ pc = "load" /\ err = "junk" /\ stop = FALSE
        /\ attached = FALSE /\ failed = "none" /\ status = "none"

At(P, l) == program \in P /\ pc = l

Goto(l) == pc' = l /\ UNCHANGED <<program, err, stop, attached, failed, status>>

(* A call that fails, with what it leaves in err. *)
Fails(call, e, l) == /\ call \in Faults
                     /\ pc' = l /\ err' = e /\ failed' = call
                     /\ UNCHANGED <<program, stop, attached, status>>

Exits(s) == /\ pc' = "exit" /\ status' = s
            /\ attached' = FALSE

-----------------------------------------------------------------------------
(* test and uprobe_go load in a call of its own, whose result is in err.   *)
TwoCalls == {"test", "uprobe_go"}

Load == /\ At(Program, "load")
        /\ pc' = "attach"
        /\ err' = IF program \in TwoCalls THEN "ok" ELSE err
        /\ UNCHANGED <<program, stop, attached, failed, status>>

(* open_and_load, or open: return 1. *)
OpenFails == /\ At(Program \ {"lsm_control"}, "load") /\ "load" \in Faults
             /\ Exits("nonzero") /\ failed' = "load"
             /\ UNCHANGED <<program, err, stop>>

LoadFails == At(TwoCalls, "load") /\ Fails("load", "load", "cleanup")

(* lsm_control jumps to its cleanup with err never assigned. *)
LsmLoadFails == At({"lsm_control"}, "load") /\ Fails("load", err, "cleanup")

AfterAttach == CASE program = "kprobe_sendmsg" -> "signal"
                 [] program = "lsm_control"    -> "loop"
                 [] OTHER                      -> "ring"

Attach == /\ At(Program, "attach")
          /\ attached' = TRUE /\ err' = "ok"
          /\ pc' = AfterAttach
          /\ UNCHANGED <<program, stop, failed, status>>

(* Mutant of AttachFails: err is not assigned. *)
AttachFailsUnnoticed == /\ At(Program \ {"uprobe_go"}, "attach")
                        /\ Fails("attach", "ok", "cleanup")

AttachFails == /\ At(Program \ {"uprobe_go"}, "attach")
               /\ Fails("attach", "attach", "cleanup")

(* uprobe_go tests the link; err keeps the 0 of the load. *)
UprobeAttachFails == At({"uprobe_go"}, "attach") /\ Fails("attach", err, "cleanup")

Signal == At({"kprobe_sendmsg"}, "signal") /\ Goto("loop")

SignalFails == At({"kprobe_sendmsg"}, "signal") /\ Fails("signal", err, "cleanup")

RingNew == At(TwoCalls, "ring") /\ Goto("loop")

(* The result is not looked at, and polling NULL is a segmentation fault.  *)
RingNewFails == /\ At(TwoCalls, "ring") /\ "ring" \in Faults
                /\ Exits("killed") /\ failed' = "ring"
                /\ UNCHANGED <<program, err, stop>>

LoopEnds == At({"kprobe_sendmsg"}, "loop") /\ stop /\ Goto("cleanup")

Status(e) == CASE e = "ok"   -> {"zero"}
               [] e = "junk" -> {"zero", "nonzero"}
               [] OTHER      -> {"nonzero"}

Cleanup == /\ pc = "cleanup"
           /\ \E s \in Status(err) : Exits(s)
           /\ UNCHANGED <<program, err, stop, failed>>

-----------------------------------------------------------------------------
(* Ctrl+C: the handler, where there is one by now, or the end. *)
sig_int == /\ At({"kprobe_sendmsg"}, "loop") /\ ~stop
           /\ stop' = TRUE
           /\ UNCHANGED <<program, pc, err, attached, failed, status>>

Interrupted == /\ pc # "exit" /\ ~At({"kprobe_sendmsg"}, "loop") /\ ~stop
               /\ Exits("killed")
               /\ UNCHANGED <<program, err, stop, failed>>

-----------------------------------------------------------------------------
Main == \/ Load \/ OpenFails \/ LoadFails \/ LsmLoadFails \/ Attach \/ AttachFails
        \/ UprobeAttachFails \/ Signal \/ SignalFails \/ RingNew \/ RingNewFails
        \/ LoopEnds \/ Cleanup

Next == Main \/ sig_int \/ Interrupted

Spec == Init /\ [][Next]_vars
FairSpec == Spec /\ WF_vars(Main)

-----------------------------------------------------------------------------
(* Properties. *)

(* A program that ends with 0 was stopped by its user after tracing, but   *)
(* for three failures whose jump to the cleanup leaves err as it was.      *)
StatusTruthful ==
    status = "zero" =>
       \/ stop /\ failed = "none"
       \/ <<program, failed>> \in {<<"lsm_control", "load">>,
                                 <<"uprobe_go", "attach">>,
                                 <<"kprobe_sendmsg", "signal">>}

(* Ctrl+C ends kprobe_sendmsg. *)
InterruptStops == stop ~> pc = "exit"
=============================================================================
