---------------------------- MODULE MCTapLoaders ----------------------------
(***************************************************************************)
(* Instances for TLC of the loaders of BPF programs: a behaviour is        *)
(* tc_trace or xdp run by several processes on one interface, or one of    *)
(* the four programs of SkelLoader, chosen at the start.                   *)
(***************************************************************************)
EXTENDS TcTrace

CONSTANTS p1, p2, p3, Foreign

ASSUME ForeignAssumption == Foreign \notin Proc

VARIABLES which,        \* "tc_trace", "xdp" or "skel"
          x_pc, x_link, x_exiting, x_prog, x_err, x_rb, x_status,
          program, s_pc, s_err, stop, attached, failed, status

xdp  == <<x_pc, x_link, x_exiting, x_prog, x_err, x_rb, x_status>>
skel == <<program, s_pc, s_err, stop, attached, failed, status>>
all  == <<which, vars, xdp, skel>>

XD == INSTANCE XdpTrace WITH
        Faults <- {"load", "attach", "signal", "ring", "killed"},
        pc <- x_pc, link <- x_link, exiting <- x_exiting, prog <- x_prog,
        err <- x_err, rb <- x_rb, status <- x_status

SL == INSTANCE SkelLoader WITH
        Faults <- {"load", "attach", "signal", "ring"}, pc <- s_pc, err <- s_err

Three        == {p1, p2, p3}
WithoutRing  == FaultKinds \ {"ring"}
RingOrNot    == {FaultKinds, WithoutRing}

MCInit == /\ which \in {"tc_trace", "xdp", "skel"} /\ Init /\ XD!Init /\ SL!Init
          /\ which # "tc_trace" => Faults = FaultKinds /\ qdisc
          /\ which # "xdp" => x_prog = None
          /\ which # "skel" => program = "test"

Tc(A)   == which = "tc_trace" /\ A /\ UNCHANGED <<which, xdp, skel>>
Xdp(A)  == which = "xdp" /\ A /\ UNCHANGED <<which, vars, skel>>
Skel(A) == which = "skel" /\ A /\ UNCHANGED <<which, vars, xdp>>

MCNext == Tc(Next) \/ Xdp(XD!Next) \/ Skel(SL!Next)

(* The processes run; nobody owes an interrupt. *)
MCSpec == /\ MCInit /\ [][MCNext]_all
          /\ \A p \in Proc : WF_all(Tc(Main(p))) /\ WF_all(Xdp(XD!Main(p)))
          /\ WF_all(Skel(SL!Main))

(* While a process polls, its program stays on the interface: always on    *)
(* XDP, and for tc unless the process that made the hook has ended.        *)
TapsStay == TapStays /\ XD!TapStays

(* Whatever fails or is killed, the XDP program on the interface belongs   *)
(* to a process that runs and holds its link.                              *)
XdpLinkOwnsProgram == XD!LinkOwnsProgram

(* A loader that ends with status 0 was stopped by its user, and tc_trace  *)
(* has left no filter, but for five failures whose jump to the cleanup     *)
(* assigns no error: the ring of tc_trace and of xdp, the load of          *)
(* lsm_control, the attach of uprobe_go, the handler of kprobe_sendmsg.    *)
(* The converse is not claimed: xdp, stopped by its user, returns an err   *)
(* it never assigned.                                                      *)
StatusTruthful == FilterGone /\ XD!StatusTruthful /\ SL!StatusTruthful

(* After Ctrl+C a process ends, in all programs. *)
AllStop == InterruptStops /\ XD!InterruptStops /\ SL!InterruptStops
=============================================================================
