-------------------------- MODULE TapLoadersProofs --------------------------
(***************************************************************************)
(* Proofs about the loaders of BPF programs, for any number of processes   *)
(* on the interface and any faults.  Each loader has an inductive          *)
(* invariant over its own variables; a step of MCTapLoaders is a step of   *)
(* one loader and leaves the variables of the others alone.                *)
(***************************************************************************)
EXTENDS MCTapLoaders, TLAPS

Labels == {"load", "hook", "attach", "signal", "ring", "loop", "detach",
           "cleanup", "destroy", "exit"}

(* tc_trace: once attached, a process that has lost its filter lost it to  *)
(* one that made the hook and ended, and one that detaches without error   *)
(* has no filter any more.                                                 *)
Tracing == {"signal", "ring", "loop", "detach"}

TcTypes == /\ pc \in [Proc -> Labels]
           /\ hook_created \in [Proc -> BOOLEAN]
           /\ err \in [Proc -> {"ok"} \cup FaultKinds]
           /\ exiting \in [Proc -> BOOLEAN]

HookMakerEnded(p) == \E q \in Proc \ {p} : hook_created[q] /\ At(q, "exit")

TcHeld == \A p \in Proc : pc[p] \in Tracing /\ filter # p => HookMakerEnded(p)

TcLeft == "ring" \notin Faults =>
             \A p \in Proc :
                /\ pc[p] = "detach" => exiting[p]
                /\ pc[p] \in {"cleanup", "exit"} /\ err[p] = "ok" =>
                     exiting[p] /\ filter # p

TcInv == TcTypes /\ TcHeld /\ TcLeft

(* xdp: a process holds a link exactly while its program is on the         *)
(* interface, from the attach to the end of the process at the latest; err *)
(* is assigned only by the failures that jump to the cleanup, and a        *)
(* process whose ring was made leaves the loop when it is stopped.         *)
XdpInv == /\ x_pc \in [Proc -> Labels]
          /\ x_link \in [Proc -> BOOLEAN]
          /\ x_exiting \in [Proc -> BOOLEAN]
          /\ x_err \in [Proc -> {"junk", "attach", "signal"}]
          /\ x_rb \in [Proc -> BOOLEAN]
          /\ x_status \in [Proc -> {"none", "zero", "nonzero", "killed"}]
          /\ \A p \in Proc :
                /\ x_prog = p <=> x_link[p]
                /\ x_pc[p] \in {"signal", "ring", "loop"} => x_link[p]
                /\ x_pc[p] \in {"load", "attach", "exit"} => ~x_link[p]
                /\ x_pc[p] # "exit" => x_status[p] = "none"
                /\ x_rb[p] => \/ x_pc[p] \in {"loop", "exit"}
                              \/ x_pc[p] \in {"cleanup", "destroy"} /\ x_exiting[p]
          /\ XD!StatusTruthful

(* The other loaders: what err holds at each label. *)
SkelInv == /\ program \in SL!Program
           /\ s_pc = "load" => s_err = "junk"
           /\ s_pc = "attach" /\ program \in SL!TwoCalls => s_err = "ok"
           /\ s_pc \in {"signal", "ring", "loop"} => s_err = "ok"
           /\ stop \in BOOLEAN
           /\ s_pc \notin {"cleanup", "exit"} => failed = "none"
           /\ s_pc = "cleanup" =>
                \/ stop /\ failed = "none"
                \/ s_err \in {"load", "attach"}
                \/ <<program, failed>> \in {<<"lsm_control", "load">>,
                                          <<"uprobe_go", "attach">>,
                                          <<"kprobe_sendmsg", "signal">>}
           /\ status = "zero" => s_pc = "exit"
           /\ SL!StatusTruthful

-----------------------------------------------------------------------------
(* A step of tc_trace keeps its invariant. *)
LEMMA TcStep == ASSUME TcInv, [Next]_vars PROVE TcInv'
  <1> USE TcTraceAssumption DEF TcInv, TcTypes, TcHeld, TcLeft, Labels, Tracing, At, Goto, Fail, FaultKinds,
          HookMakerEnded
  <1>1. CASE UNCHANGED vars
    BY <1>1 DEF vars
  <1>2. ASSUME NEW p \in Proc, Main(p) \/ sig_int(p) \/ Killed(p) PROVE TcInv'
    <2>1. CASE LoadFails(p)
      BY <2>1 DEF LoadFails
    <2>2. CASE Load(p)
      BY <2>2 DEF Load
    <2>3. CASE HookCreate(p)
      BY <2>3 DEF HookCreate
    <2>4. CASE HookCreateFails(p)
      BY <2>4 DEF HookCreateFails
    <2>5. CASE Attach(p)
      BY <2>5 DEF Attach
    <2>6. CASE AttachFails(p)
      BY <2>6 DEF AttachFails
    <2>7. CASE Signal(p)
      BY <2>7 DEF Signal
    <2>8. CASE SignalFails(p)
      BY <2>8 DEF SignalFails
    <2>9. CASE RingNew(p)
      BY <2>9 DEF RingNew
    <2>10. CASE RingNewFails(p)
      BY <2>10 DEF RingNewFails
    <2>11. CASE LoopEnds(p)
      BY <2>11 DEF LoopEnds
    <2>12. CASE Detach(p)
      BY <2>12 DEF Detach
    <2>13. CASE DetachFails(p)
      BY <2>13 DEF DetachFails
    <2>14. CASE Cleanup(p)
      BY <2>14 DEF Cleanup
    <2>15. CASE sig_int(p)
      BY <2>15 DEF sig_int
    <2>16. CASE Killed(p)
      BY <2>16 DEF Killed
    <2> QED
      BY <1>2, <2>1, <2>2, <2>3, <2>4, <2>5, <2>6, <2>7, <2>8, <2>9, <2>10,
         <2>11, <2>12, <2>13, <2>14, <2>15, <2>16 DEF Main
  <1>3. QED
    BY <1>1, <1>2 DEF Next

(* A step of xdp keeps its invariant. *)
LEMMA XdpStep == ASSUME XdpInv, [XD!Next]_(XD!vars) PROVE XdpInv'
  <1> USE TcTraceAssumption, ForeignAssumption
      DEF XdpInv, Labels, XD!At, XD!Goto, XD!Unlink, XD!Fail, XD!Exit, XD!Status,
          XD!StatusTruthful
  <1>1. CASE UNCHANGED XD!vars
    BY <1>1 DEF XD!vars
  <1>2. ASSUME NEW p \in Proc, XD!Main(p) \/ XD!sig_int(p) \/ XD!Killed(p)
        PROVE  XdpInv'
    <2>1. CASE XD!LoadFails(p)
      BY <2>1 DEF XD!LoadFails
    <2>2. CASE XD!Load(p)
      BY <2>2 DEF XD!Load
    <2>3. CASE XD!Attach(p)
      BY <2>3 DEF XD!Attach
    <2>4. CASE XD!AttachFails(p)
      BY <2>4 DEF XD!AttachFails
    <2>5. CASE XD!Signal(p)
      BY <2>5 DEF XD!Signal
    <2>6. CASE XD!SignalFails(p)
      BY <2>6 DEF XD!SignalFails
    <2>7. CASE XD!RingNew(p)
      BY <2>7 DEF XD!RingNew
    <2>8. CASE XD!RingNewFails(p)
      BY <2>8 DEF XD!RingNewFails
    <2>9. CASE XD!LoopEnds(p)
      BY <2>9 DEF XD!LoopEnds
    <2>10. CASE XD!XdpDetach(p)
      BY <2>10 DEF XD!XdpDetach
    <2>11. CASE XD!Destroy(p)
      BY <2>11 DEF XD!Destroy
    <2>12. CASE XD!sig_int(p)
      BY <2>12 DEF XD!sig_int
    <2>13. CASE XD!Killed(p)
      BY <2>13 DEF XD!Killed
    <2> QED
      BY <1>2, <2>1, <2>2, <2>3, <2>4, <2>5, <2>6, <2>7, <2>8, <2>9, <2>10,
         <2>11, <2>12, <2>13 DEF XD!Main
  <1>3. QED
    BY <1>1, <1>2 DEF XD!Next

(* A step of the other loaders keeps theirs. *)
LEMMA SkelStep == ASSUME SkelInv, [SL!Next]_(SL!vars) PROVE SkelInv'
  <1> USE DEF SkelInv, SL!At, SL!Goto, SL!Fails, SL!Exits, SL!StatusTruthful,
          SL!Program, SL!TwoCalls, SL!AfterAttach, SL!Status
  <1>1. CASE UNCHANGED SL!vars
    BY <1>1 DEF SL!vars
  <1>2. CASE SL!Load
    BY <1>2 DEF SL!Load
  <1>3. CASE SL!OpenFails
    BY <1>3 DEF SL!OpenFails
  <1>4. CASE SL!LoadFails
    BY <1>4 DEF SL!LoadFails
  <1>5. CASE SL!LsmLoadFails
    BY <1>5 DEF SL!LsmLoadFails
  <1>6. CASE SL!Attach
    BY <1>6 DEF SL!Attach
  <1>7. CASE SL!AttachFails
    BY <1>7 DEF SL!AttachFails
  <1>8. CASE SL!UprobeAttachFails
    BY <1>8 DEF SL!UprobeAttachFails
  <1>9. CASE SL!Signal
    BY <1>9 DEF SL!Signal
  <1>10. CASE SL!SignalFails
    BY <1>10 DEF SL!SignalFails
  <1>11. CASE SL!RingNew
    BY <1>11 DEF SL!RingNew
  <1>12. CASE SL!RingNewFails
    BY <1>12 DEF SL!RingNewFails
  <1>13. CASE SL!LoopEnds
    BY <1>13 DEF SL!LoopEnds
  <1>14. CASE SL!Cleanup
    BY <1>14 DEF SL!Cleanup
  <1>15. CASE SL!sig_int
    BY <1>15 DEF SL!sig_int
  <1>16. CASE SL!Interrupted
    BY <1>16 DEF SL!Interrupted
  <1> QED
    BY <1>1, <1>2, <1>3, <1>4, <1>5, <1>6, <1>7, <1>8, <1>9,
       <1>10, <1>11, <1>12, <1>13, <1>14, <1>15, <1>16 DEF SL!Next, SL!Main

-----------------------------------------------------------------------------
(* Every step is one of one loader. *)
LEMMA StepOfOne == [MCNext]_all =>
    [Next]_vars /\ [XD!Next]_(XD!vars) /\ [SL!Next]_(SL!vars)
  BY DEF MCNext, all, xdp, skel, Tc, Xdp, Skel, vars, XD!vars, SL!vars

LoadersInv == TcInv /\ XdpInv /\ SkelInv

LEMMA LoadersInvHolds == MCSpec => []LoadersInv
  <1>1. MCInit => LoadersInv
    <2>1. Init => TcInv
      BY DEF Init, TcInv, TcTypes, TcHeld, TcLeft, Labels, Tracing
    <2>2. XD!Init => XdpInv
      BY TcTraceAssumption, ForeignAssumption DEF XD!Init, XdpInv, Labels, XD!StatusTruthful
    <2>3. SL!Init => SkelInv
      BY DEF SL!Init, SkelInv, SL!StatusTruthful
    <2>4. QED
      BY <2>1, <2>2, <2>3 DEF MCInit, LoadersInv
  <1>2. LoadersInv /\ [MCNext]_all => LoadersInv'
    BY StepOfOne, TcStep, XdpStep, SkelStep DEF LoadersInv
  <1>3. QED
    BY <1>1, <1>2, PTL DEF MCSpec

(* However many processes trace one interface, and whatever fails or is    *)
(* killed: a process that polls has its XDP program on the interface, and  *)
(* its tc filter unless one that made the hook has ended.                  *)
THEOREM TapsStayHolds == MCSpec => []TapsStay
  <1>1. LoadersInv => TapsStay
    BY DEF LoadersInv, TcInv, TcHeld, Tracing, HookMakerEnded, At, XdpInv,
           TapsStay, TapStays, XD!TapStays, XD!At
  <1>2. QED
    BY <1>1, LoadersInvHolds, PTL

(* An XDP program never outlives its process and no process removes that   *)
(* of another: the detach at the cleanup label is harmless.                *)
THEOREM XdpLinkOwnsProgramHolds == MCSpec => []XdpLinkOwnsProgram
  <1>1. LoadersInv => XdpLinkOwnsProgram
    BY DEF LoadersInv, XdpInv, XdpLinkOwnsProgram, XD!LinkOwnsProgram, XD!At
  <1>2. QED
    BY <1>1, LoadersInvHolds, PTL

(* Status 0 means that the user stopped a loader, and that tc_trace left   *)
(* no filter, but for five failures that assign no err: the ring of        *)
(* tc_trace and xdp, the load of lsm_control, the attach of uprobe_go and  *)
(* the handler of kprobe_sendmsg.  A user's stop of xdp may end otherwise. *)
THEOREM StatusTruthfulHolds == MCSpec => []StatusTruthful
  <1>1. LoadersInv => StatusTruthful
    BY DEF LoadersInv, TcInv, TcLeft, XdpInv, SkelInv, StatusTruthful, FilterGone, At
  <1>2. QED
    BY <1>1, LoadersInvHolds, PTL
=============================================================================
