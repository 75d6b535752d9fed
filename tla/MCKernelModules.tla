--------------------------- MODULE MCKernelModules ---------------------------
(***************************************************************************)
(* Instances for TLC of the kernel modules: a behaviour is the life of one *)
(* device, one deferred-work module or the network device, or a forced     *)
(* removal, chosen at the start.                                           *)
(***************************************************************************)
EXTENDS CharDevice

CONSTANTS u1, u2,
          MaxSent,      \* bound of NetDev
          NCpu, MaxGets \* CPUs and bound of ForceRmmod

ASSUME CpusAssumption == NCpu \in Nat \ {0} /\ MaxGets \in Nat

VARIABLES which,        \* "device", "deferred", "netdev" or "force"
          mechanism, d_pc, inserting, pending, callback, ran,
          my_thread, done, shared_resource, raced,
          n_pc, up, stopping, napi, sent, real, refs,
          quiet, f_pc, m_incs, m_decs, incs, decs, held, gets, cpu,
          sum_incs, sum_decs, at_rmb

DW == INSTANCE DeferredWork WITH pc <- d_pc
ND == INSTANCE NetDev WITH pc <- n_pc
FR == INSTANCE ForceRmmod WITH pc <- f_pc

deferred == <<mechanism, d_pc, inserting, pending, callback, ran,
              my_thread, done, shared_resource, raced>>
netdev   == <<n_pc, up, stopping, napi, sent, real, refs>>
force    == <<quiet, f_pc, m_incs, m_decs, incs, decs, held, gets, cpu,
              sum_incs, sum_decs, at_rmb>>
all      == <<which, vars, deferred, netdev, force>>

TwoUsers     == {u1, u2}
NothingOrAll == {{}, FaultKinds, FaultKinds \ {"cdev"}, FaultKinds \ {"class", "memory"}}

MCInit == /\ which \in {"device", "deferred", "netdev", "force"}
          /\ Init /\ DW!Init /\ ND!Init /\ FR!Init
          /\ which # "device" => program = "driver_demo" /\ Faults = {}
          /\ which # "deferred" => mechanism = "timer"
          /\ which # "force" => quiet /\ incs[0] = 1 /\ decs[0] = 1

Device(A)   == which = "device" /\ A /\ UNCHANGED <<which, deferred, netdev, force>>
Deferred(A) == which = "deferred" /\ A /\ UNCHANGED <<which, vars, netdev, force>>
Net(A)      == which = "netdev" /\ A /\ UNCHANGED <<which, vars, deferred, force>>
Removal(A)  == which = "force" /\ A /\ UNCHANGED <<which, vars, deferred, netdev>>

MCNext == Device(Next) \/ Deferred(DW!Next) \/ Net(ND!Next) \/ Removal(FR!Next)

(* Init and exit functions run, users inside a call finish it, the kernel  *)
(* runs what is scheduled; nobody owes a load, an unload or an open.       *)
MCSpec == /\ MCInit /\ [][MCNext]_all
          /\ WF_all(Device(Loading)) /\ WF_all(Device(Leaving))
          /\ \A u \in User : WF_all(Device(Uses(u)))
          /\ WF_all(Deferred(DW!Insmod)) /\ WF_all(Deferred(DW!Exit))
          /\ WF_all(Deferred(DW!Deferred)) /\ WF_all(Deferred(DW!InsmodReturns))
          /\ WF_all(Net(ND!Insmod)) /\ WF_all(Net(ND!Exit)) /\ WF_all(Net(ND!Poll))
          /\ WF_all(Net(ND!Disabled)) /\ WF_all(Net(ND!RealGone))

(* Once a module is gone none of its callbacks or poll functions runs or   *)
(* is scheduled, outside the windows DeferredWork names, and nothing it    *)
(* registered is left, but for the cases CharDevice names.                 *)
NothingOutlivesModule == DW!Quiet /\ ND!PollOwned /\ NothingLeft

(* Who waited for the completion finds the result, and what a user of the  *)
(* ioctl device finds and reads was set by it or by another user.          *)
ResultSeen == DW!ResultSeen /\ ReadBack

(* The count force_rmmod prints is not lower than the count was while it   *)
(* added it up.                                                            *)
CountNotLow == FR!CountNotLow

(* Following del_module/README.md clears the count of the other module.    *)
CountCleared == FR!CountCleared

(* insmod, rmmod and ifdown return and what must run runs. *)
ModulesSettle == UnloadEnds /\ (which = "deferred" => DW!Settles) /\ ND!Settles
=============================================================================
