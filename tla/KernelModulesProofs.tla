------------------------- MODULE KernelModulesProofs -------------------------
(***************************************************************************)
(* Proofs about the kernel modules, for any number of users of a device,   *)
(* of loads of its module, of packets and of CPUs, and any faults.         *)
(***************************************************************************)
EXTENDS MCKernelModules, WellFoundedInduction, TLAPS

(* Deferred work: how far the callback of each mechanism can be at each    *)
(* point of the load and the unload.                                       *)
Idle == ~pending /\ callback = "idle"

DeferredInv ==
    /\ mechanism \in DW!Mechanism
    /\ pending \in BOOLEAN /\ inserting \in BOOLEAN /\ raced \in BOOLEAN
    /\ my_thread \in BOOLEAN /\ done \in BOOLEAN
    /\ callback \in {"idle", "running", "updated", "leaving"}
    /\ d_pc = "init" => Idle /\ inserting /\ ~done /\ shared_resource = 0
    /\ mechanism = "timer" /\ d_pc \in {"free", "absent"} => raced \/ Idle
    /\ mechanism = "tasklet" /\ d_pc \in {"free", "absent"} => Idle
    /\ mechanism = "work" /\ d_pc = "cancelled" => ~pending
    /\ mechanism = "work" /\ d_pc \in {"free", "absent"} => Idle
    /\ mechanism = "task_work" /\ ~inserting => Idle

(* The thread of complete_demo: scheduled, then updating, then signalling. *)
ThreadInv ==
    mechanism = "completion" =>
       /\ d_pc = "wait" =>
             \/ pending /\ callback = "idle" /\ ~done /\ shared_resource = 0
             \/ ~pending /\ callback = "running" /\ ~done /\ shared_resource = 0
             \/ ~pending /\ callback = "updated" /\ ~done /\ shared_resource = 1
             \/ ~pending /\ callback \in {"leaving", "idle"} /\ done /\ shared_resource = 1
       /\ d_pc \notin {"init", "wait"} => ~pending /\ callback \in {"leaving", "idle"}
       /\ d_pc \in {"return", "live", "exit"} => shared_resource = 1 /\ ~my_thread

(* The network device is neither up nor being stopped outside of the time  *)
(* it is registered.                                                       *)
NetInv == /\ up \in BOOLEAN
          /\ napi \in {"none", "off", "idle", "scheduled", "polling"}
          /\ n_pc = "init" => napi = "none"
          /\ n_pc \notin {"live", "unregister"} => ~up /\ stopping = ""
          /\ ND!PollOwned

-----------------------------------------------------------------------------
(* Devices: what is registered at each point of the init function, ... *)
Stages == {"absent", "init", "class", "cdev", "device", "live", "going", "removing", "oops"}

RegisteredInv ==
    /\ program \in Program /\ pc \in Stages
    /\ Faults \subseteq FaultKinds
    /\ pc \in {"absent", "init", "removing"} => registered = {}
    /\ pc = "class" => program \in ByHand /\ registered = {"region"}
    /\ pc = "cdev" => program \in ByHand /\ registered \subseteq {"region", "class"}
    /\ pc = "device" => program \in ByHand
    /\ pc = "removing" => program = "proc_demo"
    /\ registered \subseteq CASE program = "driver_demo" -> {"cdev"}
                             [] program = "proc_demo"   -> {"proc"}
                             [] OTHER -> {"region", "class", "cdev", "node"}
    /\ "node" \in registered => pc \in {"live", "going", "oops"} /\ "class" \in registered
    /\ pc \in {"cdev", "device", "live", "going"} /\ program \in ByHand =>
          "class" \in registered \cup Faults \cup left

(* ... and where the users can be at each point of its life. *)
UsersInv ==
    /\ user \in [User -> {"open", "first", "second", "close", "end"}]
    /\ device_status \in User \cup {Zero} /\ got \in [User -> User \cup {Zero}]
    /\ \A u \in User :
          IF program = "proc_demo"
          THEN /\ user[u] = "first" => pc \in {"live", "going", "oops"}
               /\ user[u] = "second" => pc \in {"live", "going", "removing", "oops"}
          ELSE FileOpen(u) => pc \in {"device", "live", "oops"}

DeviceInv == RegisteredInv /\ UsersInv /\ NothingLeft /\ ReadBack

-----------------------------------------------------------------------------
(* A step of a deferred-work module keeps its invariants. *)
LEMMA DeferredStep == ASSUME DeferredInv, ThreadInv, [DW!Next]_(DW!vars)
                      PROVE  DeferredInv' /\ ThreadInv'
  <1> USE DEF DeferredInv, ThreadInv, Idle, DW!Mechanism, DW!At, DW!Goto,
          DW!Schedule, DW!InitFails, DW!Callback, DW!load, DW!deferred, DW!thread
  <1>1. CASE UNCHANGED DW!vars
    BY <1>1 DEF DW!vars
  <1>2. CASE DW!TimerInit
    BY <1>2 DEF DW!TimerInit
  <1>3. CASE DW!TaskletInit
    BY <1>3 DEF DW!TaskletInit
  <1>4. CASE DW!WorkInit
    BY <1>4 DEF DW!WorkInit
  <1>5. CASE DW!WorkInitFails
    BY <1>5 DEF DW!WorkInitFails
  <1>6. CASE DW!TaskWorkInit
    BY <1>6 DEF DW!TaskWorkInit
  <1>7. CASE DW!TaskWorkInitFails
    BY <1>7 DEF DW!TaskWorkInitFails
  <1>8. CASE DW!ThreadInit
    BY <1>8 DEF DW!ThreadInit
  <1>9. CASE DW!ThreadInitFails
    BY <1>9 DEF DW!ThreadInitFails
  <1>10. CASE DW!Completed
    BY <1>10 DEF DW!Completed
  <1>11. CASE DW!InitReturns
    BY <1>11 DEF DW!InitReturns
  <1>12. CASE DW!InsmodReturns
    BY <1>12 DEF DW!InsmodReturns
  <1>13. CASE DW!Rmmod
    BY <1>13 DEF DW!Rmmod
  <1>14. CASE DW!TimerExit
    BY <1>14 DEF DW!TimerExit
  <1>15. CASE DW!TaskletExit
    BY <1>15 DEF DW!TaskletExit
  <1>16. CASE DW!WorkCancel
    BY <1>16 DEF DW!WorkCancel
  <1>17. CASE DW!WorkExit
    BY <1>17 DEF DW!WorkExit
  <1>18. CASE DW!ThreadExit
    BY <1>18 DEF DW!ThreadExit
  <1>19. CASE DW!TaskWorkExit
    BY <1>19 DEF DW!TaskWorkExit
  <1>20. CASE DW!Free
    BY <1>20 DEF DW!Free
  <1>21. CASE DW!Fire
    BY <1>21 DEF DW!Fire
  <1>22. CASE DW!Leave
    BY <1>22 DEF DW!Leave
  <1>23. CASE DW!my_timer_callback
    BY <1>23 DEF DW!my_timer_callback
  <1>24. CASE DW!my_tasklet_handler
    BY <1>24 DEF DW!my_tasklet_handler
  <1>25. CASE DW!my_work_function
    BY <1>25 DEF DW!my_work_function
  <1>26. CASE DW!my_task_work_callback
    BY <1>26 DEF DW!my_task_work_callback
  <1>27. CASE DW!Update
    BY <1>27 DEF DW!Update
  <1>28. CASE DW!Complete
    BY <1>28 DEF DW!Complete
  <1> QED
    BY <1>1, <1>2, <1>3, <1>4, <1>5, <1>6, <1>7, <1>8, <1>9, <1>10, <1>11,
       <1>12, <1>13, <1>14, <1>15, <1>16, <1>17, <1>18, <1>19, <1>20, <1>21,
       <1>22, <1>23, <1>24, <1>25, <1>26, <1>27, <1>28 DEF DW!Next,
       DW!Insmod, DW!Exit, DW!Deferred

(* A step of the network device keeps its own. *)
LEMMA NetStep == ASSUME NetInv, [ND!Next]_(ND!vars) PROVE NetInv'
  <1> USE DEF NetInv, ND!PollOwned, ND!Goto, ND!Triggered, ND!demo_stop
  <1>1. CASE UNCHANGED ND!vars
    BY <1>1 DEF ND!vars
  <1>2. CASE ND!AllocFails
    BY <1>2 DEF ND!AllocFails
  <1>3. CASE ND!NapiAdd
    BY <1>3 DEF ND!NapiAdd
  <1>4. CASE ND!RegisterNetdev
    BY <1>4 DEF ND!RegisterNetdev
  <1>5. CASE ND!RegisterFails
    BY <1>5 DEF ND!RegisterFails
  <1>6. CASE ND!demo_napi_trigger
    BY <1>6 DEF ND!demo_napi_trigger
  <1>7. CASE ND!demo_open
    BY <1>7 DEF ND!demo_open
  <1>8. CASE ND!IfDown
    BY <1>8 DEF ND!IfDown
  <1>9. CASE ND!Disabled
    BY <1>9 DEF ND!Disabled
  <1>10. CASE ND!SoftIrq
    BY <1>10 DEF ND!SoftIrq
  <1>11. CASE ND!PollAgain
    BY <1>11 DEF ND!PollAgain
  <1>12. CASE ND!PollDone
    BY <1>12 DEF ND!PollDone
  <1>13. CASE ND!demo_xmit
    BY <1>13 DEF ND!demo_xmit
  <1>14. CASE ND!RealGoing
    BY <1>14 DEF ND!RealGoing
  <1>15. CASE ND!RealGone
    BY <1>15 DEF ND!RealGone
  <1>16. CASE ND!Rmmod
    BY <1>16 DEF ND!Rmmod
  <1>17. CASE ND!UnregisterStops
    BY <1>17 DEF ND!UnregisterStops
  <1>18. CASE ND!Unregistered
    BY <1>18 DEF ND!Unregistered
  <1>19. CASE ND!NapiDel
    BY <1>19 DEF ND!NapiDel
  <1>20. CASE ND!FreeNetdev
    BY <1>20 DEF ND!FreeNetdev
  <1> QED
    BY <1>1, <1>2, <1>3, <1>4, <1>5, <1>6, <1>7, <1>8, <1>9, <1>10, <1>11,
       <1>12, <1>13, <1>14, <1>15, <1>16, <1>17, <1>18, <1>19, <1>20 DEF ND!Next,
       ND!Insmod, ND!Exit, ND!Poll, ND!Use

(* A step of a device keeps the invariant on what is registered, ... *)
LEMMA RegisteredStep == ASSUME RegisteredInv, NothingLeft, [Next]_vars PROVE RegisteredInv'
  <1> USE CharDeviceAssumption DEF setting, module, clients, At, ByHand, Program, Register, Gone, Oops,
      UserAt, Step, Calls, File, FileOpen, FaultKinds,
      RegisteredInv, NothingLeft, Stages
  <1>1. CASE UNCHANGED vars
    BY <1>1 DEF vars
  <1>2. CASE Insmod
    BY <1>2 DEF Insmod
  <1>3. CASE RegisterChrdev
    BY <1>3 DEF RegisterChrdev
  <1>4. CASE AllocRegion
    BY <1>4 DEF AllocRegion
  <1>5. CASE AllocRegionFails
    BY <1>5 DEF AllocRegionFails
  <1>6. CASE ClassCreate
    BY <1>6 DEF ClassCreate
  <1>7. CASE CdevAdd
    BY <1>7 DEF CdevAdd
  <1>8. CASE CdevAddFails
    BY <1>8 DEF CdevAddFails
  <1>9. CASE CdevAddUndone
    BY <1>9 DEF CdevAddUndone
  <1>10. CASE DeviceCreate
    BY <1>10 DEF DeviceCreate
  <1>101. CASE DeviceCreateFails
    BY <1>101 DEF DeviceCreateFails
  <1>11. CASE ProcCreate
    BY <1>11 DEF ProcCreate
  <1>12. CASE Rmmod
    BY <1>12 DEF Rmmod
  <1>13. CASE UnregisterChrdev
    BY <1>13 DEF UnregisterChrdev
  <1>14. CASE ExitNew
    BY <1>14 DEF ExitNew, Unregister
  <1>15. CASE ExitIoctl
    BY <1>15 DEF ExitIoctl, Unregister
  <1>16. CASE RemoveProcEntry
    BY <1>16 DEF RemoveProcEntry
  <1>17. CASE ProcRemoved
    BY <1>17 DEF ProcRemoved
  <1>18. ASSUME NEW u \in User, Open(u) \/ OpenFails(u) \/ OpenStale(u) \/ Uses(u)
         PROVE RegisteredInv'
    <2>1. CASE Open(u)
      BY <2>1 DEF Open
    <2>2. CASE OpenFails(u)
      BY <2>2 DEF OpenFails
    <2>3. CASE OpenStale(u)
      BY <2>3 DEF OpenStale
    <2>4. CASE device_write(u)
      BY <2>4 DEF device_write
    <2>5. CASE device_read(u)
      BY <2>5 DEF device_read
    <2>6. CASE IoctlSet(u)
      BY <2>6 DEF IoctlSet
    <2>7. CASE IoctlSetFails(u)
      BY <2>7 DEF IoctlSetFails
    <2>8. CASE IoctlGet(u)
      BY <2>8 DEF IoctlGet
    <2>9. CASE IoctlGetFails(u)
      BY <2>9 DEF IoctlGetFails
    <2>10. CASE ProcRead(u)
      BY <2>10 DEF ProcRead
    <2>11. CASE ProcReadReturns(u)
      BY <2>11 DEF ProcReadReturns
    <2>12. CASE Close(u)
      BY <2>12 DEF Close
    <2> QED
      BY <1>18, <2>1, <2>2, <2>3, <2>4, <2>5, <2>6, <2>7, <2>8, <2>9, <2>10,
         <2>11, <2>12 DEF Uses
  <1> QED
    BY <1>1, <1>2, <1>3, <1>4, <1>5, <1>6, <1>7, <1>8, <1>9, <1>10, <1>101, <1>11,
       <1>12, <1>13, <1>14, <1>15, <1>16, <1>17, <1>18 DEF Next, Loading, Leaving

(* ... the one on where the users are, ... *)
LEMMA UsersStep == ASSUME RegisteredInv, UsersInv, [Next]_vars PROVE UsersInv'
  <1> USE CharDeviceAssumption DEF setting, module, clients, At, ByHand, Program, Register, Gone, Oops,
      UserAt, Step, Calls, File, FileOpen, FaultKinds,
      RegisteredInv, UsersInv, Stages, Openable, Holders
  <1>1. CASE UNCHANGED vars
    BY <1>1 DEF vars
  <1>2. CASE Insmod
    BY <1>2 DEF Insmod
  <1>3. CASE RegisterChrdev
    BY <1>3 DEF RegisterChrdev
  <1>4. CASE AllocRegion
    BY <1>4 DEF AllocRegion
  <1>5. CASE AllocRegionFails
    BY <1>5 DEF AllocRegionFails
  <1>6. CASE ClassCreate
    BY <1>6 DEF ClassCreate
  <1>7. CASE CdevAdd
    BY <1>7 DEF CdevAdd
  <1>8. CASE CdevAddFails
    BY <1>8 DEF CdevAddFails
  <1>9. CASE CdevAddUndone
    BY <1>9 DEF CdevAddUndone
  <1>10. CASE DeviceCreate
    BY <1>10 DEF DeviceCreate
  <1>101. CASE DeviceCreateFails
    BY <1>101 DEF DeviceCreateFails
  <1>11. CASE ProcCreate
    BY <1>11 DEF ProcCreate
  <1>12. CASE Rmmod
    BY <1>12 DEF Rmmod
  <1>13. CASE UnregisterChrdev
    BY <1>13 DEF UnregisterChrdev
  <1>14. CASE ExitNew
    BY <1>14 DEF ExitNew, Unregister
  <1>15. CASE ExitIoctl
    BY <1>15 DEF ExitIoctl, Unregister
  <1>16. CASE RemoveProcEntry
    BY <1>16 DEF RemoveProcEntry
  <1>17. CASE ProcRemoved
    BY <1>17 DEF ProcRemoved
  <1>18. ASSUME NEW u \in User, Open(u) \/ OpenFails(u) \/ OpenStale(u) \/ Uses(u)
         PROVE UsersInv'
    <2>1. CASE Open(u)
      BY <2>1 DEF Open
    <2>2. CASE OpenFails(u)
      BY <2>2 DEF OpenFails
    <2>3. CASE OpenStale(u)
      BY <2>3 DEF OpenStale
    <2>4. CASE device_write(u)
      BY <2>4 DEF device_write
    <2>5. CASE device_read(u)
      BY <2>5 DEF device_read
    <2>6. CASE IoctlSet(u)
      BY <2>6 DEF IoctlSet
    <2>7. CASE IoctlSetFails(u)
      BY <2>7 DEF IoctlSetFails
    <2>8. CASE IoctlGet(u)
      BY <2>8 DEF IoctlGet
    <2>9. CASE IoctlGetFails(u)
      BY <2>9 DEF IoctlGetFails
    <2>10. CASE ProcRead(u)
      BY <2>10 DEF ProcRead
    <2>11. CASE ProcReadReturns(u)
      BY <2>11 DEF ProcReadReturns
    <2>12. CASE Close(u)
      BY <2>12 DEF Close
    <2> QED
      BY <1>18, <2>1, <2>2, <2>3, <2>4, <2>5, <2>6, <2>7, <2>8, <2>9, <2>10,
         <2>11, <2>12 DEF Uses
  <1> QED
    BY <1>1, <1>2, <1>3, <1>4, <1>5, <1>6, <1>7, <1>8, <1>9, <1>10, <1>101, <1>11,
       <1>12, <1>13, <1>14, <1>15, <1>16, <1>17, <1>18 DEF Next, Loading, Leaving

(* ... what earlier loads have left, ... *)
LEMMA LeftStep == ASSUME RegisteredInv, NothingLeft, [Next]_vars PROVE NothingLeft'
  <1> USE CharDeviceAssumption DEF setting, module, clients, At, ByHand, Program, Register, Gone, Oops,
      UserAt, Step, Calls, File, FileOpen, FaultKinds,
      RegisteredInv, NothingLeft, Stages
  <1>1. CASE UNCHANGED vars
    BY <1>1 DEF vars
  <1>2. CASE Insmod
    BY <1>2 DEF Insmod
  <1>3. CASE RegisterChrdev
    BY <1>3 DEF RegisterChrdev
  <1>4. CASE AllocRegion
    BY <1>4 DEF AllocRegion
  <1>5. CASE AllocRegionFails
    BY <1>5 DEF AllocRegionFails
  <1>6. CASE ClassCreate
    BY <1>6 DEF ClassCreate
  <1>7. CASE CdevAdd
    BY <1>7 DEF CdevAdd
  <1>8. CASE CdevAddFails
    BY <1>8 DEF CdevAddFails
  <1>9. CASE CdevAddUndone
    BY <1>9 DEF CdevAddUndone
  <1>10. CASE DeviceCreate
    BY <1>10 DEF DeviceCreate
  <1>101. CASE DeviceCreateFails
    BY <1>101 DEF DeviceCreateFails
  <1>11. CASE ProcCreate
    BY <1>11 DEF ProcCreate
  <1>12. CASE Rmmod
    BY <1>12 DEF Rmmod
  <1>13. CASE UnregisterChrdev
    BY <1>13 DEF UnregisterChrdev
  <1>14. CASE ExitNew
    BY <1>14 DEF ExitNew, Unregister
  <1>15. CASE ExitIoctl
    BY <1>15 DEF ExitIoctl, Unregister
  <1>16. CASE RemoveProcEntry
    BY <1>16 DEF RemoveProcEntry
  <1>17. CASE ProcRemoved
    BY <1>17 DEF ProcRemoved
  <1>18. ASSUME NEW u \in User, Open(u) \/ OpenFails(u) \/ OpenStale(u) \/ Uses(u)
         PROVE NothingLeft'
    <2>1. CASE Open(u)
      BY <2>1 DEF Open
    <2>2. CASE OpenFails(u)
      BY <2>2 DEF OpenFails
    <2>3. CASE OpenStale(u)
      BY <2>3 DEF OpenStale
    <2>4. CASE device_write(u)
      BY <2>4 DEF device_write
    <2>5. CASE device_read(u)
      BY <2>5 DEF device_read
    <2>6. CASE IoctlSet(u)
      BY <2>6 DEF IoctlSet
    <2>7. CASE IoctlSetFails(u)
      BY <2>7 DEF IoctlSetFails
    <2>8. CASE IoctlGet(u)
      BY <2>8 DEF IoctlGet
    <2>9. CASE IoctlGetFails(u)
      BY <2>9 DEF IoctlGetFails
    <2>10. CASE ProcRead(u)
      BY <2>10 DEF ProcRead
    <2>11. CASE ProcReadReturns(u)
      BY <2>11 DEF ProcReadReturns
    <2>12. CASE Close(u)
      BY <2>12 DEF Close
    <2> QED
      BY <1>18, <2>1, <2>2, <2>3, <2>4, <2>5, <2>6, <2>7, <2>8, <2>9, <2>10,
         <2>11, <2>12 DEF Uses
  <1> QED
    BY <1>1, <1>2, <1>3, <1>4, <1>5, <1>6, <1>7, <1>8, <1>9, <1>10, <1>101, <1>11,
       <1>12, <1>13, <1>14, <1>15, <1>16, <1>17, <1>18 DEF Next, Loading, Leaving

(* ... and the status a user finds. *)
LEMMA ReadBackStep == ASSUME UsersInv, ReadBack, [Next]_vars PROVE ReadBack'
  <1> USE CharDeviceAssumption DEF setting, module, clients, At, ByHand, Program, Register, Gone, Oops,
      UserAt, Step, Calls, File, FileOpen, FaultKinds,
      UsersInv, ReadBack, Called
  <1>1. CASE UNCHANGED vars
    BY <1>1 DEF vars
  <1>2. CASE Insmod
    BY <1>2 DEF Insmod
  <1>3. CASE RegisterChrdev
    BY <1>3 DEF RegisterChrdev
  <1>4. CASE AllocRegion
    BY <1>4 DEF AllocRegion
  <1>5. CASE AllocRegionFails
    BY <1>5 DEF AllocRegionFails
  <1>6. CASE ClassCreate
    BY <1>6 DEF ClassCreate
  <1>7. CASE CdevAdd
    BY <1>7 DEF CdevAdd
  <1>8. CASE CdevAddFails
    BY <1>8 DEF CdevAddFails
  <1>9. CASE CdevAddUndone
    BY <1>9 DEF CdevAddUndone
  <1>10. CASE DeviceCreate
    BY <1>10 DEF DeviceCreate
  <1>101. CASE DeviceCreateFails
    BY <1>101 DEF DeviceCreateFails
  <1>11. CASE ProcCreate
    BY <1>11 DEF ProcCreate
  <1>12. CASE Rmmod
    BY <1>12 DEF Rmmod
  <1>13. CASE UnregisterChrdev
    BY <1>13 DEF UnregisterChrdev
  <1>14. CASE ExitNew
    BY <1>14 DEF ExitNew, Unregister
  <1>15. CASE ExitIoctl
    BY <1>15 DEF ExitIoctl, Unregister
  <1>16. CASE RemoveProcEntry
    BY <1>16 DEF RemoveProcEntry
  <1>17. CASE ProcRemoved
    BY <1>17 DEF ProcRemoved
  <1>18. ASSUME NEW u \in User, Open(u) \/ OpenFails(u) \/ OpenStale(u) \/ Uses(u)
         PROVE ReadBack'
    <2>1. CASE Open(u)
      BY <2>1 DEF Open
    <2>2. CASE OpenFails(u)
      BY <2>2 DEF OpenFails
    <2>3. CASE OpenStale(u)
      BY <2>3 DEF OpenStale
    <2>4. CASE device_write(u)
      BY <2>4 DEF device_write
    <2>5. CASE device_read(u)
      BY <2>5 DEF device_read
    <2>6. CASE IoctlSet(u)
      BY <2>6 DEF IoctlSet
    <2>7. CASE IoctlSetFails(u)
      BY <2>7 DEF IoctlSetFails
    <2>8. CASE IoctlGet(u)
      BY <2>8 DEF IoctlGet
    <2>9. CASE IoctlGetFails(u)
      BY <2>9 DEF IoctlGetFails
    <2>10. CASE ProcRead(u)
      BY <2>10 DEF ProcRead
    <2>11. CASE ProcReadReturns(u)
      BY <2>11 DEF ProcReadReturns
    <2>12. CASE Close(u)
      BY <2>12 DEF Close
    <2> QED
      BY <1>18, <2>1, <2>2, <2>3, <2>4, <2>5, <2>6, <2>7, <2>8, <2>9, <2>10,
         <2>11, <2>12 DEF Uses
  <1> QED
    BY <1>1, <1>2, <1>3, <1>4, <1>5, <1>6, <1>7, <1>8, <1>9, <1>10, <1>101, <1>11,
       <1>12, <1>13, <1>14, <1>15, <1>16, <1>17, <1>18 DEF Next, Loading, Leaving

-----------------------------------------------------------------------------
(* Sums over CPUs, of which there is any number. *)

(* Induction over the natural numbers, for the elements of a set: a        *)
(* smallest number outside the set would contradict the step.              *)
LEMMA SetInduction ==
    ASSUME NEW S, 0 \in S, \A n \in Nat : n \in S => n + 1 \in S
    PROVE  Nat \subseteq S
  <1> SUFFICES ASSUME Nat \ S # {} PROVE FALSE
    OBVIOUS
  <1>1. PICK R : R = OpToRel(<, Nat)
    OBVIOUS
  <1>2. IsWellFoundedOn(R, Nat)
    BY <1>1, NatLessThanWellFounded, Zenon
  <1>3. \A x, y \in Nat : x < y => <<x, y>> \in R
    BY <1>1, Zenon DEF OpToRel
  <1>4. PICK x \in Nat \ S : \A y \in Nat \ S : ~(<<y, x>> \in R)
    <2> DEFINE T == Nat \ S
    <2>1. T \subseteq Nat /\ T # {}
      OBVIOUS
    <2> HIDE DEF T
    <2>2. \E x \in T : \A y \in T : ~(<<y, x>> \in R)
      BY <1>2, <2>1, WFMin
    <2>3. QED
      BY <2>2 DEF T
  <1>5. x # 0 /\ x - 1 \in Nat /\ x - 1 < x /\ (x - 1) + 1 = x
    BY <1>4
  <1>6. x - 1 \in S
    BY <1>3, <1>4, <1>5
  <1>7. QED
    BY <1>4, <1>5, <1>6

(* The sums below each CPU are what their definition says. *)
LEMMA SumsAre ==
    ASSUME NEW f \in [FR!Cpu -> Int]
    PROVE  /\ FR!Sums(f) \in [0 .. NCpu -> Int] /\ FR!Sums(f)[0] = 0
           /\ \A n \in 0 .. NCpu - 1 : FR!Sums(f)[n + 1] = FR!Sums(f)[n] + f[n]
  <1>0. NCpu \in Nat /\ \A c \in 0 .. NCpu - 1 : f[c] \in Int
    BY CpusAssumption DEF FR!Cpu
  <1> DEFINE Below(k, s) == /\ s \in [0 .. k -> Int] /\ s[0] = 0
                            /\ \A n \in 0 .. k - 1 : s[n + 1] = s[n] + f[n]
             S == {k \in Nat : k <= NCpu => \E s : Below(k, s)}
  <1>1. 0 \in S
    <2>1. Below(0, [n \in 0 .. 0 |-> 0])
      OBVIOUS
    <2>2. QED
      BY <2>1
  <1>2. ASSUME NEW k \in Nat, k \in S PROVE k + 1 \in S
    <2> SUFFICES ASSUME k + 1 <= NCpu PROVE \E s : Below(k + 1, s)
      OBVIOUS
    <2>1. PICK s : Below(k, s)
      BY <1>0, <1>2
    <2> DEFINE t == [n \in 0 .. k + 1 |-> IF n = k + 1 THEN s[k] + f[k] ELSE s[n]]
    <2>2. s[k] \in Int /\ f[k] \in Int
      BY <1>0, <2>1
    <2>3. t \in [0 .. k + 1 -> Int] /\ t[0] = 0
      BY <2>1, <2>2
    <2>4. ASSUME NEW n \in 0 .. (k + 1) - 1 PROVE t[n + 1] = t[n] + f[n]
      <3>1. n = k \/ n \in 0 .. k - 1
        OBVIOUS
      <3>2. QED
        BY <2>1, <3>1
    <2>5. Below(k + 1, t)
      BY <2>3, <2>4
    <2>6. QED
      BY <2>5
  <1>3. NCpu \in S
    <2> HIDE DEF S
    <2>1. QED
      BY <1>0, <1>1, <1>2, SetInduction
  <1>4. PICK s : Below(NCpu, s)
    BY <1>0, <1>3
  <1> HIDE DEF S
  <1>5. s = [n \in 0 .. NCpu |-> IF n = 0 THEN 0 ELSE s[n - 1] + f[n - 1]]
    <2>1. ASSUME NEW n \in 0 .. NCpu, n # 0 PROVE s[n] = s[n - 1] + f[n - 1]
      <3>1. n - 1 \in 0 .. NCpu - 1 /\ (n - 1) + 1 = n
        BY <1>0, <2>1
      <3>2. QED
        BY <1>4, <3>1
    <2>2. QED
      BY <1>0, <1>4, <2>1
  <1>6. PICK t : t = FR!Sums(f)
    OBVIOUS
  <1>7. t = [n \in 0 .. NCpu |-> IF n = 0 THEN 0 ELSE t[n - 1] + f[n - 1]]
    BY <1>5, <1>6 DEF FR!Sums
  <1>8. t[0] = 0 /\ \A n \in 0 .. NCpu - 1 : t[n + 1] = t[n] + f[n]
    <2>1. ASSUME NEW n \in 0 .. NCpu - 1 PROVE t[n + 1] = t[n] + f[n]
      <3>1. n + 1 \in 0 .. NCpu /\ n + 1 # 0 /\ (n + 1) - 1 = n
        BY <1>0
      <3>2. QED
        BY <1>7, <3>1
    <2>2. t[0] = 0
      BY <1>0, <1>7
    <2>3. QED
      BY <2>1, <2>2
  <1>9. t \in [0 .. NCpu -> Int]
    <2> DEFINE U == {k \in Nat : k <= NCpu => t[k] \in Int}
    <2>1. 0 \in U
      BY <1>8
    <2>2. ASSUME NEW k \in Nat, k \in U PROVE k + 1 \in U
      BY <1>0, <1>8, <2>2
    <2>3. Nat \subseteq U
      <3> HIDE DEF U
      <3>1. QED
        BY <2>1, <2>2, SetInduction
    <2>4. \A k \in 0 .. NCpu : t[k] \in Int
      BY <1>0, <2>3
    <2>5. QED
      BY <1>7, <2>4
  <1>10. QED
    BY <1>6, <1>8, <1>9

(* A counter that nowhere gets smaller has no smaller sum over any stretch *)
(* of CPUs.                                                                *)
LEMMA SumsGrow ==
    ASSUME NEW f \in [FR!Cpu -> Int], NEW g \in [FR!Cpu -> Int],
           \A c \in FR!Cpu : f[c] <= g[c], NEW m \in 0 .. NCpu
    PROVE  \A n \in m .. NCpu : FR!Sums(f)[n] - FR!Sums(f)[m] <= FR!Sums(g)[n] - FR!Sums(g)[m]
  <1>0. NCpu \in Nat
    BY CpusAssumption
  <1>1. PICK s, t : s = FR!Sums(f) /\ t = FR!Sums(g)
    OBVIOUS
  <1>2. /\ s \in [0 .. NCpu -> Int] /\ t \in [0 .. NCpu -> Int]
        /\ \A n \in 0 .. NCpu - 1 : s[n + 1] = s[n] + f[n] /\ t[n + 1] = t[n] + g[n]
    BY <1>1, SumsAre
  <1>3. \A n \in 0 .. NCpu - 1 : f[n] \in Int /\ g[n] \in Int /\ f[n] <= g[n]
    BY DEF FR!Cpu
  <1> DEFINE U == {k \in Nat : m + k <= NCpu => s[m + k] - s[m] <= t[m + k] - t[m]}
  <1>4. 0 \in U
    BY <1>0, <1>2
  <1>5. ASSUME NEW k \in Nat, k \in U PROVE k + 1 \in U
    <2> SUFFICES ASSUME m + (k + 1) <= NCpu PROVE s[m + (k + 1)] - s[m] <= t[m + (k + 1)] - t[m]
      OBVIOUS
    <2>1. PICK n \in 0 .. NCpu - 1 : n = m + k /\ m + (k + 1) = n + 1
      BY <1>0
    <2>2. /\ s[n] \in Int /\ t[n] \in Int /\ s[m] \in Int /\ t[m] \in Int
          /\ s[n] - s[m] <= t[n] - t[m]
      BY <1>0, <1>2, <1>5, <2>1
    <2>3. s[n + 1] = s[n] + f[n] /\ t[n + 1] = t[n] + g[n] /\ f[n] <= g[n] /\ f[n] \in Int /\ g[n] \in Int
      BY <1>2, <1>3
    <2>4. QED
      BY <2>1, <2>2, <2>3
  <1>6. Nat \subseteq U
    <2> HIDE DEF U
    <2>1. QED
      BY <1>4, <1>5, SetInduction
  <1>7. ASSUME NEW n \in m .. NCpu PROVE s[n] - s[m] <= t[n] - t[m]
    <2>1. n - m \in Nat /\ m + (n - m) = n /\ n <= NCpu
      BY <1>0
    <2>2. QED
      BY <1>6, <2>1
  <1>8. QED
    BY <1>1, <1>7

-----------------------------------------------------------------------------
(* force_rmmod: what the sums taken so far are at each point.  The decs    *)
(* added up are no more than they are by now; the incs added up, with      *)
(* those of the CPUs still to come, are no less than they were at the      *)
(* barrier.                                                                *)
CountTypes ==
    /\ incs \in [FR!Cpu -> Int] /\ decs \in [FR!Cpu -> Int]
    /\ cpu \in 0 .. NCpu /\ m_incs \in Int /\ m_decs \in Int
    /\ sum_incs \in Int /\ sum_decs \in Int /\ at_rmb \in Int

CountPlace ==
    /\ f_pc \in {"insmod", "find", "decs", "incs", "sum_first", "sum_second", "done"}
    /\ f_pc \in {"insmod", "find", "decs", "incs"} => cpu = 0 /\ sum_decs = 0
    /\ f_pc \in {"insmod", "find", "decs", "incs", "sum_first"} => sum_incs = 0

FirstLow == f_pc = "sum_first" => sum_decs <= FR!Sums(decs)[cpu]

SecondHigh ==
    f_pc = "sum_second" =>
       sum_incs + (FR!Sums(incs)[NCpu] - FR!Sums(incs)[cpu]) - sum_decs >= at_rmb

ForceInv == CountTypes /\ CountPlace /\ FirstLow /\ SecondHigh /\ FR!CountNotLow

LEMMA TotalType == ASSUME CountTypes PROVE FR!Total \in Int
  <1>1. NCpu \in 0 .. NCpu
    BY CpusAssumption
  <1>2. FR!Sums(incs)[NCpu] \in Int /\ FR!Sums(decs)[NCpu] \in Int
    BY <1>1, SumsAre DEF CountTypes
  <1>3. QED
    BY <1>2 DEF FR!Total

LEMMA ForceStep == ASSUME ForceInv, [FR!Next]_(FR!vars) PROVE ForceInv'
  <1>0. /\ CountTypes /\ CountPlace /\ FirstLow /\ SecondHigh /\ FR!CountNotLow
        /\ NCpu \in Nat /\ NCpu > 0 /\ NCpu \in 0 .. NCpu
    BY CpusAssumption DEF ForceInv
  <1>a. /\ FR!Sums(incs) \in [0 .. NCpu -> Int] /\ FR!Sums(decs) \in [0 .. NCpu -> Int]
        /\ FR!Sums(incs)[0] = 0 /\ FR!Sums(decs)[0] = 0
        /\ \A n \in 0 .. NCpu - 1 : /\ FR!Sums(incs)[n + 1] = FR!Sums(incs)[n] + incs[n]
                                    /\ FR!Sums(decs)[n + 1] = FR!Sums(decs)[n] + decs[n]
    BY <1>0, SumsAre DEF CountTypes
  <1>1. ASSUME NEW c \in FR!Cpu, FR!try_module_get(c) PROVE ForceInv'
    <2>1. /\ incs' = [incs EXCEPT ![c] = @ + 1]
          /\ UNCHANGED <<f_pc, m_incs, m_decs, decs, cpu, sum_incs, sum_decs, at_rmb>>
      BY <1>1 DEF FR!try_module_get, FR!locals
    <2>2. incs' \in [FR!Cpu -> Int] /\ \A d \in FR!Cpu : incs[d] <= incs'[d]
      BY <1>0, <2>1 DEF CountTypes
    <2>3. CountTypes' /\ CountPlace' /\ FirstLow'
      BY <1>0, <2>1, <2>2 DEF CountTypes, CountPlace, FirstLow
    <2>4. PICK h : h = incs'
      OBVIOUS
    <2>5. /\ FR!Sums(incs)[NCpu] - FR!Sums(incs)[cpu] <= FR!Sums(h)[NCpu] - FR!Sums(h)[cpu]
          /\ FR!Sums(h)[NCpu] \in Int /\ FR!Sums(h)[cpu] \in Int
      <3>1. incs \in [FR!Cpu -> Int] /\ cpu \in 0 .. NCpu /\ NCpu \in cpu .. NCpu
        BY <1>0 DEF CountTypes
      <3>2. h \in [FR!Cpu -> Int] /\ \A d \in FR!Cpu : incs[d] <= h[d]
        BY <2>2, <2>4
      <3>3. QED
        BY <1>0, <3>1, <3>2, SumsAre, SumsGrow
    <2>6. SecondHigh'
      <3>1. cpu \in 0 .. NCpu /\ sum_incs \in Int /\ sum_decs \in Int /\ at_rmb \in Int
        BY <1>0 DEF CountTypes
      <3>2. FR!Sums(incs)[NCpu] \in Int /\ FR!Sums(incs)[cpu] \in Int
        BY <1>0, <1>a, <3>1
      <3>3. f_pc = "sum_second" =>
               sum_incs + (FR!Sums(h)[NCpu] - FR!Sums(h)[cpu]) - sum_decs >= at_rmb
        BY <1>0, <2>5, <3>1, <3>2 DEF SecondHigh
      <3>4. QED
        BY <2>1, <2>4, <3>3 DEF SecondHigh
    <2>7. FR!CountNotLow'
      BY <1>0, <2>1 DEF FR!CountNotLow, FR!Printed
    <2>8. QED
      BY <2>3, <2>6, <2>7 DEF ForceInv
  <1>2. ASSUME NEW c \in FR!Cpu, FR!module_put(c) PROVE ForceInv'
    <2>1. /\ decs' = [decs EXCEPT ![c] = @ + 1]
          /\ UNCHANGED <<f_pc, m_incs, m_decs, incs, cpu, sum_incs, sum_decs, at_rmb>>
      BY <1>2 DEF FR!module_put, FR!locals
    <2>2. decs' \in [FR!Cpu -> Int] /\ \A d \in FR!Cpu : decs[d] <= decs'[d]
      BY <1>0, <2>1 DEF CountTypes
    <2>3. CountTypes' /\ CountPlace' /\ SecondHigh' /\ FR!CountNotLow'
      BY <1>0, <2>1, <2>2 DEF CountTypes, CountPlace, SecondHigh, FR!CountNotLow, FR!Printed
    <2>4. PICK h : h = decs'
      OBVIOUS
    <2>5. cpu \in 0 .. NCpu /\ sum_decs \in Int /\ 0 \in 0 .. NCpu /\ decs \in [FR!Cpu -> Int]
      BY <1>0 DEF CountTypes
    <2>6. FR!Sums(decs)[cpu] <= FR!Sums(h)[cpu] /\ FR!Sums(h)[cpu] \in Int
      <3>1. h \in [FR!Cpu -> Int] /\ \A d \in FR!Cpu : decs[d] <= h[d]
        BY <2>2, <2>4
      <3>2. FR!Sums(h)[0] = 0 /\ FR!Sums(h)[cpu] \in Int /\ FR!Sums(decs)[cpu] \in Int
        BY <1>a, <2>5, <3>1, SumsAre
      <3>3. FR!Sums(decs)[cpu] - FR!Sums(decs)[0] <= FR!Sums(h)[cpu] - FR!Sums(h)[0]
        BY <2>5, <3>1, SumsGrow
      <3>4. QED
        BY <1>a, <3>2, <3>3
    <2>7. f_pc = "sum_first" => sum_decs <= FR!Sums(h)[cpu]
      BY <1>0, <1>a, <2>5, <2>6 DEF FirstLow
    <2>8. FirstLow'
      BY <2>1, <2>4, <2>7 DEF FirstLow
    <2>9. QED
      BY <2>3, <2>8 DEF ForceInv
  <1>3. CASE FR!Insmod
    BY <1>0, <1>3, TotalType DEF FR!Insmod, FR!locals, FR!target, ForceInv, CountTypes, CountPlace,
          FirstLow, SecondHigh, FR!CountNotLow, FR!Printed
  <1>4. CASE FR!FindNothing \/ FR!FindModule
    BY <1>0, <1>4 DEF FR!FindNothing, FR!FindModule, FR!locals, FR!target, ForceInv, CountTypes,
          CountPlace, FirstLow, SecondHigh, FR!CountNotLow, FR!Printed
  <1>5. CASE FR!WriteDecs
    BY <1>0, <1>5 DEF FR!WriteDecs, FR!locals, ForceInv, CountTypes, CountPlace,
          FirstLow, SecondHigh, FR!CountNotLow, FR!Printed
  <1>6. CASE FR!WriteIncs
    <2>1. /\ f_pc = "incs" /\ f_pc' = "sum_first" /\ incs' \in [FR!Cpu -> Int]
          /\ UNCHANGED <<m_incs, m_decs, decs, cpu, sum_incs, sum_decs, at_rmb>>
      BY <1>0, <1>6 DEF FR!WriteIncs, FR!locals, CountTypes
    <2>2. cpu = 0 /\ sum_decs = 0 /\ sum_incs = 0
      BY <1>0, <2>1 DEF CountPlace
    <2>3. FirstLow'
      BY <1>a, <2>1, <2>2 DEF FirstLow
    <2>4. QED
      BY <1>0, <2>1, <2>2, <2>3 DEF ForceInv, CountTypes, CountPlace, SecondHigh, FR!CountNotLow,
            FR!Printed
  <1>7. CASE FR!SumFirst
    <2>1. /\ f_pc = "sum_first" /\ cpu < NCpu /\ cpu' = cpu + 1 /\ sum_decs' = sum_decs + decs[cpu]
          /\ UNCHANGED <<f_pc, m_incs, m_decs, incs, decs, sum_incs, at_rmb>>
      BY <1>7 DEF FR!SumFirst, FR!Add, FR!FirstSum, FR!target
    <2>2. /\ cpu \in 0 .. NCpu - 1 /\ sum_decs \in Int /\ decs[cpu] \in Int
      BY <1>0, <2>1 DEF CountTypes, FR!Cpu
    <2>3. FR!Sums(decs)[cpu + 1] = FR!Sums(decs)[cpu] + decs[cpu] /\ FR!Sums(decs)[cpu] \in Int
      BY <1>0, <1>a, <2>2
    <2>4. sum_decs + decs[cpu] <= FR!Sums(decs)[cpu + 1]
      BY <1>0, <2>1, <2>2, <2>3 DEF FirstLow
    <2>5. FirstLow'
      BY <2>1, <2>4 DEF FirstLow
    <2>6. QED
      BY <1>0, <2>1, <2>2, <2>5 DEF ForceInv, CountTypes, CountPlace, SecondHigh, FR!CountNotLow,
            FR!Printed
  <1>8. CASE FR!smp_rmb
    <2>1. /\ f_pc = "sum_first" /\ cpu = NCpu /\ f_pc' = "sum_second" /\ cpu' = 0
          /\ at_rmb' = FR!Total
          /\ UNCHANGED <<m_incs, m_decs, incs, decs, sum_incs, sum_decs>>
      BY <1>8 DEF FR!smp_rmb, FR!target
    <2>2. /\ FR!Sums(incs)[NCpu] \in Int /\ FR!Sums(decs)[NCpu] \in Int /\ sum_decs \in Int
          /\ sum_incs = 0 /\ sum_decs <= FR!Sums(decs)[NCpu]
          /\ FR!Total = FR!Sums(incs)[NCpu] - FR!Sums(decs)[NCpu]
      BY <1>0, <1>a, <2>1 DEF CountTypes, CountPlace, FirstLow, FR!Total
    <2>3. sum_incs + (FR!Sums(incs)[NCpu] - FR!Sums(incs)[0]) - sum_decs >= FR!Total
      BY <1>a, <2>2
    <2>4. SecondHigh'
      BY <2>1, <2>3 DEF SecondHigh
    <2>5. QED
      BY <1>0, <2>1, <2>4, TotalType DEF ForceInv, CountTypes, CountPlace, FirstLow,
            FR!CountNotLow, FR!Printed
  <1>9. CASE FR!SumSecond
    <2>1. /\ f_pc = "sum_second" /\ cpu < NCpu /\ cpu' = cpu + 1 /\ sum_incs' = sum_incs + incs[cpu]
          /\ UNCHANGED <<f_pc, m_incs, m_decs, incs, decs, sum_decs, at_rmb>>
      BY <1>9 DEF FR!SumSecond, FR!Add, FR!FirstSum, FR!target
    <2>2. /\ cpu \in 0 .. NCpu - 1 /\ sum_incs \in Int /\ incs[cpu] \in Int
          /\ sum_decs \in Int /\ at_rmb \in Int
      BY <1>0, <2>1 DEF CountTypes, FR!Cpu
    <2>3. /\ FR!Sums(incs)[cpu + 1] = FR!Sums(incs)[cpu] + incs[cpu]
          /\ FR!Sums(incs)[cpu] \in Int /\ FR!Sums(incs)[NCpu] \in Int
      BY <1>0, <1>a, <2>2
    <2>4. (sum_incs + incs[cpu]) + (FR!Sums(incs)[NCpu] - FR!Sums(incs)[cpu + 1]) - sum_decs >= at_rmb
      BY <1>0, <2>1, <2>2, <2>3 DEF SecondHigh
    <2>5. SecondHigh'
      BY <2>1, <2>4 DEF SecondHigh
    <2>6. QED
      BY <1>0, <2>1, <2>2, <2>5 DEF ForceInv, CountTypes, CountPlace, FirstLow, FR!CountNotLow,
            FR!Printed
  <1>10. CASE FR!PrintCount
    <2>1. /\ f_pc = "sum_second" /\ cpu = NCpu /\ f_pc' = "done"
          /\ UNCHANGED <<m_incs, m_decs, incs, decs, cpu, sum_incs, sum_decs, at_rmb>>
      BY <1>10 DEF FR!PrintCount, FR!target, FR!locals
    <2>2. sum_incs - sum_decs >= at_rmb
      <3>1. FR!Sums(incs)[NCpu] \in Int /\ sum_incs \in Int /\ sum_decs \in Int /\ at_rmb \in Int
        BY <1>0, <1>a DEF CountTypes
      <3>2. QED
        BY <1>0, <2>1, <3>1 DEF SecondHigh
    <2>3. QED
      BY <1>0, <2>1, <2>2 DEF ForceInv, CountTypes, CountPlace, FirstLow, SecondHigh,
            FR!CountNotLow, FR!Printed
  <1>11. CASE UNCHANGED FR!vars
    BY <1>0, <1>11 DEF FR!vars, ForceInv, CountTypes, CountPlace, FirstLow, SecondHigh,
          FR!CountNotLow, FR!Printed
  <1>12. QED
    BY <1>1, <1>2, <1>3, <1>4, <1>5, <1>6, <1>7, <1>8, <1>9, <1>10, <1>11
       DEF FR!Next, FR!Users, FR!ForceInit

LEMMA ForceStart == ASSUME FR!Init PROVE ForceInv
  <1>1. CountTypes /\ CountPlace
    BY CpusAssumption DEF FR!Init, CountTypes, CountPlace
  <1>2. QED
    BY <1>1, CpusAssumption DEF FR!Init, ForceInv, FirstLow, SecondHigh, FR!CountNotLow, FR!Printed

-----------------------------------------------------------------------------
(* Every step is one of one module. *)
LEMMA StepOfOne ==
    ASSUME [MCNext]_all
    PROVE  /\ [Next]_vars /\ [DW!Next]_(DW!vars)
           /\ [ND!Next]_(ND!vars) /\ [FR!Next]_(FR!vars)
  <1>0. UNCHANGED force => UNCHANGED FR!vars
    BY DEF force, FR!vars
  <1>1. UNCHANGED deferred => UNCHANGED DW!vars
    BY DEF deferred, DW!vars, DW!load, DW!deferred, DW!thread
  <1>2. UNCHANGED netdev => UNCHANGED ND!vars
    BY DEF netdev, ND!vars
  <1>3. CASE UNCHANGED all
    BY <1>0, <1>1, <1>2, <1>3 DEF all
  <1>4. CASE Device(Next)
    BY <1>0, <1>1, <1>2, <1>4 DEF Device
  <1>5. CASE Deferred(DW!Next)
    BY <1>0, <1>2, <1>5 DEF Deferred
  <1>6. CASE Net(ND!Next)
    BY <1>0, <1>1, <1>6 DEF Net
  <1>7. CASE Removal(FR!Next)
    BY <1>1, <1>2, <1>7 DEF Removal
  <1>8. QED
    BY <1>3, <1>4, <1>5, <1>6, <1>7 DEF MCNext

ModulesInv == DeferredInv /\ ThreadInv /\ NetInv /\ DeviceInv /\ ForceInv

LEMMA ModulesInvHolds == MCSpec => []ModulesInv
  <1>1. MCInit => ModulesInv
    <2>1. DW!Init => DeferredInv /\ ThreadInv
      BY DEF DW!Init, DW!Mechanism, DeferredInv, ThreadInv, Idle
    <2>2. ND!Init => NetInv
      BY DEF ND!Init, NetInv, ND!PollOwned
    <2>3. Init => RegisteredInv
      BY CharDeviceAssumption DEF Init, RegisteredInv, Stages, Program
    <2>4. Init => UsersInv /\ NothingLeft /\ ReadBack
      BY CharDeviceAssumption DEF Init, UsersInv, FileOpen, NothingLeft, ReadBack, Called
    <2>5. QED
      BY <2>1, <2>2, <2>3, <2>4, ForceStart DEF MCInit, ModulesInv, DeviceInv
  <1>2. ModulesInv /\ [MCNext]_all => ModulesInv'
    BY StepOfOne, DeferredStep, NetStep, RegisteredStep, UsersStep, LeftStep,
       ReadBackStep, ForceStep DEF ModulesInv, DeviceInv
  <1>3. QED
    BY <1>1, <1>2, PTL DEF MCSpec

(* A user inside the module's code, or holding an open device, finds the   *)
(* module there, however many users and loads there are.                   *)
THEOREM OpenKeepsModuleHolds == MCSpec => []OpenKeepsModule
  <1>1. ModulesInv => OpenKeepsModule
    BY DEF ModulesInv, DeviceInv, UsersInv, OpenKeepsModule, InUse, FileOpen
  <1>2. QED
    BY <1>1, ModulesInvHolds, PTL

(* Nothing a module scheduled or registered outlives it, but for the       *)
(* windows and the failures that the property names, and removing a device *)
(* module oopses only when its class is one that could not be made.        *)
THEOREM NothingOutlivesModuleHolds == MCSpec => []NothingOutlivesModule
  <1>1. ModulesInv => NothingOutlivesModule
    BY DEF ModulesInv, DeviceInv, DeferredInv, ThreadInv, NetInv, Idle,
           NothingOutlivesModule, DW!Quiet, DW!Mechanism
  <1>2. QED
    BY <1>1, ModulesInvHolds, PTL

(* Whoever waited for the completion finds the result, and a user of the   *)
(* ioctl device finds its own status or that of another user who set it.   *)
THEOREM ResultSeenHolds == MCSpec => []ResultSeen
  <1>1. ModulesInv => ResultSeen
    BY DEF ModulesInv, DeviceInv, ThreadInv, ResultSeen, DW!ResultSeen
  <1>2. QED
    BY <1>1, ModulesInvHolds, PTL

(* The count force_rmmod.c prints is not lower than the count was between  *)
(* its two loops, for any number of CPUs and references that come and go   *)
(* while it adds them up.                                                  *)
THEOREM CountNotLowHolds == MCSpec => []CountNotLow
  <1>1. ModulesInv => CountNotLow
    BY DEF ModulesInv, ForceInv, CountNotLow
  <1>2. QED
    BY <1>1, ModulesInvHolds, PTL
=============================================================================
