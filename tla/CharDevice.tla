----------------------------- MODULE CharDevice -----------------------------
(***************************************************************************)
(* Four kernel modules with a file for user programs: the character        *)
(* devices driver_demo/driver_demo.c, driver_demo_new.c and                *)
(* ioctl/ioctl_demo.c, and driver_demo/proc_query/proc_demo.c; with the    *)
(* programs driver_demo/main.c and ioctl/main.c that use them, here run by *)
(* several users at once.  A module may be loaded MaxLoads times in a row. *)
(*                                                                         *)
(* What a load leaves registered stays in "left": a class of the same name *)
(* cannot be made again, and a character device that outlives its module   *)
(* refers to freed memory.  "oops" stands for a kernel that dereferenced   *)
(* an error pointer, NULL or freed memory.                                 *)
(***************************************************************************)
EXTENDS Naturals

CONSTANTS User,         \* processes that use the device
          Zero,         \* device_status before anybody set it
          MaxLoads,     \* bound: how often the module is loaded
          FaultSets     \* what may fail in a run: one of these sets of faults

FaultKinds == {"region", "class", "cdev", "device", "memory", "fault"}

ASSUME CharDeviceAssumption ==
    /\ Zero \notin User
    /\ MaxLoads \in Nat
    /\ FaultSets \subseteq SUBSET FaultKinds

VARIABLES program,      \* which of the four modules
          Faults,       \* what may fail
          pc,           \* "absent", "init", "class", "cdev", "device", "live",
                        \* "going", "removing"; or "oops"
          loads,        \* times it was loaded
          registered,   \* of "region", "class", "cdev", "node", "proc"
          left,         \* registered by loads that are over
          user,         \* where each user is: "open", "first", "second",
                        \* "close", "end"
          device_status, \* of ioctl_demo.c; a user sets its own name
          got           \* what a user read

setting == <<program, Faults>>
module  == <<pc, loads, registered, left>>
clients == <<user, device_status, got>>
vars    == <<setting, module, clients>>

Program == {"driver_demo", "driver_demo_new", "ioctl_demo", "proc_demo"}

Init == /\ program \in Program /\ Faults \in FaultSets
        /\ pc = "absent" /\ loads = 0
        /\ registered = {} /\ left = {}
        /\ user = [u \in User |-> "open"]
        /\ device_status = Zero
        /\ got = [u \in User |-> Zero]

At(P, l) == program \in P /\ pc = l
ByHand   == {"driver_demo_new", "ioctl_demo"}

-----------------------------------------------------------------------------
(* insmod.  The data of the module is new in every load. *)

Insmod == /\ pc = "absent" /\ loads < MaxLoads
          /\ pc' = "init" /\ loads' = loads + 1
          /\ device_status' = Zero
          /\ UNCHANGED <<setting, registered, left, user, got>>

Register(S, l) == /\ registered' = registered \cup S
                  /\ pc' = l
                  /\ UNCHANGED <<setting, loads, left, clients>>

(* The module is gone; what it still has registered stays behind. *)
Gone(S) == /\ pc' = "absent"
           /\ left' = left \cup (registered \ S)
           /\ registered' = {}
           /\ UNCHANGED <<setting, loads, clients>>

Oops == /\ pc' = "oops"
        /\ UNCHANGED <<setting, loads, registered, left, clients>>

(* register_chrdev, its result ignored. *)
RegisterChrdev == /\ At({"driver_demo"}, "init")
                  /\ \/ Register({"cdev"}, "live")
                     \/ "region" \in Faults /\ Register({}, "live")

AllocRegion      == At(ByHand, "init") /\ Register({"region"}, "class")
AllocRegionFails == At(ByHand, "init") /\ "region" \in Faults /\ Gone({})

(* class_create returns an error pointer when the name is taken or memory  *)
(* is short; nobody looks.                                                 *)
ClassCreate == /\ At(ByHand, "class")
               /\ \/ "class" \notin left /\ Register({"class"}, "cdev")
                  \/ "class" \in left \cup Faults /\ Register({}, "cdev")

(* From here on the device can be opened, with a node made by hand if     *)
(* device_create makes none.                                               *)
CdevAdd == At(ByHand, "cdev") /\ Register({"cdev"}, "device")

CdevAddFails == /\ At({"driver_demo_new"}, "cdev") /\ "cdev" \in Faults
                /\ Gone({})
CdevAddUndone == /\ At({"ioctl_demo"}, "cdev") /\ "cdev" \in Faults
                 /\ Gone({"region"})

(* device_create, given whatever class_create returned.  It refuses a      *)
(* class that is an error pointer; its result is ignored, so that the      *)
(* module goes live without a node.                                        *)
DeviceCreate == /\ At(ByHand, "device") /\ "class" \in registered
                /\ Register({"node"}, "live")

DeviceCreateFails == /\ At(ByHand, "device")
                     /\ "class" \notin registered \/ "device" \in Faults
                     /\ Register({}, "live")

(* proc_create, its result ignored. *)
ProcCreate == /\ At({"proc_demo"}, "init")
              /\ \/ Register({"proc"}, "live")
                 \/ "memory" \in Faults /\ Register({}, "live")

-----------------------------------------------------------------------------
(* rmmod.  An open character device holds its module (fops.owner); an open *)
(* file of /proc does not, there remove_proc_entry waits for the handlers. *)

(* Mutant of Holders: no owner in the file operations. *)
NoHolders == {}

FileOpen(u) == user[u] \in {"first", "second", "close"}
Holders == IF program = "proc_demo" THEN {} ELSE {u \in User : FileOpen(u)}

Rmmod == /\ pc = "live" /\ Holders = {}
         /\ pc' = "going"
         /\ UNCHANGED <<setting, loads, registered, left, clients>>

(* unregister_chrdev for major 0, which is not the major it was given. *)
UnregisterChrdev == At({"driver_demo"}, "going") /\ Gone({})

(* Region, node, cdev and class are given back.  device_destroy, which     *)
(* does not mind that there is no node, looks for it in the class: an      *)
(* error pointer is dereferenced there, after the region was given back.   *)
Unregister == IF "class" \in registered
              THEN Gone({"region", "node", "cdev", "class"})
              ELSE /\ pc' = "oops"
                   /\ registered' = registered \ {"region"}
                   /\ UNCHANGED <<setting, loads, left, clients>>

ExitNew   == At({"driver_demo_new"}, "going") /\ Unregister
ExitIoctl == At({"ioctl_demo"}, "going") /\ Unregister

(* No read is let in any more: files that are open only wait to be closed. *)
RemoveProcEntry == /\ At({"proc_demo"}, "going")
                   /\ pc' = "removing" /\ registered' = {}
                   /\ user' = [u \in User |-> IF user[u] = "first" THEN "close" ELSE user[u]]
                   /\ UNCHANGED <<setting, loads, left, device_status, got>>
ProcRemoved     == /\ At({"proc_demo"}, "removing")
                   /\ \A u \in User : user[u] # "second"
                   /\ Gone({})

-----------------------------------------------------------------------------
(* The users: open, a first call, a second call, close. *)

UserAt(P, u, l) == program \in P /\ pc # "oops" /\ user[u] = l
Step(u, l) == user' = [user EXCEPT ![u] = l]
Calls(u, l) == Step(u, l) /\ UNCHANGED <<setting, module, device_status, got>>

File == IF program = "proc_demo" THEN "proc" ELSE "cdev"

(* A module on its way out gives no references. *)
Openable == File \in registered /\ (program = "proc_demo" \/ pc # "going")

Open(u) == UserAt(Program, u, "open") /\ Openable /\ Calls(u, "first")

OpenFails(u) == UserAt(Program, u, "open") /\ ~Openable /\ Calls(u, "end")

(* The node of a device that outlived its module. *)
OpenStale(u) == UserAt(Program, u, "open") /\ File \in left /\ Oops

(* device_write: memset before the test for NULL. *)
device_write(u) == /\ UserAt({"driver_demo", "driver_demo_new"}, u, "first")
                   /\ \/ Calls(u, "second")
                      \/ "memory" \in Faults /\ Oops

device_read(u) == /\ UserAt({"driver_demo", "driver_demo_new"}, u, "second")
                  /\ Calls(u, "close")

IoctlSet(u) == /\ UserAt({"ioctl_demo"}, u, "first")
               /\ device_status' = u
               /\ Step(u, "second")
               /\ UNCHANGED <<setting, module, got>>

(* copy_from_user clears what it could not copy. *)
IoctlSetFails(u) == /\ UserAt({"ioctl_demo"}, u, "first") /\ "fault" \in Faults
                    /\ device_status' = Zero
                    /\ Step(u, "close")
                    /\ UNCHANGED <<setting, module, got>>

IoctlGet(u) == /\ UserAt({"ioctl_demo"}, u, "second")
               /\ got' = [got EXCEPT ![u] = device_status]
               /\ Step(u, "close")
               /\ UNCHANGED <<setting, module, device_status>>

IoctlGetFails(u) == /\ UserAt({"ioctl_demo"}, u, "second") /\ "fault" \in Faults
                    /\ Calls(u, "close")

(* seq_read calls the module for every line. *)
ProcRead(u) == UserAt({"proc_demo"}, u, "first") /\ Calls(u, "second")
ProcReadReturns(u) == UserAt({"proc_demo"}, u, "second") /\ Calls(u, "close")

Close(u) == UserAt(Program, u, "close") /\ Calls(u, "end")

-----------------------------------------------------------------------------
Loading == \/ RegisterChrdev \/ AllocRegion \/ AllocRegionFails \/ ClassCreate
           \/ CdevAdd \/ CdevAddFails \/ CdevAddUndone \/ DeviceCreate
           \/ DeviceCreateFails \/ ProcCreate
Leaving == \/ UnregisterChrdev \/ ExitNew \/ ExitIoctl \/ RemoveProcEntry \/ ProcRemoved

Uses(u) == \/ device_write(u) \/ device_read(u) \/ IoctlSet(u) \/ IoctlSetFails(u)
           \/ IoctlGet(u) \/ IoctlGetFails(u) \/ ProcRead(u) \/ ProcReadReturns(u)
           \/ Close(u)

Next == \/ Insmod \/ Loading \/ Rmmod \/ Leaving
        \/ \E u \in User : Open(u) \/ OpenFails(u) \/ OpenStale(u) \/ Uses(u)

Spec == Init /\ [][Next]_vars

-----------------------------------------------------------------------------
(* Properties. *)

(* A user inside the module's code, or holding an open device, finds the   *)
(* module there: loaded, or running its exit function for a read of /proc  *)
(* that is waited for.                                                     *)
InUse(u) == IF program = "proc_demo" THEN user[u] = "second" ELSE FileOpen(u)
OpenKeepsModule ==
    \A u \in User : InUse(u) =>
       pc \in {"device", "live", "oops"}
              \cup IF program = "proc_demo" THEN {"going", "removing"} ELSE {}

(* Loads and unloads leave nothing registered, except driver_demo, which   *)
(* gives the wrong major back, and a cdev_add that failed: driver_demo_new *)
(* then leaves the number and the class, ioctl_demo the class.  A module   *)
(* of these two that goes live without a node can be used and removed, and *)
(* one without a class can be used: only its removal dereferences the bad  *)
(* class, which an earlier load left under the same name or which could    *)
(* not be made.  driver_demo_new also fails when memory is short.          *)
NothingLeft ==
    /\ left # {} => \/ program = "driver_demo" /\ left = {"cdev"}
                    \/ /\ "cdev" \in Faults
                       /\ \/ program = "driver_demo_new" /\ left \subseteq {"region", "class"}
                          \/ program = "ioctl_demo" /\ left = {"class"}
    /\ pc = "oops" => \/ program = "driver_demo" /\ (left # {} \/ "memory" \in Faults)
                      \/ program = "driver_demo_new" /\ "memory" \in Faults
                      \/ /\ program \in ByHand /\ "class" \in Faults \cup left
                         /\ registered \cap {"region", "class", "node"} = {}

(* Between setting and reading the status of ioctl_demo a user finds its   *)
(* own or that of a user who has set it too, or 0 where copying the other  *)
(* user's failed; and what it reads was set by itself or by such a user.   *)
Called(v) == user[v] \in {"second", "close", "end"}
ReadBack ==
    program = "ioctl_demo" =>
       \A u \in User :
          /\ user[u] = "second" =>
               \/ device_status = u
               \/ \E v \in User \ {u} : device_status = v /\ Called(v)
               \/ /\ "fault" \in Faults /\ device_status = Zero
                  /\ \E v \in User \ {u} : user[v] \in {"close", "end"}
          /\ got[u] \in User \ {u} => user[u] \in {"close", "end"} /\ Called(got[u])

(* rmmod, once it was let in, returns. *)
UnloadEnds == pc = "going" ~> pc \in {"absent", "oops"}
=============================================================================
