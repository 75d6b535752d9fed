------------------------------- MODULE NetDev -------------------------------
(***************************************************************************)
(* netdev/netdev_demo.c: a virtual network device that polls with NAPI and *)
(* forwards what it is given to a physical one.  The actors are insmod and *)
(* rmmod, whoever sets the interface up and down, the softirq that polls,  *)
(* netpoll, and the network stack that transmits.  Packets are counted.    *)
(***************************************************************************)
EXTENDS Naturals

CONSTANT MaxSent        \* bound: packets handed to the device

VARIABLES pc,           \* "init", "register", "live", "unregister", "del",
                        \* "free", "absent"
          up,           \* the interface is up and its queue started
          stopping,     \* napi_disable waits: for "ifdown", "rmmod" or ""
          napi,         \* "none", "off", "idle", "scheduled", "polling"
          sent,         \* packets given to demo_xmit
          real, refs    \* the physical device, "present", "going" or "gone",
                        \* and references to it taken by demo_xmit

vars == <<pc, up, stopping, napi, sent, real, refs>>

Init == /\ pc = "init" /\ up = FALSE /\ stopping = "" /\ napi = "none"
        /\ sent = 0 /\ real = "present" /\ refs = 0

Goto(from, to) == pc = from /\ pc' = to

-----------------------------------------------------------------------------
(* insmod *)

AllocFails == /\ Goto("init", "absent")
              /\ UNCHANGED <<up, stopping, napi, sent, real, refs>>

NapiAdd == /\ Goto("init", "register")
           /\ napi' = "off"
           /\ UNCHANGED <<up, stopping, sent, real, refs>>

RegisterNetdev == /\ Goto("register", "live")
                  /\ UNCHANGED <<up, stopping, napi, sent, real, refs>>

(* free_netdev takes the NAPI instance with it. *)
RegisterFails == /\ Goto("register", "absent")
                 /\ napi' = "none"
                 /\ UNCHANGED <<up, stopping, sent, real, refs>>

-----------------------------------------------------------------------------
(* The interface.  Opening and stopping exclude each other (rtnl). *)

(* napi_schedule: nothing happens unless NAPI is enabled and idle. *)
Triggered(n) == IF n = "idle" /\ stopping = "" THEN "scheduled" ELSE n

demo_napi_trigger == /\ up
                     /\ napi' = Triggered(napi)
                     /\ UNCHANGED <<pc, up, stopping, sent, real, refs>>

demo_open == /\ pc = "live" /\ ~up /\ stopping = ""
             /\ up' = TRUE
             /\ napi' = Triggered("idle")
             /\ UNCHANGED <<pc, stopping, sent, real, refs>>

(* demo_stop up to napi_disable, called for ifdown or by unregister_netdev. *)
demo_stop(who) == /\ up /\ stopping = ""
                  /\ up' = FALSE /\ stopping' = who
                  /\ UNCHANGED <<pc, napi, sent, real, refs>>

IfDown == pc = "live" /\ demo_stop("ifdown")

Disabled == /\ stopping # "" /\ napi = "idle"
            /\ napi' = "off" /\ stopping' = ""
            /\ UNCHANGED <<pc, up, sent, real, refs>>

-----------------------------------------------------------------------------
(* The softirq and demo_napi_poll. *)

SoftIrq == /\ napi = "scheduled" /\ napi' = "polling"
           /\ UNCHANGED <<pc, up, stopping, sent, real, refs>>

(* The whole budget was used: the kernel polls again, or, when NAPI is to  *)
(* be disabled, completes in the driver's place.                           *)
PollAgain == /\ napi = "polling"
             /\ napi' = IF stopping = "" THEN "scheduled" ELSE "idle"
             /\ UNCHANGED <<pc, up, stopping, sent, real, refs>>

(* No memory for a packet: napi_complete_done. *)
PollDone == /\ napi = "polling" /\ napi' = "idle"
            /\ UNCHANGED <<pc, up, stopping, sent, real, refs>>

-----------------------------------------------------------------------------
(* dev_get_by_name finds a device that is not being removed, and its       *)
(* reference is never given back.                                          *)
demo_xmit == /\ up /\ sent < MaxSent
             /\ sent' = sent + 1
             /\ refs' = IF real = "present" THEN refs + 1 ELSE refs
             /\ UNCHANGED <<pc, up, stopping, napi, real>>

(* The physical device is removed: unlisted, then its references awaited. *)
RealGoing == /\ real = "present" /\ real' = "going"
             /\ UNCHANGED <<pc, up, stopping, napi, sent, refs>>
RealGone  == /\ real = "going" /\ refs = 0 /\ real' = "gone"
             /\ UNCHANGED <<pc, up, stopping, napi, sent, refs>>

-----------------------------------------------------------------------------
(* rmmod: unregister_netdev stops an interface that is up. *)

Rmmod == /\ stopping = "" /\ Goto("live", "unregister")
         /\ UNCHANGED <<up, stopping, napi, sent, real, refs>>

UnregisterStops == pc = "unregister" /\ demo_stop("rmmod")

Unregistered == /\ ~up /\ stopping = "" /\ Goto("unregister", "del")
                /\ UNCHANGED <<up, stopping, napi, sent, real, refs>>

NapiDel == /\ Goto("del", "free")
           /\ napi' = IF napi \in {"off", "idle"} THEN "none" ELSE napi
           /\ UNCHANGED <<up, stopping, sent, real, refs>>

FreeNetdev == /\ Goto("free", "absent")
              /\ UNCHANGED <<up, stopping, napi, sent, real, refs>>

-----------------------------------------------------------------------------
Insmod  == AllocFails \/ NapiAdd \/ RegisterNetdev \/ RegisterFails
Exit    == UnregisterStops \/ Unregistered \/ NapiDel \/ FreeNetdev
Poll    == SoftIrq \/ PollAgain \/ PollDone
Use     == demo_open \/ IfDown \/ demo_napi_trigger \/ demo_xmit \/ RealGoing

Next == Insmod \/ Exit \/ Poll \/ Disabled \/ RealGone \/ Use \/ Rmmod

-----------------------------------------------------------------------------
(* Properties. *)

(* The poll function is scheduled or runs only while the interface is up   *)
(* or being stopped, and never once the NAPI instance is deleted.          *)
PollOwned ==
    /\ napi \in {"scheduled", "polling"} => up \/ stopping # ""
    /\ pc \in {"free", "absent"} => napi = "none"

(* ifdown and rmmod return although the device always has packets; the     *)
(* physical device can be removed as long as no packet was forwarded, and  *)
(* none takes a reference once the removal has begun.                      *)
Settles ==
    /\ stopping # "" ~> stopping = ""
    /\ pc = "unregister" ~> pc = "absent"
    /\ real = "going" /\ refs = 0 ~> real = "gone"
=============================================================================
