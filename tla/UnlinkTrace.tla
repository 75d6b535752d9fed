----------------------------- MODULE UnlinkTrace -----------------------------
(***************************************************************************)
(* eBPF/test.bpf.c: a probe at the entry of do_unlinkat remembers the file *)
(* name in a hash map, a probe at its return reports it to user space.     *)
(* The map's key is the process (tgid), while calls are made by threads,   *)
(* which run on several CPUs at a time.                                    *)
(***************************************************************************)
EXTENDS Integers, Sequences, FiniteSets, Functions

CONSTANTS Thread, Process,
          Tgids,        \* which threads make up a process: one of these
                        \* functions from Thread to Process
          File,         \* file names
          MaxEntries,   \* capacity of infomap (10240 in the code)
          RingSize,     \* events the ring buffer holds
          MaxCalls,     \* bound on the calls of do_unlinkat
          Faults        \* "null_name": a name that cannot be read

VARIABLES tgid,         \* the process of a thread, fixed
          pc,           \* "idle", "unlinking", "reporting"
          name,         \* the file a thread is unlinking
          cached,       \* what its lookup of the map found
          fresh,        \* that element has not been replaced or deleted since
          infomap,      \* a function from some processes to files
          rb,           \* events, a FIFO
          calls         \* calls begun

vars == <<tgid, pc, name, cached, fresh, infomap, rb, calls>>

Init == /\ tgid \in Tgids
        /\ pc = [t \in Thread |-> "idle"]
        /\ name \in [Thread -> File] /\ \A t, u \in Thread : name[t] = name[u]
        /\ cached = name
        /\ fresh = [t \in Thread |-> TRUE]
        /\ infomap = <<>>
        /\ rb = <<>>
        /\ calls = 0

Siblings(t) == {u \in Thread \ {t} : tgid[u] = tgid[t]}

(* Another thread's element is replaced or deleted under its feet. *)
Disturb(t) == fresh' = [u \in Thread |-> fresh[u] /\ u \notin Siblings(t)]

(* bpf_map_update_elem: a new element for the key, unless the map is full. *)
HasRoom(p) == p \in DOMAIN infomap \/ Cardinality(DOMAIN infomap) < MaxEntries
Updated(p, f) == [q \in DOMAIN infomap \cup {p} |-> IF q = p THEN f ELSE infomap[q]]
Deleted(p) == Restrict(infomap, DOMAIN infomap \ {p})

-----------------------------------------------------------------------------
do_unlinkat_entry(t, f) ==
    /\ pc[t] = "idle" /\ calls < MaxCalls
    /\ calls' = calls + 1
    /\ pc' = [pc EXCEPT ![t] = "unlinking"]
    /\ name' = [name EXCEPT ![t] = f]
    /\ \/ /\ HasRoom(tgid[t])
          /\ infomap' = Updated(tgid[t], f)
          /\ Disturb(t)
       \/ /\ ~HasRoom(tgid[t]) \/ "null_name" \in Faults
          /\ UNCHANGED <<infomap, fresh>>
    /\ UNCHANGED <<tgid, cached, rb>>

(* The return probe, up to its lookup.  Without an entry it ends here.     *)
do_unlinkat_exit(t) ==
    /\ pc[t] = "unlinking"
    /\ IF tgid[t] \in DOMAIN infomap
       THEN /\ pc' = [pc EXCEPT ![t] = "reporting"]
            /\ cached' = [cached EXCEPT ![t] = infomap[tgid[t]]]
            /\ fresh' = [fresh EXCEPT ![t] = TRUE]
       ELSE /\ pc' = [pc EXCEPT ![t] = "idle"]
            /\ UNCHANGED <<cached, fresh>>
    /\ UNCHANGED <<tgid, name, infomap, rb, calls>>

(* The name is read through the pointer the lookup returned.  An element   *)
(* that was replaced in the meantime may already hold another entry.       *)
Cached(t) == IF fresh[t] THEN {cached[t]} ELSE {cached[t]} \cup Range(infomap)

(* Mutant of Report: the entry is not deleted if there is no room. *)
ReportKeepsEntry(t) ==
    /\ pc[t] = "reporting"
    /\ IF Len(rb) < RingSize
       THEN /\ \E f \in Cached(t) :
                  rb' = Append(rb, [pid |-> tgid[t], filename |-> f, of |-> t, call |-> name[t]])
            /\ infomap' = Deleted(tgid[t])
       ELSE UNCHANGED <<rb, infomap>>
    /\ Disturb(t)
    /\ pc' = [pc EXCEPT ![t] = "idle"]
    /\ UNCHANGED <<tgid, name, cached, calls>>

(* The rest of the return probe: reserve, fill and submit the event, or    *)
(* drop it if there is no room, and delete the entry.                      *)
Report(t) ==
    /\ pc[t] = "reporting"
    /\ IF Len(rb) < RingSize
       THEN /\ \E f \in Cached(t) :
                  rb' = Append(rb, [pid |-> tgid[t], filename |-> f, of |-> t, call |-> name[t]])
       ELSE UNCHANGED rb
    /\ infomap' = Deleted(tgid[t])
    /\ Disturb(t)
    /\ pc' = [pc EXCEPT ![t] = "idle"]
    /\ UNCHANGED <<tgid, name, cached, calls>>

(* ring_buffer__poll in the user program: handle_event prints the event.   *)
Poll == /\ rb # <<>>
        /\ rb' = Tail(rb)
        /\ UNCHANGED <<tgid, pc, name, cached, fresh, infomap, calls>>

-----------------------------------------------------------------------------
Next == \/ \E t \in Thread : \/ \E f \in File : do_unlinkat_entry(t, f)
                             \/ do_unlinkat_exit(t)
                             \/ Report(t)
        \/ Poll

Spec == Init /\ [][Next]_vars

-----------------------------------------------------------------------------
(* Properties. *)

(* The name in an event of a process with one thread is the one the call   *)
(* was made with, though names can be unreadable, the map can be full,     *)
(* events can be dropped and other processes run at the same time.         *)
EventTruthful ==
    \A k \in DOMAIN rb : Siblings(rb[k].of) = {} => rb[k].filename = rb[k].call

(* Even with several threads in a process nothing stays behind in the map: *)
(* an entry belongs to a process that is inside do_unlinkat.               *)
NoStaleEntry == \A p \in DOMAIN infomap :
                   \E t \in Thread : tgid[t] = p /\ pc[t] # "idle"
=============================================================================
