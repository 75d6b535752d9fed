----------------------------- MODULE ForceRmmod -----------------------------
(***************************************************************************)
(* del_module/force_rmmod.c: overwrite the reference count of another      *)
(* module, so that rmmod takes it, and print the count.  The count is kept *)
(* per CPU, as references taken (incs) and given back (decs), and other    *)
(* tasks take and give back references while the init function runs.       *)
(*                                                                         *)
(* The init function may be moved to another CPU between any two of its    *)
(* steps: it writes with __this_cpu_write and does not disable preemption. *)
(***************************************************************************)
EXTENDS Integers

CONSTANTS NCpu,         \* CPUs are 0 .. NCpu - 1
          MaxGets       \* bound on the references taken

Cpu == 0 .. NCpu - 1

VARIABLES quiet,        \* nobody takes or gives back references after insmod
          pc,           \* "insmod", "find", "decs", "incs", "sum_first", "sum_second", "done"
          m_incs, m_decs, \* parameters of the module
          incs, decs,   \* of the other module, per CPU
          held, gets,   \* references it has lent, and how many it ever lent
          cpu,          \* next CPU of a loop
          sum_incs, sum_decs, \* the local variables incs and decs
          at_rmb        \* history: the count at the time of smp_rmb

vars == <<quiet, pc, m_incs, m_decs, incs, decs, held, gets, cpu, sum_incs, sum_decs, at_rmb>>
target == <<incs, decs, held, gets>>
locals == <<cpu, sum_incs, sum_decs, at_rmb>>

(* A counter added up over the CPUs below each n. *)
Sums(counter) ==
    LET below[n \in 0 .. NCpu] == IF n = 0 THEN 0 ELSE below[n - 1] + counter[n - 1]
    IN  below

Total == Sums(incs)[NCpu] - Sums(decs)[NCpu]

(* Loading the other module took a reference for the time of its init      *)
(* function and gave it back, perhaps on another CPU.                      *)
Init == /\ quiet \in BOOLEAN
        /\ pc = "insmod" /\ m_incs = 0 /\ m_decs = 0
        /\ \E c \in Cpu : incs = [d \in Cpu |-> IF d = c THEN 1 ELSE 0]
        /\ \E c \in Cpu : decs = [d \in Cpu |-> IF d = c THEN 1 ELSE 0]
        /\ held = 0 /\ gets = 0
        /\ cpu = 0 /\ sum_incs = 0 /\ sum_decs = 0 /\ at_rmb = 0

-----------------------------------------------------------------------------
(* Users of the other module, on any CPU. *)
Moving == quiet => pc = "insmod"

try_module_get(c) == /\ Moving /\ gets < MaxGets
                     /\ incs' = [incs EXCEPT ![c] = @ + 1]
                     /\ held' = held + 1 /\ gets' = gets + 1
                     /\ UNCHANGED <<quiet, pc, m_incs, m_decs, decs, locals>>

module_put(c) == /\ Moving /\ held > 0
                 /\ decs' = [decs EXCEPT ![c] = @ + 1]
                 /\ held' = held - 1
                 /\ UNCHANGED <<quiet, pc, m_incs, m_decs, incs, gets, locals>>

(* insmod with the parameters of the README: the count that lsmod shows. *)
Insmod == /\ pc = "insmod" /\ pc' = "find"
          /\ m_incs' = 0 /\ m_decs' = Total
          /\ UNCHANGED <<quiet, target, locals>>

-----------------------------------------------------------------------------
(* force_rmmod_init *)

FindNothing == /\ pc = "find" /\ pc' = "done"
               /\ UNCHANGED <<quiet, m_incs, m_decs, target, locals>>

FindModule == /\ pc = "find" /\ pc' = "decs"
              /\ UNCHANGED <<quiet, m_incs, m_decs, target, locals>>

WriteDecs == /\ pc = "decs" /\ pc' = "incs"
             /\ \E c \in Cpu : decs' = [decs EXCEPT ![c] = m_decs]
             /\ UNCHANGED <<quiet, m_incs, m_decs, incs, held, gets, locals>>

WriteIncs == /\ pc = "incs" /\ pc' = "sum_first"
             /\ \E c \in Cpu : incs' = [incs EXCEPT ![c] = m_incs]
             /\ UNCHANGED <<quiet, m_incs, m_decs, decs, held, gets, locals>>

(* Mutant of FirstSum: the loops are swapped. *)
FirstSumIncs == "incs"

(* What the first of the two loops adds up; the second one adds the other. *)
FirstSum == "decs"

Add(counter) == /\ cpu < NCpu /\ cpu' = cpu + 1
                /\ IF counter = "decs"
                   THEN sum_decs' = sum_decs + decs[cpu] /\ UNCHANGED sum_incs
                   ELSE sum_incs' = sum_incs + incs[cpu] /\ UNCHANGED sum_decs
                /\ UNCHANGED <<quiet, pc, m_incs, m_decs, target, at_rmb>>

SumFirst == pc = "sum_first" /\ Add(FirstSum)

smp_rmb == /\ pc = "sum_first" /\ cpu = NCpu
           /\ pc' = "sum_second" /\ cpu' = 0
           /\ at_rmb' = Total
           /\ UNCHANGED <<quiet, m_incs, m_decs, target, sum_incs, sum_decs>>

SumSecond == pc = "sum_second" /\ Add(IF FirstSum = "decs" THEN "incs" ELSE "decs")

PrintCount == /\ pc = "sum_second" /\ cpu = NCpu
              /\ pc' = "done"
              /\ UNCHANGED <<quiet, m_incs, m_decs, target, locals>>

-----------------------------------------------------------------------------
Users == \E c \in Cpu : try_module_get(c) \/ module_put(c)

ForceInit == \/ Insmod \/ FindNothing \/ FindModule \/ WriteDecs \/ WriteIncs
             \/ SumFirst \/ smp_rmb \/ SumSecond \/ PrintCount

Next == Users \/ ForceInit

Spec == Init /\ [][Next]_vars

-----------------------------------------------------------------------------
(* Properties. *)

Printed == pc = "done" /\ cpu = NCpu

(* Though the two sums are taken one CPU after the other while references  *)
(* come and go, the count that is printed is never lower than the count of *)
(* the counters, as they were overwritten, was between them.               *)
CountNotLow == Printed => sum_incs - sum_decs >= at_rmb

(* Given the count of lsmod as m_decs, that of a module in use, and with   *)
(* nobody taking references, the module leaves the count at 0, so that     *)
(* rmmod takes the other module: the procedure of del_module/README.md.    *)
CountCleared == quiet /\ Printed /\ m_decs > 0 => Total = 0
=============================================================================
