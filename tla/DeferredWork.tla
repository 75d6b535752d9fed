---------------------------- MODULE DeferredWork ----------------------------
(***************************************************************************)
(* Five kernel modules that leave work to be done later: timer_list.c,     *)
(* tasklet/tasklet_demo.c, workqueue/demoqueue.c, complete/complete_demo.c *)
(* and task_work/task_work_demo.c.  Each schedules one callback from its   *)
(* init function; what differs is what the exit function waits for before  *)
(* the module's memory goes away.  A behaviour is one load and unload of   *)
(* one of them, rmmod coming from another CPU at any time.                 *)
(***************************************************************************)
EXTENDS Naturals

VARIABLES mechanism,    \* which of the five modules
          pc,           \* "init", "wait", "return": insmod; "live"; "exit",
                        \* "cancelled", "free": rmmod; "absent"
          inserting,    \* insmod's task has not returned to user mode
          pending,      \* the callback is scheduled
          callback,     \* "idle", "running", "updated", "leaving"
          ran,          \* the callback was started
          my_thread, done, shared_resource,   \* of complete_demo.c
          raced         \* del_timer found the callback running

load     == <<mechanism, inserting>>
thread   == <<my_thread, done, shared_resource>>
deferred == <<pending, callback, ran>>
vars     == <<load, pc, deferred, thread, raced>>

Mechanism == {"timer", "tasklet", "work", "completion", "task_work"}

Init == /\ mechanism \in Mechanism
        /\ pc = "init" /\ inserting = TRUE
        /\ pending = FALSE /\ callback = "idle" /\ ran = FALSE
        /\ my_thread = FALSE /\ done = FALSE /\ shared_resource = 0
        /\ raced = FALSE

At(m, l) == mechanism = m /\ pc = l
Goto(l)  == pc' = l

-----------------------------------------------------------------------------
(* The init functions. *)

Schedule(m, l) == /\ At(m, "init") /\ Goto(l)
                  /\ pending' = TRUE
                  /\ UNCHANGED <<load, callback, ran, raced>>

InitFails(m) == /\ At(m, "init") /\ Goto("absent")
                /\ UNCHANGED <<load, deferred, thread, raced>>

TimerInit         == Schedule("timer", "return") /\ UNCHANGED thread
TaskletInit       == Schedule("tasklet", "return") /\ UNCHANGED thread
WorkInit          == Schedule("work", "return") /\ UNCHANGED thread
WorkInitFails     == InitFails("work")
TaskWorkInit      == Schedule("task_work", "return") /\ UNCHANGED thread
TaskWorkInitFails == InitFails("task_work")
ThreadInit        == /\ Schedule("completion", "wait")
                     /\ my_thread' = TRUE
                     /\ UNCHANGED <<done, shared_resource>>
ThreadInitFails   == InitFails("completion")

(* wait_for_completion, and the pointer to the thread is forgotten. *)
Completed == /\ At("completion", "wait") /\ done
             /\ done' = FALSE /\ my_thread' = FALSE
             /\ Goto("return")
             /\ UNCHANGED <<load, deferred, shared_resource, raced>>

InitReturns == /\ pc = "return" /\ Goto("live")
               /\ UNCHANGED <<load, deferred, thread, raced>>

(* insmod's task goes back to user mode, its task work done by then. *)
InsmodReturns == /\ inserting /\ pc \notin {"init", "wait", "return"}
                 /\ mechanism = "task_work" => ~pending /\ callback = "idle"
                 /\ inserting' = FALSE
                 /\ UNCHANGED <<mechanism, pc, deferred, thread, raced>>

-----------------------------------------------------------------------------
(* The callbacks.  The kernel starts one that is scheduled; task work only *)
(* where its task is about to return to user mode.                         *)

Fire == /\ pending /\ callback = "idle"
        /\ mechanism = "task_work" => pc \notin {"init", "return"}
        /\ pending' = FALSE /\ callback' = "running" /\ ran' = TRUE
        /\ UNCHANGED <<load, pc, thread, raced>>

Callback(m, from, to) == /\ mechanism = m /\ callback = from /\ callback' = to
                         /\ UNCHANGED <<load, pc, ran, raced>>

my_timer_callback     == /\ Callback("timer", "running", "leaving")
                         /\ pending' = TRUE
                         /\ UNCHANGED thread
my_tasklet_handler    == Callback("tasklet", "running", "leaving") /\ UNCHANGED <<pending, thread>>
my_work_function      == Callback("work", "running", "leaving") /\ UNCHANGED <<pending, thread>>
my_task_work_callback == Callback("task_work", "running", "leaving") /\ UNCHANGED <<pending, thread>>

(* Mutant of Update: the thread completes before it updates. *)
UpdateLate == /\ Callback("completion", "running", "updated")
              /\ done' = TRUE
              /\ UNCHANGED <<pending, my_thread, shared_resource>>

Update == /\ Callback("completion", "running", "updated")
          /\ shared_resource' = shared_resource + 1
          /\ UNCHANGED <<pending, my_thread, done>>

(* Mutant of Complete: nobody is told. *)
CompleteForgotten == /\ Callback("completion", "updated", "leaving")
                     /\ UNCHANGED <<pending, thread>>

(* complete(); the thread still has a message to print. *)
Complete == /\ Callback("completion", "updated", "leaving")
            /\ done' = TRUE
            /\ UNCHANGED <<pending, my_thread, shared_resource>>

Leave == /\ callback = "leaving" /\ callback' = "idle"
         /\ UNCHANGED <<load, pc, pending, ran, thread, raced>>

-----------------------------------------------------------------------------
(* rmmod and the exit functions. *)

Rmmod == /\ pc = "live" /\ Goto("exit")
         /\ UNCHANGED <<load, deferred, thread, raced>>

(* del_timer disarms the timer and does not wait for its callback. *)
TimerExit == /\ At("timer", "exit") /\ Goto("free")
             /\ pending' = FALSE
             /\ raced' = (callback # "idle")
             /\ UNCHANGED <<load, callback, ran, thread>>

(* Mutant of TaskletExit: nothing waits for the tasklet. *)
TaskletExitAtOnce == /\ At("tasklet", "exit") /\ Goto("free")
                     /\ UNCHANGED <<load, deferred, thread, raced>>

(* tasklet_kill waits for a scheduled tasklet to run and to end. *)
TaskletExit == /\ At("tasklet", "exit") /\ ~pending /\ callback = "idle"
               /\ Goto("free")
               /\ UNCHANGED <<load, deferred, thread, raced>>

(* cancel_work_sync takes the work from the queue, then waits for it. *)
WorkCancel == /\ At("work", "exit") /\ Goto("cancelled")
              /\ pending' = FALSE
              /\ UNCHANGED <<load, callback, ran, thread, raced>>
WorkExit   == /\ At("work", "cancelled") /\ callback = "idle" /\ Goto("free")
              /\ UNCHANGED <<load, deferred, thread, raced>>

(* kthread_stop waits for the thread, if there is a pointer to it. *)
ThreadExit == /\ At("completion", "exit") /\ (my_thread => callback = "idle")
              /\ Goto("free")
              /\ UNCHANGED <<load, deferred, thread, raced>>

TaskWorkExit == /\ At("task_work", "exit") /\ Goto("free")
                /\ UNCHANGED <<load, deferred, thread, raced>>

(* The memory of the module is released. *)
Free == /\ pc = "free" /\ Goto("absent")
        /\ UNCHANGED <<load, deferred, thread, raced>>

-----------------------------------------------------------------------------
Insmod  == \/ TimerInit \/ TaskletInit \/ WorkInit \/ WorkInitFails
           \/ TaskWorkInit \/ TaskWorkInitFails \/ ThreadInit \/ ThreadInitFails
           \/ Completed \/ InitReturns
Exit    == \/ TimerExit \/ TaskletExit \/ WorkCancel \/ WorkExit
           \/ ThreadExit \/ TaskWorkExit \/ Free
Deferred == \/ Fire \/ Leave \/ my_timer_callback \/ my_tasklet_handler
            \/ my_work_function \/ my_task_work_callback \/ Update \/ Complete

Next == Insmod \/ InsmodReturns \/ Rmmod \/ Exit \/ Deferred

-----------------------------------------------------------------------------
(* Properties. *)

(* Once the module is gone its callback neither runs nor is scheduled,     *)
(* with three windows: del_timer met the callback of the timer, which arms *)
(* itself again; the thread that signalled completion is at its last       *)
(* statement; insmod itself is still on its way to its task work.          *)
Quiet ==
    pc = "absent" =>
       \/ ~pending /\ callback = "idle"
       \/ mechanism = "timer" /\ raced
       \/ mechanism = "completion" /\ ~pending /\ callback = "leaving"
       \/ mechanism = "task_work" /\ inserting

(* Whoever waited for the completion finds the resource updated, and the   *)
(* exit function never has a thread to stop.                               *)
ResultSeen ==
    mechanism = "completion" /\ pc \in {"return", "live", "exit"} =>
       shared_resource = 1 /\ ~my_thread

(* insmod and rmmod return, and a scheduled callback runs, unless it is    *)
(* cancelled by the exit of timer_list or demoqueue.                       *)
Settles ==
    /\ pc = "init" ~> pc \in {"live", "absent"}
    /\ pc = "exit" ~> pc = "absent"
    /\ pending /\ mechanism \notin {"timer", "work"} ~> ran
=============================================================================
