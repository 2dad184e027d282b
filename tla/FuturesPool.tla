----------------------------- MODULE FuturesPool -----------------------------
(***************************************************************************)
(* cpp/problems/7_thread_pool/2_usual_futures_pool.cpp: N workers on one   *)
(* queue under one mutex and one condition variable, a future per task,    *)
(* and a destructor that drains the queue.  1_fire_and_forget.cpp is the   *)
(* same protocol without the futures.                                      *)
(*                                                                         *)
(* main submits the tasks of MainTasks, may get() a future before it goes  *)
(* on, and destroys the pool.  A task in the domain of Child submits       *)
(* another task to the pool while it runs, as the parent task of           *)
(* 4_work_stealing.cpp does; when the pool is stopping, submit throws and  *)
(* the packaged task passes the exception to its own future.               *)
(***************************************************************************)
EXTENDS Naturals, Sequences, FiniteSets

CONSTANTS
  Workers,
  MainTasks,   \* what main submits
  Child,       \* [task -> the task it submits]
  NoTask, NoOne, Main

Tasks == MainTasks \cup {Child[t] : t \in DOMAIN Child}

Threads == Workers \cup {Main}

ASSUME PoolAssumption ==
  /\ IsFiniteSet(Workers) /\ Workers # {}
  /\ IsFiniteSet(Tasks)
  /\ Main \notin Workers
  /\ NoOne \notin Threads
  /\ NoTask \notin Tasks
  /\ DOMAIN Child \subseteq Tasks
  /\ \A t \in DOMAIN Child : Child[t] \notin MainTasks
  /\ \A t, u \in DOMAIN Child : Child[t] = Child[u] => t = u

VARIABLES
  tasks_, mtx_, stopping_,
  stop_or_task_cv_,    \* the workers asleep
  pc,
  task,                \* the task a thread runs, or submits
  future               \* [task -> "none", "pending", "value", "error"]

vars == <<tasks_, mtx_, stopping_, stop_or_task_cv_, pc, task, future>>

Locations ==
  {"loop", "locked", "asleep", "run", "exited",
   "submit", "submit_locked", "notify", "submitted",
   "main", "dtor", "dtor_locked", "notify_all", "join", "destroyed"}

(* The types, and the length of the queue: a task is in it at most once.   *)
TypeOK ==
  /\ tasks_ \in Seq(Tasks) /\ Len(tasks_) <= Cardinality(Tasks)
  /\ mtx_ \in Threads \cup {NoOne}
  /\ stopping_ \in BOOLEAN
  /\ stop_or_task_cv_ \in SUBSET Workers
  /\ pc \in [Threads -> Locations]
  /\ task \in [Threads -> Tasks \cup {NoTask}]
  /\ future \in [Tasks -> {"none", "pending", "value", "error"}]

Init ==
  /\ tasks_ = << >>
  /\ mtx_ = NoOne
  /\ stopping_ = FALSE
  /\ stop_or_task_cv_ = {}
  /\ pc = [t \in Threads |-> IF t = Main THEN "main" ELSE "loop"]
  /\ task = [t \in Threads |-> NoTask]
  /\ future = [t \in Tasks |-> "none"]

Goto(t, from, to) == pc[t] = from /\ pc' = [pc EXCEPT ![t] = to]

Acquire(t) == mtx_ = NoOne /\ mtx_' = t

Release == mtx_' = NoOne

-----------------------------------------------------------------------------
(* worker                                                                  *)

WorkerLock(w) ==          \* at the top of the loop, and after a wake-up
  /\ Goto(w, "loop", "locked")
  /\ Acquire(w)
  /\ UNCHANGED <<tasks_, stopping_, stop_or_task_cv_, task, future>>

WorkerWait(w) ==
  /\ Goto(w, "locked", "asleep")
  /\ ~stopping_ /\ tasks_ = << >>
  /\ stop_or_task_cv_' = stop_or_task_cv_ \cup {w}
  /\ Release
  /\ UNCHANGED <<tasks_, stopping_, task, future>>

WorkerWakes(w) ==         \* spurious
  /\ Goto(w, "asleep", "loop")
  /\ stop_or_task_cv_' = stop_or_task_cv_ \ {w}
  /\ UNCHANGED <<tasks_, mtx_, stopping_, task, future>>

WorkerExits(w) ==
  /\ Goto(w, "locked", "exited")
  /\ stopping_ /\ tasks_ = << >>
  /\ Release
  /\ UNCHANGED <<tasks_, stopping_, stop_or_task_cv_, task, future>>

TakeTask(w) ==
  /\ Goto(w, "locked", "run")
  /\ tasks_ # << >>
  /\ task' = [task EXCEPT ![w] = Head(tasks_)]
  /\ tasks_' = Tail(tasks_)
  /\ Release
  /\ UNCHANGED <<stopping_, stop_or_task_cv_, future>>

(* task(): the packaged task sets its future, whether the function returns *)
(* or throws.                                                              *)
RunTask(w) == \E outcome \in {"value", "error"} :
  /\ Goto(w, "run", "loop")
  /\ task[w] \notin DOMAIN Child
  /\ future' = [future EXCEPT ![task[w]] = outcome]
  /\ task' = [task EXCEPT ![w] = NoTask]
  /\ UNCHANGED <<tasks_, mtx_, stopping_, stop_or_task_cv_>>

(* A task that submits its child ...                                       *)
TaskSubmits(w) ==
  /\ Goto(w, "run", "submit")
  /\ task[w] \in DOMAIN Child
  /\ UNCHANGED <<tasks_, mtx_, stopping_, stop_or_task_cv_, task, future>>

(* ... and returns once the child is queued.                               *)
TaskReturns(w) ==
  /\ w \in Workers
  /\ Goto(w, "submitted", "loop")
  /\ future' = [future EXCEPT ![task[w]] = "value"]
  /\ task' = [task EXCEPT ![w] = NoTask]
  /\ UNCHANGED <<tasks_, mtx_, stopping_, stop_or_task_cv_>>

-----------------------------------------------------------------------------
(* submit, called by main or by a task on a worker                         *)

Submitted(t) == IF t = Main THEN task[t] ELSE Child[task[t]]

SubmitLock(t) ==
  /\ Goto(t, "submit", "submit_locked")
  /\ Acquire(t)
  /\ UNCHANGED <<tasks_, stopping_, stop_or_task_cv_, task, future>>

Enqueue(t) ==
  /\ Goto(t, "submit_locked", "notify")
  /\ ~stopping_
  /\ tasks_' = Append(tasks_, Submitted(t))
  /\ future' = [future EXCEPT ![Submitted(t)] = "pending"]
  /\ Release
  /\ UNCHANGED <<stopping_, stop_or_task_cv_, task>>

(* The exception leaves submit and the task that called it.                *)
SubmitThrows(w) ==
  /\ w \in Workers
  /\ Goto(w, "submit_locked", "loop")
  /\ stopping_
  /\ Release
  /\ future' = [future EXCEPT ![task[w]] = "error"]
  /\ task' = [task EXCEPT ![w] = NoTask]
  /\ UNCHANGED <<tasks_, stopping_, stop_or_task_cv_>>

NotifyOne(t) ==
  /\ \/ /\ stop_or_task_cv_ = {}
        /\ Goto(t, "notify", "submitted")
        /\ UNCHANGED stop_or_task_cv_
     \/ \E w \in stop_or_task_cv_ :
          /\ pc[t] = "notify"
          /\ pc' = [pc EXCEPT ![t] = "submitted", ![w] = "loop"]
          /\ stop_or_task_cv_' = stop_or_task_cv_ \ {w}
  /\ UNCHANGED <<tasks_, mtx_, stopping_, task, future>>

-----------------------------------------------------------------------------
(* main and the destructor                                                 *)

MainSubmits(t) ==
  /\ future[t] = "none"
  /\ Goto(Main, "main", "submit")
  /\ task' = [task EXCEPT ![Main] = t]
  /\ UNCHANGED <<tasks_, mtx_, stopping_, stop_or_task_cv_, future>>

MainGetsFuture ==         \* get() returns the value or throws the error
  /\ Goto(Main, "submitted", "main")
  /\ future[task[Main]] # "pending"
  /\ task' = [task EXCEPT ![Main] = NoTask]
  /\ UNCHANGED <<tasks_, mtx_, stopping_, stop_or_task_cv_, future>>

MainDropsFuture ==        \* goes on without get()
  /\ Goto(Main, "submitted", "main")
  /\ task' = [task EXCEPT ![Main] = NoTask]
  /\ UNCHANGED <<tasks_, mtx_, stopping_, stop_or_task_cv_, future>>

MainLeavesScope ==
  /\ \A t \in MainTasks : future[t] # "none"
  /\ Goto(Main, "main", "dtor")
  /\ UNCHANGED <<tasks_, mtx_, stopping_, stop_or_task_cv_, task, future>>

DtorLock ==
  /\ Goto(Main, "dtor", "dtor_locked")
  /\ Acquire(Main)
  /\ UNCHANGED <<tasks_, stopping_, stop_or_task_cv_, task, future>>

DtorStops ==
  /\ Goto(Main, "dtor_locked", "notify_all")
  /\ stopping_' = TRUE
  /\ Release
  /\ UNCHANGED <<tasks_, stop_or_task_cv_, task, future>>

DtorNotifyAll ==
  /\ pc[Main] = "notify_all"
  /\ pc' = [t \in Threads |-> IF t = Main THEN "join"
                              ELSE IF t \in stop_or_task_cv_ THEN "loop"
                              ELSE pc[t]]
  /\ stop_or_task_cv_' = {}
  /\ UNCHANGED <<tasks_, mtx_, stopping_, task, future>>

DtorJoined ==
  /\ Goto(Main, "join", "destroyed")
  /\ \A w \in Workers : pc[w] = "exited"
  /\ UNCHANGED <<tasks_, mtx_, stopping_, stop_or_task_cv_, task, future>>

MainReturned == pc[Main] = "destroyed" /\ UNCHANGED vars

-----------------------------------------------------------------------------

submit(t) == SubmitLock(t) \/ Enqueue(t) \/ NotifyOne(t)

worker(w) ==
  \/ WorkerLock(w) \/ WorkerWait(w) \/ WorkerExits(w) \/ TakeTask(w)
  \/ RunTask(w) \/ TaskSubmits(w) \/ TaskReturns(w) \/ SubmitThrows(w)
  \/ submit(w)

main ==
  \/ \E t \in MainTasks : MainSubmits(t)
  \/ submit(Main)
  \/ MainGetsFuture \/ MainDropsFuture \/ MainLeavesScope
  \/ DtorLock \/ DtorStops \/ DtorNotifyAll \/ DtorJoined

Next ==
  \/ \E w \in Workers : worker(w) \/ WorkerWakes(w)
  \/ main
  \/ MainReturned

Spec == Init /\ [][Next]_vars
-----------------------------------------------------------------------------
(* Properties                                                              *)

Awake == {w \in Workers : pc[w] \in {"loop", "locked"}}

Notifying == {t \in Threads : pc[t] = "notify"}

(* While a worker sleeps, there are never more queued tasks than awake     *)
(* workers on their way to the queue and submitters about to notify.       *)
NoTaskForgotten ==
  stop_or_task_cv_ # {} => Len(tasks_) <= Cardinality(Awake) + Cardinality(Notifying)

(* Once the destructor waits in join, no worker sleeps or will sleep on    *)
(* the condition variable: the stop was set under the mutex, so no worker  *)
(* can have missed it between its test and its wait.                       *)
NobodySleepsThroughStop ==
  pc[Main] \in {"join", "destroyed"} =>
    stop_or_task_cv_ = {} /\ \A w \in Workers : pc[w] # "asleep"

(* The state is well typed and no notification is ever missed: neither the *)
(* one for a task nor the one for the stop.                                *)
PoolInv == TypeOK /\ NoTaskForgotten /\ NobodySleepsThroughStop

Active == {w \in Workers :
             pc[w] \in {"run", "submit", "submit_locked", "notify", "submitted"}}

(* The pool as a PoolService.                                              *)
Queued == {tasks_[i] : i \in 1..Len(tasks_)}
Running == {task[w] : w \in Active}
Finished == {t \in Tasks : future[t] \in {"value", "error"}}
Phase == IF pc[Main] = "destroyed" THEN "gone"
         ELSE IF stopping_ THEN "closed" ELSE "open"

(* The destructor has returned, and every future is ready: no task was     *)
(* dropped and no promise broken.                                          *)
Stopped == pc[Main] = "destroyed" /\ \A t \in Tasks : future[t] # "pending"
=============================================================================
