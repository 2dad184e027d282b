---------------------------- MODULE WorkStealing ----------------------------
(***************************************************************************)
(* cpp/problems/7_thread_pool/4_work_stealing.cpp: each worker has a deque *)
(* of its own under a mutex of its own; it looks there first (newest       *)
(* task), then steals from the others (oldest task) with try_lock, then    *)
(* takes from the global queue, and sleeps on one condition variable while *)
(* all_queued_tasks_ is zero.  That counter is raised under the global     *)
(* mutex, under which the predicate reads it, but those who take a local   *)
(* task lower it under that deque's mutex only; hence it is atomic.        *)
(*                                                                         *)
(* main submits MainTasks, each with or without get(), and destroys the    *)
(* pool; a task in the domain of Child submits its child to the pool and   *)
(* waits for the child's future, as in the program's main, or drops it.    *)
(***************************************************************************)
EXTENDS Integers, Sequences, FiniteSets

CONSTANTS
  NumWorkers,
  MainTasks,   \* what main submits
  Child,       \* [task -> the task it submits]
  NoTask, NoOne, Main

Indices == 0..(NumWorkers - 1)

Tasks == MainTasks \cup {Child[t] : t \in DOMAIN Child}

Threads == Indices \cup {Main}

VARIABLES
  local_tasks_, local_mutex_,      \* one of each per worker
  global_tasks_, global_mtx_,
  stopping_,
  all_queued_tasks_,
  stop_or_task_cv_,                \* the workers asleep
  pc,
  task,                            \* the task a thread runs, or main submits
  victim, all_checked,             \* the loop variables of try_steal
  future                           \* [task -> "none", "pending", "ready", "error"]

vars == <<local_tasks_, local_mutex_, global_tasks_, global_mtx_, stopping_,
          all_queued_tasks_, stop_or_task_cv_, pc, task, victim, all_checked, future>>

Locations ==
  {"own", "own_locked", "own_count", "steal", "steal_locked", "steal_count",
   "global", "global_locked", "predicate", "asleep", "relock", "run", "exited",
   "submit", "submit_locked", "local_locked", "local_count", "notify", "submitted",
   "main", "dtor", "dtor_locked", "notify_all", "join", "destroyed"}

(* The types, and the range of all_queued_tasks_: a size_t that would wrap *)
(* to a huge value if it were ever decremented at zero.                    *)
TypeOK ==
  /\ local_tasks_ \in [Indices -> Seq(Tasks)]
  /\ local_mutex_ \in [Indices -> Threads \cup {NoOne}]
  /\ global_tasks_ \in Seq(Tasks)
  /\ global_mtx_ \in Threads \cup {NoOne}
  /\ stopping_ \in BOOLEAN
  /\ all_queued_tasks_ \in 0..Cardinality(Tasks)    \* a size_t: never below 0
  /\ stop_or_task_cv_ \in SUBSET Indices
  /\ pc \in [Threads -> Locations]
  /\ task \in [Threads -> Tasks \cup {NoTask}]
  /\ victim \in [Indices -> 0..NumWorkers]
  /\ all_checked \in [Indices -> BOOLEAN]
  /\ future \in [Tasks -> {"none", "pending", "ready", "error"}]

Init ==
  /\ local_tasks_ = [w \in Indices |-> << >>]
  /\ local_mutex_ = [w \in Indices |-> NoOne]
  /\ global_tasks_ = << >>
  /\ global_mtx_ = NoOne
  /\ stopping_ = FALSE
  /\ all_queued_tasks_ = 0
  /\ stop_or_task_cv_ = {}
  /\ pc = [t \in Threads |-> IF t = Main THEN "main" ELSE "own"]
  /\ task = [t \in Threads |-> NoTask]
  /\ victim = [w \in Indices |-> 0]
  /\ all_checked = [w \in Indices |-> FALSE]
  /\ future = [t \in Tasks |-> "none"]

Goto(t, from, to) == pc[t] = from /\ pc' = [pc EXCEPT ![t] = to]

queues == <<local_tasks_, global_tasks_>>
stealVars == <<victim, all_checked>>

AcquireLocal(t, w) ==
  local_mutex_[w] = NoOne /\ local_mutex_' = [local_mutex_ EXCEPT ![w] = t]

ReleaseLocal(w) == local_mutex_' = [local_mutex_ EXCEPT ![w] = NoOne]

AcquireGlobal(t) == global_mtx_ = NoOne /\ global_mtx_' = t

ReleaseGlobal == global_mtx_' = NoOne

-----------------------------------------------------------------------------
(* worker, 1: the newest task of its own deque                             *)

OwnLock(w) ==
  /\ Goto(w, "own", "own_locked")
  /\ AcquireLocal(w, w)
  /\ UNCHANGED <<queues, global_mtx_, stopping_, all_queued_tasks_,
                 stop_or_task_cv_, task, stealVars, future>>

OwnPop(w) ==
  /\ Goto(w, "own_locked", "own_count")
  /\ local_tasks_[w] # << >>
  /\ LET own == local_tasks_[w] IN
       /\ task' = [task EXCEPT ![w] = own[Len(own)]]
       /\ local_tasks_' = [local_tasks_ EXCEPT ![w] = SubSeq(own, 1, Len(own) - 1)]
  /\ UNCHANGED <<local_mutex_, global_tasks_, global_mtx_, stopping_,
                 all_queued_tasks_, stop_or_task_cv_, stealVars, future>>

OwnCount(w) ==
  /\ Goto(w, "own_count", "run")
  /\ all_queued_tasks_' = all_queued_tasks_ - 1
  /\ ReleaseLocal(w)
  /\ UNCHANGED <<queues, global_mtx_, stopping_, stop_or_task_cv_, task,
                 stealVars, future>>

OwnEmpty(w) ==            \* on to try_steal
  /\ Goto(w, "own_locked", "steal")
  /\ local_tasks_[w] = << >>
  /\ ReleaseLocal(w)
  /\ victim' = [victim EXCEPT ![w] = 0]
  /\ all_checked' = [all_checked EXCEPT ![w] = TRUE]
  /\ UNCHANGED <<queues, global_mtx_, stopping_, all_queued_tasks_,
                 stop_or_task_cv_, task, future>>

-----------------------------------------------------------------------------
(* worker, 2: try_steal, the oldest task of another worker                 *)

Advance(w) == victim' = [victim EXCEPT ![w] = @ + 1]

StealSkipsSelf(w) ==
  /\ Goto(w, "steal", "steal")
  /\ victim[w] = w
  /\ Advance(w)
  /\ UNCHANGED <<queues, local_mutex_, global_mtx_, stopping_, all_queued_tasks_,
                 stop_or_task_cv_, task, all_checked, future>>

StealTryLock(w) ==
  /\ Goto(w, "steal", "steal_locked")
  /\ victim[w] \in Indices \ {w}
  /\ AcquireLocal(w, victim[w])
  /\ UNCHANGED <<queues, global_mtx_, stopping_, all_queued_tasks_,
                 stop_or_task_cv_, task, stealVars, future>>

StealLockFails(w) ==
  /\ Goto(w, "steal", "steal")
  /\ victim[w] \in Indices \ {w}
  /\ local_mutex_[victim[w]] # NoOne
  /\ all_checked' = [all_checked EXCEPT ![w] = FALSE]
  /\ Advance(w)
  /\ UNCHANGED <<queues, local_mutex_, global_mtx_, stopping_, all_queued_tasks_,
                 stop_or_task_cv_, task, future>>

StealNothing(w) ==
  /\ Goto(w, "steal_locked", "steal")
  /\ local_tasks_[victim[w]] = << >>
  /\ ReleaseLocal(victim[w])
  /\ Advance(w)
  /\ UNCHANGED <<queues, global_mtx_, stopping_, all_queued_tasks_,
                 stop_or_task_cv_, task, all_checked, future>>

StealPop(w) ==
  /\ Goto(w, "steal_locked", "steal_count")
  /\ local_tasks_[victim[w]] # << >>
  /\ task' = [task EXCEPT ![w] = Head(local_tasks_[victim[w]])]
  /\ local_tasks_' = [local_tasks_ EXCEPT ![victim[w]] = Tail(@)]
  /\ UNCHANGED <<local_mutex_, global_tasks_, global_mtx_, stopping_,
                 all_queued_tasks_, stop_or_task_cv_, stealVars, future>>

StealUncounted(w) ==      \* faulty: a stolen task stays counted as queued
  /\ Goto(w, "steal_count", "run")
  /\ ReleaseLocal(victim[w])
  /\ UNCHANGED <<queues, global_mtx_, stopping_, all_queued_tasks_,
                 stop_or_task_cv_, task, stealVars, future>>

StealCount(w) ==
  /\ Goto(w, "steal_count", "run")
  /\ all_queued_tasks_' = all_queued_tasks_ - 1
  /\ ReleaseLocal(victim[w])
  /\ UNCHANGED <<queues, global_mtx_, stopping_, stop_or_task_cv_, task,
                 stealVars, future>>

StealAgain(w) ==          \* some deque was locked
  /\ Goto(w, "steal", "steal")
  /\ victim[w] = NumWorkers
  /\ ~all_checked[w]
  /\ victim' = [victim EXCEPT ![w] = 0]
  /\ all_checked' = [all_checked EXCEPT ![w] = TRUE]
  /\ UNCHANGED <<queues, local_mutex_, global_mtx_, stopping_, all_queued_tasks_,
                 stop_or_task_cv_, task, future>>

StealGivesUp(w) ==        \* return std::nullopt
  /\ Goto(w, "steal", "global")
  /\ victim[w] = NumWorkers
  /\ all_checked[w]
  /\ UNCHANGED <<queues, local_mutex_, global_mtx_, stopping_, all_queued_tasks_,
                 stop_or_task_cv_, task, stealVars, future>>

-----------------------------------------------------------------------------
(* worker, 3 and 4: the global queue, then wait                            *)

GlobalLock(w) ==
  /\ Goto(w, "global", "global_locked")
  /\ AcquireGlobal(w)
  /\ UNCHANGED <<queues, local_mutex_, stopping_, all_queued_tasks_,
                 stop_or_task_cv_, task, stealVars, future>>

GlobalTake(w) ==
  /\ Goto(w, "global_locked", "run")
  /\ global_tasks_ # << >>
  /\ task' = [task EXCEPT ![w] = Head(global_tasks_)]
  /\ global_tasks_' = Tail(global_tasks_)
  /\ all_queued_tasks_' = all_queued_tasks_ - 1
  /\ ReleaseGlobal
  /\ UNCHANGED <<local_tasks_, local_mutex_, stopping_, stop_or_task_cv_,
                 stealVars, future>>

GlobalEmpty(w) ==
  /\ Goto(w, "global_locked", "predicate")
  /\ global_tasks_ = << >>
  /\ UNCHANGED <<queues, local_mutex_, global_mtx_, stopping_, all_queued_tasks_,
                 stop_or_task_cv_, task, stealVars, future>>

WaitSleeps(w) ==
  /\ Goto(w, "predicate", "asleep")
  /\ ~stopping_ /\ all_queued_tasks_ = 0
  /\ stop_or_task_cv_' = stop_or_task_cv_ \cup {w}
  /\ ReleaseGlobal
  /\ UNCHANGED <<queues, local_mutex_, stopping_, all_queued_tasks_, task,
                 stealVars, future>>

WorkerWakes(w) ==         \* spurious
  /\ Goto(w, "asleep", "relock")
  /\ stop_or_task_cv_' = stop_or_task_cv_ \ {w}
  /\ UNCHANGED <<queues, local_mutex_, global_mtx_, stopping_, all_queued_tasks_,
                 task, stealVars, future>>

WaitRelocks(w) ==
  /\ Goto(w, "relock", "predicate")
  /\ AcquireGlobal(w)
  /\ UNCHANGED <<queues, local_mutex_, stopping_, all_queued_tasks_,
                 stop_or_task_cv_, task, stealVars, future>>

WaitEndsWithTask(w) ==    \* continue
  /\ Goto(w, "predicate", "own")
  /\ all_queued_tasks_ > 0
  /\ ReleaseGlobal
  /\ UNCHANGED <<queues, local_mutex_, stopping_, all_queued_tasks_,
                 stop_or_task_cv_, task, stealVars, future>>

WorkerExits(w) ==
  /\ Goto(w, "predicate", "exited")
  /\ stopping_ /\ all_queued_tasks_ = 0
  /\ ReleaseGlobal
  /\ UNCHANGED <<queues, local_mutex_, stopping_, all_queued_tasks_,
                 stop_or_task_cv_, task, stealVars, future>>

-----------------------------------------------------------------------------
(* worker, 5: run the task                                                 *)

RunTask(w) ==
  /\ Goto(w, "run", "own")
  /\ task[w] \notin DOMAIN Child
  /\ future' = [future EXCEPT ![task[w]] = "ready"]
  /\ task' = [task EXCEPT ![w] = NoTask]
  /\ UNCHANGED <<queues, local_mutex_, global_mtx_, stopping_, all_queued_tasks_,
                 stop_or_task_cv_, stealVars>>

TaskSubmits(w) ==
  /\ Goto(w, "run", "submit")
  /\ task[w] \in DOMAIN Child
  /\ UNCHANGED <<queues, local_mutex_, global_mtx_, stopping_, all_queued_tasks_,
                 stop_or_task_cv_, task, stealVars, future>>

TaskGetsChild(w) ==       \* child.get() returns, and the parent ends
  /\ w \in Indices
  /\ Goto(w, "submitted", "own")
  /\ future[Child[task[w]]] # "pending"
  /\ future' = [future EXCEPT ![task[w]] = "ready"]
  /\ task' = [task EXCEPT ![w] = NoTask]
  /\ UNCHANGED <<queues, local_mutex_, global_mtx_, stopping_, all_queued_tasks_,
                 stop_or_task_cv_, stealVars>>

TaskDropsChild(w) ==      \* the future is dropped, and the parent ends
  /\ w \in Indices
  /\ Goto(w, "submitted", "own")
  /\ future' = [future EXCEPT ![task[w]] = "ready"]
  /\ task' = [task EXCEPT ![w] = NoTask]
  /\ UNCHANGED <<queues, local_mutex_, global_mtx_, stopping_, all_queued_tasks_,
                 stop_or_task_cv_, stealVars>>

-----------------------------------------------------------------------------
(* submit_, called by main or by a task on a worker                        *)

SubmitLock(t) ==
  /\ Goto(t, "submit", "submit_locked")
  /\ AcquireGlobal(t)
  /\ UNCHANGED <<queues, local_mutex_, stopping_, all_queued_tasks_,
                 stop_or_task_cv_, task, stealVars, future>>

SubmitThrows(w) ==        \* out of submit and of the task that called it
  /\ w \in Indices
  /\ Goto(w, "submit_locked", "own")
  /\ stopping_
  /\ ReleaseGlobal
  /\ future' = [future EXCEPT ![task[w]] = "error"]
  /\ task' = [task EXCEPT ![w] = NoTask]
  /\ UNCHANGED <<queues, local_mutex_, stopping_, all_queued_tasks_,
                 stop_or_task_cv_, stealVars>>

SubmitGlobal ==           \* current_worker_ is null: main is the caller
  /\ Goto(Main, "submit_locked", "notify")
  /\ ~stopping_
  /\ global_tasks_' = Append(global_tasks_, task[Main])
  /\ all_queued_tasks_' = all_queued_tasks_ + 1
  /\ future' = [future EXCEPT ![task[Main]] = "pending"]
  /\ ReleaseGlobal
  /\ UNCHANGED <<local_tasks_, local_mutex_, stopping_, stop_or_task_cv_, task,
                 stealVars>>

SubmitLocalLock(w) ==     \* the local mutex, inside the global one
  /\ w \in Indices
  /\ Goto(w, "submit_locked", "local_locked")
  /\ ~stopping_
  /\ AcquireLocal(w, w)
  /\ UNCHANGED <<queues, global_mtx_, stopping_, all_queued_tasks_,
                 stop_or_task_cv_, task, stealVars, future>>

LocalPush(w) ==
  /\ Goto(w, "local_locked", "local_count")
  /\ local_tasks_' = [local_tasks_ EXCEPT ![w] = Append(@, Child[task[w]])]
  /\ future' = [future EXCEPT ![Child[task[w]]] = "pending"]
  /\ UNCHANGED <<local_mutex_, global_tasks_, global_mtx_, stopping_,
                 all_queued_tasks_, stop_or_task_cv_, task, stealVars>>

LocalCount(w) ==
  /\ Goto(w, "local_count", "notify")
  /\ all_queued_tasks_' = all_queued_tasks_ + 1
  /\ ReleaseLocal(w)
  /\ ReleaseGlobal
  /\ UNCHANGED <<queues, stopping_, stop_or_task_cv_, task, stealVars, future>>

NotifyOne(t) ==
  /\ \/ /\ stop_or_task_cv_ = {}
        /\ Goto(t, "notify", "submitted")
        /\ UNCHANGED stop_or_task_cv_
     \/ \E w \in stop_or_task_cv_ :
          /\ pc[t] = "notify"
          /\ pc' = [pc EXCEPT ![t] = "submitted", ![w] = "relock"]
          /\ stop_or_task_cv_' = stop_or_task_cv_ \ {w}
  /\ UNCHANGED <<queues, local_mutex_, global_mtx_, stopping_, all_queued_tasks_,
                 task, stealVars, future>>

-----------------------------------------------------------------------------
(* main and the destructor                                                 *)

unchangedByMain == <<queues, local_mutex_, all_queued_tasks_, stealVars>>

MainSubmits(t) ==
  /\ future[t] = "none"
  /\ Goto(Main, "main", "submit")
  /\ task' = [task EXCEPT ![Main] = t]
  /\ UNCHANGED <<unchangedByMain, global_mtx_, stopping_, stop_or_task_cv_, future>>

MainGetsFuture ==
  /\ Goto(Main, "submitted", "main")
  /\ future[task[Main]] # "pending"
  /\ task' = [task EXCEPT ![Main] = NoTask]
  /\ UNCHANGED <<unchangedByMain, global_mtx_, stopping_, stop_or_task_cv_, future>>

MainDropsFuture ==        \* goes on without get()
  /\ Goto(Main, "submitted", "main")
  /\ task' = [task EXCEPT ![Main] = NoTask]
  /\ UNCHANGED <<unchangedByMain, global_mtx_, stopping_, stop_or_task_cv_, future>>

MainLeavesScope ==
  /\ \A t \in MainTasks : future[t] # "none"
  /\ Goto(Main, "main", "dtor")
  /\ UNCHANGED <<unchangedByMain, global_mtx_, stopping_, stop_or_task_cv_, task, future>>

DtorLock ==
  /\ Goto(Main, "dtor", "dtor_locked")
  /\ AcquireGlobal(Main)
  /\ UNCHANGED <<unchangedByMain, stopping_, stop_or_task_cv_, task, future>>

DtorStops ==
  /\ Goto(Main, "dtor_locked", "notify_all")
  /\ stopping_' = TRUE
  /\ ReleaseGlobal
  /\ UNCHANGED <<unchangedByMain, stop_or_task_cv_, task, future>>

DtorNotifyAll ==
  /\ pc[Main] = "notify_all"
  /\ pc' = [t \in Threads |-> IF t = Main THEN "join"
                              ELSE IF t \in stop_or_task_cv_ THEN "relock"
                              ELSE pc[t]]
  /\ stop_or_task_cv_' = {}
  /\ UNCHANGED <<unchangedByMain, global_mtx_, stopping_, task, future>>

DtorJoined ==
  /\ Goto(Main, "join", "destroyed")
  /\ \A w \in Indices : pc[w] = "exited"
  /\ UNCHANGED <<unchangedByMain, global_mtx_, stopping_, stop_or_task_cv_, task, future>>

MainReturned == pc[Main] = "destroyed" /\ UNCHANGED vars

-----------------------------------------------------------------------------

try_steal(w) ==
  \/ StealSkipsSelf(w) \/ StealTryLock(w) \/ StealLockFails(w) \/ StealNothing(w)
  \/ StealPop(w) \/ StealCount(w) \/ StealAgain(w) \/ StealGivesUp(w)

submit(t) == SubmitLock(t) \/ NotifyOne(t)

worker(w) ==
  \/ OwnLock(w) \/ OwnPop(w) \/ OwnCount(w) \/ OwnEmpty(w)
  \/ try_steal(w)
  \/ GlobalLock(w) \/ GlobalTake(w) \/ GlobalEmpty(w)
  \/ WaitSleeps(w) \/ WaitRelocks(w) \/ WaitEndsWithTask(w) \/ WorkerExits(w)
  \/ RunTask(w) \/ TaskSubmits(w) \/ TaskGetsChild(w) \/ TaskDropsChild(w)
  \/ submit(w) \/ SubmitThrows(w) \/ SubmitLocalLock(w) \/ LocalPush(w)
  \/ LocalCount(w)

main ==
  \/ \E t \in MainTasks : MainSubmits(t)
  \/ submit(Main) \/ SubmitGlobal
  \/ MainGetsFuture \/ MainDropsFuture \/ MainLeavesScope
  \/ DtorLock \/ DtorStops \/ DtorNotifyAll \/ DtorJoined

Next ==
  \/ \E w \in Indices : worker(w) \/ WorkerWakes(w)
  \/ main
  \/ MainReturned

Spec == Init /\ [][Next]_vars
-----------------------------------------------------------------------------
(* Properties                                                              *)

At(S, locs) == Cardinality({t \in S : pc[t] \in locs})

Elements(q) == {q[i] : i \in 1..Len(q)}

(* The tasks in the global queue and in the deques, each in one of them.   *)
Queued ==
  Elements(global_tasks_) \cup UNION {Elements(local_tasks_[w]) : w \in Indices}

(* The counter that decides between sleeping and working is exact but for  *)
(* the threads inside a local mutex between the queue and the counter.  It *)
(* can therefore never pass below zero, which would wrap a size_t and keep *)
(* the workers spinning for ever.                                          *)
CounterFollowsQueues ==
  all_queued_tasks_ = Cardinality(Queued) + At(Indices, {"own_count", "steal_count"})
                                         - At(Indices, {"local_count"})

(* While a worker sleeps, there are never more queued tasks, in whatever   *)
(* queue, than awake workers in search of one and submitters about to      *)
(* notify.                                                                 *)
NoTaskForgotten ==
  stop_or_task_cv_ # {} =>
    Cardinality(Queued)
      <= At(Indices, {"own", "own_locked", "steal", "steal_locked", "global",
                      "global_locked", "predicate", "relock"})
           + At(Threads, {"local_count", "notify"})

(* Once the destructor waits in join, no worker sleeps or will sleep.      *)
NobodySleepsThroughStop ==
  pc[Main] \in {"join", "destroyed"} =>
    stop_or_task_cv_ = {} /\ \A w \in Indices : pc[w] # "asleep"

(* The state is well typed and no notification is ever missed: neither the *)
(* one for a task, in whatever queue, nor the one for the stop.            *)
PoolInv == TypeOK /\ NoTaskForgotten /\ NobodySleepsThroughStop

Active ==
  {w \in Indices : pc[w] \in {"own_count", "steal_count", "run", "submit",
                              "submit_locked", "local_locked", "local_count",
                              "notify", "submitted"}}

(* The pool as a PoolService: a task passes through up to three queues.    *)
Running == {task[w] : w \in Active}
Finished == {t \in Tasks : future[t] \in {"ready", "error"}}
Phase == IF pc[Main] = "destroyed" THEN "gone"
         ELSE IF stopping_ THEN "closed" ELSE "open"

(* The destructor has returned, and every future is ready.                 *)
Stopped == pc[Main] = "destroyed" /\ \A t \in Tasks : future[t] # "pending"
=============================================================================
