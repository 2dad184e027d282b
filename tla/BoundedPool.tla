----------------------------- MODULE BoundedPool -----------------------------
(***************************************************************************)
(* cpp/problems/7_thread_pool/3_bounded_blocking_pool.cpp: workers and     *)
(* blocking submitters on one bounded queue, with a condition variable for *)
(* each side, and a destructor that stops both.                            *)
(*                                                                         *)
(* Every submitter is a client thread that submits one task of its own,    *)
(* as the std::async of main does; the task bears its submitter's name.    *)
(* The destructor may begin while submitters are blocked, which is what    *)
(* the stopping_ test after the wait is for.  When it returns, the mutex   *)
(* and the condition variables are gone; the model ends there.             *)
(***************************************************************************)
EXTENDS Naturals, Sequences, FiniteSets

CONSTANTS Workers, Submitters, capacity, NoTask, NoOne, Main

Threads == Workers \cup Submitters \cup {Main}

VARIABLES
  tasks_, mtx_, stopping_,
  stop_or_dq_task_cv_,     \* the workers asleep
  stop_or_enq_task_cv_,    \* the submitters asleep
  pc,
  task                     \* the task each worker holds

vars == <<tasks_, mtx_, stopping_, stop_or_dq_task_cv_, stop_or_enq_task_cv_,
          pc, task>>

Locations ==
  {"start", "lock", "locked", "asleep", "relock", "notify", "run", "exited",
   "accepted", "thrown",
   "dtor", "dtor_locked", "notify_workers", "notify_submitters", "join",
   "destroyed"}

(* The types, and the bound: submit never queues more than capacity tasks. *)
TypeOK ==
  /\ tasks_ \in Seq(Submitters) /\ Len(tasks_) <= capacity
  /\ mtx_ \in Threads \cup {NoOne}
  /\ stopping_ \in BOOLEAN
  /\ stop_or_dq_task_cv_ \in SUBSET Workers
  /\ stop_or_enq_task_cv_ \in SUBSET Submitters
  /\ pc \in [Threads -> Locations]
  /\ task \in [Workers -> Submitters \cup {NoTask}]

Init ==
  /\ tasks_ = << >>
  /\ mtx_ = NoOne
  /\ stopping_ = FALSE
  /\ stop_or_dq_task_cv_ = {}
  /\ stop_or_enq_task_cv_ = {}
  /\ pc = [t \in Threads |-> IF t = Main THEN "dtor"
                             ELSE IF t \in Submitters THEN "start" ELSE "lock"]
  /\ task = [w \in Workers |-> NoTask]

destroyed == pc[Main] = "destroyed"

Goto(t, from, to) == ~destroyed /\ pc[t] = from /\ pc' = [pc EXCEPT ![t] = to]

Lock(t) ==
  /\ Goto(t, "lock", "locked") \/ Goto(t, "relock", "locked")
  /\ mtx_ = NoOne
  /\ mtx_' = t
  /\ UNCHANGED <<tasks_, stopping_, stop_or_dq_task_cv_, stop_or_enq_task_cv_, task>>

Release == mtx_' = NoOne

-----------------------------------------------------------------------------
(* worker                                                                  *)

WorkerWait(w) ==
  /\ Goto(w, "locked", "asleep")
  /\ ~stopping_ /\ tasks_ = << >>
  /\ stop_or_dq_task_cv_' = stop_or_dq_task_cv_ \cup {w}
  /\ Release
  /\ UNCHANGED <<tasks_, stopping_, stop_or_enq_task_cv_, task>>

WorkerWakes(w) ==         \* spurious
  /\ Goto(w, "asleep", "relock")
  /\ stop_or_dq_task_cv_' = stop_or_dq_task_cv_ \ {w}
  /\ UNCHANGED <<tasks_, mtx_, stopping_, stop_or_enq_task_cv_, task>>

WorkerExits(w) ==
  /\ Goto(w, "locked", "exited")
  /\ stopping_ /\ tasks_ = << >>
  /\ Release
  /\ UNCHANGED <<tasks_, stopping_, stop_or_dq_task_cv_, stop_or_enq_task_cv_, task>>

TakeTask(w) ==
  /\ Goto(w, "locked", "notify")
  /\ tasks_ # << >>
  /\ task' = [task EXCEPT ![w] = Head(tasks_)]
  /\ tasks_' = Tail(tasks_)
  /\ Release
  /\ UNCHANGED <<stopping_, stop_or_dq_task_cv_, stop_or_enq_task_cv_>>

NotifySubmitter(w) ==
  /\ ~destroyed
  /\ \/ /\ stop_or_enq_task_cv_ = {}
        /\ Goto(w, "notify", "run")
        /\ UNCHANGED stop_or_enq_task_cv_
     \/ \E s \in stop_or_enq_task_cv_ :
          /\ pc[w] = "notify"
          /\ pc' = [pc EXCEPT ![w] = "run", ![s] = "relock"]
          /\ stop_or_enq_task_cv_' = stop_or_enq_task_cv_ \ {s}
  /\ UNCHANGED <<tasks_, mtx_, stopping_, stop_or_dq_task_cv_, task>>

RunTask(w) ==
  /\ Goto(w, "run", "lock")
  /\ task' = [task EXCEPT ![w] = NoTask]
  /\ UNCHANGED <<tasks_, mtx_, stopping_, stop_or_dq_task_cv_, stop_or_enq_task_cv_>>

-----------------------------------------------------------------------------
(* submit                                                                  *)

HasSpace == Len(tasks_) < capacity

Call(s) ==
  /\ Goto(s, "start", "lock")
  /\ UNCHANGED <<tasks_, mtx_, stopping_, stop_or_dq_task_cv_, stop_or_enq_task_cv_, task>>

SubmitWait(s) ==
  /\ Goto(s, "locked", "asleep")
  /\ ~stopping_ /\ ~HasSpace
  /\ stop_or_enq_task_cv_' = stop_or_enq_task_cv_ \cup {s}
  /\ Release
  /\ UNCHANGED <<tasks_, stopping_, stop_or_dq_task_cv_, task>>

SubmitterWakes(s) ==      \* spurious
  /\ Goto(s, "asleep", "relock")
  /\ stop_or_enq_task_cv_' = stop_or_enq_task_cv_ \ {s}
  /\ UNCHANGED <<tasks_, mtx_, stopping_, stop_or_dq_task_cv_, task>>

SubmitThrows(s) ==
  /\ Goto(s, "locked", "thrown")
  /\ stopping_
  /\ Release
  /\ UNCHANGED <<tasks_, stopping_, stop_or_dq_task_cv_, stop_or_enq_task_cv_, task>>

EnqueueUnchecked(s) ==    \* faulty: no stopping_ test after the wait
  /\ Goto(s, "locked", "notify")
  /\ stopping_ \/ HasSpace
  /\ tasks_' = Append(tasks_, s)
  /\ Release
  /\ UNCHANGED <<stopping_, stop_or_dq_task_cv_, stop_or_enq_task_cv_, task>>

Enqueue(s) ==
  /\ Goto(s, "locked", "notify")
  /\ ~stopping_ /\ HasSpace
  /\ tasks_' = Append(tasks_, s)
  /\ Release
  /\ UNCHANGED <<stopping_, stop_or_dq_task_cv_, stop_or_enq_task_cv_, task>>

NotifyWorker(s) ==
  /\ ~destroyed
  /\ \/ /\ stop_or_dq_task_cv_ = {}
        /\ Goto(s, "notify", "accepted")
        /\ UNCHANGED stop_or_dq_task_cv_
     \/ \E w \in stop_or_dq_task_cv_ :
          /\ pc[s] = "notify"
          /\ pc' = [pc EXCEPT ![s] = "accepted", ![w] = "relock"]
          /\ stop_or_dq_task_cv_' = stop_or_dq_task_cv_ \ {w}
  /\ UNCHANGED <<tasks_, mtx_, stopping_, stop_or_enq_task_cv_, task>>

-----------------------------------------------------------------------------
(* The destructor                                                          *)

DtorLock ==
  /\ Goto(Main, "dtor", "dtor_locked")
  /\ mtx_ = NoOne
  /\ mtx_' = Main
  /\ UNCHANGED <<tasks_, stopping_, stop_or_dq_task_cv_, stop_or_enq_task_cv_, task>>

DtorStops ==
  /\ Goto(Main, "dtor_locked", "notify_workers")
  /\ stopping_' = TRUE
  /\ Release
  /\ UNCHANGED <<tasks_, stop_or_dq_task_cv_, stop_or_enq_task_cv_, task>>

(* notify_all: Main goes to next and all of asleep back to their mutex.    *)
NotifyAll(asleep, next) ==
  pc' = [t \in Threads |-> IF t = Main THEN next
                           ELSE IF t \in asleep THEN "relock" ELSE pc[t]]

DtorNotifyWorkers ==
  /\ pc[Main] = "notify_workers"
  /\ NotifyAll(stop_or_dq_task_cv_, "notify_submitters")
  /\ stop_or_dq_task_cv_' = {}
  /\ UNCHANGED <<tasks_, mtx_, stopping_, stop_or_enq_task_cv_, task>>

DtorForgetsSubmitters ==  \* faulty: only the workers are woken
  /\ Goto(Main, "notify_submitters", "join")
  /\ UNCHANGED <<tasks_, mtx_, stopping_, stop_or_dq_task_cv_, stop_or_enq_task_cv_, task>>

DtorNotifySubmitters ==
  /\ pc[Main] = "notify_submitters"
  /\ NotifyAll(stop_or_enq_task_cv_, "join")
  /\ stop_or_enq_task_cv_' = {}
  /\ UNCHANGED <<tasks_, mtx_, stopping_, stop_or_dq_task_cv_, task>>

DtorJoined ==
  /\ Goto(Main, "join", "destroyed")
  /\ \A w \in Workers : pc[w] = "exited"
  /\ UNCHANGED <<tasks_, mtx_, stopping_, stop_or_dq_task_cv_, stop_or_enq_task_cv_, task>>

Gone == destroyed /\ UNCHANGED vars

-----------------------------------------------------------------------------

worker(w) ==
  \/ Lock(w) \/ WorkerWait(w) \/ WorkerExits(w) \/ TakeTask(w)
  \/ NotifySubmitter(w) \/ RunTask(w)

submit(s) ==
  \/ Call(s) \/ Lock(s) \/ SubmitWait(s) \/ SubmitThrows(s) \/ Enqueue(s) \/ NotifyWorker(s)

dtor ==
  \/ DtorLock \/ DtorStops \/ DtorNotifyWorkers \/ DtorNotifySubmitters
  \/ DtorJoined

Next ==
  \/ \E w \in Workers : worker(w) \/ WorkerWakes(w)
  \/ \E s \in Submitters : submit(s) \/ SubmitterWakes(s)
  \/ dtor
  \/ Gone

Spec == Init /\ [][Next]_vars
-----------------------------------------------------------------------------
(* Properties                                                              *)

At(S, locs) == Cardinality({t \in S : pc[t] \in locs})

(* While a worker sleeps, there are never more queued tasks than awake     *)
(* workers on their way to the queue and submitters about to notify.       *)
NoTaskForgotten ==
  stop_or_dq_task_cv_ # {} =>
    Len(tasks_) <= At(Workers, {"lock", "relock", "locked"}) + At(Submitters, {"notify"})

(* While the pool is open and a submitter is blocked, there are never more *)
(* free places than awake submitters and workers about to notify one.      *)
NoPlaceForgotten ==
  ~stopping_ /\ stop_or_enq_task_cv_ # {} =>
    capacity - Len(tasks_) <=
      At(Submitters, {"lock", "relock", "locked"}) + At(Workers, {"notify"})

(* Once the destructor waits in join, neither a worker nor a submitter     *)
(* sleeps or can fall asleep on a condition variable about to be           *)
(* destroyed.                                                              *)
NobodySleepsThroughStop ==
  pc[Main] \in {"join", "destroyed"} =>
    /\ stop_or_dq_task_cv_ = {} /\ stop_or_enq_task_cv_ = {}
    /\ \A t \in Threads : pc[t] # "asleep"

(* The state is well typed, the capacity is kept, and no notification is   *)
(* ever missed: of a task, of a free place, or of the stop.                *)
PoolInv ==
  TypeOK /\ NoTaskForgotten /\ NoPlaceForgotten /\ NobodySleepsThroughStop

Held == {w \in Workers : pc[w] \in {"notify", "run"}}

(* The pool as a PoolService; accepted is what submit has queued.          *)
Queued == {tasks_[i] : i \in 1..Len(tasks_)}
Running == {task[w] : w \in Held}
Finished == {s \in Submitters : pc[s] \in {"notify", "accepted"}}
              \ (Queued \cup Running)
Phase == IF destroyed THEN "gone" ELSE IF stopping_ THEN "closed" ELSE "open"

Spurious ==
  \/ \E w \in Workers : WorkerWakes(w)
  \/ \E s \in Submitters : SubmitterWakes(s)

(* Every submit has been answered, by a future or by an exception, or the  *)
(* pool was destroyed under it.                                            *)
Answered == destroyed \/ \A s \in Submitters : pc[s] \in {"accepted", "thrown"}

(* "In case someone is blocked while a stop is sent, throw for that        *)
(* submitter" (Thread pool.md:168): a submitter that was blocked in submit *)
(* has left it, by exception or accepted, before the pool is gone.         *)
NoBlockedSubmitterLeftInside ==
  destroyed => \A s \in Submitters : pc[s] \notin {"asleep", "relock"}
=============================================================================
