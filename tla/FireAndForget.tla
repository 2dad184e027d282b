---------------------------- MODULE FireAndForget ----------------------------
(***************************************************************************)
(* cpp/problems/7_thread_pool/1_fire_and_forget.cpp: N workers on one      *)
(* queue; main puts its tasks, each of which adds one to completed, and    *)
(* destroys the pool, whose destructor drains the queue.  The tasks are    *)
(* numbered in the order of their put.                                     *)
(***************************************************************************)
EXTENDS Threading, Sequences

CONSTANTS
  N,           \* workers
  Total        \* tasks

VARIABLES
  tasks_, stopping_,
  task,        \* [worker -> the task it runs, or 0]
  completed

poolVars == <<tasks_, stopping_, task, completed>>

main_thread == <<"main", 0>>
threads_ == {"worker"} \X (1..N)
PoolThreads == threads_ \cup {main_thread}
stop_or_task_cv_ == "stop_or_task_cv_"

Init ==
  /\ pc = [t \in PoolThreads |-> IF t = main_thread THEN "put" ELSE "wait"]
  /\ sem = [s \in {} |-> 0]
  /\ asleep = [c \in {stop_or_task_cv_} |-> {}]
  /\ tasks_ = << >> /\ stopping_ = FALSE
  /\ task = [w \in threads_ |-> 0]
  /\ completed = 0

-----------------------------------------------------------------------------
(* worker                                                                  *)

Wait(w) ==
  /\ ~stopping_ /\ tasks_ = << >>
  /\ Sleep(w, "wait", stop_or_task_cv_)
  /\ UNCHANGED poolVars

ReturnUndrained(w) ==     \* faulty: leaves the queue to nobody
  /\ stopping_
  /\ Move(w, "wait", "returned")
  /\ UNCHANGED poolVars

Return(w) ==
  /\ stopping_ /\ tasks_ = << >>
  /\ Move(w, "wait", "returned")
  /\ UNCHANGED poolVars

Pick(w) ==
  /\ tasks_ # << >>
  /\ Move(w, "wait", "run")
  /\ task' = [task EXCEPT ![w] = Head(tasks_)]
  /\ tasks_' = Tail(tasks_)
  /\ UNCHANGED <<stopping_, completed>>

Run(w) ==
  /\ Move(w, "run", "wait")
  /\ completed' = completed + 1
  /\ task' = [task EXCEPT ![w] = 0]
  /\ UNCHANGED <<tasks_, stopping_>>

worker(w) == Wait(w) \/ Return(w) \/ Pick(w) \/ Run(w)

-----------------------------------------------------------------------------
(* main: the puts, then the destructor                                     *)

Running == {task[w] : w \in {v \in threads_ : pc[v] = "run"}}

PutCount == completed + Cardinality(Running) + Len(tasks_)

put ==
  /\ PutCount < Total /\ ~stopping_
  /\ Move(main_thread, "put", "notify")
  /\ tasks_' = Append(tasks_, PutCount + 1)
  /\ UNCHANGED <<stopping_, task, completed>>

Notify ==
  /\ notify_one(main_thread, stop_or_task_cv_, "notify", "put")
  /\ UNCHANGED poolVars

Stop ==
  /\ PutCount = Total
  /\ Move(main_thread, "put", "notify_all")
  /\ stopping_' = TRUE
  /\ UNCHANGED <<tasks_, task, completed>>

NotifyAll ==
  /\ notify_all(main_thread, stop_or_task_cv_, "notify_all", "join")
  /\ UNCHANGED poolVars

Join ==
  /\ \A w \in threads_ : pc[w] = "returned"
  /\ Move(main_thread, "join", "joined")
  /\ UNCHANGED poolVars

main == put \/ Notify \/ Stop \/ NotifyAll \/ Join

Step(t) == IF t = main_thread THEN main ELSE worker(t)

Spurious ==
  /\ \E w \in threads_ : WakesSpuriously(w, stop_or_task_cv_)
  /\ UNCHANGED poolVars

joined_all == pc[main_thread] = "joined"

-----------------------------------------------------------------------------
(* Properties                                                              *)

Queued == {tasks_[i] : i \in 1..Len(tasks_)}
Finished == (1..PutCount) \ (Queued \cup Running)
Phase == IF joined_all THEN "gone" ELSE IF stopping_ THEN "closed" ELSE "open"

(* While a worker sleeps, there are never more queued tasks than awake     *)
(* workers on their way to the queue and, at the most, one notification    *)
(* still to come; and nobody sleeps once main waits in join.               *)
NobodyForgotten ==
  /\ asleep[stop_or_task_cv_] # {} =>
       Len(tasks_) <= Cardinality({w \in threads_ : At(w, "wait")})
                        + (IF pc[main_thread] = "put" THEN 0 ELSE 1)
  /\ pc[main_thread] \in {"join", "joined"} => asleep[stop_or_task_cv_] = {}
=============================================================================
