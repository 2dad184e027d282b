------------------------------- MODULE MCPools -------------------------------
(***************************************************************************)
(* The five thread pools for TLC: a behaviour is one of the program that   *)
(* is chosen at the start; the variables that a program does not have keep *)
(* their initial values.                                                   *)
(*                                                                         *)
(* In the pools with futures main submits t1 and t2, and t1 submits t3     *)
(* while it runs.                                                          *)
(***************************************************************************)
EXTENDS FuturesPool, TLC

CONSTANTS
  w1, w2, w3, t1, t2, t3,
  BoundedWorkers, Submitters, capacity, s1, s2, s3,    \* BoundedPool
  NumWorkers,                                          \* WorkStealing
  ForgetWorkers, Total,                                \* FireAndForget
  size                                                 \* CancellationPool

MCChild == t1 :> t3

VARIABLES
  program,
  stop_or_enq_task_cv_,                                \* BoundedPool
  local_tasks_, local_mutex_, all_queued_tasks_, victim, all_checked,
  sem, asleep,                                         \* Threading
  completed,                                           \* FireAndForget
  local_stop, global_stop_, joined                     \* CancellationPool

Bounded == INSTANCE BoundedPool WITH
  Workers <- BoundedWorkers, stop_or_dq_task_cv_ <- stop_or_task_cv_
Stealing == INSTANCE WorkStealing WITH
  global_tasks_ <- tasks_, global_mtx_ <- mtx_
Forget == INSTANCE FireAndForget WITH N <- ForgetWorkers
Cancel == INSTANCE CancellationPool

ASSUME PoolsAssumption ==
  /\ IsFiniteSet(BoundedWorkers) /\ BoundedWorkers # {}
  /\ IsFiniteSet(Submitters) /\ BoundedWorkers \cap Submitters = {}
  /\ {Main, NoOne} \cap (BoundedWorkers \cup Submitters \cup Stealing!Indices) = {}
  /\ NoTask \notin Submitters
  /\ {capacity, NumWorkers, ForgetWorkers, Total, size} \subseteq Nat \ {0}

stealingOnly == <<local_tasks_, local_mutex_, all_queued_tasks_, victim, all_checked>>
queueVars == <<tasks_, stopping_, task>>
lockVars == <<mtx_, stop_or_task_cv_, future>>
cancelOnly == <<local_stop, global_stop_, joined>>
allVars == <<program, pc, queueVars, lockVars, stop_or_enq_task_cv_, stealingOnly,
             sem, asleep, completed, cancelOnly>>

InFutures == program = "2_usual_futures_pool"
InBounded == program = "3_bounded_blocking_pool"
InStealing == program = "4_work_stealing"
InForget == program = "1_fire_and_forget"
InCancel == program = "5_cancellation"

None == << >>
LockIdle == mtx_ = NoOne /\ stop_or_task_cv_ = {} /\ future = None
BoundedIdle == stop_or_enq_task_cv_ = {}
StealingIdle ==
  /\ local_tasks_ = None /\ local_mutex_ = None /\ all_queued_tasks_ = 0
  /\ victim = None /\ all_checked = None
ThreadsIdle == sem = None /\ asleep = None
ForgetIdle == completed = 0
CancelIdle == local_stop = {} /\ global_stop_ = FALSE /\ joined = {}

MCInit ==
  \/ /\ InFutures /\ Init
     /\ BoundedIdle /\ StealingIdle /\ ThreadsIdle /\ ForgetIdle /\ CancelIdle
  \/ /\ InBounded /\ Bounded!Init /\ future = None
     /\ StealingIdle /\ ThreadsIdle /\ ForgetIdle /\ CancelIdle
  \/ /\ InStealing /\ Stealing!Init
     /\ BoundedIdle /\ ThreadsIdle /\ ForgetIdle /\ CancelIdle
  \/ /\ InForget /\ Forget!Init
     /\ LockIdle /\ BoundedIdle /\ StealingIdle /\ CancelIdle
  \/ /\ InCancel /\ Cancel!Init
     /\ tasks_ = None /\ stopping_ = FALSE /\ task = None
     /\ LockIdle /\ BoundedIdle /\ StealingIdle /\ ForgetIdle

(* A step of one program, with what it leaves alone.                       *)
FuturesRuns(A) ==
  InFutures /\ A /\ UNCHANGED <<program, stop_or_enq_task_cv_, stealingOnly,
                                sem, asleep, completed, cancelOnly>>
BoundedRuns(A) ==
  InBounded /\ A /\ UNCHANGED <<program, future, stealingOnly, sem, asleep,
                                completed, cancelOnly>>
StealingRuns(A) ==
  InStealing /\ A /\ UNCHANGED <<program, stop_or_enq_task_cv_, sem, asleep,
                                 completed, cancelOnly>>
ForgetRuns(A) ==
  InForget /\ A /\ UNCHANGED <<program, lockVars, stop_or_enq_task_cv_,
                               stealingOnly, cancelOnly>>
CancelRuns(A) ==
  InCancel /\ A /\ UNCHANGED <<program, queueVars, lockVars, stop_or_enq_task_cv_,
                               stealingOnly, completed>>

Returned ==
  \/ InForget /\ Forget!joined_all
  \/ InCancel /\ Cancel!destroyed

MCNext ==
  \/ FuturesRuns(Next)
  \/ BoundedRuns(Bounded!Next)
  \/ StealingRuns(Stealing!Next)
  \/ ForgetRuns(Forget!Spurious \/ \E t \in Forget!PoolThreads : Forget!Step(t))
  \/ CancelRuns(\E t \in Cancel!CancelThreads : Cancel!Step(t))
  \/ Returned /\ UNCHANGED allVars

(* Every runnable thread is scheduled, and tasks end.  Nothing is assumed  *)
(* of the order in which a mutex is handed over, but in the work-stealing  *)
(* pool: there idle workers spin, and take every mutex again and again     *)
(* while a task is queued that another worker has yet to reach, so weak    *)
(* fairness is too little and no thread may be passed over for ever.  The  *)
(* bounded pool's destructor may never be called, but once begun it goes   *)
(* on; main may cancel all workers or leave that to the destructors.       *)
Fair ==
  /\ WF_allVars(FuturesRuns(main))
  /\ \A w \in Workers : WF_allVars(FuturesRuns(worker(w)))
  /\ WF_allVars(BoundedRuns(Bounded!dtor /\ pc[Main] # "dtor"))
  /\ \A w \in BoundedWorkers : WF_allVars(BoundedRuns(Bounded!worker(w)))
  /\ \A s \in Submitters : WF_allVars(BoundedRuns(Bounded!submit(s)))
  /\ SF_allVars(StealingRuns(Stealing!main))
  /\ \A w \in Stealing!Indices : SF_allVars(StealingRuns(Stealing!worker(w)))
  /\ \A t \in Forget!PoolThreads : WF_allVars(ForgetRuns(Forget!Step(t)))
  /\ \A t \in Cancel!CancelThreads : WF_allVars(CancelRuns(Cancel!Step(t)))

MCSpec == MCInit /\ [][MCNext]_allVars /\ Fair
-----------------------------------------------------------------------------
(* In each pool the state is well typed, bounds are kept, and no           *)
(* notification is missed: of a task, of a free place, or of the stop.     *)
NobodySleepsOverWork ==
  CASE InFutures -> PoolInv
    [] InBounded -> Bounded!PoolInv
    [] InStealing -> Stealing!PoolInv
    [] InForget -> Forget!NobodyForgotten
    [] InCancel -> TRUE

(* The work-stealing pool's counter is exact (see WorkStealing).           *)
CounterFollowsQueues == InStealing => Stealing!CounterFollowsQueues

(* A cancelled worker's data is at rest when it is read or destroyed (see  *)
(* CancellationPool).                                                      *)
StoppedMeansStopped == InCancel => Cancel!StoppedMeansStopped

(* "In case someone is blocked while a stop is sent, throw for that        *)
(* submitter" (see BoundedPool).                                           *)
NoBlockedSubmitterLeftInside == InBounded => Bounded!NoBlockedSubmitterLeftInside

(* The four pools that queue tasks are the service they promise: each      *)
(* accepted task runs once, whichever queues it passes through, none is    *)
(* accepted after the stop, not even from a submit that was blocked when   *)
(* the stop came, and the destructor returns only when all have run.       *)
Service == INSTANCE PoolService WITH
  Tasks <- Tasks \cup Submitters \cup 1..Total,
  queued <- CASE InFutures -> Queued [] InBounded -> Bounded!Queued
              [] InStealing -> Stealing!Queued [] InForget -> Forget!Queued
              [] InCancel -> {},
  running <- CASE InFutures -> Running [] InBounded -> Bounded!Running
               [] InStealing -> Stealing!Running [] InForget -> Forget!Running
               [] InCancel -> {},
  finished <- CASE InFutures -> Finished [] InBounded -> Bounded!Finished
                [] InStealing -> Stealing!Finished [] InForget -> Forget!Finished
                [] InCancel -> {},
  phase <- CASE InFutures -> Phase [] InBounded -> Bounded!Phase
             [] InStealing -> Stealing!Phase [] InForget -> Forget!Phase
             [] InCancel -> "open"
RefinesService == Service!ServiceSpec

(* A thread is woken again and again for no reason.                        *)
WokenForEver ==
  []<><<\/ FuturesRuns(\E w \in Workers : WorkerWakes(w))
        \/ BoundedRuns(Bounded!Spurious)
        \/ StealingRuns(\E w \in Stealing!Indices : Stealing!WorkerWakes(w))>>_allVars

(* Three or more idle workers can keep each other in try_steal for ever:   *)
(* each time a thief begins anew, another holds some deque to find it      *)
(* empty.  Two workers cannot.                                             *)
ThievesCollideForEver ==
  []<><<StealingRuns(\E w \in Stealing!Indices : Stealing!StealLockFails(w))>>_allVars

(* The destructors return, and with them every future is ready, even when  *)
(* a parent waits for its child inside a worker; every blocked submit is   *)
(* answered; main's assertion of the count of completed tasks holds; a     *)
(* cancelled pool comes to rest.  Only spurious wake-ups and failing       *)
(* try_locks that never end could keep a queue from a worker for ever.     *)
PoolsStop ==
  \/ WokenForEver
  \/ ThievesCollideForEver
  \/ <>(CASE InFutures -> Stopped
          [] InBounded -> Bounded!Answered
          [] InStealing -> Stealing!Stopped
          [] InForget -> Forget!joined_all /\ completed = Total
          [] InCancel -> Cancel!destroyed)
=============================================================================
