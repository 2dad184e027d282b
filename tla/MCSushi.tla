------------------------------- MODULE MCSushi -------------------------------
(***************************************************************************)
(* The bounded queues of cpp/problems/3_sushi_chefs up to the lock-free    *)
(* ones, for TLC: a behaviour is one of the program that is chosen at the  *)
(* start.  One program has the queue on condition variables, two work on   *)
(* the counter of SushiCounter, two on the ring of SPSC; what each         *)
(* pair promises is stated once.                                           *)
(***************************************************************************)
EXTENDS RingQueue

CONSTANTS
  p1, p2, c1, c2,
  slots, Total          \* SPSC

ASSUME SushiMCAssumption == slots \in Nat /\ slots >= 2 /\ Total \in Nat

VARIABLES
  program,
  cv_q, cv_mtx, cons_cv_, prod_cv_, cv_pc, cv_elem,     \* BlockingQueue
  q_,                                                   \* SemaQueue
  slots_, slots_head, slots_tail, ppc, pi, phead,       \* SPSC
  cpc, ci, ctail, popped

CV == INSTANCE BlockingQueue WITH
  q_ <- cv_q, mtx_ <- cv_mtx, pc <- cv_pc, elem <- cv_elem
Std == INSTANCE SemaQueue
Spinning == INSTANCE SPSC WITH
  N <- slots, array_ <- slots_, head_ <- slots_head, tail_ <- slots_tail, elem <- popped
Blocking == INSTANCE SPSCWait WITH
  N <- slots, array_ <- slots_, head_ <- slots_head, tail_ <- slots_tail, elem <- popped

InCV == program = "1_mutex_cv"
InSema == program = "2_sema"
InRing == program = "4_sema_ringbuffer"
InSpin == program = "5_spsc_atomics"
InWait == program = "6_spsc_atomic_wait"

cvVars == <<cv_q, cv_mtx, cons_cv_, prod_cv_, cv_pc, cv_elem>>
ringVars == <<array_, mtx_, head_, tail_>>       \* RingQueue's own variables
counterVars == <<free_, taken_, pc, elem>>
spscVars == <<slots_, slots_head, slots_tail, ppc, pi, phead, cpc, ci, ctail, popped>>
allVars == <<program, cvVars, q_, ringVars, counterVars, spscVars>>

MCInit ==
  /\ CV!Init /\ Init /\ Std!Init /\ Blocking!Init
  /\ InCV \/ InSema \/ InRing \/ InSpin \/ InWait

(* A step of one program, with what it leaves alone.                       *)
CVRuns(A) == InCV /\ A /\ UNCHANGED <<program, q_, ringVars, counterVars, spscVars>>
SemaRuns(A) == InSema /\ A /\ UNCHANGED <<program, cvVars, ringVars, spscVars>>
RingRuns(A) == InRing /\ A /\ UNCHANGED <<program, cvVars, q_, spscVars>>
SpinRuns(A) == InSpin /\ A /\ UNCHANGED <<program, cvVars, q_, ringVars, counterVars>>
WaitRuns(A) == InWait /\ A /\ UNCHANGED <<program, cvVars, q_, ringVars, counterVars>>

MCNext ==
  \/ CVRuns(CV!Next)
  \/ SemaRuns(Std!Next)
  \/ RingRuns(Next)
  \/ SpinRuns(Spinning!SpinNext)
  \/ WaitRuns(Blocking!Next)

(* Every runnable thread is scheduled; a mutex, a semaphore or notify_one  *)
(* may favour any waiter; a store becomes visible to the other thread's    *)
(* repeated loads in the end; no spurious wake-up is relied upon.          *)
Fair ==
  /\ \A p \in Producers : WF_allVars(CVRuns(CV!producer(p)))
  /\ \A c \in Consumers : WF_allVars(CVRuns(CV!consumer(c)))
  /\ \A p \in Producers :
       WF_allVars(RingRuns(producer(p))) /\ WF_allVars(SemaRuns(Std!producer(p)))
  /\ \A c \in Consumers :
       WF_allVars(RingRuns(consumer(c))) /\ WF_allVars(SemaRuns(Std!consumer(c)))
  /\ WF_allVars(SpinRuns(Spinning!SpinProducer)) /\ WF_allVars(SpinRuns(Spinning!SpinConsumer))
  /\ SF_allVars(SpinRuns(Spinning!LoadHead(slots_head)))
  /\ SF_allVars(SpinRuns(Spinning!LoadTail(slots_tail)))
  /\ WF_allVars(WaitRuns(Blocking!Producer)) /\ WF_allVars(WaitRuns(Blocking!Consumer))

MCSpec == MCInit /\ [][MCNext]_allVars /\ Fair
-----------------------------------------------------------------------------
(* The types of the running program's variables.  The std::queue of        *)
(* 1_mutex_cv.cpp never holds more than size dishes, however many chefs    *)
(* are awake between their wait and their push.  The counter's ring never  *)
(* indexes past its array, although its indices pass through N; the two    *)
(* threads of an SPSC ring never touch one slot at the same time.          *)
ArraysWellUsed ==
  /\ CV!TypeOK
  /\ InSema => Std!TypeOK
  /\ InRing => TypeOK /\ IndexInArray
  /\ InSpin => Spinning!SpinTypeOK
  /\ InWait => Blocking!TypeOK
  /\ Blocking!NoDataRace

(* The queue on condition variables leaves no sleeper of either side       *)
(* without the wake-up it needs (see BlockingQueue).                       *)
NobodyForgotten == CV!NobodyForgotten

(* What SemaQueue says of its state, for either program on the counter.    *)
Sema == INSTANCE SemaQueue WITH
  q_ <- IF InRing THEN Contents ELSE q_,
  pc <- [t \in Threads |-> SemaLocation(t)]

(* A token of taken_ is not tied to the dish whose push released it, yet   *)
(* the tokens always cover the dishes and the free places (see SemaQueue). *)
TokensCoverQueue == Sema!TokensCoverQueue

(* The blocking ring never leaves a sleeper behind (see SPSCWait).         *)
NoLostWakeup == InWait => Blocking!NoLostWakeup

(* 4_sema_ringbuffer.cpp implements 2_sema.cpp: the array with its two     *)
(* wrapping indices behaves as the std::queue.                             *)
RefinesSemaQueue == Sema!Spec

(* The queue on condition variables behaves as one atomic bounded FIFO for *)
(* its callers.                                                            *)
QueueRefinesFIFO == CV!RefinesFIFO

(* Both semaphore queues behave as one atomic bounded FIFO for their       *)
(* callers.                                                                *)
RefinesFIFO == Sema!RefinesFIFO

(* So do both SPSC rings, with one place less than slots (see SPSC).       *)
RefinesRingFIFO == Blocking!RefinesFIFO

(* Neither side of the queue on condition variables is left asleep while   *)
(* the other has stopped (see BlockingQueue).                              *)
CounterKeepsMoving == InCV => CV!CounterKeepsMoving

(* Pushes and pops at the counter go on for ever: no token is lost, so the *)
(* two sides are never all blocked in acquire.  Every element sent through *)
(* an SPSC ring is received, and main returns.                             *)
DishesKeepMoving ==
  LET atCounter == InSema \/ InRing IN
  /\ []<>(atCounter => \E c \in Consumers : pc[c] = "release")
  /\ []<>(atCounter => \E p \in Producers : pc[p] = "release")
  /\ <>(InSpin \/ InWait => ppc = "done" /\ cpc = "done")
=============================================================================
