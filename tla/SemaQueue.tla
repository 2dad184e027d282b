------------------------------ MODULE SemaQueue ------------------------------
(***************************************************************************)
(* cpp/problems/3_sushi_chefs/2_sema.cpp: the bounded queue that counts    *)
(* its free and its taken places in two counting semaphores and guards the *)
(* std::queue itself with a mutex.                                         *)
(*                                                                         *)
(* The locked blocks of push and pop are one statement each on the queue,  *)
(* so each is one step; acquire, the locked block and release are separate *)
(* steps, between which other threads run.  RingQueue, which implements    *)
(* this module, has the mutex and the steps inside the locked block.       *)
(***************************************************************************)
EXTENDS SushiCounter

VARIABLE q_    \* the dishes in the queue, oldest first

vars == <<q_, free_, taken_, pc, elem>>

(* The types, and the semaphores' ranges (see SushiCounter).               *)
TypeOK ==
  /\ CounterTypeOK({"idle", "acquire", "lock", "release"})
  /\ q_ \in Seq(Dishes)

Init == CounterInit /\ q_ = << >>

-----------------------------------------------------------------------------
(* push                                                                    *)

MakeDish(p) == \E dish \in Dishes :
  /\ Goto(p, "idle", "acquire")
  /\ elem' = [elem EXCEPT ![p] = dish]
  /\ UNCHANGED <<q_, free_, taken_>>

AcquireFree(p) ==
  /\ Goto(p, "acquire", "lock")
  /\ free_ > 0
  /\ free_' = free_ - 1
  /\ UNCHANGED <<q_, taken_, elem>>

Push(p) ==
  /\ Goto(p, "lock", "release")
  /\ q_' = Append(q_, elem[p])
  /\ UNCHANGED <<free_, taken_, elem>>

ReleaseTaken(p) ==
  /\ Goto(p, "release", "idle")
  /\ taken_' = taken_ + 1
  /\ elem' = [elem EXCEPT ![p] = NoDish]
  /\ UNCHANGED <<q_, free_>>

-----------------------------------------------------------------------------
(* pop                                                                     *)

Call(c) ==
  /\ Goto(c, "idle", "acquire")
  /\ UNCHANGED <<q_, free_, taken_, elem>>

(* faulty: pop takes its place back before it holds the mutex *)
AcquireTakenReleasingEarly(c) ==
  /\ Goto(c, "acquire", "lock")
  /\ taken_ > 0
  /\ taken_' = taken_ - 1
  /\ free_' = free_ + 1
  /\ UNCHANGED <<q_, elem>>

AcquireTaken(c) ==
  /\ Goto(c, "acquire", "lock")
  /\ taken_ > 0
  /\ taken_' = taken_ - 1
  /\ UNCHANGED <<q_, free_, elem>>

PopLast(c) ==    \* faulty: pop takes the youngest dish
  /\ Goto(c, "lock", "release")
  /\ elem' = [elem EXCEPT ![c] = q_[Len(q_)]]
  /\ q_' = SubSeq(q_, 1, Len(q_) - 1)
  /\ UNCHANGED <<free_, taken_>>

Pop(c) ==
  /\ Goto(c, "lock", "release")
  /\ elem' = [elem EXCEPT ![c] = Head(q_)]
  /\ q_' = Tail(q_)
  /\ UNCHANGED <<free_, taken_>>

ReleaseFreeForgotten(c) ==    \* faulty: pop never frees its place
  /\ Goto(c, "release", "idle")
  /\ elem' = [elem EXCEPT ![c] = NoDish]
  /\ UNCHANGED <<q_, free_, taken_>>

ReleaseFree(c) ==
  /\ Goto(c, "release", "idle")
  /\ free_' = free_ + 1
  /\ elem' = [elem EXCEPT ![c] = NoDish]
  /\ UNCHANGED <<q_, taken_>>

-----------------------------------------------------------------------------

producer(p) == MakeDish(p) \/ AcquireFree(p) \/ Push(p) \/ ReleaseTaken(p)

consumer(c) == Call(c) \/ AcquireTaken(c) \/ Pop(c) \/ ReleaseFree(c)

Next ==
  \/ \E p \in Producers : producer(p)
  \/ \E c \in Consumers : consumer(c)

Spec == Init /\ [][Next]_vars
-----------------------------------------------------------------------------
(* Properties                                                              *)

At(S, locs) == Cardinality({t \in S : pc[t] \in locs})

(* A token of taken_ is not tied to the dish whose push released it, yet   *)
(* the tokens always cover the queue: every dish is counted by taken_, by  *)
(* a push that has still to release, or by a pop that has still to take    *)
(* it; every free place likewise.  A pop that passed acquire therefore     *)
(* never meets an empty queue and a push never overfills it.               *)
TokensCoverQueue ==
  /\ Len(q_) = taken_ + At(Producers, {"release"}) + At(Consumers, {"lock"})
  /\ size = Len(q_) + free_ + At(Producers, {"lock"}) + At(Consumers, {"release"})

FIFO == INSTANCE BoundedFIFO
          WITH items <- q_, status <- [t \in Threads |-> Status(t)], hand <- elem

(* The queue behaves as one atomic bounded FIFO for its callers.           *)
RefinesFIFO == FIFO!FIFOSpec
=============================================================================
