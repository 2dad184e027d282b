------------------------------ MODULE RingQueue ------------------------------
(***************************************************************************)
(* cpp/problems/3_sushi_chefs/4_sema_ringbuffer.cpp: BlockingRingQ, the    *)
(* semaphore queue over a fixed array.  head_ and tail_ run round the      *)
(* array; each is moved first and wrapped to 0 by the next statement, so   *)
(* for a moment it equals N and only the mutex hides it.                   *)
(***************************************************************************)
EXTENDS SushiCounter

CONSTANT NoOne

ASSUME RingAssumption == NoOne \notin Threads

VARIABLES
  array_,      \* the N slots
  mtx_,        \* the thread that owns the mutex, or NoOne
  head_, tail_

vars == <<array_, mtx_, head_, tail_, free_, taken_, pc, elem>>

N == size

Slots == 0..(N - 1)

Locations == {"idle", "acquire", "lock", "inside", "wrap", "release"}

(* The types, and the ranges: an index leaves the array only as far as N,  *)
(* where the next statement wraps it.                                      *)
TypeOK ==
  /\ CounterTypeOK(Locations)
  /\ array_ \in [Slots -> Dishes \cup {NoDish}]
  /\ mtx_ \in Threads \cup {NoOne}
  /\ head_ \in 0..N
  /\ tail_ \in 0..N

Init ==
  /\ CounterInit
  /\ array_ = [s \in Slots |-> NoDish]
  /\ mtx_ = NoOne
  /\ head_ = 0
  /\ tail_ = 0

Lock(t) ==
  /\ Goto(t, "lock", "inside")
  /\ mtx_ = NoOne
  /\ mtx_' = t
  /\ UNCHANGED <<array_, head_, tail_, free_, taken_, elem>>

Wrap(i) == IF i = N THEN 0 ELSE i

-----------------------------------------------------------------------------
(* push                                                                    *)

MakeDish(p) == \E dish \in Dishes :
  /\ Goto(p, "idle", "acquire")
  /\ elem' = [elem EXCEPT ![p] = dish]
  /\ UNCHANGED <<array_, mtx_, head_, tail_, free_, taken_>>

AcquireFreeUncounted(p) ==    \* faulty: push does not wait for a place
  /\ Goto(p, "acquire", "lock")
  /\ free_' = IF free_ = 0 THEN 0 ELSE free_ - 1
  /\ UNCHANGED <<array_, mtx_, head_, tail_, taken_, elem>>

AcquireFree(p) ==
  /\ Goto(p, "acquire", "lock")
  /\ free_ > 0
  /\ free_' = free_ - 1
  /\ UNCHANGED <<array_, mtx_, head_, tail_, taken_, elem>>

Store(p) ==
  /\ Goto(p, "inside", "wrap")
  /\ array_' = [array_ EXCEPT ![tail_] = elem[p]]
  /\ tail_' = tail_ + 1
  /\ UNCHANGED <<mtx_, head_, free_, taken_, elem>>

WrapTail(p) ==
  /\ Goto(p, "wrap", "release")
  /\ tail_' = Wrap(tail_)
  /\ mtx_' = NoOne
  /\ UNCHANGED <<array_, head_, free_, taken_, elem>>

ReleaseTaken(p) ==
  /\ Goto(p, "release", "idle")
  /\ taken_' = taken_ + 1
  /\ elem' = [elem EXCEPT ![p] = NoDish]
  /\ UNCHANGED <<array_, mtx_, head_, tail_, free_>>

-----------------------------------------------------------------------------
(* pop                                                                     *)

Call(c) ==
  /\ Goto(c, "idle", "acquire")
  /\ UNCHANGED <<array_, mtx_, head_, tail_, free_, taken_, elem>>

AcquireTaken(c) ==
  /\ Goto(c, "acquire", "lock")
  /\ taken_ > 0
  /\ taken_' = taken_ - 1
  /\ UNCHANGED <<array_, mtx_, head_, tail_, free_, elem>>

Take(c) ==
  /\ Goto(c, "inside", "wrap")
  /\ elem' = [elem EXCEPT ![c] = array_[head_]]
  /\ head_' = head_ + 1
  /\ UNCHANGED <<array_, mtx_, tail_, free_, taken_>>

WrapHead(c) ==
  /\ Goto(c, "wrap", "release")
  /\ head_' = Wrap(head_)
  /\ mtx_' = NoOne
  /\ UNCHANGED <<array_, tail_, free_, taken_, elem>>

ReleaseFree(c) ==
  /\ Goto(c, "release", "idle")
  /\ free_' = free_ + 1
  /\ elem' = [elem EXCEPT ![c] = NoDish]
  /\ UNCHANGED <<array_, mtx_, head_, tail_, taken_>>

-----------------------------------------------------------------------------

producer(p) ==
  \/ MakeDish(p) \/ AcquireFree(p) \/ Lock(p) \/ Store(p) \/ WrapTail(p)
  \/ ReleaseTaken(p)

consumer(c) ==
  \/ Call(c) \/ AcquireTaken(c) \/ Lock(c) \/ Take(c) \/ WrapHead(c)
  \/ ReleaseFree(c)

Next ==
  \/ \E p \in Producers : producer(p)
  \/ \E c \in Consumers : consumer(c)

Spec == Init /\ [][Next]_vars
-----------------------------------------------------------------------------
(* Properties                                                              *)

(* A thread inside the locked block never indexes past the array, although *)
(* head_ and tail_ pass through N between the two statements.              *)
IndexInArray ==
  /\ (\E p \in Producers : pc[p] = "inside") => tail_ \in Slots
  /\ (\E c \in Consumers : pc[c] = "inside") => head_ \in Slots

At(S, locs) == Cardinality({t \in S : pc[t] \in locs})

(* The dishes in the ring: those the semaphores and the threads between    *)
(* their semaphore and the array account for, from head_ onwards.          *)
Length == taken_ + At(Producers, {"wrap", "release"})
                 + At(Consumers, {"lock", "inside"})

Contents == [i \in 1..Length |-> array_[(head_ + i - 1) % N]]

(* The location in 2_sema.cpp that corresponds to that of a thread here.   *)
SemaLocation(t) ==
  CASE pc[t] = "inside" -> "lock"
    [] pc[t] = "wrap"   -> "release"
    [] OTHER            -> pc[t]
=============================================================================
