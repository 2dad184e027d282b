---------------------------- MODULE BlockingQueue ----------------------------
(***************************************************************************)
(* cpp/problems/3_sushi_chefs/1_mutex_cv.cpp: the bounded queue guarded by *)
(* one mutex and two condition variables, and its wiring: chefs that push  *)
(* for ever and customers that pop for ever.                               *)
(*                                                                         *)
(* A thread waits on a condition variable while it is in that variable's   *)
(* wait set; std::condition_variable may also wake it spuriously.  Woken   *)
(* either way, it must take the mutex again before it re-evaluates the     *)
(* predicate.  notify_one comes after the mutex is released, so other      *)
(* threads run between the change of the queue and its announcement.       *)
(***************************************************************************)
EXTENDS Naturals, Sequences, FiniteSets

(* The people, dishes and places of SushiCounter, with its assumptions.    *)
CONSTANTS Producers, Consumers, Dishes, NoDish, NoOne, size

VARIABLES
  q_,          \* the dishes in the queue, oldest first
  mtx_,        \* the thread that owns the mutex, or NoOne
  cons_cv_,    \* producers asleep until a consumer notifies
  prod_cv_,    \* consumers asleep until a producer notifies
  pc,          \* where each thread stands in push or pop
  elem         \* the argument of push, the result of pop

vars == <<q_, mtx_, cons_cv_, prod_cv_, pc, elem>>

Threads == Producers \cup Consumers

Locations == {"idle", "lock", "locked", "asleep", "unlock", "notify"}

(* The types, and the bound: however many chefs are awake between their    *)
(* wait and their push, the std::queue never holds more than size dishes.  *)
TypeOK ==
  /\ q_ \in Seq(Dishes) /\ Len(q_) <= size
  /\ mtx_ \in Threads \cup {NoOne}
  /\ cons_cv_ \in SUBSET Producers
  /\ prod_cv_ \in SUBSET Consumers
  /\ pc \in [Threads -> Locations]
  /\ elem \in [Threads -> Dishes \cup {NoDish}]

Init ==
  /\ q_ = << >>
  /\ mtx_ = NoOne
  /\ cons_cv_ = {}
  /\ prod_cv_ = {}
  /\ pc = [t \in Threads |-> "idle"]
  /\ elem = [t \in Threads |-> NoDish]

Goto(t, from, to) == pc[t] = from /\ pc' = [pc EXCEPT ![t] = to]

(* std::unique_lock takes the mutex; so does wait() when it returns.       *)
Lock(t) ==
  /\ mtx_ = NoOne
  /\ Goto(t, "lock", "locked")
  /\ mtx_' = t
  /\ UNCHANGED <<q_, cons_cv_, prod_cv_, elem>>

(* The end of the locked block.                                            *)
Unlock(t) ==
  /\ Goto(t, "unlock", "notify")
  /\ mtx_' = NoOne
  /\ UNCHANGED <<q_, cons_cv_, prod_cv_, elem>>

-----------------------------------------------------------------------------
(* push                                                                    *)

HasRoomOffByOne == Len(q_) <= size   \* faulty: one dish too many

HasRoom == Len(q_) < size

MakeDish(p) == \E dish \in Dishes :
  /\ Goto(p, "idle", "lock")
  /\ elem' = [elem EXCEPT ![p] = dish]
  /\ UNCHANGED <<q_, mtx_, cons_cv_, prod_cv_>>

PushWait(p) ==
  /\ Goto(p, "locked", "asleep")
  /\ ~HasRoom
  /\ cons_cv_' = cons_cv_ \cup {p}
  /\ mtx_' = NoOne
  /\ UNCHANGED <<q_, prod_cv_, elem>>

Push(p) ==
  /\ Goto(p, "locked", "unlock")
  /\ HasRoom
  /\ q_' = Append(q_, elem[p])
  /\ UNCHANGED <<mtx_, cons_cv_, prod_cv_, elem>>

NotifyConsumerForgets(p) ==   \* faulty: push returns without notify_one
  /\ Goto(p, "notify", "idle")
  /\ elem' = [elem EXCEPT ![p] = NoDish]
  /\ UNCHANGED <<q_, mtx_, cons_cv_, prod_cv_>>

(* notify_one of a condition variable wakes one of its waiters if there is *)
(* one, and is lost otherwise.                                             *)
NotifyConsumer(p) ==
  /\ pc[p] = "notify"
  /\ IF prod_cv_ = {}
       THEN /\ pc' = [pc EXCEPT ![p] = "idle"]
            /\ UNCHANGED prod_cv_
       ELSE \E c \in prod_cv_ :
              /\ pc' = [pc EXCEPT ![p] = "idle", ![c] = "lock"]
              /\ prod_cv_' = prod_cv_ \ {c}
  /\ elem' = [elem EXCEPT ![p] = NoDish]
  /\ UNCHANGED <<q_, mtx_, cons_cv_>>

WakeProducer(p) ==   \* spurious wake-up
  /\ p \in cons_cv_
  /\ cons_cv_' = cons_cv_ \ {p}
  /\ pc' = [pc EXCEPT ![p] = "lock"]
  /\ UNCHANGED <<q_, mtx_, prod_cv_, elem>>

-----------------------------------------------------------------------------
(* pop                                                                     *)

Call(c) ==
  /\ Goto(c, "idle", "lock")
  /\ UNCHANGED <<q_, mtx_, cons_cv_, prod_cv_, elem>>

PopWait(c) ==
  /\ Goto(c, "locked", "asleep")
  /\ q_ = << >>
  /\ prod_cv_' = prod_cv_ \cup {c}
  /\ mtx_' = NoOne
  /\ UNCHANGED <<q_, cons_cv_, elem>>

PopLeavesDish(c) ==   \* faulty: front() without pop()
  /\ Goto(c, "locked", "unlock")
  /\ q_ # << >>
  /\ elem' = [elem EXCEPT ![c] = Head(q_)]
  /\ UNCHANGED <<q_, mtx_, cons_cv_, prod_cv_>>

Pop(c) ==
  /\ Goto(c, "locked", "unlock")
  /\ q_ # << >>
  /\ elem' = [elem EXCEPT ![c] = Head(q_)]
  /\ q_' = Tail(q_)
  /\ UNCHANGED <<mtx_, cons_cv_, prod_cv_>>

NotifyWrongSide(c) ==   \* faulty: pop notifies the customers' variable
  /\ pc[c] = "notify"
  /\ IF prod_cv_ = {}
       THEN /\ pc' = [pc EXCEPT ![c] = "idle"]
            /\ UNCHANGED prod_cv_
       ELSE \E d \in prod_cv_ :
              /\ pc' = [pc EXCEPT ![c] = "idle", ![d] = "lock"]
              /\ prod_cv_' = prod_cv_ \ {d}
  /\ elem' = [elem EXCEPT ![c] = NoDish]
  /\ UNCHANGED <<q_, mtx_, cons_cv_>>

NotifyProducer(c) ==
  /\ pc[c] = "notify"
  /\ IF cons_cv_ = {}
       THEN /\ pc' = [pc EXCEPT ![c] = "idle"]
            /\ UNCHANGED cons_cv_
       ELSE \E p \in cons_cv_ :
              /\ pc' = [pc EXCEPT ![c] = "idle", ![p] = "lock"]
              /\ cons_cv_' = cons_cv_ \ {p}
  /\ elem' = [elem EXCEPT ![c] = NoDish]   \* the dish is eaten
  /\ UNCHANGED <<q_, mtx_, prod_cv_>>

WakeConsumer(c) ==   \* spurious wake-up
  /\ c \in prod_cv_
  /\ prod_cv_' = prod_cv_ \ {c}
  /\ pc' = [pc EXCEPT ![c] = "lock"]
  /\ UNCHANGED <<q_, mtx_, cons_cv_, elem>>

-----------------------------------------------------------------------------

producer(p) ==
  \/ MakeDish(p) \/ Lock(p) \/ PushWait(p) \/ Push(p) \/ Unlock(p)
  \/ NotifyConsumer(p)

consumer(c) ==
  \/ Call(c) \/ Lock(c) \/ PopWait(c) \/ Pop(c) \/ Unlock(c)
  \/ NotifyProducer(c)

Next ==
  \/ \E p \in Producers : producer(p) \/ WakeProducer(p)
  \/ \E c \in Consumers : consumer(c) \/ WakeConsumer(c)

Spec == Init /\ [][Next]_vars
-----------------------------------------------------------------------------
(* Properties                                                              *)

(* Threads that will evaluate their predicate without being notified.      *)
AwakeConsumers == {c \in Consumers : pc[c] \in {"lock", "locked"}}
AwakeProducers == {p \in Producers : pc[p] \in {"lock", "locked"}}

(* Threads that changed the queue and have not yet announced it.           *)
Announcing(S) == {t \in S : pc[t] \in {"unlock", "notify"}}

(* A notify_one wakes one customer for one dish, after the mutex was       *)
(* released.  While a customer sleeps there are never more dishes in the   *)
(* queue than customers awake to fetch them and chefs about to notify:     *)
(* no wake-up is lost, however the notification is delayed or stolen.      *)
NoDishForgotten ==
  prod_cv_ # {} =>
    Len(q_) <= Cardinality(AwakeConsumers) + Cardinality(Announcing(Producers))

(* The same for the free places and the chefs asleep on cons_cv_.          *)
NoPlaceForgotten ==
  cons_cv_ # {} =>
    size - Len(q_) <=
      Cardinality(AwakeProducers) + Cardinality(Announcing(Consumers))

(* No sleeper of either side is left without the wake-up it needs.         *)
NobodyForgotten == NoDishForgotten /\ NoPlaceForgotten

Status(t) ==
  CASE pc[t] = "idle" -> "idle"
    [] pc[t] \in {"lock", "locked", "asleep"} -> "called"
    [] OTHER -> "done"

FIFO == INSTANCE BoundedFIFO
          WITH items <- q_, status <- [t \in Threads |-> Status(t)], hand <- elem

(* The queue behaves as one atomic bounded FIFO for its callers: push and  *)
(* pop take effect once, in order, and a push never exceeds size.          *)
RefinesFIFO == FIFO!FIFOSpec

Spurious ==
  \/ \E p \in Producers : WakeProducer(p)
  \/ \E c \in Consumers : WakeConsumer(c)

(* Chefs keep pushing and customers keep eating: the two sides are never   *)
(* left asleep while the other has stopped.  Only an endless storm of      *)
(* spurious wake-ups could hold the mutex away from the threads that would *)
(* make progress.                                                          *)
CounterKeepsMoving ==
  \/ []<><<Spurious>>_vars
  \/ /\ []<>(\E c \in Consumers : pc[c] = "notify")
     /\ []<>(\E p \in Producers : pc[p] = "notify")
=============================================================================
