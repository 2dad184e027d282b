----------------------------- MODULE GenCounter -----------------------------
(***************************************************************************)
(* cpp/problems/3_sushi_chefs/8_gen_counter_vyukov_mpmc.cpp: the MPMC      *)
(* queue of Vyukov wired to chefs and customers through two generation     *)
(* counters.  A thread loads the counter before it tries the queue; when   *)
(* refused it sleeps in atomic wait while the counter still has the value  *)
(* loaded.  After a success the other side's counter is incremented and    *)
(* one sleeper is notified.                                                *)
(*                                                                         *)
(* atomic wait compares and goes to sleep in one step, wakes by            *)
(* notify_one or spuriously, and compares again.  The counters are         *)
(* unsigned; MaxDishes is far below the 2^32 at which they wrap.           *)
(***************************************************************************)
EXTENDS Vyukov

VARIABLES
  dishes_changed, space_changed,
  version          \* the counter value each thread loaded

vars == <<tail_, head_, seq, data, pc, pos, elem,
          dishes_changed, space_changed, version>>

counters == <<dishes_changed, space_changed, version>>

Locations == QueueLocations \cup {"idle", "version", "asleep", "notify"}

(* The types, and the counters: each counts at most the positions claimed, *)
(* so it announces no dish and no place that nobody has claimed.           *)
TypeOK ==
  /\ QueueTypeOK(Locations)
  /\ dishes_changed \in 0..tail_
  /\ space_changed \in 0..head_
  /\ version \in [Threads -> 0..MaxDishes]

Init ==
  /\ QueueInit
  /\ dishes_changed = 0
  /\ space_changed = 0
  /\ version = [t \in Threads |-> 0]

Sleepers(S) == {t \in S : pc[t] = "asleep"}

(* notify_one by t, waking one of the waiters if there is one; the woken   *)
(* thread compares again at location again.                                *)
NotifyOne(t, waiters, again) ==
  /\ pc[t] = "notify"
  /\ \/ /\ waiters = {}
        /\ pc' = [pc EXCEPT ![t] = "idle"]
     \/ \E w \in waiters : pc' = [pc EXCEPT ![t] = "idle", ![w] = again]
  /\ elem' = [elem EXCEPT ![t] = NoDish]
  /\ UNCHANGED <<tail_, head_, seq, data, pos, counters>>

-----------------------------------------------------------------------------
(* The producer                                                            *)

MakeDish(p) == \E dish \in Dishes :
  /\ MayMakeDish
  /\ Goto(p, "idle", "version")
  /\ elem' = [elem EXCEPT ![p] = dish]
  /\ UNCHANGED <<tail_, head_, seq, data, pos, counters>>

(* Before the first try and again after each wait.                         *)
LoadSpace(p) ==
  /\ Goto(p, "version", "enq")
  /\ version' = [version EXCEPT ![p] = space_changed]
  /\ UNCHANGED <<tail_, head_, seq, data, pos, elem, dishes_changed, space_changed>>

SpaceUnchanged(p) ==
  /\ Goto(p, "full", "asleep")
  /\ space_changed = version[p]
  /\ UNCHANGED <<tail_, head_, seq, data, pos, elem, counters>>

SpaceChanged(p) ==
  /\ Goto(p, "full", "version")
  /\ space_changed # version[p]
  /\ UNCHANGED <<tail_, head_, seq, data, pos, elem, counters>>

ProducerWakes(p) ==       \* spurious
  /\ Goto(p, "asleep", "full")
  /\ UNCHANGED <<tail_, head_, seq, data, pos, elem, counters>>

BumpTwice(p) ==           \* faulty: counts every dish twice
  /\ Goto(p, "enqueued", "notify")
  /\ dishes_changed' = dishes_changed + 2
  /\ UNCHANGED <<tail_, head_, seq, data, pos, elem, space_changed, version>>

BumpDishes(p) ==
  /\ Goto(p, "enqueued", "notify")
  /\ dishes_changed' = dishes_changed + 1
  /\ UNCHANGED <<tail_, head_, seq, data, pos, elem, space_changed, version>>

NotifyConsumer(p) == NotifyOne(p, Sleepers(Consumers), "empty")

-----------------------------------------------------------------------------
(* The consumer                                                            *)

Call(c) ==
  /\ Goto(c, "idle", "version")
  /\ UNCHANGED <<tail_, head_, seq, data, pos, elem, counters>>

LoadDishes(c) ==
  /\ Goto(c, "version", "deq")
  /\ version' = [version EXCEPT ![c] = dishes_changed]
  /\ UNCHANGED <<tail_, head_, seq, data, pos, elem, dishes_changed, space_changed>>

(* faulty: the counter is loaded only after the refusal *)
DishesUnchangedSince(c) ==
  /\ Goto(c, "empty", "asleep")
  /\ version' = [version EXCEPT ![c] = dishes_changed]
  /\ UNCHANGED <<tail_, head_, seq, data, pos, elem, dishes_changed, space_changed>>

DishesUnchanged(c) ==
  /\ Goto(c, "empty", "asleep")
  /\ dishes_changed = version[c]
  /\ UNCHANGED <<tail_, head_, seq, data, pos, elem, counters>>

DishesChanged(c) ==
  /\ Goto(c, "empty", "version")
  /\ dishes_changed # version[c]
  /\ UNCHANGED <<tail_, head_, seq, data, pos, elem, counters>>

ConsumerWakes(c) ==       \* spurious
  /\ Goto(c, "asleep", "empty")
  /\ UNCHANGED <<tail_, head_, seq, data, pos, elem, counters>>

BumpSpace(c) ==
  /\ Goto(c, "dequeued", "notify")
  /\ space_changed' = space_changed + 1
  /\ UNCHANGED <<tail_, head_, seq, data, pos, elem, dishes_changed, version>>

NotifyNobody(c) ==        \* faulty: no notify_one after a pop
  /\ Goto(c, "notify", "idle")
  /\ elem' = [elem EXCEPT ![c] = NoDish]
  /\ UNCHANGED <<tail_, head_, seq, data, pos, counters>>

NotifyProducer(c) == NotifyOne(c, Sleepers(Producers), "full")

-----------------------------------------------------------------------------

producer(p) ==
  \/ MakeDish(p) \/ LoadSpace(p) \/ SpaceUnchanged(p) \/ SpaceChanged(p)
  \/ BumpDishes(p) \/ NotifyConsumer(p)
  \/ try_enq(p) /\ UNCHANGED counters

consumer(c) ==
  \/ Call(c) \/ LoadDishes(c) \/ DishesUnchanged(c) \/ DishesChanged(c)
  \/ BumpSpace(c) \/ NotifyProducer(c)
  \/ try_dq(c) /\ UNCHANGED counters

(* With MaxDishes made and eaten, every customer may sleep for ever.       *)
NothingLeft ==
  /\ head_ = MaxDishes
  /\ \A p \in Producers : pc[p] = "idle"
  /\ \A c \in Consumers : pc[c] = "asleep"
  /\ UNCHANGED vars

Next ==
  \/ \E p \in Producers : producer(p) \/ ProducerWakes(p)
  \/ \E c \in Consumers : consumer(c) \/ ConsumerWakes(c)
  \/ NothingLeft

Spec == Init /\ [][Next]_vars
-----------------------------------------------------------------------------
(* Properties                                                              *)

(* A thread that sleeps, or that was refused and will find its version     *)
(* unchanged.                                                              *)
Parked(t, counter) ==
  \/ pc[t] = "asleep"
  \/ pc[t] = "empty" /\ version[t] = counter
  \/ pc[t] = "full" /\ version[t] = counter

(* The dish next in line is readable and all customers are parked: then a  *)
(* chef is about to increment dishes_changed or to notify.  Likewise for   *)
(* the place next in line and the chefs.  The version loaded before the    *)
(* try closes the window between refusal and wait.                         *)
NeverAllParked ==
  /\ /\ seq[Slot(head_)] = head_ + 1
     /\ \A c \in Consumers : Parked(c, dishes_changed)
     => \E p \in Producers : pc[p] \in {"enqueued", "notify"}
  /\ /\ seq[Slot(tail_)] = tail_
     /\ \E p \in Producers : Parked(p, space_changed)
     /\ \A p \in Producers : Parked(p, space_changed)
     => \E c \in Consumers : pc[c] \in {"dequeued", "notify"}

(* Every dish that the chefs make is eaten, though customers and chefs     *)
(* sleep whenever the queue refuses them.                                  *)
EveryDishEaten ==
  <>(/\ tail_ = MaxDishes /\ head_ = MaxDishes
     /\ \A c \in Consumers : elem[c] = NoDish)
=============================================================================
