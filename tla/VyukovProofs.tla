---------------------------- MODULE VyukovProofs ----------------------------
(***************************************************************************)
(* Proofs about the queue of Vyukov and both of its wirings, for any       *)
(* finite sets of chefs and customers, any number of slots above one and   *)
(* any number of dishes.  The theorems are about MCSpec, whose behaviours  *)
(* are those of the threads that park and those of the threads that spin.  *)
(***************************************************************************)
EXTENDS MCVyukov, SharedLemmas

ProducerLocations ==
  {"idle", "version", "enq", "enq_seq", "full", "asleep", "enq_cas", "write",
   "enq_publish", "enqueued", "notify"}

ConsumerLocations ==
  {"idle", "version", "deq", "deq_seq", "empty", "asleep", "deq_cas", "read",
   "deq_publish", "dequeued", "notify"}

(* TypeOK bounds the positions; that bound follows from the counting.      *)
Typed ==
  /\ tail_ \in Nat /\ head_ \in Nat
  /\ seq \in [Slots -> Nat]
  /\ data \in [Slots -> Dishes \cup {NoDish}]
  /\ pc \in [Threads -> Locations]
  /\ \A p \in Producers : pc[p] \in ProducerLocations
  /\ \A c \in Consumers : pc[c] \in ConsumerLocations
  /\ pos \in [Threads -> Nat]
  /\ elem \in [Threads -> Dishes \cup {NoDish}]

(* The N positions from head_ on fall into N different slots.  The slot of *)
(* a position that is claimed for a dish holds the dish or is still being  *)
(* written; that of a position to be claimed is free or is still being     *)
(* read by the customer of the previous round.                             *)
Claimed(k) ==
  \/ seq[Slot(k)] = k + 1
  \/ seq[Slot(k)] = k /\ \E p \in Producers : MidEnqueue(p) /\ pos[p] = k

Unclaimed(k) ==
  \/ seq[Slot(k)] = k
  \/ /\ seq[Slot(k)] + N = k + 1
     /\ \E c \in Consumers : MidDequeue(c) /\ pos[c] + N = k

Window ==
  /\ head_ <= tail_ /\ tail_ <= head_ + N
  /\ \A k \in Nat : head_ <= k /\ k < tail_ => Claimed(k)
  /\ \A k \in Nat : tail_ <= k /\ k < head_ + N => Unclaimed(k)

(* A thread between its CAS and its publication owns its position: the     *)
(* sequence number waits for it, and nobody else has that position.        *)
EnqueueOwns ==
  /\ \A p \in Producers : MidEnqueue(p) =>
       /\ head_ <= pos[p] /\ pos[p] < tail_
       /\ seq[Slot(pos[p])] = pos[p]
  /\ \A p, q \in Producers :
       MidEnqueue(p) /\ MidEnqueue(q) /\ pos[p] = pos[q] => p = q

DequeueOwns ==
  /\ \A c \in Consumers : MidDequeue(c) =>
       /\ pos[c] < head_ /\ tail_ <= pos[c] + N
       /\ seq[Slot(pos[c])] = pos[c] + 1
  /\ \A c, d \in Consumers :
       MidDequeue(c) /\ MidDequeue(d) /\ pos[c] = pos[d] => c = d

(* A position loaded before is at most the current one; if the CAS would   *)
(* succeed, what the thread saw in the slot still holds.                   *)
EnqueueLoaded == \A p \in Producers :
  /\ pc[p] \in {"enq_seq", "enq_cas"} => pos[p] <= tail_
  /\ pc[p] = "enq_cas" /\ pos[p] = tail_ => seq[Slot(tail_)] = tail_

DequeueLoaded == \A c \in Consumers :
  /\ pc[c] \in {"deq_seq", "deq_cas"} => pos[c] <= head_
  /\ pc[c] = "deq_cas" /\ pos[c] = head_ => seq[Slot(head_)] = head_ + 1

QueueInv ==
  /\ Typed /\ Window /\ EnqueueOwns /\ DequeueOwns
  /\ EnqueueLoaded /\ DequeueLoaded

-----------------------------------------------------------------------------
(* Positions and slots                                                     *)

(* No thread is both a chef and a customer.                                *)
LEMMA Roles ==
  /\ \A p \in Producers : p \in Threads /\ p \notin Consumers
  /\ \A c \in Consumers : c \in Threads /\ c \notin Producers
  /\ N \in Nat \ {0} /\ N >= 2
  BY VyukovAssumption DEF Threads

LEMMA SlotInRange == ASSUME NEW k \in Nat PROVE Slot(k) \in Slots
  BY Roles, RemainderType DEF Slot, Slots

LEMMA SlotShift == ASSUME NEW k \in Nat PROVE Slot(k + N) = Slot(k)
  BY Roles, RemainderShift DEF Slot

LEMMA SlotsApart ==
  ASSUME NEW j \in Nat, NEW k \in Nat, j < k + N, k < j + N, Slot(j) = Slot(k)
  PROVE  j = k
<1>1. CASE j <= k
  BY <1>1, Roles, RemainderClose DEF Slot
<1>2. CASE k <= j
  BY <1>2, Roles, RemainderClose DEF Slot
<1> QED
  BY <1>1, <1>2

-----------------------------------------------------------------------------
(* What the callers do between two attempts                                *)

Outside ==
  {"idle", "version", "enq", "full", "asleep", "enqueued", "notify",
   "deq", "empty", "dequeued"}

CallerStep ==
  /\ UNCHANGED <<tail_, head_, seq, data, pos>>
  /\ Typed'
  /\ \A t \in Threads : pc'[t] = pc[t] \/ {pc[t], pc'[t]} \subseteq Outside

QueueStep ==
  \/ \E p \in Producers : try_enq(p)
  \/ \E c \in Consumers : try_dq(c)
  \/ CallerStep

LEMMA CallerMoves ==
  ASSUME Typed, NEW t \in Threads, NEW from \in Outside, NEW to \in Outside,
         Goto(t, from, to),
         t \in Producers => to \in ProducerLocations,
         t \in Consumers => to \in ConsumerLocations,
         elem' = elem \/ (\E d \in Dishes \cup {NoDish} : elem' = [elem EXCEPT ![t] = d]),
         UNCHANGED <<tail_, head_, seq, data, pos>>
  PROVE  CallerStep
<1>1. Outside \subseteq Locations
  BY DEF Outside, Locations, QueueLocations
<1>2. \A u \in Threads : pc'[u] = IF u = t THEN to ELSE pc[u]
  BY DEF Typed, Goto
<1>3. pc' \in [Threads -> Locations]
  BY <1>1 DEF Typed, Goto
<1>4. elem' \in [Threads -> Dishes \cup {NoDish}]
  BY DEF Typed
<1>5. pc[t] = from
  BY DEF Goto
<1>6. /\ \A p \in Producers : pc'[p] \in ProducerLocations
      /\ \A c \in Consumers : pc'[c] \in ConsumerLocations
  BY <1>2, Roles DEF Typed
<1>7. Typed'
  BY <1>3, <1>4, <1>6 DEF Typed
<1> QED
  BY <1>2, <1>5, <1>7 DEF CallerStep

LEMMA SpinningStep ==
  ASSUME Typed, SpinNext
  PROVE  QueueStep
<1> USE Roles DEF Goto, Outside, ProducerLocations, ConsumerLocations
<1>1. ASSUME NEW p \in Producers, SpinMakeDish(p) PROVE CallerStep
  <2>1. Goto(p, "idle", "enq") /\ UNCHANGED <<tail_, head_, seq, data, pos>>
    BY <1>1 DEF SpinMakeDish
  <2>2. \E d \in Dishes \cup {NoDish} : elem' = [elem EXCEPT ![p] = d]
    BY <1>1 DEF SpinMakeDish
  <2> QED
    BY <2>1, <2>2, CallerMoves
<1>2. ASSUME NEW p \in Producers, SpinMadeDish(p) PROVE CallerStep
  BY <1>2, CallerMoves DEF SpinMadeDish
<1>3. ASSUME NEW p \in Producers, YieldFull(p) PROVE CallerStep
  BY <1>3, CallerMoves DEF YieldFull
<1>4. ASSUME NEW c \in Consumers, SpinCall(c) PROVE CallerStep
  BY <1>4, CallerMoves DEF SpinCall
<1>5. ASSUME NEW c \in Consumers, SpinAteDish(c) PROVE CallerStep
  BY <1>5, CallerMoves DEF SpinAteDish
<1>6. ASSUME NEW c \in Consumers, YieldEmpty(c) PROVE CallerStep
  BY <1>6, CallerMoves DEF YieldEmpty
<1> QED
  BY <1>1, <1>2, <1>3, <1>4, <1>5, <1>6
  DEF SpinNext, SpinProducer, SpinConsumer, QueueStep

(* notify_one moves two threads, the notifying one and the one it wakes.   *)
LEMMA NotifyIsCallerStep ==
  ASSUME Typed, NEW t \in Threads, NEW waiters, NEW again \in Outside,
         waiters \subseteq Threads,
         \A w \in waiters : pc[w] = "asleep",
         \A w \in waiters \cap Producers : again \in ProducerLocations,
         \A w \in waiters \cap Consumers : again \in ConsumerLocations,
         NotifyOne(t, waiters, again)
  PROVE  CallerStep
<1>1. /\ pc[t] = "notify"
      /\ elem' = [elem EXCEPT ![t] = NoDish]
      /\ UNCHANGED <<tail_, head_, seq, data, pos>>
  BY DEF NotifyOne
<1>2. /\ pc' \in [Threads -> Locations]
      /\ \A u \in Threads :
           pc'[u] = pc[u] \/ (u = t /\ pc'[u] = "idle") \/ (u \in waiters /\ pc'[u] = again)
  <2>1. CASE pc' = [pc EXCEPT ![t] = "idle"]
    BY <2>1 DEF Typed, Locations
  <2>2. CASE \E w \in waiters : pc' = [pc EXCEPT ![t] = "idle", ![w] = again]
    BY <2>2 DEF Typed, Locations, Outside, QueueLocations
  <2> QED
    BY <2>1, <2>2 DEF NotifyOne
<1>3. /\ \A p \in Producers : pc'[p] \in ProducerLocations
      /\ \A c \in Consumers : pc'[c] \in ConsumerLocations
  BY <1>2, Roles DEF Typed, ProducerLocations, ConsumerLocations
<1>4. Typed'
  BY <1>1, <1>2, <1>3 DEF Typed
<1>5. \A u \in Threads : pc'[u] = pc[u] \/ {pc[u], pc'[u]} \subseteq Outside
  BY <1>1, <1>2 DEF Outside
<1> QED
  BY <1>1, <1>4, <1>5 DEF CallerStep

LEMMA ParkingStep ==
  ASSUME Typed, Next
  PROVE  QueueStep
<1> USE Roles DEF Goto, Outside, ProducerLocations, ConsumerLocations
<1>1. ASSUME NEW p \in Producers, MakeDish(p) PROVE CallerStep
  <2>1. Goto(p, "idle", "version") /\ UNCHANGED <<tail_, head_, seq, data, pos>>
    BY <1>1 DEF MakeDish
  <2>2. \E d \in Dishes \cup {NoDish} : elem' = [elem EXCEPT ![p] = d]
    BY <1>1 DEF MakeDish
  <2> QED
    BY <2>1, <2>2, CallerMoves
<1>2. ASSUME NEW p \in Producers, LoadSpace(p) PROVE CallerStep
  BY <1>2, CallerMoves DEF LoadSpace
<1>3. ASSUME NEW p \in Producers, SpaceUnchanged(p) PROVE CallerStep
  BY <1>3, CallerMoves DEF SpaceUnchanged
<1>4. ASSUME NEW p \in Producers, SpaceChanged(p) PROVE CallerStep
  BY <1>4, CallerMoves DEF SpaceChanged
<1>5. ASSUME NEW p \in Producers, ProducerWakes(p) PROVE CallerStep
  BY <1>5, CallerMoves DEF ProducerWakes
<1>6. ASSUME NEW p \in Producers, BumpDishes(p) PROVE CallerStep
  BY <1>6, CallerMoves DEF BumpDishes
<1>7. ASSUME NEW p \in Producers, NotifyConsumer(p) PROVE CallerStep
  BY <1>7, NotifyIsCallerStep DEF NotifyConsumer, Sleepers
<1>8. ASSUME NEW c \in Consumers, Call(c) PROVE CallerStep
  BY <1>8, CallerMoves DEF Call
<1>9. ASSUME NEW c \in Consumers, LoadDishes(c) PROVE CallerStep
  BY <1>9, CallerMoves DEF LoadDishes
<1>10. ASSUME NEW c \in Consumers, DishesUnchanged(c) PROVE CallerStep
  BY <1>10, CallerMoves DEF DishesUnchanged
<1>11. ASSUME NEW c \in Consumers, DishesChanged(c) PROVE CallerStep
  BY <1>11, CallerMoves DEF DishesChanged
<1>12. ASSUME NEW c \in Consumers, ConsumerWakes(c) PROVE CallerStep
  BY <1>12, CallerMoves DEF ConsumerWakes
<1>13. ASSUME NEW c \in Consumers, BumpSpace(c) PROVE CallerStep
  BY <1>13, CallerMoves DEF BumpSpace
<1>14. ASSUME NEW c \in Consumers, NotifyProducer(c) PROVE CallerStep
  BY <1>14, NotifyIsCallerStep DEF NotifyProducer, Sleepers
<1>15. ASSUME NothingLeft PROVE CallerStep
  <2>1. UNCHANGED <<tail_, head_, seq, data, pc, pos, elem>>
    BY <1>15 DEF NothingLeft, vars
  <2>2. Typed'
    BY <2>1 DEF Typed
  <2> QED
    BY <2>1, <2>2 DEF CallerStep
<1>16. ASSUME NEW p \in Producers, producer(p) PROVE QueueStep
  BY <1>16, <1>1, <1>2, <1>3, <1>4, <1>6, <1>7 DEF producer, QueueStep
<1>17. ASSUME NEW c \in Consumers, consumer(c) PROVE QueueStep
  BY <1>17, <1>8, <1>9, <1>10, <1>11, <1>13, <1>14 DEF consumer, QueueStep
<1> QED
  BY <1>5, <1>12, <1>15, <1>16, <1>17 DEF Next, QueueStep

-----------------------------------------------------------------------------
(* The types are kept, for a thread never writes to a slot it does not     *)
(* have.                                                                   *)

LEMMA TypedStep ==
  ASSUME Typed, QueueStep
  PROVE  Typed'
<1> USE Roles DEF Goto, Typed, Locations, QueueLocations, ProducerLocations,
              ConsumerLocations
<1>1. ASSUME NEW p \in Producers, EnqLoad(p) PROVE Typed'
  BY <1>1 DEF EnqLoad
<1>2. ASSUME NEW p \in Producers, EnqFull(p) PROVE Typed'
  BY <1>2 DEF EnqFull
<1>3. ASSUME NEW p \in Producers, EnqStale(p) PROVE Typed'
  BY <1>3 DEF EnqStale
<1>4. ASSUME NEW p \in Producers, EnqMatch(p) PROVE Typed'
  BY <1>4 DEF EnqMatch
<1>5. ASSUME NEW p \in Producers, EnqCasFails(p) PROVE Typed'
  BY <1>5 DEF EnqCasFails
<1>6. ASSUME NEW p \in Producers, EnqClaim(p) PROVE Typed'
  BY <1>6 DEF EnqClaim
<1>7. ASSUME NEW p \in Producers, Write(p) PROVE Typed'
  BY <1>7, SlotInRange DEF Write
<1>8. ASSUME NEW p \in Producers, EnqPublish(p) PROVE Typed'
  BY <1>8, SlotInRange DEF EnqPublish
<1>9. ASSUME NEW c \in Consumers, DqLoad(c) PROVE Typed'
  BY <1>9 DEF DqLoad
<1>10. ASSUME NEW c \in Consumers, DqStale(c) PROVE Typed'
  BY <1>10 DEF DqStale
<1>11. ASSUME NEW c \in Consumers, DqEmpty(c) PROVE Typed'
  BY <1>11 DEF DqEmpty
<1>12. ASSUME NEW c \in Consumers, DqMatch(c) PROVE Typed'
  BY <1>12 DEF DqMatch
<1>13. ASSUME NEW c \in Consumers, DqCasFails(c) PROVE Typed'
  BY <1>13 DEF DqCasFails
<1>14. ASSUME NEW c \in Consumers, DqClaim(c) PROVE Typed'
  BY <1>14 DEF DqClaim
<1>15. ASSUME NEW c \in Consumers, Read(c) PROVE Typed'
  BY <1>15, SlotInRange DEF Read
<1>16. ASSUME NEW c \in Consumers, DqPublish(c) PROVE Typed'
  BY <1>16, SlotInRange DEF DqPublish
<1> QED
  BY <1>1, <1>2, <1>3, <1>4, <1>5, <1>6, <1>7, <1>8, <1>9, <1>10, <1>11,
     <1>12, <1>13, <1>14, <1>15, <1>16
  DEF QueueStep, try_enq, try_dq, CallerStep

-----------------------------------------------------------------------------
(* Steps that neither claim nor publish a position                         *)

Enqueuing == {"write", "enq_publish"}

Dequeuing == {"read", "deq_publish"}

Steady ==
  /\ UNCHANGED <<tail_, head_, seq>>
  /\ \A t \in Threads :
       /\ pc'[t] \in Enqueuing <=> pc[t] \in Enqueuing
       /\ pc'[t] \in Dequeuing <=> pc[t] \in Dequeuing
       /\ pc[t] \in Enqueuing \cup Dequeuing => pos'[t] = pos[t]

LEMMA SteadyKeepsOwners ==
  ASSUME Window, EnqueueOwns, DequeueOwns, Steady
  PROVE  Window' /\ EnqueueOwns' /\ DequeueOwns'
<1> USE Roles DEF Steady, MidEnqueue, MidDequeue, Enqueuing, Dequeuing
<1>1. EnqueueOwns'
  BY DEF EnqueueOwns
<1>2. DequeueOwns'
  BY DEF DequeueOwns
<1>3. Window'
  BY DEF Window, Claimed, Unclaimed
<1> QED
  BY <1>1, <1>2, <1>3

LEMMA SteadyStep ==
  ASSUME QueueInv, QueueStep,
         \A p \in Producers : ~EnqClaim(p) /\ ~EnqPublish(p),
         \A c \in Consumers : ~DqClaim(c) /\ ~DqPublish(c)
  PROVE  Steady /\ EnqueueLoaded' /\ DequeueLoaded'
<1> DEFINE Kept == Steady /\ EnqueueLoaded' /\ DequeueLoaded'
<1> USE Roles DEF QueueInv, Typed, Goto, Steady, Enqueuing, Dequeuing,
              EnqueueLoaded, DequeueLoaded, ProducerLocations, ConsumerLocations
<1>1. ASSUME NEW p \in Producers, EnqLoad(p) PROVE Kept
  BY <1>1 DEF EnqLoad
<1>2. ASSUME NEW p \in Producers, EnqFull(p) PROVE Kept
  BY <1>2 DEF EnqFull
<1>3. ASSUME NEW p \in Producers, EnqStale(p) PROVE Kept
  BY <1>3 DEF EnqStale
<1>4. ASSUME NEW p \in Producers, EnqMatch(p) PROVE Kept
  BY <1>4 DEF EnqMatch
<1>5. ASSUME NEW p \in Producers, EnqCasFails(p) PROVE Kept
  BY <1>5 DEF EnqCasFails
<1>6. ASSUME NEW p \in Producers, Write(p) PROVE Kept
  BY <1>6 DEF Write
<1>7. ASSUME NEW c \in Consumers, DqLoad(c) PROVE Kept
  BY <1>7 DEF DqLoad
<1>8. ASSUME NEW c \in Consumers, DqStale(c) PROVE Kept
  BY <1>8 DEF DqStale
<1>9. ASSUME NEW c \in Consumers, DqEmpty(c) PROVE Kept
  BY <1>9 DEF DqEmpty
<1>10. ASSUME NEW c \in Consumers, DqMatch(c) PROVE Kept
  BY <1>10 DEF DqMatch
<1>11. ASSUME NEW c \in Consumers, DqCasFails(c) PROVE Kept
  BY <1>11 DEF DqCasFails
<1>12. ASSUME NEW c \in Consumers, Read(c) PROVE Kept
  BY <1>12 DEF Read
<1>13. CASE CallerStep
  BY <1>13 DEF CallerStep, Outside
<1> QED
  BY <1>1, <1>2, <1>3, <1>4, <1>5, <1>6, <1>7, <1>8, <1>9, <1>10, <1>11,
     <1>12, <1>13
  DEF QueueStep, try_enq, try_dq

-----------------------------------------------------------------------------
(* The CAS on tail_: the position is free in its slot, hence the queue is  *)
(* not full, and whoever had the slot before is through with it.           *)

LEMMA RoomAtClaim ==
  ASSUME QueueInv, NEW p \in Producers, EnqClaim(p)
  PROVE  /\ pos[p] = tail_ /\ tail_' = tail_ + 1
         /\ seq[Slot(tail_)] = tail_
         /\ tail_ < head_ + N
         /\ \A c \in Consumers : MidDequeue(c) => tail_ < pos[c] + N
<1> USE Roles DEF QueueInv, Typed
<1>1. pos[p] = tail_ /\ tail_' = tail_ + 1 /\ seq[Slot(tail_)] = tail_
  BY DEF EnqClaim, Goto, EnqueueLoaded
<1>2. tail_ # head_ + N
  <2>1. SUFFICES ASSUME tail_ = head_ + N PROVE FALSE
    OBVIOUS
  <2>2. Slot(tail_) = Slot(head_) /\ Claimed(head_)
    BY <2>1, SlotShift DEF Window
  <2> QED
    BY <1>1, <2>1, <2>2 DEF Claimed
<1>3. ASSUME NEW c \in Consumers, MidDequeue(c) PROVE tail_ # pos[c] + N
  <2>1. seq[Slot(pos[c])] = pos[c] + 1 /\ Slot(pos[c] + N) = Slot(pos[c])
    BY <1>3, SlotShift DEF DequeueOwns
  <2> QED
    BY <1>1, <2>1
<1> QED
  BY <1>1, <1>2, <1>3 DEF Window, DequeueOwns

LEMMA ClaimsToEnqueue ==
  ASSUME QueueInv, NEW p \in Producers, EnqClaim(p)
  PROVE  Window' /\ EnqueueOwns' /\ DequeueOwns' /\ EnqueueLoaded' /\ DequeueLoaded'
<1> USE Roles DEF QueueInv, Typed
<1>1. /\ pos[p] = tail_ /\ tail_' = tail_ + 1
      /\ seq[Slot(tail_)] = tail_
      /\ tail_ < head_ + N
      /\ \A c \in Consumers : MidDequeue(c) => tail_ < pos[c] + N
  BY RoomAtClaim
<1>2. /\ UNCHANGED <<head_, seq, pos>>
      /\ pc[p] = "enq_cas"
      /\ \A t \in Threads : pc'[t] = IF t = p THEN "write" ELSE pc[t]
  BY DEF EnqClaim, Goto
<1>3. EnqueueOwns'
  BY <1>1, <1>2 DEF EnqueueOwns, MidEnqueue, Window
<1>4. DequeueOwns'
  BY <1>1, <1>2 DEF DequeueOwns, MidDequeue
<1>5. Window'
  <2>1. head_' <= tail_' /\ tail_' <= head_' + N
    BY <1>1, <1>2 DEF Window
  <2>2. ASSUME NEW k \in Nat, head_' <= k, k < tail_' PROVE Claimed(k)'
    <3>1. CASE k = tail_
      BY <1>1, <1>2, <3>1 DEF Claimed, MidEnqueue
    <3>2. CASE k # tail_
      BY <1>1, <1>2, <2>2, <3>2 DEF Window, Claimed, MidEnqueue
    <3> QED
      BY <3>1, <3>2
  <2>3. ASSUME NEW k \in Nat, tail_' <= k, k < head_' + N PROVE Unclaimed(k)'
    BY <1>1, <1>2, <2>3 DEF Window, Unclaimed, MidDequeue
  <2> QED
    BY <2>1, <2>2, <2>3 DEF Window
<1>6. EnqueueLoaded' /\ DequeueLoaded'
  BY <1>1, <1>2 DEF EnqueueLoaded, DequeueLoaded
<1> QED
  BY <1>3, <1>4, <1>5, <1>6

(* The CAS on head_: the dish is published, hence tail_ is ahead.          *)
LEMMA DishAtClaim ==
  ASSUME QueueInv, NEW c \in Consumers, DqClaim(c)
  PROVE  /\ pos[c] = head_ /\ head_' = head_ + 1
         /\ seq[Slot(head_)] = head_ + 1
         /\ head_ < tail_
<1> USE Roles DEF QueueInv, Typed
<1>1. pos[c] = head_ /\ head_' = head_ + 1 /\ seq[Slot(head_)] = head_ + 1
  BY DEF DqClaim, Goto, DequeueLoaded
<1>2. head_ # tail_
  <2>1. SUFFICES ASSUME head_ = tail_ PROVE FALSE
    OBVIOUS
  <2>2. Unclaimed(head_)
    BY <2>1 DEF Window
  <2> QED
    BY <1>1, <2>2 DEF Unclaimed
<1> QED
  BY <1>1, <1>2 DEF Window

LEMMA ClaimsToDequeue ==
  ASSUME QueueInv, NEW c \in Consumers, DqClaim(c)
  PROVE  Window' /\ EnqueueOwns' /\ DequeueOwns' /\ EnqueueLoaded' /\ DequeueLoaded'
<1> USE Roles DEF QueueInv, Typed
<1>1. /\ pos[c] = head_ /\ head_' = head_ + 1
      /\ seq[Slot(head_)] = head_ + 1
      /\ head_ < tail_
  BY DishAtClaim
<1>2. /\ UNCHANGED <<tail_, seq, pos>>
      /\ pc[c] = "deq_cas"
      /\ \A t \in Threads : pc'[t] = IF t = c THEN "read" ELSE pc[t]
  BY DEF DqClaim, Goto
<1>3. EnqueueOwns'
  BY <1>1, <1>2 DEF EnqueueOwns, MidEnqueue
<1>4. DequeueOwns'
  BY <1>1, <1>2 DEF DequeueOwns, MidDequeue, Window
<1>5. Window'
  <2>1. head_' <= tail_' /\ tail_' <= head_' + N
    BY <1>1, <1>2 DEF Window
  <2>2. ASSUME NEW k \in Nat, head_' <= k, k < tail_' PROVE Claimed(k)'
    BY <1>1, <1>2, <2>2 DEF Window, Claimed, MidEnqueue
  <2>3. ASSUME NEW k \in Nat, tail_' <= k, k < head_' + N PROVE Unclaimed(k)'
    <3>1. CASE k = head_ + N
      BY <1>1, <1>2, <3>1, SlotShift DEF Unclaimed, MidDequeue
    <3>2. CASE k # head_ + N
      BY <1>1, <1>2, <2>3, <3>2 DEF Window, Unclaimed, MidDequeue
    <3> QED
      BY <3>1, <3>2
  <2> QED
    BY <2>1, <2>2, <2>3 DEF Window
<1>6. EnqueueLoaded' /\ DequeueLoaded'
  BY <1>1, <1>2 DEF EnqueueLoaded, DequeueLoaded
<1> QED
  BY <1>3, <1>4, <1>5, <1>6

-----------------------------------------------------------------------------
(* Publication changes the sequence number of one slot, which belongs to   *)
(* no other position of the window.                                        *)

LEMMA PublishesDish ==
  ASSUME QueueInv, NEW p \in Producers, EnqPublish(p)
  PROVE  Window' /\ EnqueueOwns' /\ DequeueOwns' /\ EnqueueLoaded' /\ DequeueLoaded'
<1> USE Roles DEF QueueInv, Typed
<1>1. /\ MidEnqueue(p)
      /\ UNCHANGED <<tail_, head_, pos>>
      /\ \A t \in Threads : pc'[t] = IF t = p THEN "enqueued" ELSE pc[t]
      /\ seq' = [seq EXCEPT ![Slot(pos[p])] = pos[p] + 1]
  BY DEF EnqPublish, Goto, MidEnqueue
<1>2. /\ head_ <= pos[p] /\ pos[p] < tail_ /\ tail_ <= head_ + N
      /\ seq[Slot(pos[p])] = pos[p]
  BY <1>1 DEF EnqueueOwns, Window
<1>3. ASSUME NEW k \in Nat, k # pos[p], k < pos[p] + N, pos[p] < k + N
      PROVE  seq'[Slot(k)] = seq[Slot(k)]
  BY <1>1, <1>3, SlotInRange, SlotsApart
<1>4. seq'[Slot(pos[p])] = pos[p] + 1
  BY <1>1, SlotInRange
<1>5. EnqueueOwns'
  BY <1>1, <1>2, <1>3 DEF EnqueueOwns, MidEnqueue
<1>6. DequeueOwns'
  BY <1>1, <1>2, <1>3 DEF DequeueOwns, MidDequeue, MidEnqueue
<1>7. Window'
  <2>1. ASSUME NEW k \in Nat, head_' <= k, k < tail_' PROVE Claimed(k)'
    <3>1. CASE k = pos[p]
      BY <1>4, <3>1 DEF Claimed
    <3>2. CASE k # pos[p]
      BY <1>1, <1>2, <1>3, <2>1, <3>2 DEF Window, Claimed, MidEnqueue
    <3> QED
      BY <3>1, <3>2
  <2>2. ASSUME NEW k \in Nat, tail_' <= k, k < head_' + N PROVE Unclaimed(k)'
    BY <1>1, <1>2, <1>3, <2>2 DEF Window, Unclaimed, MidDequeue, MidEnqueue
  <2> QED
    BY <1>1, <2>1, <2>2 DEF Window
<1>8. EnqueueLoaded'
  <2>1. ASSUME seq[Slot(tail_)] = tail_
        PROVE  seq'[Slot(tail_)] = tail_
    BY <1>1, <1>2, <2>1, SlotInRange
  <2> QED
    BY <1>1, <2>1 DEF EnqueueLoaded
<1>9. DequeueLoaded'
  <2>1. ASSUME seq[Slot(head_)] = head_ + 1
        PROVE  seq'[Slot(head_)] = head_ + 1
    <3>1. CASE pos[p] = head_
      BY <1>4, <3>1
    <3>2. CASE pos[p] # head_
      BY <1>2, <1>3, <2>1, <3>2
    <3> QED
      BY <3>1, <3>2
  <2> QED
    BY <1>1, <2>1 DEF DequeueLoaded, MidEnqueue
<1> QED
  BY <1>5, <1>6, <1>7, <1>8, <1>9

LEMMA PublishesPlace ==
  ASSUME QueueInv, NEW c \in Consumers, DqPublish(c)
  PROVE  Window' /\ EnqueueOwns' /\ DequeueOwns' /\ EnqueueLoaded' /\ DequeueLoaded'
<1> USE Roles DEF QueueInv, Typed
<1> DEFINE next == pos[c] + N
<1>1. /\ MidDequeue(c)
      /\ UNCHANGED <<tail_, head_, pos>>
      /\ \A t \in Threads : pc'[t] = IF t = c THEN "dequeued" ELSE pc[t]
      /\ seq' = [seq EXCEPT ![Slot(pos[c])] = next]
  BY DEF DqPublish, Goto, MidDequeue
<1>2. /\ pos[c] < head_ /\ head_ <= tail_ /\ tail_ <= next /\ next < head_ + N
      /\ seq[Slot(pos[c])] = pos[c] + 1
      /\ next \in Nat /\ Slot(next) = Slot(pos[c])
  BY <1>1, SlotShift DEF DequeueOwns, Window
<1>3. ASSUME NEW k \in Nat, k # next, k < next + N, next < k + N
      PROVE  seq'[Slot(k)] = seq[Slot(k)]
  BY <1>1, <1>2, <1>3, SlotInRange, SlotsApart
<1>4. seq'[Slot(next)] = next
  BY <1>1, <1>2, SlotInRange
<1>5. EnqueueOwns'
  BY <1>1, <1>2, <1>3 DEF EnqueueOwns, MidEnqueue
<1>6. DequeueOwns'
  <2>1. ASSUME NEW d \in Consumers, MidDequeue(d), d # c
        PROVE  seq'[Slot(pos[d])] = pos[d] + 1
    <3>1. /\ pos[d] # pos[c] /\ pos[d] < head_ /\ tail_ <= pos[d] + N
          /\ seq[Slot(pos[d])] = pos[d] + 1
      BY <1>1, <2>1 DEF DequeueOwns
    <3>2. Slot(pos[d] + N) = Slot(pos[d])
      BY SlotShift
    <3> QED
      BY <1>2, <1>3, <3>1, <3>2
  <2> QED
    BY <1>1, <2>1 DEF DequeueOwns, MidDequeue
<1>7. Window'
  <2>1. ASSUME NEW k \in Nat, head_' <= k, k < tail_' PROVE Claimed(k)'
    BY <1>1, <1>2, <1>3, <2>1 DEF Window, Claimed, MidEnqueue, MidDequeue
  <2>2. ASSUME NEW k \in Nat, tail_' <= k, k < head_' + N PROVE Unclaimed(k)'
    <3>1. CASE k = next
      BY <1>4, <3>1 DEF Unclaimed
    <3>2. CASE k # next
      BY <1>1, <1>2, <1>3, <2>2, <3>2 DEF Window, Unclaimed, MidDequeue
    <3> QED
      BY <3>1, <3>2
  <2> QED
    BY <1>1, <2>1, <2>2 DEF Window
<1>8. EnqueueLoaded'
  <2>1. ASSUME seq[Slot(tail_)] = tail_
        PROVE  seq'[Slot(tail_)] = tail_
    <3>1. CASE tail_ = next
      BY <1>4, <3>1
    <3>2. CASE tail_ # next
      BY <1>2, <1>3, <2>1, <3>2
    <3> QED
      BY <3>1, <3>2
  <2> QED
    BY <1>1, <2>1 DEF EnqueueLoaded, MidDequeue
<1>9. DequeueLoaded'
  <2>1. ASSUME seq[Slot(head_)] = head_ + 1
        PROVE  seq'[Slot(head_)] = head_ + 1
    BY <1>1, <1>2, <2>1, SlotInRange
  <2> QED
    BY <1>1, <2>1 DEF DequeueLoaded, MidDequeue
<1> QED
  BY <1>5, <1>6, <1>7, <1>8, <1>9

-----------------------------------------------------------------------------

LEMMA QueueInvInit == QueueInit => QueueInv
<1> SUFFICES ASSUME QueueInit PROVE QueueInv
  OBVIOUS
<1> USE Roles DEF QueueInit
<1>1. Typed
  BY DEF Typed, InitialSeq, Slots, Locations, ProducerLocations, ConsumerLocations
<1>2. \A k \in Nat : k < N => Slot(k) = k
  BY RemainderSmall DEF Slot
<1>3. Window
  BY <1>2 DEF Window, Unclaimed, InitialSeq, Slots
<1>4. EnqueueOwns /\ DequeueOwns /\ EnqueueLoaded /\ DequeueLoaded
  BY DEF EnqueueOwns, DequeueOwns, EnqueueLoaded, DequeueLoaded, MidEnqueue,
         MidDequeue, Threads
<1> QED
  BY <1>1, <1>3, <1>4 DEF QueueInv

LEMMA QueueInvStep ==
  ASSUME QueueInv, QueueStep
  PROVE  QueueInv'
<1>1. Typed'
  BY TypedStep DEF QueueInv
<1>2. CASE \E p \in Producers : EnqClaim(p)
  BY <1>1, <1>2, ClaimsToEnqueue DEF QueueInv
<1>3. CASE \E p \in Producers : EnqPublish(p)
  BY <1>1, <1>3, PublishesDish DEF QueueInv
<1>4. CASE \E c \in Consumers : DqClaim(c)
  BY <1>1, <1>4, ClaimsToDequeue DEF QueueInv
<1>5. CASE \E c \in Consumers : DqPublish(c)
  BY <1>1, <1>5, PublishesPlace DEF QueueInv
<1>6. CASE /\ \A p \in Producers : ~EnqClaim(p) /\ ~EnqPublish(p)
           /\ \A c \in Consumers : ~DqClaim(c) /\ ~DqPublish(c)
  BY <1>1, <1>6, SteadyStep, SteadyKeepsOwners DEF QueueInv
<1> QED
  BY <1>2, <1>3, <1>4, <1>5, <1>6

LEMMA AnyStep ==
  ASSUME Typed, [MCNext]_<<vars, wiring>>
  PROVE  QueueStep
<1>1. CASE UNCHANGED <<vars, wiring>>
  <2>1. UNCHANGED <<tail_, head_, seq, data, pc, pos, elem>>
    BY <1>1 DEF vars
  <2>2. Typed'
    BY <2>1 DEF Typed
  <2> QED
    BY <2>1, <2>2 DEF CallerStep, QueueStep
<1> QED
  BY <1>1, ParkingStep, SpinningStep DEF MCNext

LEMMA QueueInvHolds == MCSpec => []QueueInv
<1>1. MCInit => QueueInv
  BY QueueInvInit DEF MCInit, Init
<1>2. QueueInv /\ [MCNext]_<<vars, wiring>> => QueueInv'
  BY AnyStep, QueueInvStep DEF QueueInv
<1> QED
  BY <1>1, <1>2, PTL DEF MCSpec

-----------------------------------------------------------------------------
(* data is not atomic, and no two threads are ever in the same slot of it, *)
(* whatever the age of the positions they hold (7_vyukov_mpmc.cpp, the     *)
(* accesses to data in try_enq and try_dq).                                *)
THEOREM SlotsAreExclusive == MCSpec => []ExclusiveSlot
<1>1. ASSUME QueueInv PROVE ExclusiveSlot
  <2> USE Roles, <1>1 DEF QueueInv, Typed
  <2> SUFFICES ASSUME NEW t \in Threads, NEW u \in Threads, t # u,
                      pc[t] \in {"write", "read"}, pc[u] \in {"write", "read"},
                      Slot(pos[t]) = Slot(pos[u])
               PROVE  FALSE
    BY DEF ExclusiveSlot
  <2>1. ASSUME NEW v \in Threads, pc[v] \in {"write", "read"}
        PROVE  \/ /\ v \in Producers /\ MidEnqueue(v)
                  /\ seq[Slot(pos[v])] = pos[v]
               \/ /\ v \in Consumers /\ MidDequeue(v)
                  /\ seq[Slot(pos[v])] = pos[v] + 1
    BY <2>1 DEF Threads, ProducerLocations, ConsumerLocations, MidEnqueue,
       MidDequeue, EnqueueOwns, DequeueOwns
  <2>2. CASE t \in Producers /\ u \in Producers
    BY <2>1, <2>2 DEF EnqueueOwns
  <2>3. CASE t \in Consumers /\ u \in Consumers
    BY <2>1, <2>3 DEF DequeueOwns
  <2>4. ASSUME NEW k \in Nat PROVE Slot(k) # Slot(k + 1)
    BY SlotsApart
  <2>5. CASE t \in Producers /\ u \in Consumers
    <3>1. pos[t] = pos[u] + 1
      BY <2>1, <2>5
    <3> QED
      BY <2>4, <3>1
  <2>6. CASE t \in Consumers /\ u \in Producers
    <3>1. pos[u] = pos[t] + 1
      BY <2>1, <2>6
    <3> QED
      BY <2>4, <3>1
  <2> QED
    BY <2>2, <2>3, <2>5, <2>6 DEF Threads
<1> QED
  BY <1>1, QueueInvHolds, PTL

-----------------------------------------------------------------------------
(* A refusal                                                               *)

(* A slot whose position has been claimed is never behind that position.   *)
LEMMA NeverBehind ==
  ASSUME QueueInv
  PROVE  /\ \A k \in Nat : k < head_ => seq[Slot(k)] > k
         /\ \A k \in Nat : k < tail_ => seq[Slot(k)] >= k
<1> USE Roles DEF QueueInv, Typed
<1>1. ASSUME NEW k \in Nat, k < head_
      PROVE  seq[Slot(k)] > k
  <2>1. PICK j \in Nat : head_ <= j /\ j < head_ + N /\ Slot(j) = Slot(k)
    BY SlotInRange, RemainderCovers DEF Slot, Slots
  <2>2. k + N <= j
    BY <1>1, <2>1, SlotsApart
  <2>3. Claimed(j) \/ Unclaimed(j)
    BY <2>1 DEF Window
  <2>4. seq[Slot(j)] + N > j
    BY <2>3 DEF Claimed, Unclaimed
  <2> QED
    BY <2>1, <2>2, <2>4, SlotInRange
<1>2. ASSUME NEW k \in Nat, k < tail_
      PROVE  seq[Slot(k)] >= k
  <2>1. CASE k < head_
    BY <1>1, <2>1, SlotInRange
  <2>2. CASE head_ <= k
    BY <1>2, <2>2 DEF Window, Claimed
  <2> QED
    BY <2>1, <2>2
<1> QED
  BY <1>1, <1>2

(* When no other thread is between its CAS and its publication, nullopt    *)
(* means that every enqueued dish is claimed, and false that N dishes are  *)
(* in the queue (7_vyukov_mpmc.cpp, the early returns).                    *)
THEOREM RefusalsAreExact == MCSpec => RefusalExactWhenQuiet
<1> USE Roles DEF QueueInv, Typed
<1>1. ASSUME QueueInv, NEW c \in Consumers, DqEmpty(c),
             \A p \in Producers : ~MidEnqueue(p)
      PROVE  head_ = tail_
  <2>1. pos[c] <= head_ /\ seq[Slot(pos[c])] <= pos[c]
    BY <1>1, SlotInRange DEF DqEmpty, Goto, DequeueLoaded
  <2>2. pos[c] = head_
    BY <1>1, <2>1, SlotInRange, NeverBehind
  <2> QED
    BY <1>1, <2>1, <2>2 DEF Window, Claimed
<1>2. ASSUME QueueInv, NEW p \in Producers, EnqFull(p),
             \A c \in Consumers : ~MidDequeue(c)
      PROVE  tail_ = head_ + N
  <2>1. pos[p] <= tail_ /\ seq[Slot(pos[p])] < pos[p]
    BY <1>2 DEF EnqFull, Goto, EnqueueLoaded
  <2>2. pos[p] = tail_
    BY <1>2, <2>1, SlotInRange, NeverBehind
  <2> QED
    BY <1>2, <2>1, <2>2 DEF Window, Unclaimed
<1>3. QueueInv => RefusalExactWhenQuiet!1
  BY <1>1, <1>2
<1> QED
  BY <1>3, QueueInvHolds, PTL DEF MCSpec, RefusalExactWhenQuiet

-----------------------------------------------------------------------------
(* The counters                                                            *)

(* Where a chef carries a dish towards the CAS, where its dish is claimed  *)
(* but not announced, and where a customer's place is not announced yet.   *)
MakingAt == {"version", "enq", "enq_seq", "full", "asleep", "enq_cas"}

MadeAt == {"write", "enq_publish", "enqueued"}

EatenAt == {"read", "deq_publish", "dequeued"}

Making == Count(Producers, pc, MakingAt)

Made == Count(Producers, pc, MadeAt)

Eaten == Count(Consumers, pc, EatenAt)

CounterInv ==
  /\ dishes_changed \in Nat /\ space_changed \in Nat
  /\ version \in [Threads -> Nat]
  /\ tail_ + Making <= MaxDishes
  /\ dishes_changed + Made <= tail_
  /\ space_changed + Eaten <= head_
  /\ \A t \in Threads : pos[t] <= tail_
  /\ \A c \in Consumers : version[c] <= dishes_changed
  /\ \A p \in Producers : version[p] <= space_changed

(* A chef that has yet to notify is not enough for parked customers: the   *)
(* customer it wakes must find the counter changed.                        *)
CustomersCalled ==
  /\ seq[Slot(head_)] = head_ + 1
  /\ \A c \in Consumers : Parked(c, dishes_changed)
  => \/ \E p \in Producers : pc[p] = "enqueued"
     \/ /\ \E p \in Producers : pc[p] = "notify"
        /\ \A c \in Consumers : pc[c] = "asleep" /\ version[c] # dishes_changed

ChefsCalled ==
  /\ seq[Slot(tail_)] = tail_
  /\ \A p \in Producers : Parked(p, space_changed)
  => \/ \E c \in Consumers : pc[c] = "dequeued"
     \/ /\ \E c \in Consumers : pc[c] = "notify"
        /\ \A p \in Producers : pc[p] = "asleep" /\ version[p] # space_changed

WakeInv == CustomersCalled /\ (Producers # {} => ChefsCalled)

-----------------------------------------------------------------------------

LEMMA CountsAreNat == Making \in Nat /\ Made \in Nat /\ Eaten \in Nat
  BY VyukovAssumption, CountIsNat DEF Making, Made, Eaten

Change(t, S, L, from, to) ==
  IF t \notin S \/ (from \in L <=> to \in L) THEN 0 ELSE IF to \in L THEN 1 ELSE -1

LEMMA CountsAfterGoto ==
  ASSUME Typed, NEW t \in Threads, NEW from, NEW to, Goto(t, from, to)
  PROVE  /\ Making' = Making + Change(t, Producers, MakingAt, from, to)
         /\ Made' = Made + Change(t, Producers, MadeAt, from, to)
         /\ Eaten' = Eaten + Change(t, Consumers, EatenAt, from, to)
<1>1. DOMAIN pc = Threads /\ Moves(t, to, pc, pc') /\ pc[t] = from
  BY DEF Typed, Goto, Moves
<1>2. \A S \in {Producers, Consumers} : S \subseteq Threads /\ IsFiniteSet(S)
  BY VyukovAssumption DEF Threads
<1>3. ASSUME NEW S \in {Producers, Consumers}, NEW L
      PROVE  Count(S, pc', L) = Count(S, pc, L) + Change(t, S, L, from, to)
  BY <1>1, <1>2, CountAfterMove DEF Change
<1>4. /\ Making' = Count(Producers, pc', MakingAt)
      /\ Made' = Count(Producers, pc', MadeAt)
      /\ Eaten' = Count(Consumers, pc', EatenAt)
  BY DEF Making, Made, Eaten, Count, Standing
<1> QED
  BY <1>3, <1>4 DEF Making, Made, Eaten

(* A step that changes none of these stages.                               *)
Uncounted ==
  /\ UNCHANGED <<tail_, head_, dishes_changed, space_changed>>
  /\ \A p \in Producers : /\ pc'[p] \in MakingAt <=> pc[p] \in MakingAt
                          /\ pc'[p] \in MadeAt <=> pc[p] \in MadeAt
  /\ \A c \in Consumers : pc'[c] \in EatenAt <=> pc[c] \in EatenAt
  /\ version' \in [Threads -> Nat]
  /\ \A t \in Threads : pos'[t] <= tail_
  /\ \A c \in Consumers : version'[c] <= dishes_changed
  /\ \A p \in Producers : version'[p] <= space_changed

LEMMA UncountedKeeps ==
  ASSUME CounterInv, Uncounted
  PROVE  CounterInv'
<1>1. /\ Making' = Count(Producers, pc', MakingAt)
      /\ Made' = Count(Producers, pc', MadeAt)
      /\ Eaten' = Count(Consumers, pc', EatenAt)
  BY DEF Making, Made, Eaten, Count, Standing
<1>2. Making' = Making
  BY <1>1, CountSame DEF Making, Uncounted
<1>3. Made' = Made
  BY <1>1, CountSame DEF Made, Uncounted
<1>4. Eaten' = Eaten
  BY <1>1, CountSame DEF Eaten, Uncounted
<1> QED
  BY <1>2, <1>3, <1>4 DEF CounterInv, Uncounted

LEMMA UncountedEnqueue ==
  ASSUME QueueInv, CounterInv, NEW p \in Producers, try_enq(p), ~EnqClaim(p),
         UNCHANGED counters
  PROVE  Uncounted
<1> USE Roles DEF QueueInv, Typed, CounterInv, Goto, counters, Uncounted,
              MakingAt, MadeAt, EatenAt
<1>1. CASE EnqLoad(p)
  BY <1>1 DEF EnqLoad
<1>2. CASE EnqFull(p)
  BY <1>2 DEF EnqFull
<1>3. CASE EnqStale(p)
  BY <1>3 DEF EnqStale
<1>4. CASE EnqMatch(p)
  BY <1>4 DEF EnqMatch
<1>5. CASE EnqCasFails(p)
  BY <1>5 DEF EnqCasFails
<1>6. CASE Write(p)
  BY <1>6 DEF Write
<1>7. CASE EnqPublish(p)
  BY <1>7 DEF EnqPublish
<1> QED
  BY <1>1, <1>2, <1>3, <1>4, <1>5, <1>6, <1>7 DEF try_enq

LEMMA UncountedDequeue ==
  ASSUME QueueInv, CounterInv, NEW c \in Consumers, try_dq(c), ~DqClaim(c),
         UNCHANGED counters
  PROVE  Uncounted
<1> USE Roles DEF QueueInv, Typed, CounterInv, Goto, counters, Uncounted,
              MakingAt, MadeAt, EatenAt
<1>1. CASE DqLoad(c)
  BY <1>1 DEF DqLoad, Window
<1>2. CASE DqStale(c)
  BY <1>2 DEF DqStale
<1>3. CASE DqEmpty(c)
  BY <1>3 DEF DqEmpty
<1>4. CASE DqMatch(c)
  BY <1>4 DEF DqMatch
<1>5. CASE DqCasFails(c)
  BY <1>5 DEF DqCasFails
<1>6. CASE Read(c)
  BY <1>6 DEF Read
<1>7. CASE DqPublish(c)
  BY <1>7 DEF DqPublish
<1> QED
  BY <1>1, <1>2, <1>3, <1>4, <1>5, <1>6, <1>7 DEF try_dq

(* The two claims, whichever way the threads wait.                         *)
LEMMA CountedClaims ==
  ASSUME QueueInv, CounterInv, UNCHANGED counters,
         \/ \E p \in Producers : EnqClaim(p)
         \/ \E c \in Consumers : DqClaim(c)
  PROVE  CounterInv'
<1> USE Roles, CountsAreNat DEF QueueInv, Typed, CounterInv
<1>n. UNCHANGED <<dishes_changed, space_changed, version>>
  BY DEF counters
<1>1. ASSUME NEW p \in Producers, EnqClaim(p) PROVE CounterInv'
  <2>1. Goto(p, "enq_cas", "write")
    BY <1>1 DEF EnqClaim
  <2>2. Making' = Making - 1 /\ Made' = Made + 1 /\ Eaten' = Eaten
    BY <2>1, CountsAfterGoto DEF Change, MakingAt, MadeAt
  <2>3. tail_' = tail_ + 1 /\ UNCHANGED <<head_, pos>>
    BY <1>1 DEF EnqClaim
  <2> QED
    BY <1>n, <2>2, <2>3
<1>2. ASSUME NEW c \in Consumers, DqClaim(c) PROVE CounterInv'
  <2>1. Goto(c, "deq_cas", "read")
    BY <1>2 DEF DqClaim
  <2>2. Making' = Making /\ Made' = Made /\ Eaten' = Eaten + 1
    BY <2>1, CountsAfterGoto DEF Change, EatenAt
  <2>3. head_' = head_ + 1 /\ UNCHANGED <<tail_, pos>>
    BY <1>2 DEF DqClaim
  <2> QED
    BY <1>n, <2>2, <2>3
<1> QED
  BY <1>1, <1>2

(* A chef makes a dish only while MaxDishes leaves room for it.            *)
LEMMA CountedDish ==
  ASSUME QueueInv, CounterInv, NEW p \in Producers, NEW to \in {"version", "enq"},
         MayMakeDish, Goto(p, "idle", to),
         UNCHANGED <<tail_, head_, pos, counters>>
  PROVE  CounterInv'
<1> USE Roles, CountsAreNat DEF QueueInv, Typed, CounterInv
<1>1. Making' = Making + 1 /\ Made' = Made /\ Eaten' = Eaten
  BY CountsAfterGoto DEF Change, MakingAt, MadeAt
<1>2. Undelivered = Standing(Producers, pc, MakingAt)
  BY DEF Undelivered, Standing, MakingAt
<1>3. tail_ + Making < MaxDishes
  BY <1>2 DEF MayMakeDish, Making, Count
<1> QED
  BY <1>1, <1>3, VyukovAssumption DEF counters

LEMMA CountersOfSpinning ==
  ASSUME QueueInv, CounterInv, SpinNext, UNCHANGED counters
  PROVE  CounterInv'
<1> USE Roles DEF QueueInv, Typed, CounterInv
<1>1. ASSUME NEW p \in Producers, SpinMakeDish(p) PROVE CounterInv'
  <2>1. /\ Goto(p, "idle", "enq")
        /\ UNCHANGED <<tail_, head_, pos>>
    BY <1>1 DEF SpinMakeDish, Goto
  <2>2. MayMakeDish
    BY <1>1 DEF SpinMakeDish
  <2> QED
    BY <2>1, <2>2, CountedDish
<1>2. ASSUME NEW p \in Producers, SpinMadeDish(p) PROVE CounterInv'
  <2>1. /\ Goto(p, "enqueued", "idle")
        /\ UNCHANGED <<tail_, head_, pos>>
    BY <1>2 DEF SpinMadeDish, Goto
  <2>2. Making' = Making /\ Made' = Made - 1 /\ Eaten' = Eaten
    BY <2>1, CountsAreNat, CountsAfterGoto DEF Change, MakingAt, MadeAt
  <2>3. UNCHANGED <<dishes_changed, space_changed, version>>
    BY DEF counters
  <2> QED
    BY <2>1, <2>2, <2>3, CountsAreNat
<1>3. ASSUME NEW p \in Producers, YieldFull(p) PROVE CounterInv'
  BY <1>3, UncountedKeeps
  DEF YieldFull, Goto, Uncounted, counters, MakingAt, MadeAt, EatenAt
<1>4. ASSUME NEW c \in Consumers, SpinCall(c) PROVE CounterInv'
  BY <1>4, UncountedKeeps
  DEF SpinCall, Goto, Uncounted, counters, MakingAt, MadeAt, EatenAt
<1>5. ASSUME NEW c \in Consumers, SpinAteDish(c) PROVE CounterInv'
  <2>1. /\ Goto(c, "dequeued", "idle")
        /\ UNCHANGED <<tail_, head_, pos>>
    BY <1>5 DEF SpinAteDish, Goto
  <2>2. Making' = Making /\ Made' = Made /\ Eaten' = Eaten - 1
    BY <2>1, CountsAreNat, CountsAfterGoto DEF Change, EatenAt
  <2> QED
    BY <2>1, <2>2, CountsAreNat DEF counters
<1>6. ASSUME NEW c \in Consumers, YieldEmpty(c) PROVE CounterInv'
  BY <1>6, UncountedKeeps
  DEF YieldEmpty, Goto, Uncounted, counters, MakingAt, MadeAt, EatenAt
<1>7. ASSUME NEW p \in Producers, try_enq(p) PROVE CounterInv'
  BY <1>7, UncountedEnqueue, UncountedKeeps, CountedClaims
<1>8. ASSUME NEW c \in Consumers, try_dq(c) PROVE CounterInv'
  BY <1>8, UncountedDequeue, UncountedKeeps, CountedClaims
<1> QED
  BY <1>1, <1>2, <1>3, <1>4, <1>5, <1>6, <1>7, <1>8
  DEF SpinNext, SpinProducer, SpinConsumer

LEMMA CountersOfParking ==
  ASSUME QueueInv, CounterInv, Next
  PROVE  CounterInv'
<1> USE Roles DEF QueueInv, Typed, CounterInv, counters
<1>1. ASSUME NEW p \in Producers, MakeDish(p) PROVE CounterInv'
  <2>1. MayMakeDish /\ Goto(p, "idle", "version")
    BY <1>1 DEF MakeDish
  <2>2. UNCHANGED <<tail_, head_, pos, counters>>
    BY <1>1 DEF MakeDish
  <2> QED
    BY <2>1, <2>2, CountedDish
<1>2. ASSUME NEW p \in Producers, LoadSpace(p) PROVE Uncounted
  BY <1>2 DEF LoadSpace, Goto, Uncounted, MakingAt, MadeAt, EatenAt
<1>3. ASSUME NEW p \in Producers, SpaceUnchanged(p) PROVE Uncounted
  BY <1>3 DEF SpaceUnchanged, Goto, Uncounted, MakingAt, MadeAt, EatenAt
<1>4. ASSUME NEW p \in Producers, SpaceChanged(p) PROVE Uncounted
  BY <1>4 DEF SpaceChanged, Goto, Uncounted, MakingAt, MadeAt, EatenAt
<1>5. ASSUME NEW p \in Producers, ProducerWakes(p) PROVE Uncounted
  BY <1>5 DEF ProducerWakes, Goto, Uncounted, MakingAt, MadeAt, EatenAt
<1>6. ASSUME NEW p \in Producers, BumpDishes(p) PROVE CounterInv'
  <2>1. /\ Goto(p, "enqueued", "notify")
        /\ dishes_changed' = dishes_changed + 1
        /\ UNCHANGED <<tail_, head_, pos, space_changed, version>>
    BY <1>6 DEF BumpDishes
  <2>2. Making' = Making /\ Made' = Made - 1 /\ Eaten' = Eaten
    BY <2>1, CountsAreNat, CountsAfterGoto DEF Change, MakingAt, MadeAt
  <2> QED
    BY <2>1, <2>2, CountsAreNat
<1>7. ASSUME NEW p \in Producers, NotifyConsumer(p) PROVE Uncounted
  BY <1>7 DEF NotifyConsumer, NotifyOne, Sleepers, Uncounted, MakingAt, MadeAt, EatenAt
<1>8. ASSUME NEW c \in Consumers, Call(c) PROVE Uncounted
  BY <1>8 DEF Call, Goto, Uncounted, MakingAt, MadeAt, EatenAt
<1>9. ASSUME NEW c \in Consumers, LoadDishes(c) PROVE Uncounted
  BY <1>9 DEF LoadDishes, Goto, Uncounted, MakingAt, MadeAt, EatenAt
<1>10. ASSUME NEW c \in Consumers, DishesUnchanged(c) PROVE Uncounted
  BY <1>10 DEF DishesUnchanged, Goto, Uncounted, MakingAt, MadeAt, EatenAt
<1>11. ASSUME NEW c \in Consumers, DishesChanged(c) PROVE Uncounted
  BY <1>11 DEF DishesChanged, Goto, Uncounted, MakingAt, MadeAt, EatenAt
<1>12. ASSUME NEW c \in Consumers, ConsumerWakes(c) PROVE Uncounted
  BY <1>12 DEF ConsumerWakes, Goto, Uncounted, MakingAt, MadeAt, EatenAt
<1>13. ASSUME NEW c \in Consumers, BumpSpace(c) PROVE CounterInv'
  <2>1. /\ Goto(c, "dequeued", "notify")
        /\ space_changed' = space_changed + 1
        /\ UNCHANGED <<tail_, head_, pos, dishes_changed, version>>
    BY <1>13 DEF BumpSpace
  <2>2. Making' = Making /\ Made' = Made /\ Eaten' = Eaten - 1
    BY <2>1, CountsAreNat, CountsAfterGoto DEF Change, EatenAt
  <2> QED
    BY <2>1, <2>2, CountsAreNat
<1>14. ASSUME NEW c \in Consumers, NotifyProducer(c) PROVE Uncounted
  BY <1>14 DEF NotifyProducer, NotifyOne, Sleepers, Uncounted, MakingAt, MadeAt, EatenAt
<1>15. ASSUME NothingLeft PROVE Uncounted
  BY <1>15 DEF NothingLeft, vars, Uncounted
<1>16. ASSUME NEW p \in Producers, producer(p) PROVE CounterInv'
  BY <1>16, <1>1, <1>2, <1>3, <1>4, <1>6, <1>7, UncountedKeeps,
     UncountedEnqueue, CountedClaims DEF producer
<1>17. ASSUME NEW c \in Consumers, consumer(c) PROVE CounterInv'
  BY <1>17, <1>8, <1>9, <1>10, <1>11, <1>13, <1>14, UncountedKeeps,
     UncountedDequeue, CountedClaims DEF consumer
<1> QED
  BY <1>5, <1>12, <1>15, <1>16, <1>17, UncountedKeeps DEF Next

LEMMA CounterInvHolds == MCSpec => []CounterInv
<1> USE VyukovAssumption, Roles
<1>1. ASSUME MCInit PROVE CounterInv
  <2>1. Making = 0 /\ Made = 0 /\ Eaten = 0
    BY <1>1, CountZero DEF MCInit, Init, QueueInit, Making, Made, Eaten,
       MakingAt, MadeAt, EatenAt
  <2> QED
    BY <1>1, <2>1 DEF MCInit, Init, QueueInit, CounterInv
<1>2. ASSUME QueueInv, CounterInv, [MCNext]_<<vars, wiring>> PROVE CounterInv'
  <2>1. CASE UNCHANGED <<vars, wiring>>
    BY <1>2, <2>1, UncountedKeeps DEF vars, Uncounted, CounterInv
  <2> QED
    BY <1>2, <2>1, CountersOfParking, CountersOfSpinning DEF MCNext
<1> QED
  BY <1>1, <1>2, QueueInvHolds, PTL DEF MCSpec

(* A position never passes the dishes made, a generation counter never the *)
(* positions claimed, and every sequence number is within one round of     *)
(* them (8_gen_counter_vyukov_mpmc.cpp, the positions and the counters).   *)
THEOREM TypeCorrect == MCSpec => []TypeOK
<1>1. ASSUME QueueInv, CounterInv PROVE TypeOK
  <2> USE Roles, CountsAreNat, VyukovAssumption, <1>1 DEF QueueInv, Typed, CounterInv
  <2>1. head_ <= tail_ /\ tail_ <= MaxDishes
    BY DEF Window
  <2>2. ASSUME NEW s \in Slots PROVE seq[s] \in Positions
    <3>1. PICK j \in Nat : head_ <= j /\ j < head_ + N /\ Slot(j) = s
      BY RemainderCovers DEF Slot, Slots
    <3>2. (Claimed(j) /\ j < tail_) \/ Unclaimed(j)
      BY <3>1 DEF Window
    <3> QED
      BY <2>1, <3>1, <3>2 DEF Claimed, Unclaimed, Positions
  <2>3. \A t \in Threads : pos[t] \in Positions
    BY <2>1 DEF Positions
  <2>4. \A t \in Threads : version[t] \in 0..MaxDishes
    BY <2>1 DEF Threads
  <2> QED
    BY <2>1, <2>2, <2>3, <2>4 DEF TypeOK, QueueTypeOK
<1> QED
  BY <1>1, QueueInvHolds, CounterInvHolds, PTL

-----------------------------------------------------------------------------
(* Wake-ups.  A thread that is not parked after its step leaves nothing to *)
(* show for its own side.  The other side depends on it only if it         *)
(* announces a dish or a place.                                            *)

Bystander(t) ==
  /\ \A u \in Threads \ {t} : pc'[u] = pc[u] /\ version'[u] = version[u]
  /\ {pc[t], pc'[t]} \cap {"enqueued", "dequeued", "notify"} = {}
  /\ UNCHANGED <<dishes_changed, space_changed>>

LEMMA ChefStandsBy ==
  ASSUME WakeInv, NEW p \in Producers, Bystander(p), UNCHANGED <<head_, seq>>
  PROVE  CustomersCalled'
  BY Roles DEF WakeInv, CustomersCalled, Parked, Bystander

LEMMA CustomerStandsBy ==
  ASSUME WakeInv, NEW c \in Consumers, Bystander(c), UNCHANGED <<tail_, seq>>
  PROVE  (Producers # {} => ChefsCalled)'
  BY Roles DEF WakeInv, ChefsCalled, Parked, Bystander

LEMMA CustomerNotParked ==
  ASSUME NEW c \in Consumers, pc'[c] \notin {"asleep", "empty", "full"}
  PROVE  CustomersCalled'
  BY DEF CustomersCalled, Parked

LEMMA ChefNotParked ==
  ASSUME NEW p \in Producers, pc'[p] \notin {"asleep", "empty", "full"}
  PROVE  ChefsCalled'
  BY DEF ChefsCalled, Parked

LEMMA WakeAfterEnqueue ==
  ASSUME QueueInv, WakeInv, NEW p \in Producers, try_enq(p), UNCHANGED counters
  PROVE  WakeInv'
<1> USE Roles DEF QueueInv, Typed, Goto, counters
<1> DEFINE Aside == Bystander(p) /\ UNCHANGED <<head_, seq>>
           Unparked == pc'[p] \notin {"asleep", "empty", "full"}
<1>1. CASE EnqLoad(p)
  <2>1. Aside /\ Unparked
    BY <1>1 DEF EnqLoad, Bystander
  <2> QED
    BY <2>1, ChefStandsBy, ChefNotParked DEF WakeInv
<1>2. CASE EnqFull(p)
  <2>1. Aside
    BY <1>2 DEF EnqFull, Bystander
  <2>2. pos[p] <= tail_ /\ seq[Slot(pos[p])] < pos[p]
    BY <1>2 DEF EnqFull, EnqueueLoaded
  <2>3. pos[p] = tail_
    BY <2>2, SlotInRange, NeverBehind
  <2>4. ~(seq[Slot(tail_)] = tail_)'
    BY <1>2, <2>2, <2>3 DEF EnqFull
  <2>5. ChefsCalled'
    BY <2>4 DEF ChefsCalled
  <2> QED
    BY <2>1, <2>5, ChefStandsBy DEF WakeInv
<1>3. CASE EnqStale(p)
  <2>1. Aside /\ Unparked
    BY <1>3 DEF EnqStale, Bystander
  <2> QED
    BY <2>1, ChefStandsBy, ChefNotParked DEF WakeInv
<1>4. CASE EnqMatch(p)
  <2>1. Aside /\ Unparked
    BY <1>4 DEF EnqMatch, Bystander
  <2> QED
    BY <2>1, ChefStandsBy, ChefNotParked DEF WakeInv
<1>5. CASE EnqCasFails(p)
  <2>1. Aside /\ Unparked
    BY <1>5 DEF EnqCasFails, Bystander
  <2> QED
    BY <2>1, ChefStandsBy, ChefNotParked DEF WakeInv
<1>6. CASE EnqClaim(p)
  <2>1. Aside /\ Unparked
    BY <1>6 DEF EnqClaim, Bystander
  <2> QED
    BY <2>1, ChefStandsBy, ChefNotParked DEF WakeInv
<1>7. CASE Write(p)
  <2>1. Aside /\ Unparked
    BY <1>7 DEF Write, Bystander
  <2> QED
    BY <2>1, ChefStandsBy, ChefNotParked DEF WakeInv
<1>8. CASE EnqPublish(p)
  <2>1. Unparked /\ pc'[p] = "enqueued"
    BY <1>8 DEF EnqPublish
  <2>2. CustomersCalled'
    BY <2>1 DEF CustomersCalled
  <2> QED
    BY <2>1, <2>2, ChefNotParked DEF WakeInv
<1> QED
  BY <1>1, <1>2, <1>3, <1>4, <1>5, <1>6, <1>7, <1>8 DEF try_enq

LEMMA WakeAfterDequeue ==
  ASSUME QueueInv, WakeInv, NEW c \in Consumers, try_dq(c), UNCHANGED counters
  PROVE  WakeInv'
<1> USE Roles DEF QueueInv, Typed, Goto, counters
<1> DEFINE Aside == Bystander(c) /\ UNCHANGED <<tail_, seq>>
           Unparked == pc'[c] \notin {"asleep", "empty", "full"}
<1>1. CASE DqLoad(c)
  <2>1. Aside /\ Unparked
    BY <1>1 DEF DqLoad, Bystander
  <2> QED
    BY <2>1, CustomerStandsBy, CustomerNotParked DEF WakeInv
<1>2. CASE DqEmpty(c)
  <2>1. Aside
    BY <1>2 DEF DqEmpty, Bystander
  <2>2. pos[c] <= head_ /\ seq[Slot(pos[c])] <= pos[c]
    BY <1>2, SlotInRange DEF DqEmpty, DequeueLoaded
  <2>3. pos[c] = head_
    BY <2>2, SlotInRange, NeverBehind
  <2>4. ~(seq[Slot(head_)] = head_ + 1)'
    BY <1>2, <2>2, <2>3 DEF DqEmpty
  <2>5. CustomersCalled'
    BY <2>4 DEF CustomersCalled
  <2> QED
    BY <2>1, <2>5, CustomerStandsBy DEF WakeInv
<1>3. CASE DqStale(c)
  <2>1. Aside /\ Unparked
    BY <1>3 DEF DqStale, Bystander
  <2> QED
    BY <2>1, CustomerStandsBy, CustomerNotParked DEF WakeInv
<1>4. CASE DqMatch(c)
  <2>1. Aside /\ Unparked
    BY <1>4 DEF DqMatch, Bystander
  <2> QED
    BY <2>1, CustomerStandsBy, CustomerNotParked DEF WakeInv
<1>5. CASE DqCasFails(c)
  <2>1. Aside /\ Unparked
    BY <1>5 DEF DqCasFails, Bystander
  <2> QED
    BY <2>1, CustomerStandsBy, CustomerNotParked DEF WakeInv
<1>6. CASE DqClaim(c)
  <2>1. Aside /\ Unparked
    BY <1>6 DEF DqClaim, Bystander
  <2> QED
    BY <2>1, CustomerStandsBy, CustomerNotParked DEF WakeInv
<1>7. CASE Read(c)
  <2>1. Aside /\ Unparked
    BY <1>7 DEF Read, Bystander
  <2> QED
    BY <2>1, CustomerStandsBy, CustomerNotParked DEF WakeInv
<1>8. CASE DqPublish(c)
  <2>1. Unparked /\ pc'[c] = "dequeued"
    BY <1>8 DEF DqPublish
  <2>2. ChefsCalled'
    BY <2>1 DEF ChefsCalled
  <2> QED
    BY <2>1, <2>2, CustomerNotParked DEF WakeInv
<1> QED
  BY <1>1, <1>2, <1>3, <1>4, <1>5, <1>6, <1>7, <1>8 DEF try_dq

LEMMA WakeAfterChef ==
  ASSUME QueueInv, CounterInv, WakeInv, NEW p \in Producers,
         producer(p) \/ ProducerWakes(p)
  PROVE  WakeInv'
<1> USE Roles DEF QueueInv, Typed, CounterInv, Goto, counters
<1> DEFINE Aside == Bystander(p) /\ UNCHANGED <<head_, seq>>
           Unparked == pc'[p] \notin {"asleep", "empty", "full"}
<1>1. CASE MakeDish(p)
  <2>1. Aside /\ Unparked
    BY <1>1 DEF MakeDish, Bystander
  <2> QED
    BY <2>1, ChefStandsBy, ChefNotParked DEF WakeInv
<1>2. CASE LoadSpace(p)
  <2>1. Aside /\ Unparked
    BY <1>2 DEF LoadSpace, Bystander
  <2> QED
    BY <2>1, ChefStandsBy, ChefNotParked DEF WakeInv
<1>3. CASE SpaceChanged(p)
  <2>1. Aside /\ Unparked
    BY <1>3 DEF SpaceChanged, Bystander
  <2> QED
    BY <2>1, ChefStandsBy, ChefNotParked DEF WakeInv
<1>4. CASE SpaceUnchanged(p)
  <2>1. Aside
    BY <1>4 DEF SpaceUnchanged, Bystander
  <2>2. ChefsCalled'
    BY <1>4 DEF SpaceUnchanged, WakeInv, ChefsCalled, Parked
  <2> QED
    BY <2>1, <2>2, ChefStandsBy DEF WakeInv
<1>5. CASE ProducerWakes(p)
  <2>1. Aside
    BY <1>5 DEF ProducerWakes, Bystander
  <2>2. ChefsCalled'
    BY <1>5 DEF ProducerWakes, WakeInv, ChefsCalled, Parked
  <2> QED
    BY <2>1, <2>2, ChefStandsBy DEF WakeInv
<1>6. CASE BumpDishes(p)
  <2>1. Unparked /\ pc'[p] = "notify"
    BY <1>6 DEF BumpDishes
  <2>2. CustomersCalled'
    BY <1>6, <2>1 DEF BumpDishes, CustomersCalled, Parked, ConsumerLocations
  <2> QED
    BY <2>1, <2>2, ChefNotParked DEF WakeInv
<1>7. CASE NotifyConsumer(p)
  <2>1. /\ pc[p] = "notify" /\ pc'[p] = "idle"
        /\ UNCHANGED <<head_, seq, dishes_changed, version>>
    BY <1>7 DEF NotifyConsumer, NotifyOne, Sleepers
  <2>2. CASE /\ Sleepers(Consumers) = {}
             /\ pc' = [pc EXCEPT ![p] = "idle"]
    <3>1. \E c \in Consumers : pc[c] # "asleep"
      BY <2>2, VyukovAssumption DEF Sleepers
    <3> QED
      BY <2>1, <2>2, <3>1, ChefNotParked DEF WakeInv, CustomersCalled, Parked
  <2>3. ASSUME NEW w \in Sleepers(Consumers),
               pc' = [pc EXCEPT ![p] = "idle", ![w] = "empty"]
        PROVE  WakeInv'
    BY <2>1, <2>3, ChefNotParked DEF Sleepers, WakeInv, CustomersCalled, Parked
  <2> QED
    BY <1>7, <2>2, <2>3 DEF NotifyConsumer, NotifyOne
<1> QED
  BY <1>1, <1>2, <1>3, <1>4, <1>5, <1>6, <1>7, WakeAfterEnqueue DEF producer

LEMMA WakeAfterCustomer ==
  ASSUME QueueInv, CounterInv, WakeInv, NEW c \in Consumers,
         consumer(c) \/ ConsumerWakes(c)
  PROVE  WakeInv'
<1> USE Roles DEF QueueInv, Typed, CounterInv, Goto, counters
<1> DEFINE Aside == Bystander(c) /\ UNCHANGED <<tail_, seq>>
           Unparked == pc'[c] \notin {"asleep", "empty", "full"}
<1>1. CASE Call(c)
  <2>1. Aside /\ Unparked
    BY <1>1 DEF Call, Bystander
  <2> QED
    BY <2>1, CustomerStandsBy, CustomerNotParked DEF WakeInv
<1>2. CASE LoadDishes(c)
  <2>1. Aside /\ Unparked
    BY <1>2 DEF LoadDishes, Bystander
  <2> QED
    BY <2>1, CustomerStandsBy, CustomerNotParked DEF WakeInv
<1>3. CASE DishesChanged(c)
  <2>1. Aside /\ Unparked
    BY <1>3 DEF DishesChanged, Bystander
  <2> QED
    BY <2>1, CustomerStandsBy, CustomerNotParked DEF WakeInv
<1>4. CASE DishesUnchanged(c)
  <2>1. Aside
    BY <1>4 DEF DishesUnchanged, Bystander
  <2>2. CustomersCalled'
    BY <1>4 DEF DishesUnchanged, WakeInv, CustomersCalled, Parked
  <2> QED
    BY <2>1, <2>2, CustomerStandsBy DEF WakeInv
<1>5. CASE ConsumerWakes(c)
  <2>1. Aside
    BY <1>5 DEF ConsumerWakes, Bystander
  <2>2. CustomersCalled'
    BY <1>5 DEF ConsumerWakes, WakeInv, CustomersCalled, Parked
  <2> QED
    BY <2>1, <2>2, CustomerStandsBy DEF WakeInv
<1>6. CASE BumpSpace(c)
  <2>1. Unparked /\ pc'[c] = "notify"
    BY <1>6 DEF BumpSpace
  <2>2. ChefsCalled'
    BY <1>6, <2>1 DEF BumpSpace, ChefsCalled, Parked, ProducerLocations
  <2> QED
    BY <2>1, <2>2, CustomerNotParked DEF WakeInv
<1>7. CASE NotifyProducer(c)
  <2>1. /\ pc[c] = "notify" /\ pc'[c] = "idle"
        /\ UNCHANGED <<tail_, seq, space_changed, version>>
    BY <1>7 DEF NotifyProducer, NotifyOne, Sleepers
  <2>2. CASE /\ Sleepers(Producers) = {}
             /\ pc' = [pc EXCEPT ![c] = "idle"]
    <3>1. Producers # {} => \E p \in Producers : pc[p] # "asleep"
      BY <2>2 DEF Sleepers
    <3> QED
      BY <2>1, <2>2, <3>1, CustomerNotParked DEF WakeInv, ChefsCalled, Parked
  <2>3. ASSUME NEW w \in Sleepers(Producers),
               pc' = [pc EXCEPT ![c] = "idle", ![w] = "full"]
        PROVE  WakeInv'
    BY <2>1, <2>3, CustomerNotParked DEF Sleepers, WakeInv, ChefsCalled, Parked
  <2> QED
    BY <1>7, <2>2, <2>3 DEF NotifyProducer, NotifyOne
<1> QED
  BY <1>1, <1>2, <1>3, <1>4, <1>5, <1>6, <1>7, WakeAfterDequeue DEF consumer

(* While the dish next in line is readable, not all customers are parked   *)
(* unless a chef is about to announce a dish, and likewise for the chefs   *)
(* and the place next in line: no notification is lost between the try,    *)
(* the comparison of the version and the wait                              *)
(* (8_gen_counter_vyukov_mpmc.cpp, producer and consumer).                 *)
THEOREM NobodyIsOverlooked == MCSpec => []NobodyOverlooked
<1> DEFINE Awake == parks => WakeInv
<1>1. ASSUME MCInit PROVE Awake
  BY <1>1, VyukovAssumption
  DEF MCInit, Init, QueueInit, WakeInv, CustomersCalled, ChefsCalled, Parked, Threads
<1>2. ASSUME QueueInv, CounterInv, Awake, [MCNext]_<<vars, wiring>> PROVE Awake'
  <2>1. CASE UNCHANGED <<vars, wiring>>
    BY <1>2, <2>1 DEF vars, parks, WakeInv, CustomersCalled, ChefsCalled, Parked
  <2>2. CASE parks /\ NothingLeft
    BY <1>2, <2>2 DEF NothingLeft, vars, parks, WakeInv, CustomersCalled, ChefsCalled, Parked
  <2>3. CASE parks /\ Next /\ ~NothingLeft
    BY <1>2, <2>3, WakeAfterChef, WakeAfterCustomer DEF Next
  <2>4. CASE ~parks /\ UNCHANGED wiring
    BY <2>4 DEF parks
  <2> QED
    BY <1>2, <2>1, <2>2, <2>3, <2>4 DEF MCNext
<1>3. Awake => NobodyOverlooked
  BY DEF NobodyOverlooked, NeverAllParked, WakeInv, CustomersCalled, ChefsCalled
<1> QED
  BY <1>1, <1>2, <1>3, QueueInvHolds, CounterInvHolds, PTL DEF MCSpec

-----------------------------------------------------------------------------
(* The queue as a FIFO: what the refinement mapping makes of a state       *)

Items == [i \in 1..(tail_ - head_) |-> DishAt(head_ + i - 1)]

Statuses == [t \in Threads |-> Status(t)]

Hands == [t \in Threads |-> Hand(t)]

(* DishAt for the program counter f, the positions g, the arguments h and  *)
(* the slots d of a state.                                                 *)
DishIn(k, f, g, h, d) ==
  IF \E p \in Producers : f[p] = "write" /\ g[p] = k
    THEN h[CHOOSE p \in Producers : f[p] = "write" /\ g[p] = k]
    ELSE d[Slot(k)]

SoleWriter(p, k, f, g) ==
  /\ p \in Producers /\ f[p] = "write" /\ g[p] = k
  /\ \A q \in Producers : f[q] = "write" /\ g[q] = k => q = p

LEMMA DishInHand ==
  ASSUME NEW k, NEW f, NEW g, NEW h, NEW d, NEW p, SoleWriter(p, k, f, g)
  PROVE  DishIn(k, f, g, h, d) = h[p]
<1> USE DEF SoleWriter
<1> DEFINE w == CHOOSE q \in Producers : f[q] = "write" /\ g[q] = k
<1>1. w \in Producers /\ f[w] = "write" /\ g[w] = k
  OBVIOUS
<1>2. w = p
  BY <1>1
<1> QED
  BY <1>2 DEF DishIn

LEMMA DishInSlot ==
  ASSUME NEW k, NEW f, NEW g, NEW h, NEW d,
         ~\E p \in Producers : f[p] = "write" /\ g[p] = k
  PROVE  DishIn(k, f, g, h, d) = d[Slot(k)]
  BY DEF DishIn

LEMMA ItemsAre ==
  /\ Items = [i \in 1..(tail_ - head_) |->
               DishIn(head_ + i - 1, pc, pos, elem, data)]
  /\ Items' = [i \in 1..(tail_' - head_') |->
                DishIn(head_' + i - 1, pc', pos', elem', data')]
  BY DEF Items, DishAt, DishIn

(* A dish stays what it is while no writer of its position comes or goes.  *)
LEMMA DishStays ==
  ASSUME QueueInv, NEW k \in Nat,
         \A p \in Producers :
           /\ pc'[p] = "write" /\ pos'[p] = k <=> pc[p] = "write" /\ pos[p] = k
           /\ pc[p] = "write" /\ pos[p] = k => elem'[p] = elem[p],
         data'[Slot(k)] = data[Slot(k)]
  PROVE  DishIn(k, pc', pos', elem', data') = DishIn(k, pc, pos, elem, data)
<1>1. CASE \E p \in Producers : pc[p] = "write" /\ pos[p] = k
  <2>1. PICK p \in Producers : pc[p] = "write" /\ pos[p] = k
    BY <1>1
  <2>2. SoleWriter(p, k, pc, pos)
    BY <2>1 DEF SoleWriter, QueueInv, EnqueueOwns, MidEnqueue
  <2>3. SoleWriter(p, k, pc', pos')
    BY <2>1, <2>2 DEF SoleWriter
  <2>4. /\ DishIn(k, pc, pos, elem, data) = elem[p]
        /\ DishIn(k, pc', pos', elem', data') = elem'[p]
    BY <2>2, <2>3, DishInHand
  <2> QED
    BY <2>1, <2>4
<1>2. CASE ~\E p \in Producers : pc[p] = "write" /\ pos[p] = k
  BY <1>2, DishInSlot
<1> QED
  BY <1>1, <1>2

LEMMA ItemsTyped ==
  ASSUME QueueInv
  PROVE  Items \in Seq(Dishes \cup {NoDish}) /\ Len(Items) = tail_ - head_
<1> USE Roles DEF QueueInv, Typed
<1>1. ASSUME NEW k \in Nat
      PROVE  DishIn(k, pc, pos, elem, data) \in Dishes \cup {NoDish}
  <2>1. CASE ~\E p \in Producers : pc[p] = "write" /\ pos[p] = k
    BY <2>1, DishInSlot, SlotInRange
  <2>2. CASE \E p \in Producers : pc[p] = "write" /\ pos[p] = k
    <3>1. PICK p \in Producers : pc[p] = "write" /\ pos[p] = k
      BY <2>2
    <3>2. SoleWriter(p, k, pc, pos)
      BY <3>1 DEF SoleWriter, EnqueueOwns, MidEnqueue
    <3> QED
      BY <3>2, DishInHand DEF SoleWriter
  <2> QED
    BY <2>1, <2>2
<1>2. tail_ - head_ \in Nat
  BY DEF Window
<1> QED
  BY <1>1, <1>2, ItemsAre

(* The steps of the FIFO in these terms.                                   *)

FIFOStep == [FIFO!FIFONext]_(FIFO!fifoVars)

LEMMA MapsToStutter ==
  ASSUME UNCHANGED <<Items, Statuses, Hands>>
  PROVE  FIFOStep
  BY DEF FIFOStep, FIFO!fifoVars, Items, Statuses, Hands

LEMMA MapsToCallPush ==
  ASSUME NEW p \in Producers, NEW d \in Dishes, Statuses[p] = "idle",
         Statuses' = [Statuses EXCEPT ![p] = "called"],
         Hands' = [Hands EXCEPT ![p] = d], Items' = Items
  PROVE  FIFOStep
<1>1. FIFO!CallPush(p)
  BY DEF FIFO!CallPush, Items, Statuses, Hands
<1> QED
  BY <1>1 DEF FIFOStep, FIFO!FIFONext

LEMMA MapsToDoPush ==
  ASSUME NEW p \in Producers, Statuses[p] = "called", Len(Items) < N,
         Items' = Append(Items, Hands[p]),
         Statuses' = [Statuses EXCEPT ![p] = "done"], Hands' = Hands
  PROVE  FIFOStep
<1>1. FIFO!DoPush(p)
  BY DEF FIFO!DoPush, Items, Statuses, Hands
<1> QED
  BY <1>1 DEF FIFOStep, FIFO!FIFONext

LEMMA MapsToCallPop ==
  ASSUME NEW c \in Consumers, Statuses[c] = "idle",
         Statuses' = [Statuses EXCEPT ![c] = "called"],
         UNCHANGED <<Items, Hands>>
  PROVE  FIFOStep
<1>1. FIFO!CallPop(c)
  BY DEF FIFO!CallPop, Items, Statuses, Hands
<1> QED
  BY <1>1 DEF FIFOStep, FIFO!FIFONext

LEMMA MapsToDoPop ==
  ASSUME NEW c \in Consumers, Statuses[c] = "called", Items # << >>,
         Hands' = [Hands EXCEPT ![c] = Head(Items)], Items' = Tail(Items),
         Statuses' = [Statuses EXCEPT ![c] = "done"]
  PROVE  FIFOStep
<1>1. FIFO!DoPop(c)
  BY DEF FIFO!DoPop, Items, Statuses, Hands
<1> QED
  BY <1>1 DEF FIFOStep, FIFO!FIFONext

LEMMA MapsToReturn ==
  ASSUME NEW t \in Threads, Statuses[t] = "done",
         Statuses' = [Statuses EXCEPT ![t] = "idle"],
         Hands' = [Hands EXCEPT ![t] = NoDish], Items' = Items
  PROVE  FIFOStep
<1>1. FIFO!Return(t)
  BY DEF FIFO!Return, Items, Statuses, Hands
<1> QED
  BY <1>1 DEF FIFOStep, FIFO!FIFONext, Threads

(* What a step does to the status of its thread.                           *)

StatusOf(loc) ==
  CASE loc = "idle" -> "idle"
    [] loc \in {"write", "enq_publish", "enqueued",
                "read", "deq_publish", "dequeued", "notify"} -> "done"
    [] OTHER -> "called"

LEMMA StatusesAre ==
  /\ Statuses = [t \in Threads |-> StatusOf(pc[t])]
  /\ Statuses' = [t \in Threads |-> StatusOf(pc'[t])]
  BY DEF Statuses, Status, StatusOf

LEMMA StatusAfterGoto ==
  ASSUME Typed, NEW t \in Threads, NEW from, NEW to, Goto(t, from, to)
  PROVE  /\ Statuses[t] = StatusOf(from)
         /\ Statuses' = [Statuses EXCEPT ![t] = StatusOf(to)]
         /\ StatusOf(from) = StatusOf(to) => Statuses' = Statuses
<1>1. /\ pc[t] = from
      /\ \A u \in Threads : pc'[u] = IF u = t THEN to ELSE pc[u]
  BY DEF Typed, Goto
<1> QED
  BY <1>1, StatusesAre

(* Steps that leave the dishes where they are.                             *)
Calm ==
  /\ UNCHANGED <<tail_, head_, data>>
  /\ \A t \in Threads :
       /\ pc'[t] = "write" <=> pc[t] = "write"
       /\ pc'[t] = "read" <=> pc[t] = "read"
       /\ pc[t] \in {"write", "read"} => pos'[t] = pos[t] /\ elem'[t] = elem[t]

LEMMA CalmItems ==
  ASSUME QueueInv, Calm
  PROVE  Items' = Items
<1> USE Roles DEF QueueInv, Typed, Calm
<1>1. ASSUME NEW k \in Nat
      PROVE  DishIn(k, pc', pos', elem', data') = DishIn(k, pc, pos, elem, data)
  BY DishStays
<1>2. ASSUME NEW i \in 1..(tail_ - head_) PROVE head_ + i - 1 \in Nat
  OBVIOUS
<1> QED
  BY <1>1, <1>2, ItemsAre

LEMMA CalmHands ==
  ASSUME Typed, Calm
  PROVE  /\ elem' = elem => Hands' = Hands
         /\ \A t \in Threads : \A d :
              pc[t] # "read" /\ elem' = [elem EXCEPT ![t] = d] =>
                Hands' = [Hands EXCEPT ![t] = d]
<1>1. Hands = [t \in Threads |-> IF pc[t] = "read" THEN data[Slot(pos[t])] ELSE elem[t]]
  BY DEF Hands, Hand
<1>2. Hands' = [t \in Threads |-> IF pc'[t] = "read" THEN data'[Slot(pos'[t])] ELSE elem'[t]]
  BY DEF Hands, Hand
<1>3. Hands' = [t \in Threads |-> IF pc[t] = "read" THEN data[Slot(pos[t])] ELSE elem'[t]]
  BY <1>2 DEF Calm
<1> QED
  BY <1>1, <1>3 DEF Typed

(* The thread moves on; the FIFO stutters.                                 *)
LEMMA CalmGoto ==
  ASSUME QueueInv, NEW t \in Threads, NEW from, NEW to, Goto(t, from, to),
         StatusOf(from) = StatusOf(to), {from, to} \cap {"write", "read"} = {},
         UNCHANGED <<tail_, head_, data, elem>>,
         \A u \in Threads \ {t} : pos'[u] = pos[u]
  PROVE  FIFOStep
<1>1. Calm
  BY DEF Calm, QueueInv, Typed, Goto
<1> QED
  BY <1>1, CalmItems, CalmHands, StatusAfterGoto, MapsToStutter DEF QueueInv

LEMMA CalmCallPush ==
  ASSUME QueueInv, NEW p \in Producers, NEW to \in {"version", "enq"}, NEW d \in Dishes,
         Goto(p, "idle", to), elem' = [elem EXCEPT ![p] = d],
         UNCHANGED <<tail_, head_, data, pos>>
  PROVE  FIFOStep
<1> USE Roles
<1>1. Calm
  BY DEF Calm, QueueInv, Typed, Goto
<1>2. Items' = Items
  BY <1>1, CalmItems
<1>3. Hands' = [Hands EXCEPT ![p] = d]
  BY <1>1, CalmHands DEF QueueInv, Goto
<1>4. Statuses[p] = "idle" /\ Statuses' = [Statuses EXCEPT ![p] = "called"]
  BY StatusAfterGoto DEF QueueInv, StatusOf
<1> QED
  BY <1>2, <1>3, <1>4, MapsToCallPush

LEMMA CalmCallPop ==
  ASSUME QueueInv, NEW c \in Consumers, NEW to \in {"version", "deq"},
         Goto(c, "idle", to), UNCHANGED <<tail_, head_, data, pos, elem>>
  PROVE  FIFOStep
<1> USE Roles
<1>1. Calm
  BY DEF Calm, QueueInv, Typed, Goto
<1>2. Items' = Items /\ Hands' = Hands
  BY <1>1, CalmItems, CalmHands DEF QueueInv
<1>3. Statuses[c] = "idle" /\ Statuses' = [Statuses EXCEPT ![c] = "called"]
  BY StatusAfterGoto DEF QueueInv, StatusOf
<1> QED
  BY <1>2, <1>3, MapsToCallPop

LEMMA CalmReturn ==
  ASSUME QueueInv, NEW t \in Threads, NEW from \in {"enqueued", "dequeued"},
         Goto(t, from, "idle"), elem' = [elem EXCEPT ![t] = NoDish],
         UNCHANGED <<tail_, head_, data, pos>>
  PROVE  FIFOStep
<1>1. Calm
  BY DEF Calm, QueueInv, Typed, Goto
<1>2. Items' = Items
  BY <1>1, CalmItems
<1>3. Hands' = [Hands EXCEPT ![t] = NoDish]
  BY <1>1, CalmHands DEF QueueInv, Goto
<1>4. Statuses[t] = "done" /\ Statuses' = [Statuses EXCEPT ![t] = "idle"]
  BY StatusAfterGoto DEF QueueInv, StatusOf
<1> QED
  BY <1>2, <1>3, <1>4, MapsToReturn

LEMMA NotifyReturns ==
  ASSUME QueueInv, NEW t \in Threads, NEW waiters \in SUBSET Threads,
         NEW again \in {"empty", "full"},
         \A w \in waiters : pc[w] = "asleep", NotifyOne(t, waiters, again)
  PROVE  FIFOStep
<1> USE DEF QueueInv, Typed
<1>1. /\ pc[t] = "notify" /\ elem' = [elem EXCEPT ![t] = NoDish]
      /\ UNCHANGED <<tail_, head_, data, pos>>
  BY DEF NotifyOne
<1>2. \A u \in Threads : pc'[u] = IF u = t THEN "idle"
                               ELSE IF pc[u] = "asleep" THEN pc'[u] ELSE pc[u]
  BY <1>1 DEF NotifyOne
<1>3. \A u \in Threads : pc[u] = "asleep" => pc'[u] \in {"asleep", "empty", "full"}
  BY <1>1 DEF NotifyOne
<1>4. Calm
  BY <1>1, <1>2, <1>3 DEF Calm
<1>5. Items' = Items
  BY <1>4, CalmItems
<1>6. Hands' = [Hands EXCEPT ![t] = NoDish]
  BY <1>1, <1>4, CalmHands
<1>7. Statuses[t] = "done"
  BY <1>1, StatusesAre DEF StatusOf
<1>8. \A u \in Threads : StatusOf(pc'[u]) = IF u = t THEN "idle" ELSE StatusOf(pc[u])
  BY <1>2, <1>3 DEF StatusOf
<1>9. Statuses' = [Statuses EXCEPT ![t] = "idle"]
  BY <1>8, StatusesAre
<1> QED
  BY <1>5, <1>6, <1>7, <1>9, MapsToReturn

(* The CAS on tail_ is the push: the dish is in the chef's hands, but its  *)
(* place in the line is taken.                                             *)
LEMMA ClaimIsPush ==
  ASSUME QueueInv, NEW p \in Producers, EnqClaim(p)
  PROVE  FIFOStep
<1> USE Roles DEF QueueInv, Typed
<1>1. /\ pos[p] = tail_ /\ tail_' = tail_ + 1 /\ tail_ < head_ + N
  BY RoomAtClaim
<1>2. /\ UNCHANGED <<head_, data, pos, elem>>
      /\ pc[p] = "enq_cas" /\ Goto(p, "enq_cas", "write")
      /\ \A t \in Threads : pc'[t] = IF t = p THEN "write" ELSE pc[t]
  BY DEF EnqClaim, Goto
<1>3. Hands' = Hands /\ Hands[p] = elem[p]
  BY <1>2 DEF Hands, Hand
<1>4. ASSUME NEW k \in Nat, k < tail_
      PROVE  DishIn(k, pc', pos', elem', data') = DishIn(k, pc, pos, elem, data)
  BY <1>1, <1>2, <1>4, DishStays
<1>5. DishIn(tail_, pc', pos', elem', data') = elem[p]
  <2>1. SoleWriter(p, tail_, pc', pos')
    BY <1>1, <1>2 DEF SoleWriter, EnqueueOwns, MidEnqueue
  <2> QED
    BY <1>2, <2>1, DishInHand
<1>6. head_ <= tail_
  BY DEF Window
<1>7. Items' = Append(Items, elem[p])
  <2>1. Items' = [i \in 1..(Len(Items) + 1) |->
                    IF i <= Len(Items) THEN Items[i] ELSE elem[p]]
    <3>1. Len(Items) = tail_ - head_ /\ tail_' - head_' = Len(Items) + 1
      BY <1>1, <1>2, ItemsTyped
    <3>2. ASSUME NEW i \in 1..(tail_' - head_')
          PROVE  DishIn(head_' + i - 1, pc', pos', elem', data') =
                   IF i <= Len(Items) THEN Items[i] ELSE elem[p]
      <4>1. CASE i <= Len(Items)
        <5>1. head_ + i - 1 \in Nat /\ head_ + i - 1 < tail_ /\ i \in 1..(tail_ - head_)
          BY <3>1, <4>1
        <5> QED
          BY <1>2, <1>4, <4>1, <5>1, ItemsAre
      <4>2. CASE i = Len(Items) + 1
        <5>1. head_' + i - 1 = tail_ /\ ~(i <= Len(Items))
          BY <1>2, <1>6, <3>1, <4>2
        <5> QED
          BY <1>5, <5>1
      <4> QED
        BY <1>6, <3>1, <4>1, <4>2
    <3> QED
      BY <3>1, <3>2, ItemsAre
  <2> QED
    BY <2>1, ItemsTyped
<1>8. Statuses[p] = "called" /\ Statuses' = [Statuses EXCEPT ![p] = "done"]
  BY <1>2, StatusAfterGoto DEF StatusOf
<1>9. Len(Items) < N
  BY <1>1, <1>6, ItemsTyped
<1> QED
  BY <1>3, <1>7, <1>8, <1>9, MapsToDoPush

(* The CAS on head_ is the pop: the dish is still in its slot, but it is   *)
(* this customer's.                                                        *)
LEMMA ClaimIsPop ==
  ASSUME QueueInv, NEW c \in Consumers, DqClaim(c)
  PROVE  FIFOStep
<1> USE Roles DEF QueueInv, Typed
<1>1. /\ pos[c] = head_ /\ head_' = head_ + 1 /\ head_ < tail_
      /\ seq[Slot(head_)] = head_ + 1
  BY DishAtClaim
<1>2. /\ UNCHANGED <<tail_, data, pos, elem>>
      /\ pc[c] = "deq_cas" /\ Goto(c, "deq_cas", "read")
      /\ \A t \in Threads : pc'[t] = IF t = c THEN "read" ELSE pc[t]
  BY DEF DqClaim, Goto
<1>3. Len(Items) = tail_ - head_ /\ Len(Items) >= 1 /\ Items # << >>
  BY <1>1, ItemsTyped
<1>4. Head(Items) = data[Slot(head_)]
  <2>1. ~\E p \in Producers : pc[p] = "write" /\ pos[p] = head_
    BY <1>1 DEF EnqueueOwns, MidEnqueue
  <2>2. DishIn(head_, pc, pos, elem, data) = data[Slot(head_)]
    BY <2>1, DishInSlot
  <2>3. 1 \in 1..(tail_ - head_) /\ head_ + 1 - 1 = head_
    BY <1>1
  <2>4. Items[1] = DishIn(head_ + 1 - 1, pc, pos, elem, data)
    BY <2>3, ItemsAre
  <2> QED
    BY <1>3, <2>2, <2>3, <2>4, ItemsTyped
<1>5. Hands' = [Hands EXCEPT ![c] = Head(Items)]
  BY <1>1, <1>2, <1>4 DEF Hands, Hand
<1>6. ASSUME NEW k \in Nat
      PROVE  DishIn(k, pc', pos', elem', data') = DishIn(k, pc, pos, elem, data)
  BY <1>2, DishStays
<1>7. Items' = Tail(Items)
  <2>1. Items' = [i \in 1..(Len(Items) - 1) |-> Items[i + 1]]
    <3>1. tail_' - head_' = Len(Items) - 1
      BY <1>1, <1>2, <1>3
    <3>2. ASSUME NEW i \in 1..(tail_' - head_')
          PROVE  DishIn(head_' + i - 1, pc', pos', elem', data') = Items[i + 1]
      <4>1. /\ head_' + i - 1 = head_ + (i + 1) - 1 /\ head_' + i - 1 \in Nat
            /\ i + 1 \in 1..(tail_ - head_)
        BY <1>1, <1>2, <1>3, <3>1
      <4> QED
        BY <1>6, <4>1, ItemsAre
    <3> QED
      BY <3>1, <3>2, ItemsAre
  <2> QED
    BY <1>3, <2>1, ItemsTyped, TailIs
<1>8. Statuses[c] = "called" /\ Statuses' = [Statuses EXCEPT ![c] = "done"]
  BY <1>2, StatusAfterGoto DEF StatusOf
<1> QED
  BY <1>3, <1>5, <1>7, <1>8, MapsToDoPop

(* The dish goes into the slot of its position, where no other thread is.  *)
LEMMA WriteStutters ==
  ASSUME QueueInv, NEW p \in Producers, Write(p)
  PROVE  FIFOStep
<1> USE Roles DEF QueueInv, Typed
<1>1. /\ UNCHANGED <<tail_, head_, seq, pos, elem>>
      /\ pc[p] = "write" /\ Goto(p, "write", "enq_publish")
      /\ \A t \in Threads : pc'[t] = IF t = p THEN "enq_publish" ELSE pc[t]
      /\ data' = [data EXCEPT ![Slot(pos[p])] = elem[p]]
  BY DEF Write, Goto
<1>2. /\ head_ <= pos[p] /\ pos[p] < tail_ /\ tail_ <= head_ + N
      /\ seq[Slot(pos[p])] = pos[p]
  BY <1>1 DEF EnqueueOwns, MidEnqueue, Window
<1>3. Hands' = Hands
  <2>1. ASSUME NEW c \in Consumers, pc[c] = "read"
        PROVE  Slot(pos[c]) # Slot(pos[p])
    <3>1. seq[Slot(pos[c])] = pos[c] + 1
      BY <2>1 DEF DequeueOwns, MidDequeue
    <3>2. Slot(pos[c] + 1) # Slot(pos[c])
      BY SlotsApart
    <3> QED
      BY <1>2, <3>1, <3>2
  <2>2. ASSUME NEW t \in Threads PROVE Hand(t)' = Hand(t)
    BY <1>1, <2>1, SlotInRange DEF Hand, Threads, ProducerLocations
  <2> QED
    BY <2>2 DEF Hands
<1>4. ASSUME NEW k \in Nat, head_ <= k, k < tail_
      PROVE  DishIn(k, pc', pos', elem', data') = DishIn(k, pc, pos, elem, data)
  <2>1. CASE k = pos[p]
    <3>1. SoleWriter(p, k, pc, pos)
      BY <1>1, <2>1 DEF SoleWriter, EnqueueOwns, MidEnqueue
    <3>2. ~\E q \in Producers : pc'[q] = "write" /\ pos'[q] = k
      BY <1>1, <3>1 DEF SoleWriter
    <3>3. /\ DishIn(k, pc, pos, elem, data) = elem[p]
          /\ DishIn(k, pc', pos', elem', data') = data'[Slot(k)]
      BY <3>1, <3>2, DishInHand, DishInSlot
    <3> QED
      BY <1>1, <2>1, <3>3, SlotInRange
  <2>2. CASE k # pos[p]
    <3>1. data'[Slot(k)] = data[Slot(k)]
      BY <1>1, <1>2, <1>4, <2>2, SlotInRange, SlotsApart
    <3> QED
      BY <1>1, <2>2, <3>1, DishStays
  <2> QED
    BY <2>1, <2>2
<1>5. Items' = Items
  <2>1. ASSUME NEW i \in 1..(tail_ - head_)
        PROVE  /\ head_ + i - 1 \in Nat
               /\ head_ <= head_ + i - 1 /\ head_ + i - 1 < tail_
    OBVIOUS
  <2> QED
    BY <1>1, <1>4, <2>1, ItemsAre
<1>6. Statuses' = Statuses
  BY <1>1, StatusAfterGoto DEF StatusOf
<1> QED
  BY <1>3, <1>5, <1>6, MapsToStutter

(* What the customer moves out of the slot was in its hands already.       *)
LEMMA ReadStutters ==
  ASSUME QueueInv, NEW c \in Consumers, Read(c)
  PROVE  FIFOStep
<1> USE Roles DEF QueueInv, Typed
<1>1. /\ UNCHANGED <<tail_, head_, data, pos>>
      /\ pc[c] = "read" /\ Goto(c, "read", "deq_publish")
      /\ \A t \in Threads : pc'[t] = IF t = c THEN "deq_publish" ELSE pc[t]
      /\ elem' = [elem EXCEPT ![c] = data[Slot(pos[c])]]
  BY DEF Read, Goto
<1>2. Hands' = Hands
  BY <1>1 DEF Hands, Hand
<1>3. ASSUME NEW k \in Nat
      PROVE  DishIn(k, pc', pos', elem', data') = DishIn(k, pc, pos, elem, data)
  BY <1>1, DishStays
<1>4. Items' = Items
  <2>1. \A i \in 1..(tail_ - head_) : head_ + i - 1 \in Nat
    OBVIOUS
  <2> QED
    BY <1>1, <1>3, <2>1, ItemsAre
<1>5. Statuses' = Statuses
  BY <1>1, StatusAfterGoto DEF StatusOf
<1> QED
  BY <1>2, <1>4, <1>5, MapsToStutter

LEMMA EnqueueMaps ==
  ASSUME QueueInv, NEW p \in Producers, try_enq(p)
  PROVE  FIFOStep
<1> USE Roles DEF StatusOf
<1>1. CASE EnqLoad(p)
  BY <1>1, CalmGoto DEF EnqLoad, QueueInv, Typed
<1>2. CASE EnqFull(p)
  BY <1>2, CalmGoto DEF EnqFull
<1>3. CASE EnqStale(p)
  BY <1>3, CalmGoto DEF EnqStale
<1>4. CASE EnqMatch(p)
  BY <1>4, CalmGoto DEF EnqMatch
<1>5. CASE EnqCasFails(p)
  BY <1>5, CalmGoto DEF EnqCasFails
<1>6. CASE EnqPublish(p)
  BY <1>6, CalmGoto DEF EnqPublish
<1> QED
  BY <1>1, <1>2, <1>3, <1>4, <1>5, <1>6, ClaimIsPush, WriteStutters DEF try_enq

LEMMA DequeueMaps ==
  ASSUME QueueInv, NEW c \in Consumers, try_dq(c)
  PROVE  FIFOStep
<1> USE Roles DEF StatusOf
<1>1. CASE DqLoad(c)
  BY <1>1, CalmGoto DEF DqLoad, QueueInv, Typed
<1>2. CASE DqEmpty(c)
  BY <1>2, CalmGoto DEF DqEmpty
<1>3. CASE DqStale(c)
  BY <1>3, CalmGoto DEF DqStale
<1>4. CASE DqMatch(c)
  BY <1>4, CalmGoto DEF DqMatch
<1>5. CASE DqCasFails(c)
  BY <1>5, CalmGoto DEF DqCasFails
<1>6. CASE DqPublish(c)
  BY <1>6, CalmGoto DEF DqPublish
<1> QED
  BY <1>1, <1>2, <1>3, <1>4, <1>5, <1>6, ClaimIsPop, ReadStutters DEF try_dq

LEMMA SpinningMaps ==
  ASSUME QueueInv, SpinNext
  PROVE  FIFOStep
<1> USE Roles DEF StatusOf
<1>1. ASSUME NEW p \in Producers, SpinMakeDish(p) PROVE FIFOStep
  <2>1. PICK d \in Dishes : elem' = [elem EXCEPT ![p] = d]
    BY <1>1 DEF SpinMakeDish
  <2>2. Goto(p, "idle", "enq") /\ UNCHANGED <<tail_, head_, data, pos>>
    BY <1>1 DEF SpinMakeDish
  <2> QED
    BY <2>1, <2>2, CalmCallPush
<1>2. ASSUME NEW p \in Producers, SpinMadeDish(p) PROVE FIFOStep
  BY <1>2, CalmReturn DEF SpinMadeDish
<1>3. ASSUME NEW p \in Producers, YieldFull(p) PROVE FIFOStep
  BY <1>3, CalmGoto DEF YieldFull
<1>4. ASSUME NEW c \in Consumers, SpinCall(c) PROVE FIFOStep
  BY <1>4, CalmCallPop DEF SpinCall
<1>5. ASSUME NEW c \in Consumers, SpinAteDish(c) PROVE FIFOStep
  BY <1>5, CalmReturn DEF SpinAteDish
<1>6. ASSUME NEW c \in Consumers, YieldEmpty(c) PROVE FIFOStep
  BY <1>6, CalmGoto DEF YieldEmpty
<1> QED
  BY <1>1, <1>2, <1>3, <1>4, <1>5, <1>6, EnqueueMaps, DequeueMaps
  DEF SpinNext, SpinProducer, SpinConsumer

LEMMA ParkingMaps ==
  ASSUME QueueInv, Next
  PROVE  FIFOStep
<1> USE Roles DEF StatusOf
<1>1. ASSUME NEW p \in Producers, MakeDish(p) PROVE FIFOStep
  <2>1. PICK d \in Dishes : elem' = [elem EXCEPT ![p] = d]
    BY <1>1 DEF MakeDish
  <2>2. Goto(p, "idle", "version") /\ UNCHANGED <<tail_, head_, data, pos>>
    BY <1>1 DEF MakeDish
  <2> QED
    BY <2>1, <2>2, CalmCallPush
<1>2. ASSUME NEW p \in Producers, LoadSpace(p) PROVE FIFOStep
  BY <1>2, CalmGoto DEF LoadSpace
<1>3. ASSUME NEW p \in Producers, SpaceUnchanged(p) PROVE FIFOStep
  BY <1>3, CalmGoto DEF SpaceUnchanged
<1>4. ASSUME NEW p \in Producers, SpaceChanged(p) PROVE FIFOStep
  BY <1>4, CalmGoto DEF SpaceChanged
<1>5. ASSUME NEW p \in Producers, ProducerWakes(p) PROVE FIFOStep
  BY <1>5, CalmGoto DEF ProducerWakes
<1>6. ASSUME NEW p \in Producers, BumpDishes(p) PROVE FIFOStep
  BY <1>6, CalmGoto DEF BumpDishes
<1>7. ASSUME NEW p \in Producers, NotifyConsumer(p) PROVE FIFOStep
  BY <1>7, NotifyReturns DEF NotifyConsumer, Sleepers
<1>8. ASSUME NEW c \in Consumers, Call(c) PROVE FIFOStep
  BY <1>8, CalmCallPop DEF Call
<1>9. ASSUME NEW c \in Consumers, LoadDishes(c) PROVE FIFOStep
  BY <1>9, CalmGoto DEF LoadDishes
<1>10. ASSUME NEW c \in Consumers, DishesUnchanged(c) PROVE FIFOStep
  BY <1>10, CalmGoto DEF DishesUnchanged
<1>11. ASSUME NEW c \in Consumers, DishesChanged(c) PROVE FIFOStep
  BY <1>11, CalmGoto DEF DishesChanged
<1>12. ASSUME NEW c \in Consumers, ConsumerWakes(c) PROVE FIFOStep
  BY <1>12, CalmGoto DEF ConsumerWakes
<1>13. ASSUME NEW c \in Consumers, BumpSpace(c) PROVE FIFOStep
  BY <1>13, CalmGoto DEF BumpSpace
<1>14. ASSUME NEW c \in Consumers, NotifyProducer(c) PROVE FIFOStep
  BY <1>14, NotifyReturns DEF NotifyProducer, Sleepers
<1>15. ASSUME NothingLeft PROVE FIFOStep
  BY <1>15, MapsToStutter DEF NothingLeft, vars, Items, DishAt, Statuses, Status,
     Hands, Hand
<1>16. ASSUME NEW p \in Producers, producer(p) PROVE FIFOStep
  BY <1>16, <1>1, <1>2, <1>3, <1>4, <1>6, <1>7, EnqueueMaps DEF producer
<1>17. ASSUME NEW c \in Consumers, consumer(c) PROVE FIFOStep
  BY <1>17, <1>8, <1>9, <1>10, <1>11, <1>13, <1>14, DequeueMaps DEF consumer
<1> QED
  BY <1>5, <1>12, <1>15, <1>16, <1>17 DEF Next

(* The lock-free queue implements the atomic bounded FIFO for its callers, *)
(* push and pop taking effect at the CAS, however the callers wait         *)
(* (7_vyukov_mpmc.cpp, try_enq and try_dq as a whole).                     *)
THEOREM Refinement == MCSpec => RefinesFIFO
<1>1. MCInit => FIFO!FIFOInit
  <2> SUFFICES ASSUME MCInit PROVE FIFO!FIFOInit
    OBVIOUS
  <2>1. /\ Items = << >>
        /\ Statuses = [t \in Threads |-> "idle"]
        /\ Hands = [t \in Threads |-> NoDish]
    BY DEF MCInit, Init, QueueInit, Items, Statuses, Status, Hands, Hand
  <2> QED
    BY <2>1 DEF FIFO!FIFOInit, Items, Statuses, Hands, FIFO!Threads, Threads
<1>2. QueueInv /\ [MCNext]_<<vars, wiring>> => FIFOStep
  <2> SUFFICES ASSUME QueueInv, [MCNext]_<<vars, wiring>> PROVE FIFOStep
    OBVIOUS
  <2>1. CASE UNCHANGED <<vars, wiring>>
    BY <2>1, MapsToStutter DEF vars, Items, DishAt, Statuses, Status, Hands, Hand
  <2> QED
    BY <2>1, SpinningMaps, ParkingMaps DEF MCNext
<1> QED
  BY <1>1, <1>2, QueueInvHolds, PTL DEF MCSpec, RefinesFIFO, FIFO!FIFOSpec, FIFOStep
=============================================================================
