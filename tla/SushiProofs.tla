----------------------------- MODULE SushiProofs -----------------------------
(***************************************************************************)
(* Proofs about the bounded queues as MCSushi runs them, for any finite    *)
(* sets of chefs and customers, any capacity, any number of slots and of   *)
(* elements.  What holds of SemaQueue is proved in SemaQueueProofs; here   *)
(* both programs on the counter are shown to implement it, and inherit it. *)
(***************************************************************************)
EXTENDS MCSushi, SharedLemmas

-----------------------------------------------------------------------------
(* The ring between two semaphores                                         *)

(* The threads between a semaphore and the array, or between the array and *)
(* the other semaphore.                                                    *)
Storing == Count(Producers, pc, {"lock", "inside"})
Stored == Count(Producers, pc, {"wrap", "release"})
Fetching == Count(Consumers, pc, {"lock", "inside"})
Fetched == Count(Consumers, pc, {"wrap", "release"})

InArray == taken_ + Stored + Fetching

RingTyped ==
  /\ free_ \in Nat /\ taken_ \in Nat
  /\ pc \in [Threads -> Locations]
  /\ elem \in [Threads -> Dishes \cup {NoDish}]
  /\ array_ \in [Slots -> Dishes \cup {NoDish}]
  /\ mtx_ \in Threads \cup {NoOne}
  /\ head_ \in 0..N /\ tail_ \in 0..N

(* The mutex is held between an index's two statements, so only its holder *)
(* ever sees an index that has left the array.                             *)
RingHolding ==
  /\ \A t \in Threads : pc[t] \in {"inside", "wrap"} <=> mtx_ = t
  /\ head_ = N => \E c \in Consumers : pc[c] = "wrap"
  /\ tail_ = N => \E p \in Producers : pc[p] = "wrap"

(* Every place is accounted for, and tail_ is where the last dish ends.    *)
RingCovered ==
  /\ size = InArray + free_ + Storing + Fetched
  /\ (head_ + InArray) % N = tail_ % N

RingInv == RingTyped /\ RingHolding /\ RingCovered

LEMMA SushiPeople ==
  /\ \A p \in Producers : p \in Threads /\ p \notin Consumers
  /\ \A c \in Consumers : c \in Threads /\ c \notin Producers
  /\ Threads = Producers \cup Consumers /\ NoOne \notin Threads
  /\ IsFiniteSet(Producers) /\ IsFiniteSet(Consumers)
  /\ N = size /\ N \in Nat \ {0} /\ Slots = 0..(N - 1)
  BY SushiAssumption, RingAssumption DEF Threads, N, Slots

LEMMA RingCountsAreNat ==
  /\ Storing \in Nat /\ Stored \in Nat /\ Fetching \in Nat /\ Fetched \in Nat
  BY SushiPeople, CountIsNat DEF Storing, Stored, Fetching, Fetched

(* What the step of a thread from one location to another adds to the      *)
(* number of threads at locs.                                              *)
Change(locs, from, to) ==
  IF from \in locs <=> to \in locs THEN 0 ELSE IF to \in locs THEN 1 ELSE -1

LEMMA RingCountsAfterGoto ==
  ASSUME RingTyped, NEW from, NEW to, NEW t \in Threads, Goto(t, from, to)
  PROVE  /\ Storing' = Storing +
              (IF t \in Producers THEN Change({"lock", "inside"}, from, to) ELSE 0)
         /\ Stored' = Stored +
              (IF t \in Producers THEN Change({"wrap", "release"}, from, to) ELSE 0)
         /\ Fetching' = Fetching +
              (IF t \in Consumers THEN Change({"lock", "inside"}, from, to) ELSE 0)
         /\ Fetched' = Fetched +
              (IF t \in Consumers THEN Change({"wrap", "release"}, from, to) ELSE 0)
<1>1. DOMAIN pc = Threads /\ Moves(t, to, pc, pc') /\ pc[t] = from
  BY DEF RingTyped, Goto, Moves
<1>2. \A S \in {Producers, Consumers} : S \subseteq Threads /\ IsFiniteSet(S)
  BY SushiPeople
<1>3. ASSUME NEW S \in {Producers, Consumers}, NEW L
      PROVE  Count(S, pc', L) = Count(S, pc, L) +
               (IF t \in S THEN Change(L, from, to) ELSE 0)
  <2>1. Count(S, pc', L) =
          Count(S, pc, L) +
            (IF t \notin S \/ (pc[t] \in L <=> to \in L) THEN 0
             ELSE IF to \in L THEN 1 ELSE -1)
    BY <1>1, <1>2, CountAfterMove
  <2> QED
    BY <1>1, <2>1 DEF Change
<1>4. /\ Storing' = Count(Producers, pc', {"lock", "inside"})
      /\ Stored' = Count(Producers, pc', {"wrap", "release"})
      /\ Fetching' = Count(Consumers, pc', {"lock", "inside"})
      /\ Fetched' = Count(Consumers, pc', {"wrap", "release"})
  BY DEF Storing, Stored, Fetching, Fetched, Count, Standing
<1> QED
  BY <1>3, <1>4 DEF Storing, Stored, Fetching, Fetched

(* A push that is inside finds a free slot, a pop a dish.                  *)
LEMMA RingNeverFull ==
  ASSUME RingInv, NEW p \in Producers, pc[p] = "inside"
  PROVE  InArray \in Nat /\ InArray < N
<1>1. Storing >= 1
  BY SushiPeople, CountPositive DEF Storing
<1> QED
  BY <1>1, SushiPeople, RingCountsAreNat DEF RingInv, RingTyped, RingCovered, InArray

LEMMA RingNeverEmpty ==
  ASSUME RingInv, NEW c \in Consumers, pc[c] = "inside"
  PROVE  InArray \in Nat \ {0}
<1>1. Fetching >= 1
  BY SushiPeople, CountPositive DEF Fetching
<1> QED
  BY <1>1, SushiPeople, RingCountsAreNat DEF RingInv, RingTyped, RingCovered, InArray

LEMMA RingStarts == Init => RingInv
<1> SUFFICES ASSUME Init PROVE RingInv
  OBVIOUS
<1> USE SushiPeople DEF Init, CounterInit
<1>1. RingTyped /\ RingHolding
  BY DEF RingTyped, RingHolding, Locations
<1>2. Storing = 0 /\ Stored = 0 /\ Fetching = 0 /\ Fetched = 0
  BY CountZero DEF Storing, Stored, Fetching, Fetched
<1> QED
  BY <1>1, <1>2 DEF RingInv, RingCovered, InArray

LEMMA RingTypedStep == RingInv /\ [Next]_vars => RingTyped' /\ RingHolding'
<1> SUFFICES ASSUME RingInv, [Next]_vars PROVE RingTyped' /\ RingHolding'
  OBVIOUS
<1> USE SushiPeople DEF RingInv, RingTyped, RingHolding, Locations, Goto
<1>1. ASSUME NEW p \in Producers, MakeDish(p) PROVE RingTyped' /\ RingHolding'
  <2>1. PICK dish \in Dishes : elem' = [elem EXCEPT ![p] = dish]
    BY <1>1 DEF MakeDish
  <2> QED
    BY <1>1, <2>1 DEF MakeDish
<1>2. ASSUME NEW p \in Producers, AcquireFree(p) PROVE RingTyped' /\ RingHolding'
  BY <1>2 DEF AcquireFree
<1>3. ASSUME NEW t \in Threads, Lock(t) PROVE RingTyped' /\ RingHolding'
  BY <1>3 DEF Lock
<1>4. ASSUME NEW p \in Producers, Store(p) PROVE RingTyped' /\ RingHolding'
  BY <1>4 DEF Store
<1>5. ASSUME NEW p \in Producers, WrapTail(p) PROVE RingTyped' /\ RingHolding'
  BY <1>5 DEF WrapTail, Wrap
<1>6. ASSUME NEW p \in Producers, ReleaseTaken(p) PROVE RingTyped' /\ RingHolding'
  BY <1>6 DEF ReleaseTaken
<1>7. ASSUME NEW c \in Consumers, Call(c) PROVE RingTyped' /\ RingHolding'
  BY <1>7 DEF Call
<1>8. ASSUME NEW c \in Consumers, AcquireTaken(c) PROVE RingTyped' /\ RingHolding'
  BY <1>8 DEF AcquireTaken
<1>9. ASSUME NEW c \in Consumers, Take(c) PROVE RingTyped' /\ RingHolding'
  BY <1>9 DEF Take
<1>10. ASSUME NEW c \in Consumers, WrapHead(c) PROVE RingTyped' /\ RingHolding'
  BY <1>10 DEF WrapHead, Wrap
<1>11. ASSUME NEW c \in Consumers, ReleaseFree(c) PROVE RingTyped' /\ RingHolding'
  BY <1>11 DEF ReleaseFree
<1>12. CASE UNCHANGED vars
  BY <1>12 DEF vars
<1> QED
  BY <1>1, <1>2, <1>3, <1>4, <1>5, <1>6, <1>7, <1>8, <1>9, <1>10, <1>11, <1>12 DEF Next, producer, consumer

LEMMA RingCoveredStep == RingInv /\ [Next]_vars => RingCovered'
<1> SUFFICES ASSUME RingInv, [Next]_vars PROVE RingCovered'
  OBVIOUS
<1>n. /\ RingTyped /\ free_ \in Nat /\ taken_ \in Nat
      /\ head_ \in Nat /\ tail_ \in Nat /\ InArray \in Nat
  BY RingCountsAreNat DEF RingInv, RingTyped, InArray
<1>c. /\ size = InArray + free_ + Storing + Fetched
      /\ (head_ + InArray) % N = tail_ % N
      /\ N = size /\ N \in Nat \ {0}
  BY SushiPeople DEF RingInv, RingCovered
<1> USE SushiPeople, RingCountsAreNat
<1>1. ASSUME NEW p \in Producers, MakeDish(p) PROVE RingCovered'
  <2>1. Goto(p, "idle", "acquire")
    BY <1>1 DEF MakeDish
  <2>2. /\ Storing' = Storing /\ Stored' = Stored
        /\ Fetching' = Fetching /\ Fetched' = Fetched
    BY <1>n, <2>1, RingCountsAfterGoto DEF Change
  <2>3. free_' = free_ /\ taken_' = taken_
    BY <1>1 DEF MakeDish
  <2>4. InArray' = InArray
    BY <1>n, <2>2, <2>3 DEF InArray
  <2>5. head_' = head_ /\ tail_' = tail_
    BY <1>1 DEF MakeDish
  <2>7. (head_' + InArray') % N = tail_' % N
    BY <1>c, <2>4, <2>5
  <2>8. size = InArray' + free_' + Storing' + Fetched'
    BY <1>n, <1>c, <2>2, <2>3, <2>4
  <2> QED
    BY <2>7, <2>8 DEF RingCovered
<1>2. ASSUME NEW p \in Producers, AcquireFree(p) PROVE RingCovered'
  <2>1. Goto(p, "acquire", "lock")
    BY <1>2 DEF AcquireFree
  <2>2. /\ Storing' = Storing + 1 /\ Stored' = Stored
        /\ Fetching' = Fetching /\ Fetched' = Fetched
    BY <1>n, <2>1, RingCountsAfterGoto DEF Change
  <2>3. free_' = free_ - 1 /\ taken_' = taken_
    BY <1>2 DEF AcquireFree
  <2>4. InArray' = InArray
    BY <1>n, <2>2, <2>3 DEF InArray
  <2>5. head_' = head_ /\ tail_' = tail_
    BY <1>2 DEF AcquireFree
  <2>7. (head_' + InArray') % N = tail_' % N
    BY <1>c, <2>4, <2>5
  <2>8. size = InArray' + free_' + Storing' + Fetched'
    BY <1>n, <1>c, <2>2, <2>3, <2>4
  <2> QED
    BY <2>7, <2>8 DEF RingCovered
<1>3. ASSUME NEW t \in Threads, Lock(t) PROVE RingCovered'
  <2>1. Goto(t, "lock", "inside")
    BY <1>3 DEF Lock
  <2>2. /\ Storing' = Storing /\ Stored' = Stored
        /\ Fetching' = Fetching /\ Fetched' = Fetched
    BY <1>n, <2>1, RingCountsAfterGoto DEF Change
  <2>3. free_' = free_ /\ taken_' = taken_
    BY <1>3 DEF Lock
  <2>4. InArray' = InArray
    BY <1>n, <2>2, <2>3 DEF InArray
  <2>5. head_' = head_ /\ tail_' = tail_
    BY <1>3 DEF Lock
  <2>7. (head_' + InArray') % N = tail_' % N
    BY <1>c, <2>4, <2>5
  <2>8. size = InArray' + free_' + Storing' + Fetched'
    BY <1>n, <1>c, <2>2, <2>3, <2>4
  <2> QED
    BY <2>7, <2>8 DEF RingCovered
<1>4. ASSUME NEW p \in Producers, Store(p) PROVE RingCovered'
  <2>1. Goto(p, "inside", "wrap")
    BY <1>4 DEF Store
  <2>2. /\ Storing' = Storing - 1 /\ Stored' = Stored + 1
        /\ Fetching' = Fetching /\ Fetched' = Fetched
    BY <1>n, <2>1, RingCountsAfterGoto DEF Change
  <2>3. free_' = free_ /\ taken_' = taken_
    BY <1>4 DEF Store
  <2>4. InArray' = InArray + 1
    BY <1>n, <2>2, <2>3 DEF InArray
  <2>5. head_' = head_ /\ tail_' = tail_ + 1
    BY <1>4 DEF Store
  <2>6. head_' + InArray' = (head_ + InArray) + 1 /\ head_ + InArray \in Nat
    BY <1>n, <2>4, <2>5
  <2>7. (head_' + InArray') % N = tail_' % N
    <3>1. ((head_ + InArray) + 1) % N = (tail_ + 1) % N
      BY <1>n, <1>c, <2>6, RemainderSucc
    <3> QED
      BY <2>5, <2>6, <3>1
  <2>8. size = InArray' + free_' + Storing' + Fetched'
    BY <1>n, <1>c, <2>2, <2>3, <2>4
  <2> QED
    BY <2>7, <2>8 DEF RingCovered
<1>5. ASSUME NEW p \in Producers, WrapTail(p) PROVE RingCovered'
  <2>1. Goto(p, "wrap", "release")
    BY <1>5 DEF WrapTail
  <2>2. /\ Storing' = Storing /\ Stored' = Stored
        /\ Fetching' = Fetching /\ Fetched' = Fetched
    BY <1>n, <2>1, RingCountsAfterGoto DEF Change
  <2>3. free_' = free_ /\ taken_' = taken_
    BY <1>5 DEF WrapTail
  <2>4. InArray' = InArray
    BY <1>n, <2>2, <2>3 DEF InArray
  <2>5. head_' = head_ /\ tail_' = IF tail_ = N THEN 0 ELSE tail_
    BY <1>5 DEF WrapTail, Wrap
  <2>6. N % N = 0 % N
    <3>1. 0 \in Nat /\ 0 + N = N
      BY <1>c
    <3> QED
      BY <1>c, <3>1, RemainderShift
  <2>7. (head_' + InArray') % N = tail_' % N
    BY <1>c, <2>4, <2>5, <2>6
  <2>8. size = InArray' + free_' + Storing' + Fetched'
    BY <1>n, <1>c, <2>2, <2>3, <2>4
  <2> QED
    BY <2>7, <2>8 DEF RingCovered
<1>6. ASSUME NEW p \in Producers, ReleaseTaken(p) PROVE RingCovered'
  <2>1. Goto(p, "release", "idle")
    BY <1>6 DEF ReleaseTaken
  <2>2. /\ Storing' = Storing /\ Stored' = Stored - 1
        /\ Fetching' = Fetching /\ Fetched' = Fetched
    BY <1>n, <2>1, RingCountsAfterGoto DEF Change
  <2>3. free_' = free_ /\ taken_' = taken_ + 1
    BY <1>6 DEF ReleaseTaken
  <2>4. InArray' = InArray
    BY <1>n, <2>2, <2>3 DEF InArray
  <2>5. head_' = head_ /\ tail_' = tail_
    BY <1>6 DEF ReleaseTaken
  <2>7. (head_' + InArray') % N = tail_' % N
    BY <1>c, <2>4, <2>5
  <2>8. size = InArray' + free_' + Storing' + Fetched'
    BY <1>n, <1>c, <2>2, <2>3, <2>4
  <2> QED
    BY <2>7, <2>8 DEF RingCovered
<1>7. ASSUME NEW c \in Consumers, Call(c) PROVE RingCovered'
  <2>1. Goto(c, "idle", "acquire")
    BY <1>7 DEF Call
  <2>2. /\ Storing' = Storing /\ Stored' = Stored
        /\ Fetching' = Fetching /\ Fetched' = Fetched
    BY <1>n, <2>1, RingCountsAfterGoto DEF Change
  <2>3. free_' = free_ /\ taken_' = taken_
    BY <1>7 DEF Call
  <2>4. InArray' = InArray
    BY <1>n, <2>2, <2>3 DEF InArray
  <2>5. head_' = head_ /\ tail_' = tail_
    BY <1>7 DEF Call
  <2>7. (head_' + InArray') % N = tail_' % N
    BY <1>c, <2>4, <2>5
  <2>8. size = InArray' + free_' + Storing' + Fetched'
    BY <1>n, <1>c, <2>2, <2>3, <2>4
  <2> QED
    BY <2>7, <2>8 DEF RingCovered
<1>8. ASSUME NEW c \in Consumers, AcquireTaken(c) PROVE RingCovered'
  <2>1. Goto(c, "acquire", "lock")
    BY <1>8 DEF AcquireTaken
  <2>2. /\ Storing' = Storing /\ Stored' = Stored
        /\ Fetching' = Fetching + 1 /\ Fetched' = Fetched
    BY <1>n, <2>1, RingCountsAfterGoto DEF Change
  <2>3. free_' = free_ /\ taken_' = taken_ - 1
    BY <1>8 DEF AcquireTaken
  <2>4. InArray' = InArray
    BY <1>n, <2>2, <2>3 DEF InArray
  <2>5. head_' = head_ /\ tail_' = tail_
    BY <1>8 DEF AcquireTaken
  <2>7. (head_' + InArray') % N = tail_' % N
    BY <1>c, <2>4, <2>5
  <2>8. size = InArray' + free_' + Storing' + Fetched'
    BY <1>n, <1>c, <2>2, <2>3, <2>4
  <2> QED
    BY <2>7, <2>8 DEF RingCovered
<1>9. ASSUME NEW c \in Consumers, Take(c) PROVE RingCovered'
  <2>1. Goto(c, "inside", "wrap")
    BY <1>9 DEF Take
  <2>2. /\ Storing' = Storing /\ Stored' = Stored
        /\ Fetching' = Fetching - 1 /\ Fetched' = Fetched + 1
    BY <1>n, <2>1, RingCountsAfterGoto DEF Change
  <2>3. free_' = free_ /\ taken_' = taken_
    BY <1>9 DEF Take
  <2>4. InArray' = InArray - 1
    BY <1>n, <2>2, <2>3 DEF InArray
  <2>5. head_' = head_ + 1 /\ tail_' = tail_
    BY <1>9 DEF Take
  <2>6. head_' + InArray' = head_ + InArray
    BY <1>n, <2>4, <2>5
  <2>7. (head_' + InArray') % N = tail_' % N
    BY <1>c, <2>5, <2>6
  <2>8. size = InArray' + free_' + Storing' + Fetched'
    BY <1>n, <1>c, <2>2, <2>3, <2>4
  <2> QED
    BY <2>7, <2>8 DEF RingCovered
<1>10. ASSUME NEW c \in Consumers, WrapHead(c) PROVE RingCovered'
  <2>1. Goto(c, "wrap", "release")
    BY <1>10 DEF WrapHead
  <2>2. /\ Storing' = Storing /\ Stored' = Stored
        /\ Fetching' = Fetching /\ Fetched' = Fetched
    BY <1>n, <2>1, RingCountsAfterGoto DEF Change
  <2>3. free_' = free_ /\ taken_' = taken_
    BY <1>10 DEF WrapHead
  <2>4. InArray' = InArray
    BY <1>n, <2>2, <2>3 DEF InArray
  <2>5. tail_' = tail_ /\ head_' = IF head_ = N THEN 0 ELSE head_
    BY <1>10 DEF WrapHead, Wrap
  <2>6. /\ (InArray + N) % N = InArray % N
        /\ 0 + InArray = InArray /\ N + InArray = InArray + N
    <3>1. (InArray + N) % N = InArray % N
      BY <1>n, <1>c, RemainderShift
    <3>2. 0 + InArray = InArray /\ N + InArray = InArray + N
      BY <1>n, <1>c
    <3> QED
      BY <3>1, <3>2
  <2>7. (head_' + InArray') % N = tail_' % N
    BY <1>c, <2>4, <2>5, <2>6
  <2>8. size = InArray' + free_' + Storing' + Fetched'
    BY <1>n, <1>c, <2>2, <2>3, <2>4
  <2> QED
    BY <2>7, <2>8 DEF RingCovered
<1>11. ASSUME NEW c \in Consumers, ReleaseFree(c) PROVE RingCovered'
  <2>1. Goto(c, "release", "idle")
    BY <1>11 DEF ReleaseFree
  <2>2. /\ Storing' = Storing /\ Stored' = Stored
        /\ Fetching' = Fetching /\ Fetched' = Fetched - 1
    BY <1>n, <2>1, RingCountsAfterGoto DEF Change
  <2>3. free_' = free_ + 1 /\ taken_' = taken_
    BY <1>11 DEF ReleaseFree
  <2>4. InArray' = InArray
    BY <1>n, <2>2, <2>3 DEF InArray
  <2>5. head_' = head_ /\ tail_' = tail_
    BY <1>11 DEF ReleaseFree
  <2>7. (head_' + InArray') % N = tail_' % N
    BY <1>c, <2>4, <2>5
  <2>8. size = InArray' + free_' + Storing' + Fetched'
    BY <1>n, <1>c, <2>2, <2>3, <2>4
  <2> QED
    BY <2>7, <2>8 DEF RingCovered
<1>12. CASE UNCHANGED vars
  BY <1>12, <1>c DEF vars, RingCovered, InArray, Storing, Stored, Fetching, Fetched
<1> QED
  BY <1>1, <1>2, <1>3, <1>4, <1>5, <1>6, <1>7, <1>8, <1>9, <1>10, <1>11, <1>12 DEF Next, producer, consumer

-----------------------------------------------------------------------------
(* Both programs on the counter implement SemaQueue                        *)

(* 2_sema.cpp needs only its locations; the other programs need nothing.   *)
CounterInv ==
  /\ InRing => RingInv
  /\ InSema => pc \in [Threads -> {"idle", "acquire", "lock", "release"}]

LEMMA CounterInvHolds == MCSpec => []CounterInv
<1>1. MCInit => CounterInv
  BY RingStarts DEF MCInit, CounterInv, Std!Init, Std!CounterInit, Std!Threads, Threads
<1>2. ASSUME CounterInv, [MCNext]_allVars PROVE CounterInv'
  <2>1. CASE SemaRuns(Std!Next)
    <3> USE <1>2, <2>1 DEF CounterInv, SemaRuns, InSema, InRing, Std!Goto
    <3>1. ASSUME NEW p \in Producers, Std!producer(p) PROVE CounterInv'
      BY <3>1 DEF Std!producer, Std!MakeDish, Std!AcquireFree, Std!Push, Std!ReleaseTaken
    <3>2. ASSUME NEW c \in Consumers, Std!consumer(c) PROVE CounterInv'
      BY <3>2 DEF Std!consumer, Std!Call, Std!AcquireTaken, Std!Pop, Std!ReleaseFree
    <3> QED
      BY <3>1, <3>2 DEF Std!Next
  <2>2. CASE RingRuns(Next)
    BY <1>2, <2>2, RingTypedStep, RingCoveredStep
    DEF CounterInv, RingInv, RingRuns, InSema, InRing
  <2>3. ASSUME UNCHANGED <<program, ringVars, counterVars>> PROVE CounterInv'
    BY <1>2, <2>3
    DEF CounterInv, RingInv, RingTyped, RingHolding, RingCovered, InArray, Storing, Stored,
        Fetching, Fetched, InSema, InRing, ringVars, counterVars
  <2> QED
    BY <1>2, <2>1, <2>2, <2>3 DEF MCNext, CVRuns, SpinRuns, WaitRuns, allVars
<1> QED
  BY <1>1, <1>2, PTL DEF MCSpec

(* What SemaQueue sees of the two programs' states.                        *)
Queue == IF InRing THEN Contents ELSE q_
Place == [t \in Threads |-> SemaLocation(t)]

PlaceOf(l) == CASE l = "inside" -> "lock" [] l = "wrap" -> "release" [] OTHER -> l

LEMMA ContentsIsRing ==
  /\ Contents = RingContents(N, array_, head_, InArray)
  /\ Contents' = RingContents(N, array_', head_', InArray')
<1>1. Length = InArray /\ Length' = InArray'
  BY DEF Length, InArray, Stored, Fetching, At, Count, Standing
<1> QED
  BY <1>1 DEF Contents, RingContents

LEMMA PlaceAfterGoto ==
  ASSUME DOMAIN pc = Threads, NEW t \in Threads, NEW from, NEW to, Goto(t, from, to)
  PROVE  /\ Place[t] = PlaceOf(from)
         /\ Place' = [Place EXCEPT ![t] = PlaceOf(to)]
  BY DEF Place, SemaLocation, PlaceOf, Goto

(* What each step of the ring does to the queue.                           *)
LEMMA RingStaysQueue ==
  ASSUME UNCHANGED <<array_, head_>>, InArray' = InArray
  PROVE  Contents' = Contents
  BY ContentsIsRing

LEMMA StorePushes ==
  ASSUME RingInv, NEW p \in Producers, Store(p)
  PROVE  Contents' = Append(Contents, elem[p])
<1>1. /\ N \in Nat \ {0} /\ Slots = 0..(N - 1) /\ p \in Threads
      /\ p \notin Consumers
  BY SushiPeople
<1>2. pc[p] = "inside" /\ Goto(p, "inside", "wrap")
  BY DEF Store, Goto
<1>3. InArray \in Nat /\ InArray < N
  BY <1>2, RingNeverFull
<1>4. tail_ \in 0..(N - 1) /\ (head_ + InArray) % N = tail_ % N
  <2>1. tail_ # N
    BY <1>1, <1>2, SushiPeople DEF RingInv, RingHolding
  <2> QED
    BY <1>1, <2>1 DEF RingInv, RingTyped, RingCovered
<1>5. tail_ = (head_ + InArray) % N
  BY <1>1, <1>4, RemainderSmall
<1>6. InArray' = InArray + 1
  <2>1. /\ Storing' = Storing - 1 /\ Stored' = Stored + 1
        /\ Fetching' = Fetching /\ Fetched' = Fetched
    BY <1>1, <1>2, RingCountsAfterGoto, RingCountsAreNat DEF Change, RingInv
  <2>2. taken_' = taken_ /\ taken_ \in Nat
    BY DEF Store, RingInv, RingTyped
  <2> QED
    BY <2>1, <2>2, RingCountsAreNat DEF InArray
<1>7. /\ array_ \in Arrays(N, Dishes \cup {NoDish})
      /\ elem[p] \in Dishes \cup {NoDish} /\ head_ \in Nat
  BY <1>1 DEF RingInv, RingTyped, Arrays
<1>8. /\ elem[p] = array_'[(head_ + InArray) % N] /\ head_' = head_
      /\ Moves((head_ + InArray) % N, array_'[(head_ + InArray) % N], array_, array_')
      /\ array_' \in Arrays(N, Dishes \cup {NoDish})
  BY <1>1, <1>4, <1>5, <1>7 DEF Store, Moves, Arrays
<1>9. RingContents(N, array_', head_, InArray + 1)
        = Append(RingContents(N, array_, head_, InArray), elem[p])
  BY <1>1, <1>3, <1>7, <1>8, RingPut
<1> QED
  BY <1>6, <1>8, <1>9, ContentsIsRing

LEMMA TakePops ==
  ASSUME RingInv, NEW c \in Consumers, Take(c)
  PROVE  /\ Contents' = Tail(Contents)
         /\ elem' = [elem EXCEPT ![c] = Head(Contents)]
<1>1. /\ N \in Nat \ {0} /\ Slots = 0..(N - 1) /\ c \in Threads
      /\ c \notin Producers
  BY SushiPeople
<1>2. pc[c] = "inside" /\ Goto(c, "inside", "wrap")
  BY DEF Take, Goto
<1>3. InArray \in Nat \ {0}
  BY <1>2, RingNeverEmpty
<1>4. head_ \in 0..(N - 1)
  <2>1. head_ # N
    BY <1>1, <1>2, SushiPeople DEF RingInv, RingHolding
  <2> QED
    BY <1>1, <2>1 DEF RingInv, RingTyped
<1>5. InArray' = InArray - 1
  <2>1. /\ Storing' = Storing /\ Stored' = Stored
        /\ Fetching' = Fetching - 1 /\ Fetched' = Fetched + 1
    BY <1>1, <1>2, RingCountsAfterGoto, RingCountsAreNat DEF Change, RingInv
  <2>2. taken_' = taken_ /\ taken_ \in Nat
    BY DEF Take, RingInv, RingTyped
  <2> QED
    BY <2>1, <2>2, RingCountsAreNat DEF InArray
<1>6. array_ \in Arrays(N, Dishes \cup {NoDish})
  BY <1>1 DEF RingInv, RingTyped, Arrays
<1>7. Head(RingContents(N, array_, head_, InArray)) = array_[head_]
  BY <1>1, <1>3, <1>4, <1>6, RingTake
<1>9. Tail(RingContents(N, array_, head_, InArray))
        = RingContents(N, array_, head_ + 1, InArray - 1)
  BY <1>1, <1>3, <1>4, <1>6, RingTake
<1>8. /\ elem' = [elem EXCEPT ![c] = array_[head_]]
      /\ array_' = array_ /\ head_' = head_ + 1
  BY DEF Take
<1> QED
  BY <1>5, <1>7, <1>8, <1>9, ContentsIsRing

(* A wrapped index says the same as one that has left the array.           *)
LEMMA WrapStaysQueue ==
  ASSUME RingInv, NEW c \in Consumers, WrapHead(c)
  PROVE  Contents' = Contents
<1>1. N \in Nat \ {0} /\ c \in Threads /\ c \notin Producers
  BY SushiPeople
<1>2. InArray' = InArray /\ InArray \in Nat
  <2>1. Stored' = Stored /\ Fetching' = Fetching
    BY <1>1, RingCountsAfterGoto, RingCountsAreNat DEF Change, RingInv, WrapHead
  <2>2. taken_' = taken_ /\ taken_ \in Nat
    BY DEF WrapHead, RingInv, RingTyped
  <2> QED
    BY <2>1, <2>2, RingCountsAreNat DEF InArray
<1>3. array_' = array_ /\ head_' = IF head_ = N THEN 0 ELSE head_
  BY DEF WrapHead, Wrap
<1>4. RingContents(N, array_, N, InArray) = RingContents(N, array_, 0, InArray)
  BY <1>1, <1>2, RingWrap
<1> QED
  BY <1>2, <1>3, <1>4, ContentsIsRing

(* No other step moves head_ or a dish, or passes between a semaphore and  *)
(* the array unnoticed.                                                    *)
LEMMA OthersStayQueue ==
  ASSUME RingInv
  PROVE  /\ \A p \in Producers :
              MakeDish(p) \/ AcquireFree(p) \/ Lock(p) \/ WrapTail(p)
                \/ ReleaseTaken(p) => Contents' = Contents
         /\ \A c \in Consumers :
              Call(c) \/ AcquireTaken(c) \/ Lock(c) \/ ReleaseFree(c) =>
                Contents' = Contents
<1> USE SushiPeople, RingCountsAreNat
<1>n. taken_ \in Nat /\ RingTyped
  BY DEF RingInv, RingTyped
<1>1. ASSUME NEW p \in Producers, MakeDish(p) PROVE Contents' = Contents
  <2>1. Goto(p, "idle", "acquire") /\ taken_' = taken_ /\ UNCHANGED <<array_, head_>>
    BY <1>1 DEF MakeDish
  <2>2. Stored' = Stored /\ Fetching' = Fetching
    BY <1>n, <2>1, RingCountsAfterGoto DEF Change
  <2>3. InArray' = InArray
    BY <1>n, <2>1, <2>2 DEF InArray
  <2> QED
    BY <2>1, <2>3, RingStaysQueue
<1>2. ASSUME NEW p \in Producers, AcquireFree(p) PROVE Contents' = Contents
  <2>1. Goto(p, "acquire", "lock") /\ taken_' = taken_ /\ UNCHANGED <<array_, head_>>
    BY <1>2 DEF AcquireFree
  <2>2. Stored' = Stored /\ Fetching' = Fetching
    BY <1>n, <2>1, RingCountsAfterGoto DEF Change
  <2>3. InArray' = InArray
    BY <1>n, <2>1, <2>2 DEF InArray
  <2> QED
    BY <2>1, <2>3, RingStaysQueue
<1>3. ASSUME NEW t \in Threads, Lock(t) PROVE Contents' = Contents
  <2>1. Goto(t, "lock", "inside") /\ taken_' = taken_ /\ UNCHANGED <<array_, head_>>
    BY <1>3 DEF Lock
  <2>2. Stored' = Stored /\ Fetching' = Fetching
    BY <1>n, <2>1, RingCountsAfterGoto DEF Change
  <2>3. InArray' = InArray
    BY <1>n, <2>1, <2>2 DEF InArray
  <2> QED
    BY <2>1, <2>3, RingStaysQueue
<1>4. ASSUME NEW p \in Producers, WrapTail(p) PROVE Contents' = Contents
  <2>1. Goto(p, "wrap", "release") /\ taken_' = taken_ /\ UNCHANGED <<array_, head_>>
    BY <1>4 DEF WrapTail
  <2>2. Stored' = Stored /\ Fetching' = Fetching
    BY <1>n, <2>1, RingCountsAfterGoto DEF Change
  <2>3. InArray' = InArray
    BY <1>n, <2>1, <2>2 DEF InArray
  <2> QED
    BY <2>1, <2>3, RingStaysQueue
<1>5. ASSUME NEW p \in Producers, ReleaseTaken(p) PROVE Contents' = Contents
  <2>1. Goto(p, "release", "idle") /\ taken_' = taken_ + 1 /\ UNCHANGED <<array_, head_>>
    BY <1>5 DEF ReleaseTaken
  <2>2. Stored' = Stored - 1 /\ Fetching' = Fetching
    BY <1>n, <2>1, RingCountsAfterGoto DEF Change
  <2>3. InArray' = InArray
    BY <1>n, <2>1, <2>2 DEF InArray
  <2> QED
    BY <2>1, <2>3, RingStaysQueue
<1>6. ASSUME NEW c \in Consumers, Call(c) PROVE Contents' = Contents
  <2>1. Goto(c, "idle", "acquire") /\ taken_' = taken_ /\ UNCHANGED <<array_, head_>>
    BY <1>6 DEF Call
  <2>2. Stored' = Stored /\ Fetching' = Fetching
    BY <1>n, <2>1, RingCountsAfterGoto DEF Change
  <2>3. InArray' = InArray
    BY <1>n, <2>1, <2>2 DEF InArray
  <2> QED
    BY <2>1, <2>3, RingStaysQueue
<1>7. ASSUME NEW c \in Consumers, AcquireTaken(c) PROVE Contents' = Contents
  <2>1. Goto(c, "acquire", "lock") /\ taken_' = taken_ - 1 /\ UNCHANGED <<array_, head_>>
    BY <1>7 DEF AcquireTaken
  <2>2. Stored' = Stored /\ Fetching' = Fetching + 1
    BY <1>n, <2>1, RingCountsAfterGoto DEF Change
  <2>3. InArray' = InArray
    BY <1>n, <2>1, <2>2 DEF InArray
  <2> QED
    BY <2>1, <2>3, RingStaysQueue
<1>8. ASSUME NEW c \in Consumers, ReleaseFree(c) PROVE Contents' = Contents
  <2>1. Goto(c, "release", "idle") /\ taken_' = taken_ /\ UNCHANGED <<array_, head_>>
    BY <1>8 DEF ReleaseFree
  <2>2. Stored' = Stored /\ Fetching' = Fetching
    BY <1>n, <2>1, RingCountsAfterGoto DEF Change
  <2>3. InArray' = InArray
    BY <1>n, <2>1, <2>2 DEF InArray
  <2> QED
    BY <2>1, <2>3, RingStaysQueue
<1> QED
  BY <1>1, <1>2, <1>3, <1>4, <1>5, <1>6, <1>7, <1>8

LEMMA RingStepRefines ==
  ASSUME RingInv, InRing, RingRuns(Next)
  PROVE  [Sema!Next]_Sema!vars
<1>0. DOMAIN pc = Threads
  BY DEF RingInv, RingTyped
<1>1. \A t \in Threads, from, to \in Locations :
        Goto(t, from, to) => /\ Place[t] = PlaceOf(from)
                             /\ Place' = [Place EXCEPT ![t] = PlaceOf(to)]
  BY <1>0, PlaceAfterGoto
<1>2. Queue = Contents /\ Queue' = Contents'
  BY DEF RingRuns, InRing, Queue
<1>3. \A t \in Threads : t \in Producers \/ t \in Consumers
  BY SushiPeople
<1>4. ASSUME NEW p \in Producers, MakeDish(p) PROVE Sema!MakeDish(p)
  <2>1. /\ Place[p] = "idle"
        /\ Place' = [Place EXCEPT ![p] = "acquire"]
    BY <1>1, <1>4, SushiPeople DEF MakeDish, Locations, PlaceOf
  <2>2. Queue' = Queue
    BY <1>2, <1>3, <1>4, OthersStayQueue
  <2> QED
    BY <1>4, <2>1, <2>2 DEF MakeDish, Sema!MakeDish, Sema!Goto, Queue, Place
<1>5. ASSUME NEW p \in Producers, AcquireFree(p) PROVE Sema!AcquireFree(p)
  <2>1. /\ Place[p] = "acquire"
        /\ Place' = [Place EXCEPT ![p] = "lock"]
    BY <1>1, <1>5, SushiPeople DEF AcquireFree, Locations, PlaceOf
  <2>2. Queue' = Queue
    BY <1>2, <1>3, <1>5, OthersStayQueue
  <2> QED
    BY <1>5, <2>1, <2>2 DEF AcquireFree, Sema!AcquireFree, Sema!Goto, Queue, Place
<1>6. ASSUME NEW t \in Threads, Lock(t) PROVE UNCHANGED Sema!vars
  <2>1. /\ Place[t] = "lock"
        /\ Place' = [Place EXCEPT ![t] = "lock"]
    BY <1>1, <1>6, SushiPeople DEF Lock, Locations, PlaceOf
  <2>2. Queue' = Queue
    BY <1>2, <1>3, <1>6, OthersStayQueue
  <2>3. Place' = Place
    BY <2>1 DEF Place
  <2> QED
    BY <1>6, <2>2, <2>3 DEF Lock, Sema!vars, Queue, Place
<1>7. ASSUME NEW p \in Producers, Store(p) PROVE Sema!Push(p)
  <2>1. /\ Place[p] = "lock"
        /\ Place' = [Place EXCEPT ![p] = "release"]
    BY <1>1, <1>7, SushiPeople DEF Store, Locations, PlaceOf
  <2>2. Queue' = Append(Queue, elem[p])
    BY <1>2, <1>3, <1>7, StorePushes
  <2> QED
    BY <1>7, <2>1, <2>2 DEF Store, Sema!Push, Sema!Goto, Queue, Place
<1>8. ASSUME NEW p \in Producers, WrapTail(p) PROVE UNCHANGED Sema!vars
  <2>1. /\ Place[p] = "release"
        /\ Place' = [Place EXCEPT ![p] = "release"]
    BY <1>1, <1>8, SushiPeople DEF WrapTail, Locations, PlaceOf
  <2>2. Queue' = Queue
    BY <1>2, <1>3, <1>8, OthersStayQueue
  <2>3. Place' = Place
    BY <2>1 DEF Place
  <2> QED
    BY <1>8, <2>2, <2>3 DEF WrapTail, Sema!vars, Queue, Place
<1>9. ASSUME NEW p \in Producers, ReleaseTaken(p) PROVE Sema!ReleaseTaken(p)
  <2>1. /\ Place[p] = "release"
        /\ Place' = [Place EXCEPT ![p] = "idle"]
    BY <1>1, <1>9, SushiPeople DEF ReleaseTaken, Locations, PlaceOf
  <2>2. Queue' = Queue
    BY <1>2, <1>3, <1>9, OthersStayQueue
  <2> QED
    BY <1>9, <2>1, <2>2 DEF ReleaseTaken, Sema!ReleaseTaken, Sema!Goto, Queue, Place
<1>10. ASSUME NEW c \in Consumers, Call(c) PROVE Sema!Call(c)
  <2>1. /\ Place[c] = "idle"
        /\ Place' = [Place EXCEPT ![c] = "acquire"]
    BY <1>1, <1>10, SushiPeople DEF Call, Locations, PlaceOf
  <2>2. Queue' = Queue
    BY <1>2, <1>3, <1>10, OthersStayQueue
  <2> QED
    BY <1>10, <2>1, <2>2 DEF Call, Sema!Call, Sema!Goto, Queue, Place
<1>11. ASSUME NEW c \in Consumers, AcquireTaken(c) PROVE Sema!AcquireTaken(c)
  <2>1. /\ Place[c] = "acquire"
        /\ Place' = [Place EXCEPT ![c] = "lock"]
    BY <1>1, <1>11, SushiPeople DEF AcquireTaken, Locations, PlaceOf
  <2>2. Queue' = Queue
    BY <1>2, <1>3, <1>11, OthersStayQueue
  <2> QED
    BY <1>11, <2>1, <2>2 DEF AcquireTaken, Sema!AcquireTaken, Sema!Goto, Queue, Place
<1>12. ASSUME NEW c \in Consumers, Take(c) PROVE Sema!Pop(c)
  <2>1. /\ Place[c] = "lock"
        /\ Place' = [Place EXCEPT ![c] = "release"]
    BY <1>1, <1>12, SushiPeople DEF Take, Locations, PlaceOf
  <2>2. Queue' = Tail(Queue) /\ elem' = [elem EXCEPT ![c] = Head(Queue)]
    BY <1>2, <1>3, <1>12, TakePops
  <2> QED
    BY <1>12, <2>1, <2>2 DEF Take, Sema!Pop, Sema!Goto, Queue, Place
<1>13. ASSUME NEW c \in Consumers, WrapHead(c) PROVE UNCHANGED Sema!vars
  <2>1. /\ Place[c] = "release"
        /\ Place' = [Place EXCEPT ![c] = "release"]
    BY <1>1, <1>13, SushiPeople DEF WrapHead, Locations, PlaceOf
  <2>2. Queue' = Queue
    BY <1>2, <1>3, <1>13, WrapStaysQueue
  <2>3. Place' = Place
    BY <2>1 DEF Place
  <2> QED
    BY <1>13, <2>2, <2>3 DEF WrapHead, Sema!vars, Queue, Place
<1>14. ASSUME NEW c \in Consumers, ReleaseFree(c) PROVE Sema!ReleaseFree(c)
  <2>1. /\ Place[c] = "release"
        /\ Place' = [Place EXCEPT ![c] = "idle"]
    BY <1>1, <1>14, SushiPeople DEF ReleaseFree, Locations, PlaceOf
  <2>2. Queue' = Queue
    BY <1>2, <1>3, <1>14, OthersStayQueue
  <2> QED
    BY <1>14, <2>1, <2>2 DEF ReleaseFree, Sema!ReleaseFree, Sema!Goto, Queue, Place
<1> QED
  BY <1>4, <1>5, <1>6, <1>7, <1>8, <1>9, <1>10, <1>11, <1>12, <1>13, <1>14, SushiPeople
  DEF RingRuns, Next, producer, consumer, Sema!Next, Sema!producer, Sema!consumer

(* 2_sema.cpp takes the same steps by the same names.                      *)
LEMMA SemaStepRefines ==
  ASSUME CounterInv, InSema, SemaRuns(Std!Next)
  PROVE  [Sema!Next]_Sema!vars
<1>0. pc \in [Threads -> {"idle", "acquire", "lock", "release"}]
  BY DEF CounterInv
<1>1. Queue = q_ /\ Queue' = q_' /\ Place = pc
  BY <1>0 DEF SemaRuns, InSema, InRing, Queue, Place, SemaLocation
<1>2. \A t \in Threads, from, to \in {"idle", "acquire", "lock", "release"} :
        Std!Goto(t, from, to) => Place[t] = from /\ Place' = [Place EXCEPT ![t] = to]
  <2> SUFFICES ASSUME NEW t \in Threads, NEW from \in {"idle", "acquire", "lock", "release"},
                      NEW to \in {"idle", "acquire", "lock", "release"},
                      Std!Goto(t, from, to)
               PROVE  Place[t] = from /\ Place' = [Place EXCEPT ![t] = to]
    OBVIOUS
  <2>1. Goto(t, from, to) /\ DOMAIN pc = Threads
    BY <1>0 DEF Goto, Std!Goto
  <2>2. PlaceOf(from) = from /\ PlaceOf(to) = to
    BY DEF PlaceOf
  <2> QED
    BY <2>1, <2>2, PlaceAfterGoto
<1>3. ASSUME NEW p \in Producers, Std!MakeDish(p) PROVE Sema!MakeDish(p)
  <2>1. Place[p] = "idle" /\ Place' = [Place EXCEPT ![p] = "acquire"]
    BY <1>2, <1>3, SushiPeople DEF Std!MakeDish
  <2> QED
    BY <1>1, <1>3, <2>1 DEF Std!MakeDish, Sema!MakeDish, Sema!Goto, Queue, Place
<1>4. ASSUME NEW p \in Producers, Std!AcquireFree(p) PROVE Sema!AcquireFree(p)
  <2>1. Place[p] = "acquire" /\ Place' = [Place EXCEPT ![p] = "lock"]
    BY <1>2, <1>4, SushiPeople DEF Std!AcquireFree
  <2> QED
    BY <1>1, <1>4, <2>1 DEF Std!AcquireFree, Sema!AcquireFree, Sema!Goto, Queue, Place
<1>5. ASSUME NEW p \in Producers, Std!Push(p) PROVE Sema!Push(p)
  <2>1. Place[p] = "lock" /\ Place' = [Place EXCEPT ![p] = "release"]
    BY <1>2, <1>5, SushiPeople DEF Std!Push
  <2> QED
    BY <1>1, <1>5, <2>1 DEF Std!Push, Sema!Push, Sema!Goto, Queue, Place
<1>6. ASSUME NEW p \in Producers, Std!ReleaseTaken(p) PROVE Sema!ReleaseTaken(p)
  <2>1. Place[p] = "release" /\ Place' = [Place EXCEPT ![p] = "idle"]
    BY <1>2, <1>6, SushiPeople DEF Std!ReleaseTaken
  <2> QED
    BY <1>1, <1>6, <2>1 DEF Std!ReleaseTaken, Sema!ReleaseTaken, Sema!Goto, Queue, Place
<1>7. ASSUME NEW c \in Consumers, Std!Call(c) PROVE Sema!Call(c)
  <2>1. Place[c] = "idle" /\ Place' = [Place EXCEPT ![c] = "acquire"]
    BY <1>2, <1>7, SushiPeople DEF Std!Call
  <2> QED
    BY <1>1, <1>7, <2>1 DEF Std!Call, Sema!Call, Sema!Goto, Queue, Place
<1>8. ASSUME NEW c \in Consumers, Std!AcquireTaken(c) PROVE Sema!AcquireTaken(c)
  <2>1. Place[c] = "acquire" /\ Place' = [Place EXCEPT ![c] = "lock"]
    BY <1>2, <1>8, SushiPeople DEF Std!AcquireTaken
  <2> QED
    BY <1>1, <1>8, <2>1 DEF Std!AcquireTaken, Sema!AcquireTaken, Sema!Goto, Queue, Place
<1>9. ASSUME NEW c \in Consumers, Std!Pop(c) PROVE Sema!Pop(c)
  <2>1. Place[c] = "lock" /\ Place' = [Place EXCEPT ![c] = "release"]
    BY <1>2, <1>9, SushiPeople DEF Std!Pop
  <2> QED
    BY <1>1, <1>9, <2>1 DEF Std!Pop, Sema!Pop, Sema!Goto, Queue, Place
<1>10. ASSUME NEW c \in Consumers, Std!ReleaseFree(c) PROVE Sema!ReleaseFree(c)
  <2>1. Place[c] = "release" /\ Place' = [Place EXCEPT ![c] = "idle"]
    BY <1>2, <1>10, SushiPeople DEF Std!ReleaseFree
  <2> QED
    BY <1>1, <1>10, <2>1 DEF Std!ReleaseFree, Sema!ReleaseFree, Sema!Goto, Queue, Place
<1> QED
  BY <1>3, <1>4, <1>5, <1>6, <1>7, <1>8, <1>9, <1>10
  DEF SemaRuns, Std!Next, Std!producer, Std!consumer, Sema!Next, Sema!producer,
      Sema!consumer

(* 4_sema_ringbuffer.cpp implements 2_sema.cpp: a ring over a fixed array, *)
(* whose indices leave the array for one statement under the mutex, looks  *)
(* to the chefs and customers like the std::queue.  2_sema.cpp implements  *)
(* itself, and the SPSC programs leave the counter alone.                  *)
THEOREM RingIsSemaQueue == MCSpec => RefinesSemaQueue
<1>1. MCInit => Sema!Init
  <2> SUFFICES ASSUME MCInit PROVE Sema!Init
    OBVIOUS
  <2>1. Init
    BY DEF MCInit
  <2>2. q_ = << >>
    BY DEF MCInit, Std!Init
  <2>3. InArray = 0 /\ head_ = 0
    BY <2>1, SushiPeople, CountZero DEF InArray, Stored, Fetching, Init, CounterInit
  <2>4. Contents = << >>
    BY <2>3, ContentsIsRing DEF RingContents
  <2>5. [t \in Threads |-> SemaLocation(t)] = [t \in Threads |-> "idle"]
    BY <2>1 DEF Init, CounterInit, SemaLocation
  <2> QED
    BY <2>1, <2>2, <2>4, <2>5
    DEF Sema!Init, Sema!CounterInit, Sema!Threads, Threads, Init, CounterInit
<1>2. CounterInv /\ [MCNext]_allVars => [Sema!Next]_Sema!vars
  <2> SUFFICES ASSUME CounterInv, [MCNext]_allVars PROVE [Sema!Next]_Sema!vars
    OBVIOUS
  <2>1. CASE SemaRuns(Std!Next)
    BY <2>1, SemaStepRefines DEF SemaRuns
  <2>2. CASE RingRuns(Next)
    BY <2>2, RingStepRefines DEF RingRuns, CounterInv
  <2>3. ASSUME UNCHANGED <<program, q_, ringVars, counterVars>>
        PROVE  UNCHANGED Sema!vars
    <3>1. Contents' = Contents
      BY <2>3 DEF Contents, Length, At, ringVars, counterVars
    <3>2. [t \in Threads |-> SemaLocation(t)]' = [t \in Threads |-> SemaLocation(t)]
      BY <2>3 DEF SemaLocation, counterVars
    <3> QED
      BY <2>3, <3>1, <3>2 DEF Sema!vars, InRing, counterVars
  <2> QED
    BY <2>1, <2>2, <2>3 DEF MCNext, CVRuns, SpinRuns, WaitRuns, allVars
<1> QED
  BY <1>1, <1>2, CounterInvHolds, PTL DEF MCSpec, RefinesSemaQueue, Sema!Spec

-----------------------------------------------------------------------------
(* What SemaQueueProofs shows of SemaQueue holds of both programs          *)

Counter == INSTANCE SemaQueueProofs WITH
  q_ <- IF InRing THEN Contents ELSE q_,
  pc <- [t \in Threads |-> SemaLocation(t)]

LEMMA CounterAssumption == Counter!SushiAssumption
  BY SushiAssumption DEF Counter!SushiAssumption, Counter!IsFiniteSet, IsFiniteSet

LEMMA CounterSpec == MCSpec => Counter!Spec
<1>1. Sema!Init <=> Counter!Init
  BY DEF Sema!Init, Sema!CounterInit, Sema!Threads,
         Counter!Init, Counter!CounterInit, Counter!Threads
<1>2. [Sema!Next]_Sema!vars <=> [Counter!Next]_Counter!vars
  BY DEF Sema!Next, Sema!vars, Sema!producer, Sema!consumer, Sema!Goto,
         Sema!MakeDish, Sema!AcquireFree, Sema!Push, Sema!ReleaseTaken,
         Sema!Call, Sema!AcquireTaken, Sema!Pop, Sema!ReleaseFree,
         Counter!Next, Counter!vars, Counter!producer, Counter!consumer, Counter!Goto,
         Counter!MakeDish, Counter!AcquireFree, Counter!Push, Counter!ReleaseTaken,
         Counter!Call, Counter!AcquireTaken, Counter!Pop, Counter!ReleaseFree
<1> QED
  BY <1>1, <1>2, RingIsSemaQueue, PTL DEF RefinesSemaQueue, Sema!Spec, Counter!Spec

(* Every dish and every free place is covered by a semaphore or by a       *)
(* thread on its way, for either program on the counter: acquire and       *)
(* release pair up although no token belongs to a dish (2_sema.cpp and     *)
(* 4_sema_ringbuffer.cpp, push and pop).                                   *)
THEOREM TokensCover == MCSpec => []TokensCoverQueue
<1>1. Counter!TokensCoverQueue <=> TokensCoverQueue
  BY DEF TokensCoverQueue, Sema!TokensCoverQueue, Sema!At, Counter!TokensCoverQueue,
         Counter!At, Sema!Cardinality, Counter!Cardinality
<1>2. Counter!Spec => []Counter!TokensCoverQueue
  BY CounterAssumption, Counter!TokensAlwaysCover
<1> QED
  BY <1>1, <1>2, CounterSpec, PTL

(* Both semaphore queues behave as one atomic bounded FIFO for their       *)
(* callers (2_sema.cpp and 4_sema_ringbuffer.cpp, push and pop).           *)
THEOREM CounterIsFIFO == MCSpec => RefinesFIFO
<1>1. Counter!Spec => Counter!RefinesFIFO
  BY CounterAssumption, Counter!Refinement
<1>2. Counter!FIFO!FIFOInit <=> Sema!FIFO!FIFOInit
  BY DEF Counter!FIFO!FIFOInit, Sema!FIFO!FIFOInit, Counter!FIFO!Threads,
         Sema!FIFO!Threads, Counter!Threads, Sema!Threads, Counter!Status, Sema!Status
<1>3. [Counter!FIFO!FIFONext]_Counter!FIFO!fifoVars <=>
        [Sema!FIFO!FIFONext]_Sema!FIFO!fifoVars
  BY DEF Counter!FIFO!FIFONext, Sema!FIFO!FIFONext, Counter!FIFO!fifoVars,
         Sema!FIFO!fifoVars, Counter!FIFO!CallPush, Sema!FIFO!CallPush,
         Counter!FIFO!DoPush, Sema!FIFO!DoPush, Counter!FIFO!CallPop,
         Sema!FIFO!CallPop, Counter!FIFO!DoPop, Sema!FIFO!DoPop,
         Counter!FIFO!Return, Sema!FIFO!Return, Counter!Threads, Sema!Threads,
         Counter!Status, Sema!Status
<1> QED
  BY <1>1, <1>2, <1>3, CounterSpec, PTL
  DEF RefinesFIFO, Sema!RefinesFIFO, Counter!RefinesFIFO, Counter!FIFO!FIFOSpec,
      Sema!FIFO!FIFOSpec

-----------------------------------------------------------------------------
(* The ring between one producer and one consumer                          *)

Places == 0..(slots - 1)

(* How far b is ahead of a, and the place that follows i, round the ring.  *)
Ahead(a, b) == IF b >= a THEN b - a ELSE b - a + slots
Following(i) == IF i + 1 = slots THEN 0 ELSE i + 1

LEMMA SlotsAre == slots \in Nat \ {0} /\ slots >= 2 /\ Total \in Nat
  BY SushiMCAssumption

LEMMA FollowingIs ==
  \A i \in Places : /\ Blocking!NextIndex(i) = Following(i)
                    /\ Spinning!NextIndex(i) = Following(i)
<1> SUFFICES ASSUME NEW i \in Places PROVE (i + 1) % slots = Following(i)
  BY DEF Blocking!NextIndex, Spinning!NextIndex
<1>1. i \in Nat /\ i \in 0..(slots - 1)
  BY SlotsAre DEF Places
<1>2. (i + 1) % slots = IF (i % slots) + 1 = slots THEN 0 ELSE (i % slots) + 1
  BY <1>1, SlotsAre, RemainderNext
<1>3. i % slots = i
  BY <1>1, SlotsAre, RemainderSmall
<1> QED
  BY <1>2, <1>3 DEF Following

(* The place k steps after a.                                              *)
LEMMA SteppingIs ==
  ASSUME NEW a \in Places, NEW k \in Places
  PROVE  (a + k) % slots = IF a + k < slots THEN a + k ELSE a + k - slots
<1> USE SlotsAre DEF Places
<1>1. CASE a + k < slots
  <2>1. a + k \in 0..(slots - 1)
    BY <1>1
  <2> QED
    BY <1>1, <2>1, RemainderSmall
<1>2. CASE ~(a + k < slots)
  <2>1. a + k - slots \in 0..(slots - 1) /\ a + k - slots \in Nat
    BY <1>2
  <2>2. ((a + k - slots) + slots) % slots = (a + k - slots) % slots
    BY <2>1, RemainderShift
  <2>3. (a + k - slots) + slots = a + k
    OBVIOUS
  <2> QED
    BY <1>2, <2>1, <2>2, <2>3, RemainderSmall
<1> QED
  BY <1>1, <1>2

LEMMA AheadIs ==
  ASSUME NEW a \in Places, NEW b \in Places
  PROVE  (b + slots - a) % slots = Ahead(a, b) /\ Ahead(a, b) \in Places
<1> USE SlotsAre DEF Places, Ahead
<1>1. CASE b >= a
  <2>1. b - a \in 0..(slots - 1) /\ b - a \in Nat /\ b + slots - a = (b - a) + slots
    BY <1>1
  <2>2. ((b - a) + slots) % slots = (b - a) % slots
    BY <2>1, RemainderShift
  <2> QED
    BY <1>1, <2>1, <2>2, RemainderSmall
<1>2. CASE ~(b >= a)
  <2>1. b + slots - a \in 0..(slots - 1) /\ b - a + slots = b + slots - a
    BY <1>2
  <2> QED
    BY <1>2, <2>1, RemainderSmall
<1> QED
  BY <1>1, <1>2

(* A value on the arc between the last one seen and the current one.       *)
LEMMA ArcIs ==
  ASSUME NEW a \in Places, NEW b \in Places
  PROVE  \A x \in Blocking!Arc(a, b) \cup Spinning!Arc(a, b) :
           x \in Places /\ Ahead(a, x) <= Ahead(a, b)
<1> SUFFICES ASSUME NEW k \in 0..((b + slots - a) % slots)
             PROVE  /\ (a + k) % slots \in Places
                    /\ Ahead(a, (a + k) % slots) <= Ahead(a, b)
  BY DEF Blocking!Arc, Spinning!Arc
<1>1. k \in 0..Ahead(a, b) /\ Ahead(a, b) \in Places
  BY AheadIs
<1>2. k \in Places
  BY <1>1, SlotsAre DEF Places
<1>3. (a + k) % slots = IF a + k < slots THEN a + k ELSE a + k - slots
  BY <1>2, SteppingIs
<1>4. (a + k) % slots \in Places /\ Ahead(a, (a + k) % slots) = k
  <2> DEFINE x == IF a + k < slots THEN a + k ELSE a + k - slots
  <2>1. x \in Places /\ Ahead(a, x) = k
    BY <1>2, SlotsAre DEF Places, Ahead
  <2> QED
    BY <1>3, <2>1
<1> QED
  BY <1>1, <1>4, SlotsAre DEF Places

-----------------------------------------------------------------------------
(* The order of the indices round the ring: the head that the producer has *)
(* seen, the head, the tail that the consumer has seen, the tail; and less *)
(* than one round from the first to the last.                              *)
InOrder(ph, h, ct, t) ==
  /\ ph \in Places /\ h \in Places /\ ct \in Places /\ t \in Places
  /\ Ahead(ph, h) + Ahead(h, t) = Ahead(ph, t)
  /\ Ahead(h, ct) + Ahead(ct, t) = Ahead(h, t)

LEMMA OrderWhenHeadSeen ==
  ASSUME NEW ph, NEW h, NEW ct, NEW t, InOrder(ph, h, ct, t),
         NEW x \in Places, Ahead(ph, x) <= Ahead(ph, h)
  PROVE  InOrder(x, h, ct, t) /\ (x # ph => Ahead(x, t) < slots - 1)
  BY SlotsAre DEF InOrder, Ahead, Places

LEMMA OrderWhenTailSeen ==
  ASSUME NEW ph, NEW h, NEW ct, NEW t, InOrder(ph, h, ct, t),
         NEW x \in Places, Ahead(ct, x) <= Ahead(ct, t)
  PROVE  InOrder(ph, h, x, t) /\ (x # ct => h # x)
  BY SlotsAre DEF InOrder, Ahead, Places

LEMMA OrderWhenTailMoves ==
  ASSUME NEW ph, NEW h, NEW ct, NEW t, InOrder(ph, h, ct, t), Ahead(ph, t) < slots - 1
  PROVE  /\ InOrder(ph, h, ct, Following(t))
         /\ Ahead(h, Following(t)) = Ahead(h, t) + 1 /\ Ahead(h, t) < slots - 1
  BY SlotsAre DEF InOrder, Ahead, Places, Following

LEMMA OrderWhenHeadMoves ==
  ASSUME NEW ph, NEW h, NEW ct, NEW t, InOrder(ph, h, ct, t), h # ct
  PROVE  /\ InOrder(ph, Following(h), ct, t) /\ h # t
         /\ Ahead(Following(h), t) = Ahead(h, t) - 1 /\ Ahead(h, t) > 0
  BY SlotsAre DEF InOrder, Ahead, Places, Following

LEMMA FullIs ==
  ASSUME NEW ph, NEW h, NEW ct, NEW t, InOrder(ph, h, ct, t), Following(t) # ph
  PROVE  Ahead(ph, t) < slots - 1
  BY SlotsAre DEF InOrder, Ahead, Places, Following

LEMMA OrderStarts == InOrder(0, 0, 0, 0)
  BY SlotsAre DEF InOrder, Ahead, Places

-----------------------------------------------------------------------------
(* Both SPSC programs keep the indices in order                            *)

SpscTyped ==
  /\ slots_ \in [Places -> 0..Total]
  /\ pi \in 0..Total /\ ci \in 0..Total /\ popped \in 0..Total
  /\ ppc \notin {"loop", "done"} => pi < Total
  /\ cpc \notin {"loop", "done"} => ci < Total
  /\ InSpin => ppc \in {"loop", "load", "loaded", "yield", "write", "publish", "pushed",
                        "done"}
  /\ InSpin => cpc \in {"loop", "load", "loaded", "yield", "read", "publish", "popped",
                        "done"}
  /\ InWait => ppc \in {"loop", "load", "loaded", "wait", "asleep", "write", "publish",
                        "notify", "done"}
  /\ InWait => cpc \in {"loop", "load", "loaded", "wait", "asleep", "read", "publish",
                        "notify", "done"}

(* A thread that is past its check keeps what the check told it, whatever  *)
(* the other thread has done since: the producer that there is a place     *)
(* behind its own index, the consumer that its own index has an element.   *)
SpscOrdered ==
  /\ InOrder(phead, slots_head, ctail, slots_tail)
  /\ ppc \in {"write", "publish"} => Ahead(phead, slots_tail) < slots - 1
  /\ cpc \in {"read", "publish"} => slots_head # ctail
  /\ ppc = "publish" => slots_[slots_tail] = pi
  /\ cpc = "publish" => popped = slots_[slots_head]

SpscInv == SpscTyped /\ SpscOrdered /\ NoLostWakeup

LEMMA SpinningKeeps ==
  ASSUME SpscInv, InSpin, InSpin', Spinning!SpinNext
  PROVE  SpscInv'
<1> USE SlotsAre DEF SpscInv, SpscTyped, SpscOrdered, NoLostWakeup,
                     Blocking!NoLostWakeup, InSpin, InWait
<1>0. /\ phead \in Places /\ slots_head \in Places /\ ctail \in Places
      /\ slots_tail \in Places
  BY DEF InOrder
<1>1. ASSUME Spinning!PushCall PROVE SpscInv'
  BY <1>0, <1>1
  DEF Spinning!PushCall, Spinning!ProducerGoes, Spinning!cvars
<1>2. ASSUME Spinning!Refused PROVE SpscInv'
  BY <1>0, <1>2
  DEF Spinning!Refused, Spinning!ProducerGoes, Spinning!cvars
<1>3. ASSUME Spinning!PushAgain PROVE SpscInv'
  BY <1>0, <1>3
  DEF Spinning!PushAgain, Spinning!ProducerGoes, Spinning!cvars
<1>4. ASSUME Spinning!HasPlace PROVE SpscInv'
  BY <1>0, <1>4, FullIs, FollowingIs
  DEF Spinning!HasPlace, Spinning!ProducerGoes, Spinning!cvars,
      Spinning!Full
<1>5. ASSUME Spinning!Write PROVE SpscInv'
  BY <1>0, <1>5, OrderWhenHeadMoves
  DEF Spinning!Write, Spinning!ProducerGoes, Spinning!cvars
<1>6. ASSUME Spinning!StoreTail PROVE SpscInv'
  BY <1>0, <1>6, OrderWhenTailMoves, FollowingIs
  DEF Spinning!StoreTail, Spinning!ProducerGoes, Spinning!cvars
<1>7. ASSUME Spinning!Pushed PROVE SpscInv'
  BY <1>0, <1>7
  DEF Spinning!Pushed, Spinning!ProducerGoes, Spinning!cvars
<1>8. ASSUME Spinning!ProducerEnds PROVE SpscInv'
  BY <1>0, <1>8
  DEF Spinning!ProducerEnds, Spinning!ProducerGoes, Spinning!cvars
<1>9. ASSUME Spinning!PopCall PROVE SpscInv'
  BY <1>0, <1>9
  DEF Spinning!PopCall, Spinning!ConsumerGoes, Spinning!pvars
<1>10. ASSUME Spinning!RefusedPop PROVE SpscInv'
  BY <1>0, <1>10
  DEF Spinning!RefusedPop, Spinning!ConsumerGoes, Spinning!pvars
<1>11. ASSUME Spinning!PopAgain PROVE SpscInv'
  BY <1>0, <1>11
  DEF Spinning!PopAgain, Spinning!ConsumerGoes, Spinning!pvars
<1>12. ASSUME Spinning!HasElement PROVE SpscInv'
  BY <1>0, <1>12
  DEF Spinning!HasElement, Spinning!ConsumerGoes, Spinning!pvars,
      Spinning!Empty
<1>13. ASSUME Spinning!Read PROVE SpscInv'
  BY <1>0, <1>13, OrderWhenHeadMoves
  DEF Spinning!Read, Spinning!ConsumerGoes, Spinning!pvars
<1>14. ASSUME Spinning!StoreHead PROVE SpscInv'
  BY <1>0, <1>14, OrderWhenHeadMoves, FollowingIs
  DEF Spinning!StoreHead, Spinning!ConsumerGoes, Spinning!pvars
<1>15. ASSUME Spinning!Popped PROVE SpscInv'
  BY <1>0, <1>15
  DEF Spinning!Popped, Spinning!ConsumerGoes, Spinning!pvars,
      Spinning!Nothing
<1>16. ASSUME Spinning!ConsumerEnds PROVE SpscInv'
  BY <1>0, <1>16
  DEF Spinning!ConsumerEnds, Spinning!ConsumerGoes, Spinning!pvars
<1>17. ASSUME NEW h \in Spinning!Arc(phead, slots_head), Spinning!LoadHead(h)
       PROVE  SpscInv'
  <2>1. h \in Places /\ Ahead(phead, h) <= Ahead(phead, slots_head)
    BY <1>0, ArcIs
  <2> QED
    BY <1>0, <1>17, <2>1, OrderWhenHeadSeen
    DEF Spinning!LoadHead, Spinning!ProducerGoes, Spinning!cvars
<1>18. ASSUME NEW t \in Spinning!Arc(ctail, slots_tail), Spinning!LoadTail(t)
       PROVE  SpscInv'
  <2>1. t \in Places /\ Ahead(ctail, t) <= Ahead(ctail, slots_tail)
    BY <1>0, ArcIs
  <2> QED
    BY <1>0, <1>18, <2>1, OrderWhenTailSeen
    DEF Spinning!LoadTail, Spinning!ConsumerGoes, Spinning!pvars
<1>19. ASSUME Spinning!Joined PROVE SpscInv'
  BY <1>19 DEF Spinning!Joined, Spinning!vars
<1> QED
  BY <1>1, <1>2, <1>3, <1>4, <1>5, <1>6, <1>7, <1>8, <1>9, <1>10, <1>11, <1>12,
     <1>13, <1>14, <1>15, <1>16, <1>17, <1>18, <1>19
  DEF Spinning!SpinNext, Spinning!SpinProducer, Spinning!SpinConsumer

LEMMA BlockingKeeps ==
  ASSUME SpscInv, InWait, InWait', Blocking!Next
  PROVE  SpscInv'
<1> USE SlotsAre DEF SpscInv, SpscTyped, SpscOrdered, NoLostWakeup,
                     Blocking!NoLostWakeup, InSpin, InWait
<1>0. /\ phead \in Places /\ slots_head \in Places /\ ctail \in Places
      /\ slots_tail \in Places
  BY DEF InOrder
<1>1. ASSUME Blocking!PushCall PROVE SpscInv'
  BY <1>0, <1>1
  DEF Blocking!PushCall, Blocking!ProducerGoes, Blocking!cvars
<1>2. ASSUME Blocking!FindsFull PROVE SpscInv'
  BY <1>0, <1>2
  DEF Blocking!FindsFull, Blocking!ProducerGoes, Blocking!cvars
<1>3. ASSUME Blocking!NotFull PROVE SpscInv'
  BY <1>0, <1>3, FullIs, FollowingIs
  DEF Blocking!NotFull, Blocking!ProducerGoes, Blocking!cvars, Blocking!Full
<1>4. ASSUME Blocking!HeadUnchanged PROVE SpscInv'
  BY <1>0, <1>4
  DEF Blocking!HeadUnchanged, Blocking!ProducerGoes, Blocking!cvars
<1>5. ASSUME Blocking!Write PROVE SpscInv'
  BY <1>0, <1>5, OrderWhenHeadMoves
  DEF Blocking!Write, Blocking!ProducerGoes, Blocking!cvars
<1>6. ASSUME Blocking!PublishTail PROVE SpscInv'
  BY <1>0, <1>6, OrderWhenTailMoves, FollowingIs
  DEF Blocking!PublishTail, Blocking!ProducerGoes, Blocking!cvars
<1>7. ASSUME Blocking!NotifyConsumer PROVE SpscInv'
  BY <1>0, <1>7
  DEF Blocking!NotifyConsumer, Blocking!ProducerGoes, Blocking!cvars,
      Blocking!Notified
<1>8. ASSUME Blocking!ProducerEnds PROVE SpscInv'
  BY <1>0, <1>8
  DEF Blocking!ProducerEnds, Blocking!ProducerGoes, Blocking!cvars
<1>9. ASSUME Blocking!PopCall PROVE SpscInv'
  BY <1>0, <1>9
  DEF Blocking!PopCall, Blocking!ConsumerGoes, Blocking!pvars
<1>10. ASSUME Blocking!FindsEmpty PROVE SpscInv'
  BY <1>0, <1>10
  DEF Blocking!FindsEmpty, Blocking!ConsumerGoes, Blocking!pvars
<1>11. ASSUME Blocking!NotEmpty PROVE SpscInv'
  BY <1>0, <1>11
  DEF Blocking!NotEmpty, Blocking!ConsumerGoes, Blocking!pvars,
      Blocking!Empty
<1>12. ASSUME Blocking!TailUnchanged PROVE SpscInv'
  BY <1>0, <1>12
  DEF Blocking!TailUnchanged, Blocking!ConsumerGoes, Blocking!pvars
<1>13. ASSUME Blocking!Read PROVE SpscInv'
  BY <1>0, <1>13, OrderWhenHeadMoves
  DEF Blocking!Read, Blocking!ConsumerGoes, Blocking!pvars
<1>14. ASSUME Blocking!PublishHead PROVE SpscInv'
  BY <1>0, <1>14, OrderWhenHeadMoves, FollowingIs
  DEF Blocking!PublishHead, Blocking!ConsumerGoes, Blocking!pvars
<1>15. ASSUME Blocking!NotifyProducer PROVE SpscInv'
  BY <1>0, <1>15
  DEF Blocking!NotifyProducer, Blocking!ConsumerGoes, Blocking!pvars,
      Blocking!Notified, Blocking!Nothing
<1>16. ASSUME Blocking!ConsumerEnds PROVE SpscInv'
  BY <1>0, <1>16
  DEF Blocking!ConsumerEnds, Blocking!ConsumerGoes, Blocking!pvars
<1>17. ASSUME Blocking!ProducerWakes PROVE SpscInv'
  BY <1>0, <1>17
  DEF Blocking!ProducerWakes, Blocking!ProducerGoes, Blocking!cvars
<1>18. ASSUME Blocking!ConsumerWakes PROVE SpscInv'
  BY <1>0, <1>18
  DEF Blocking!ConsumerWakes, Blocking!ConsumerGoes, Blocking!pvars
<1>19. ASSUME NEW h \in Blocking!Arc(phead, slots_head), Blocking!LoadHead(h)
       PROVE  SpscInv'
  <2>1. h \in Places /\ Ahead(phead, h) <= Ahead(phead, slots_head)
    BY <1>0, ArcIs
  <2> QED
    BY <1>0, <1>19, <2>1, OrderWhenHeadSeen
    DEF Blocking!LoadHead, Blocking!ProducerGoes, Blocking!cvars
<1>20. ASSUME NEW t \in Blocking!Arc(ctail, slots_tail), Blocking!LoadTail(t)
       PROVE  SpscInv'
  <2>1. t \in Places /\ Ahead(ctail, t) <= Ahead(ctail, slots_tail)
    BY <1>0, ArcIs
  <2> QED
    BY <1>0, <1>20, <2>1, OrderWhenTailSeen
    DEF Blocking!LoadTail, Blocking!ConsumerGoes, Blocking!pvars
<1>21. ASSUME NEW h \in Blocking!Arc(phead, slots_head), Blocking!HeadChanged(h)
       PROVE  SpscInv'
  <2>1. h \in Places /\ Ahead(phead, h) <= Ahead(phead, slots_head)
    BY <1>0, ArcIs
  <2> QED
    BY <1>0, <1>21, <2>1, OrderWhenHeadSeen
    DEF Blocking!HeadChanged, Blocking!ProducerGoes, Blocking!cvars
<1>22. ASSUME NEW t \in Blocking!Arc(ctail, slots_tail), Blocking!TailChanged(t)
       PROVE  SpscInv'
  <2>1. t \in Places /\ Ahead(ctail, t) <= Ahead(ctail, slots_tail)
    BY <1>0, ArcIs
  <2> QED
    BY <1>0, <1>22, <2>1, OrderWhenTailSeen
    DEF Blocking!TailChanged, Blocking!ConsumerGoes, Blocking!pvars
<1>23. ASSUME Blocking!Joined PROVE SpscInv'
  BY <1>23 DEF Blocking!Joined, Blocking!vars
<1> QED
  BY <1>1, <1>2, <1>3, <1>4, <1>5, <1>6, <1>7, <1>8, <1>9, <1>10, <1>11, <1>12,
     <1>13, <1>14, <1>15, <1>16, <1>17, <1>18, <1>19, <1>20, <1>21, <1>22,
     <1>23
  DEF Blocking!Next, Blocking!Producer, Blocking!Consumer
LEMMA SpscInvHolds == MCSpec => []SpscInv
<1>1. MCInit => SpscInv
  <2> SUFFICES ASSUME MCInit PROVE SpscInv
    OBVIOUS
  <2>1. Blocking!Init
    BY DEF MCInit
  <2> QED
    BY <2>1, SlotsAre, OrderStarts
    DEF Blocking!Init, Blocking!Nothing, Blocking!Slots, Places, SpscInv, SpscTyped,
        SpscOrdered, NoLostWakeup, Blocking!NoLostWakeup
<1>2. SpscInv /\ [MCNext]_allVars => SpscInv'
  <2> SUFFICES ASSUME SpscInv, [MCNext]_allVars PROVE SpscInv'
    OBVIOUS
  <2>1. CASE SpinRuns(Spinning!SpinNext)
    BY <2>1, SpinningKeeps DEF SpinRuns, InSpin
  <2>2. CASE WaitRuns(Blocking!Next)
    BY <2>2, BlockingKeeps DEF WaitRuns, InWait
  <2>3. ASSUME UNCHANGED <<program, spscVars>> PROVE SpscInv'
    BY <2>3
    DEF SpscInv, SpscTyped, SpscOrdered, NoLostWakeup, Blocking!NoLostWakeup, InSpin,
        InWait, spscVars
  <2> QED
    BY <2>1, <2>2, <2>3 DEF MCNext, CVRuns, SemaRuns, RingRuns, allVars
<1> QED
  BY <1>1, <1>2, PTL DEF MCSpec

(* Neither end of the blocking ring sleeps on an index that has changed,   *)
(* except until the notify_one that the other end is about to make         *)
(* (6_spsc_atomic_wait.cpp, push and pop).                                 *)
THEOREM NobodyOversleeps == MCSpec => []NoLostWakeup
<1>1. SpscInv => NoLostWakeup
  BY DEF SpscInv
<1> QED
  BY <1>1, SpscInvHolds, PTL

-----------------------------------------------------------------------------
(* Both SPSC programs implement the FIFO                                   *)

(* What the FIFO sees of a thread that stands at l.                        *)
StatusAt(l) ==
  CASE l \in {"loop", "done"} -> "idle"
    [] l \in {"pushed", "popped", "notify"} -> "done"
    [] OTHER -> "called"

Flowing == Blocking!Contents
EndStatus == [e \in Blocking!Ends |-> Blocking!Status(e)]
EndHand == [e \in Blocking!Ends |-> Blocking!Hand(e)]

LEMMA EndsAre ==
  /\ EndStatus = [e \in {"producer", "consumer"} |->
                    IF e = "producer" THEN StatusAt(ppc) ELSE StatusAt(cpc)]
  /\ EndStatus' = [e \in {"producer", "consumer"} |->
                    IF e = "producer" THEN StatusAt(ppc') ELSE StatusAt(cpc')]
  /\ EndHand = [e \in {"producer", "consumer"} |->
                  IF e = "producer"
                  THEN IF StatusAt(ppc) # "idle" THEN pi ELSE Total
                  ELSE IF StatusAt(cpc) = "done" THEN popped ELSE Total]
  /\ EndHand' = [e \in {"producer", "consumer"} |->
                  IF e = "producer"
                  THEN IF StatusAt(ppc') # "idle" THEN pi' ELSE Total
                  ELSE IF StatusAt(cpc') = "done" THEN popped' ELSE Total]
<1> USE DEF EndStatus, EndHand, Blocking!Ends, Blocking!Status, Blocking!Hand, Blocking!Pc,
            Blocking!Nothing, StatusAt
<1>1. EndStatus = [e \in {"producer", "consumer"} |->
                     IF e = "producer" THEN StatusAt(ppc) ELSE StatusAt(cpc)]
  OBVIOUS
<1>2. EndStatus' = [e \in {"producer", "consumer"} |->
                      IF e = "producer" THEN StatusAt(ppc') ELSE StatusAt(cpc')]
  OBVIOUS
<1>3. EndHand = [e \in {"producer", "consumer"} |->
                  IF e = "producer"
                  THEN IF StatusAt(ppc) # "idle" THEN pi ELSE Total
                  ELSE IF StatusAt(cpc) = "done" THEN popped ELSE Total]
  OBVIOUS
<1>4. EndHand' = [e \in {"producer", "consumer"} |->
                  IF e = "producer"
                  THEN IF StatusAt(ppc') # "idle" THEN pi' ELSE Total
                  ELSE IF StatusAt(cpc') = "done" THEN popped' ELSE Total]
  OBVIOUS
<1> QED
  BY <1>1, <1>2, <1>3, <1>4

LEMMA FlowingIsRing ==
  ASSUME SpscInv, SpscInv'
  PROVE  /\ Flowing = RingContents(slots, slots_, slots_head, Ahead(slots_head, slots_tail))
         /\ Flowing' = RingContents(slots, slots_', slots_head',
                                    Ahead(slots_head', slots_tail'))
<1>1. /\ (slots_tail + slots - slots_head) % slots = Ahead(slots_head, slots_tail)
      /\ (slots_tail' + slots - slots_head') % slots = Ahead(slots_head', slots_tail')
  BY AheadIs DEF SpscInv, SpscOrdered, InOrder
<1> QED
  BY <1>1 DEF Flowing, Blocking!Contents, RingContents

(* What is known of the ring before a step, in the form the lemmas about   *)
(* rings ask for.                                                          *)
LEMMA RingFacts ==
  ASSUME SpscInv
  PROVE  /\ slots_ \in Arrays(slots, 0..Total)
         /\ slots_head \in 0..(slots - 1) /\ slots_head \in Nat
         /\ slots_tail \in 0..(slots - 1)
         /\ Ahead(slots_head, slots_tail) \in Nat
         /\ Ahead(slots_head, slots_tail) < slots
         /\ slots_tail = (slots_head + Ahead(slots_head, slots_tail)) % slots
<1>1. /\ slots_head \in Places /\ slots_tail \in Places
      /\ slots_ \in [Places -> 0..Total]
  BY DEF SpscInv, SpscTyped, SpscOrdered, InOrder
<1>2. Ahead(slots_head, slots_tail) \in Places
  BY <1>1, AheadIs
<1>3. (slots_head + Ahead(slots_head, slots_tail)) % slots
        = IF slots_head + Ahead(slots_head, slots_tail) < slots
          THEN slots_head + Ahead(slots_head, slots_tail)
          ELSE slots_head + Ahead(slots_head, slots_tail) - slots
  BY <1>1, <1>2, SteppingIs
<1>4. slots_tail = IF slots_head + Ahead(slots_head, slots_tail) < slots
                   THEN slots_head + Ahead(slots_head, slots_tail)
                   ELSE slots_head + Ahead(slots_head, slots_tail) - slots
  BY <1>1, SlotsAre DEF Places, Ahead
<1>5. slots_tail = (slots_head + Ahead(slots_head, slots_tail)) % slots
  BY <1>3, <1>4
<1>6. slots_ \in Arrays(slots, 0..Total)
  BY <1>1 DEF Places, Arrays
<1> QED
  BY <1>1, <1>2, <1>5, <1>6, SlotsAre DEF Places

(* The producer writes behind the last element.                            *)
LEMMA WriteIsUnseen ==
  ASSUME SpscInv, SpscInv',
         Moves(slots_tail, pi, slots_, slots_'),
         UNCHANGED <<slots_head, slots_tail>>
  PROVE  Flowing' = Flowing
<1> DEFINE l == Ahead(slots_head, slots_tail)
<1>1. /\ slots_ \in Arrays(slots, 0..Total) /\ slots_' \in Arrays(slots, 0..Total)
      /\ slots_tail \in 0..(slots - 1) /\ l \in Nat /\ l < slots /\ slots_head \in Nat
      /\ slots_tail = (slots_head + l) % slots
      /\ slots \in Nat \ {0}
  <2>1. slots_' \in Arrays(slots, 0..Total)
    BY DEF SpscInv, SpscTyped, Arrays, Places
  <2> QED
    BY <2>1, RingFacts, SlotsAre
<1>2. /\ Flowing = RingContents(slots, slots_, slots_head, l)
      /\ Flowing' = RingContents(slots, slots_', slots_head, l)
  BY FlowingIsRing
<1> HIDE DEF l
<1>3. Moves((slots_head + l) % slots, slots_'[(slots_head + l) % slots], slots_, slots_')
  BY <1>1 DEF Moves, Arrays
<1>4. RingContents(slots, slots_', slots_head, l)
        = RingContents(slots, slots_, slots_head, l)
  BY <1>1, <1>3, RingOutside
<1> QED
  BY <1>2, <1>4

(* Publishing the tail puts the element that was written there.            *)
LEMMA PublishPushes ==
  ASSUME SpscInv, SpscInv', ppc = "publish",
         slots_tail' = Following(slots_tail), UNCHANGED <<slots_, slots_head>>
  PROVE  Flowing' = Append(Flowing, pi) /\ Len(Flowing) < slots - 1
<1> DEFINE l == Ahead(slots_head, slots_tail)
<1>1. /\ slots_ \in Arrays(slots, 0..Total)
      /\ slots_tail \in 0..(slots - 1) /\ l \in Nat /\ l < slots /\ slots_head \in Nat
      /\ slots_tail = (slots_head + l) % slots
      /\ slots \in Nat \ {0}
  BY RingFacts, SlotsAre
<1>2. /\ Ahead(slots_head, Following(slots_tail)) = l + 1 /\ l < slots - 1
      /\ slots_[slots_tail] = pi
  BY OrderWhenTailMoves DEF SpscInv, SpscOrdered
<1>3. /\ Flowing = RingContents(slots, slots_, slots_head, l)
      /\ Flowing' = RingContents(slots, slots_, slots_head, l + 1)
  BY <1>2, FlowingIsRing
<1> HIDE DEF l
<1>4. Moves((slots_head + l) % slots, slots_[(slots_head + l) % slots], slots_, slots_)
  BY <1>1 DEF Moves, Arrays
<1>5. Flowing' = Append(Flowing, slots_[(slots_head + l) % slots])
  BY <1>1, <1>3, <1>4, RingPut
<1>6. Len(Flowing) = l
  BY <1>1, <1>3, RingIsSequence
<1> QED
  BY <1>1, <1>2, <1>5, <1>6

(* Publishing the head takes the element that was read there.              *)
LEMMA PublishPops ==
  ASSUME SpscInv, SpscInv', cpc = "publish",
         slots_head' = Following(slots_head), UNCHANGED <<slots_, slots_tail>>
  PROVE  Flowing # << >> /\ Head(Flowing) = popped /\ Flowing' = Tail(Flowing)
<1> DEFINE l == Ahead(slots_head, slots_tail)
<1>1. /\ slots_ \in Arrays(slots, 0..Total)
      /\ slots_head \in 0..(slots - 1) /\ l \in Nat
      /\ slots \in Nat \ {0}
  BY RingFacts, SlotsAre
<1>2. /\ Ahead(Following(slots_head), slots_tail) = l - 1 /\ l > 0
      /\ popped = slots_[slots_head]
  BY OrderWhenHeadMoves DEF SpscInv, SpscOrdered
<1>3. /\ Flowing = RingContents(slots, slots_, slots_head, l)
      /\ Flowing' = RingContents(slots, slots_, Following(slots_head), l - 1)
  BY <1>2, FlowingIsRing
<1> HIDE DEF l
<1>n. l \in Nat \ {0} /\ l - 1 \in Nat
  BY <1>1, <1>2
<1>4. RingContents(slots, slots_, slots_head, l) # << >>
  BY <1>1, <1>n, RingTake
<1>5. Head(RingContents(slots, slots_, slots_head, l)) = slots_[slots_head]
  BY <1>1, <1>n, RingTake
<1>6. Tail(RingContents(slots, slots_, slots_head, l))
        = RingContents(slots, slots_, slots_head + 1, l - 1)
  BY <1>1, <1>n, RingTake
<1>7. RingContents(slots, slots_, slots, l - 1) = RingContents(slots, slots_, 0, l - 1)
  BY <1>1, <1>n, RingWrap
<1>8. RingContents(slots, slots_, Following(slots_head), l - 1)
        = RingContents(slots, slots_, slots_head + 1, l - 1)
  BY <1>7 DEF Following
<1> QED
  BY <1>2, <1>3, <1>4, <1>5, <1>6, <1>8
(* A step of neither program's FIFO: the statuses and hands are unchanged. *)
FIFOStutters == UNCHANGED <<Flowing, EndStatus, EndHand>>

LEMMA SpinningStepRefines ==
  ASSUME SpscInv, SpscInv', InSpin, Spinning!SpinNext
  PROVE  [Blocking!FIFO!FIFONext]_Blocking!FIFO!fifoVars
<1> USE EndsAre DEF StatusAt
<1>1. ASSUME Spinning!PushCall
       PROVE  Blocking!FIFO!CallPush("producer")
  <2>1. Flowing' = Flowing
    BY <1>1
    DEF Spinning!PushCall, Spinning!ProducerGoes, Spinning!cvars, Flowing,
        Blocking!Contents
  <2>2. EndStatus["producer"] = "idle" /\ EndStatus' = [EndStatus EXCEPT !["producer"] = "called"]
    BY <1>1
    DEF Spinning!PushCall, Spinning!ProducerGoes, Spinning!cvars, SpscInv,
        SpscTyped
  <2>3. EndHand' = [EndHand EXCEPT !["producer"] = pi] /\ pi \in 0..(Total - 1)
    BY <1>1, SlotsAre
    DEF Spinning!PushCall, Spinning!ProducerGoes, Spinning!cvars, SpscInv,
        SpscTyped
  <2> QED
    BY <2>1, <2>2, <2>3 DEF Blocking!FIFO!CallPush, Flowing, EndStatus, EndHand, Blocking!Nothing
<1>2. ASSUME Spinning!Refused
       PROVE  FIFOStutters
  <2>1. Flowing' = Flowing
    BY <1>2
    DEF Spinning!Refused, Spinning!ProducerGoes, Spinning!cvars, Flowing,
        Blocking!Contents
  <2>2. EndStatus' = EndStatus
    BY <1>2
    DEF Spinning!Refused, Spinning!ProducerGoes, Spinning!cvars
  <2>3. EndHand' = EndHand
    BY <1>2
    DEF Spinning!Refused, Spinning!ProducerGoes, Spinning!cvars
  <2> QED
    BY <2>1, <2>2, <2>3 DEF FIFOStutters
<1>3. ASSUME Spinning!PushAgain
       PROVE  FIFOStutters
  <2>1. Flowing' = Flowing
    BY <1>3
    DEF Spinning!PushAgain, Spinning!ProducerGoes, Spinning!cvars, Flowing,
        Blocking!Contents
  <2>2. EndStatus' = EndStatus
    BY <1>3
    DEF Spinning!PushAgain, Spinning!ProducerGoes, Spinning!cvars
  <2>3. EndHand' = EndHand
    BY <1>3
    DEF Spinning!PushAgain, Spinning!ProducerGoes, Spinning!cvars
  <2> QED
    BY <2>1, <2>2, <2>3 DEF FIFOStutters
<1>4. ASSUME Spinning!HasPlace
       PROVE  FIFOStutters
  <2>1. Flowing' = Flowing
    BY <1>4
    DEF Spinning!HasPlace, Spinning!ProducerGoes, Spinning!cvars, Flowing,
        Blocking!Contents
  <2>2. EndStatus' = EndStatus
    BY <1>4
    DEF Spinning!HasPlace, Spinning!ProducerGoes, Spinning!cvars
  <2>3. EndHand' = EndHand
    BY <1>4
    DEF Spinning!HasPlace, Spinning!ProducerGoes, Spinning!cvars
  <2> QED
    BY <2>1, <2>2, <2>3 DEF FIFOStutters
<1>5. ASSUME Spinning!Write
       PROVE  FIFOStutters
  <2>1. Flowing' = Flowing
    <3>1. Moves(slots_tail, pi, slots_, slots_') /\ UNCHANGED <<slots_head, slots_tail>>
      BY <1>5, RingFacts DEF Spinning!Write, Spinning!cvars, Moves, Arrays
    <3> QED
      BY <3>1, WriteIsUnseen
  <2>2. EndStatus' = EndStatus
    BY <1>5
    DEF Spinning!Write, Spinning!ProducerGoes, Spinning!cvars
  <2>3. EndHand' = EndHand
    BY <1>5
    DEF Spinning!Write, Spinning!ProducerGoes, Spinning!cvars
  <2> QED
    BY <2>1, <2>2, <2>3 DEF FIFOStutters
<1>6. ASSUME Spinning!StoreTail
       PROVE  Blocking!FIFO!DoPush("producer")
  <2>1. Flowing' = Append(Flowing, pi) /\ Len(Flowing) < slots - 1
    <3>1. /\ ppc = "publish" /\ slots_tail' = Following(slots_tail)
          /\ UNCHANGED <<slots_, slots_head>>
      BY <1>6, FollowingIs
      DEF Spinning!StoreTail, Spinning!ProducerGoes, Spinning!cvars,
          SpscInv, SpscOrdered, InOrder
    <3> QED
      BY <3>1, PublishPushes
  <2>2. EndStatus["producer"] = "called" /\ EndStatus' = [EndStatus EXCEPT !["producer"] = "done"]
    BY <1>6
    DEF Spinning!StoreTail, Spinning!ProducerGoes, Spinning!cvars,
        SpscInv, SpscTyped
  <2>3. EndHand' = EndHand /\ EndHand["producer"] = pi
    BY <1>6, SlotsAre
    DEF Spinning!StoreTail, Spinning!ProducerGoes, Spinning!cvars,
        SpscInv, SpscTyped
  <2> QED
    BY <2>1, <2>2, <2>3 DEF Blocking!FIFO!DoPush, Flowing, EndStatus, EndHand, Blocking!Nothing
<1>7. ASSUME Spinning!Pushed
       PROVE  Blocking!FIFO!Return("producer")
  <2>1. Flowing' = Flowing
    BY <1>7
    DEF Spinning!Pushed, Spinning!ProducerGoes, Spinning!cvars, Flowing,
        Blocking!Contents
  <2>2. EndStatus["producer"] = "done" /\ EndStatus' = [EndStatus EXCEPT !["producer"] = "idle"]
    BY <1>7
    DEF Spinning!Pushed, Spinning!ProducerGoes, Spinning!cvars, SpscInv,
        SpscTyped
  <2>3. EndHand' = [EndHand EXCEPT !["producer"] = Total]
    BY <1>7, SlotsAre
    DEF Spinning!Pushed, Spinning!ProducerGoes, Spinning!cvars, SpscInv,
        SpscTyped
  <2> QED
    BY <2>1, <2>2, <2>3 DEF Blocking!FIFO!Return, Flowing, EndStatus, EndHand, Blocking!Nothing
<1>8. ASSUME Spinning!ProducerEnds
       PROVE  FIFOStutters
  <2>1. Flowing' = Flowing
    BY <1>8
    DEF Spinning!ProducerEnds, Spinning!ProducerGoes, Spinning!cvars,
        Flowing, Blocking!Contents
  <2>2. EndStatus' = EndStatus
    BY <1>8
    DEF Spinning!ProducerEnds, Spinning!ProducerGoes, Spinning!cvars
  <2>3. EndHand' = EndHand
    BY <1>8
    DEF Spinning!ProducerEnds, Spinning!ProducerGoes, Spinning!cvars
  <2> QED
    BY <2>1, <2>2, <2>3 DEF FIFOStutters
<1>9. ASSUME Spinning!PopCall
       PROVE  Blocking!FIFO!CallPop("consumer")
  <2>1. Flowing' = Flowing
    BY <1>9
    DEF Spinning!PopCall, Spinning!ConsumerGoes, Spinning!pvars, Flowing,
        Blocking!Contents
  <2>2. EndStatus["consumer"] = "idle" /\ EndStatus' = [EndStatus EXCEPT !["consumer"] = "called"]
    BY <1>9
    DEF Spinning!PopCall, Spinning!ConsumerGoes, Spinning!pvars, SpscInv,
        SpscTyped
  <2>3. EndHand' = EndHand
    BY <1>9, SlotsAre
    DEF Spinning!PopCall, Spinning!ConsumerGoes, Spinning!pvars, SpscInv,
        SpscTyped
  <2> QED
    BY <2>1, <2>2, <2>3 DEF Blocking!FIFO!CallPop, Flowing, EndStatus, EndHand, Blocking!Nothing
<1>10. ASSUME Spinning!RefusedPop
       PROVE  FIFOStutters
  <2>1. Flowing' = Flowing
    BY <1>10
    DEF Spinning!RefusedPop, Spinning!ConsumerGoes, Spinning!pvars, Flowing,
        Blocking!Contents
  <2>2. EndStatus' = EndStatus
    BY <1>10
    DEF Spinning!RefusedPop, Spinning!ConsumerGoes, Spinning!pvars
  <2>3. EndHand' = EndHand
    BY <1>10
    DEF Spinning!RefusedPop, Spinning!ConsumerGoes, Spinning!pvars
  <2> QED
    BY <2>1, <2>2, <2>3 DEF FIFOStutters
<1>11. ASSUME Spinning!PopAgain
       PROVE  FIFOStutters
  <2>1. Flowing' = Flowing
    BY <1>11
    DEF Spinning!PopAgain, Spinning!ConsumerGoes, Spinning!pvars, Flowing,
        Blocking!Contents
  <2>2. EndStatus' = EndStatus
    BY <1>11
    DEF Spinning!PopAgain, Spinning!ConsumerGoes, Spinning!pvars
  <2>3. EndHand' = EndHand
    BY <1>11
    DEF Spinning!PopAgain, Spinning!ConsumerGoes, Spinning!pvars
  <2> QED
    BY <2>1, <2>2, <2>3 DEF FIFOStutters
<1>12. ASSUME Spinning!HasElement
       PROVE  FIFOStutters
  <2>1. Flowing' = Flowing
    BY <1>12
    DEF Spinning!HasElement, Spinning!ConsumerGoes, Spinning!pvars, Flowing,
        Blocking!Contents
  <2>2. EndStatus' = EndStatus
    BY <1>12
    DEF Spinning!HasElement, Spinning!ConsumerGoes, Spinning!pvars
  <2>3. EndHand' = EndHand
    BY <1>12
    DEF Spinning!HasElement, Spinning!ConsumerGoes, Spinning!pvars
  <2> QED
    BY <2>1, <2>2, <2>3 DEF FIFOStutters
<1>13. ASSUME Spinning!Read
       PROVE  FIFOStutters
  <2>1. Flowing' = Flowing
    BY <1>13
    DEF Spinning!Read, Spinning!ConsumerGoes, Spinning!pvars, Flowing,
        Blocking!Contents
  <2>2. EndStatus' = EndStatus
    BY <1>13
    DEF Spinning!Read, Spinning!ConsumerGoes, Spinning!pvars
  <2>3. EndHand' = EndHand
    BY <1>13
    DEF Spinning!Read, Spinning!ConsumerGoes, Spinning!pvars
  <2> QED
    BY <2>1, <2>2, <2>3 DEF FIFOStutters
<1>14. ASSUME Spinning!StoreHead
       PROVE  Blocking!FIFO!DoPop("consumer")
  <2>1. Flowing # << >> /\ Head(Flowing) = popped /\ Flowing' = Tail(Flowing)
    <3>1. /\ cpc = "publish" /\ slots_head' = Following(slots_head)
          /\ UNCHANGED <<slots_, slots_tail>>
      BY <1>14, FollowingIs
      DEF Spinning!StoreHead, Spinning!ConsumerGoes, Spinning!pvars,
          SpscInv, SpscOrdered, InOrder
    <3> QED
      BY <3>1, PublishPops
  <2>2. EndStatus["consumer"] = "called" /\ EndStatus' = [EndStatus EXCEPT !["consumer"] = "done"]
    BY <1>14
    DEF Spinning!StoreHead, Spinning!ConsumerGoes, Spinning!pvars,
        SpscInv, SpscTyped
  <2>3. EndHand' = [EndHand EXCEPT !["consumer"] = popped]
    BY <1>14, SlotsAre
    DEF Spinning!StoreHead, Spinning!ConsumerGoes, Spinning!pvars,
        SpscInv, SpscTyped
  <2> QED
    BY <2>1, <2>2, <2>3 DEF Blocking!FIFO!DoPop, Flowing, EndStatus, EndHand, Blocking!Nothing
<1>15. ASSUME Spinning!Popped
       PROVE  Blocking!FIFO!Return("consumer")
  <2>1. Flowing' = Flowing
    BY <1>15
    DEF Spinning!Popped, Spinning!ConsumerGoes, Spinning!pvars,
        Spinning!Nothing, Flowing, Blocking!Contents
  <2>2. EndStatus["consumer"] = "done" /\ EndStatus' = [EndStatus EXCEPT !["consumer"] = "idle"]
    BY <1>15
    DEF Spinning!Popped, Spinning!ConsumerGoes, Spinning!pvars,
        Spinning!Nothing, SpscInv, SpscTyped
  <2>3. EndHand' = [EndHand EXCEPT !["consumer"] = Total]
    BY <1>15, SlotsAre
    DEF Spinning!Popped, Spinning!ConsumerGoes, Spinning!pvars,
        Spinning!Nothing, SpscInv, SpscTyped
  <2> QED
    BY <2>1, <2>2, <2>3 DEF Blocking!FIFO!Return, Flowing, EndStatus, EndHand, Blocking!Nothing
<1>16. ASSUME Spinning!ConsumerEnds
       PROVE  FIFOStutters
  <2>1. Flowing' = Flowing
    BY <1>16
    DEF Spinning!ConsumerEnds, Spinning!ConsumerGoes, Spinning!pvars,
        Flowing, Blocking!Contents
  <2>2. EndStatus' = EndStatus
    BY <1>16
    DEF Spinning!ConsumerEnds, Spinning!ConsumerGoes, Spinning!pvars
  <2>3. EndHand' = EndHand
    BY <1>16
    DEF Spinning!ConsumerEnds, Spinning!ConsumerGoes, Spinning!pvars
  <2> QED
    BY <2>1, <2>2, <2>3 DEF FIFOStutters
<1>17. ASSUME NEW h, Spinning!LoadHead(h)
       PROVE  FIFOStutters
  <2>1. Flowing' = Flowing
    BY <1>17
    DEF Spinning!LoadHead, Spinning!ProducerGoes, Spinning!cvars, Flowing,
        Blocking!Contents
  <2>2. EndStatus' = EndStatus
    BY <1>17
    DEF Spinning!LoadHead, Spinning!ProducerGoes, Spinning!cvars
  <2>3. EndHand' = EndHand
    BY <1>17
    DEF Spinning!LoadHead, Spinning!ProducerGoes, Spinning!cvars
  <2> QED
    BY <2>1, <2>2, <2>3 DEF FIFOStutters
<1>18. ASSUME NEW t, Spinning!LoadTail(t)
       PROVE  FIFOStutters
  <2>1. Flowing' = Flowing
    BY <1>18
    DEF Spinning!LoadTail, Spinning!ConsumerGoes, Spinning!pvars, Flowing,
        Blocking!Contents
  <2>2. EndStatus' = EndStatus
    BY <1>18
    DEF Spinning!LoadTail, Spinning!ConsumerGoes, Spinning!pvars
  <2>3. EndHand' = EndHand
    BY <1>18
    DEF Spinning!LoadTail, Spinning!ConsumerGoes, Spinning!pvars
  <2> QED
    BY <2>1, <2>2, <2>3 DEF FIFOStutters
<1>19. ASSUME Spinning!Joined PROVE FIFOStutters
  <2>1. Flowing' = Flowing
    BY <1>19 DEF Spinning!Joined, Spinning!vars, Flowing, Blocking!Contents
  <2>2. EndStatus' = EndStatus /\ EndHand' = EndHand
    BY <1>19 DEF Spinning!Joined, Spinning!vars
  <2> QED
    BY <2>1, <2>2 DEF FIFOStutters
<1>20. (\E e \in {"producer"} : \/ Blocking!FIFO!CallPush(e) \/ Blocking!FIFO!DoPush(e)
                               \/ Blocking!FIFO!Return(e))
       \/ (\E e \in {"consumer"} : \/ Blocking!FIFO!CallPop(e) \/ Blocking!FIFO!DoPop(e)
                                  \/ Blocking!FIFO!Return(e))
       \/ FIFOStutters
  BY <1>1, <1>2, <1>3, <1>4, <1>5, <1>6, <1>7, <1>8, <1>9, <1>10, <1>11, <1>12,
     <1>13, <1>14, <1>15, <1>16, <1>17, <1>18, <1>19
  DEF Spinning!SpinNext, Spinning!SpinProducer, Spinning!SpinConsumer
<1> QED
  BY <1>20 DEF Blocking!FIFO!FIFONext, Blocking!FIFO!fifoVars, FIFOStutters, Flowing,
      EndStatus, EndHand

LEMMA BlockingStepRefines ==
  ASSUME SpscInv, SpscInv', InWait, Blocking!Next
  PROVE  [Blocking!FIFO!FIFONext]_Blocking!FIFO!fifoVars
<1> USE EndsAre DEF StatusAt
<1>1. ASSUME Blocking!PushCall
       PROVE  Blocking!FIFO!CallPush("producer")
  <2>1. Flowing' = Flowing
    BY <1>1
    DEF Blocking!PushCall, Blocking!ProducerGoes, Blocking!cvars, Flowing,
        Blocking!Contents
  <2>2. EndStatus["producer"] = "idle" /\ EndStatus' = [EndStatus EXCEPT !["producer"] = "called"]
    BY <1>1
    DEF Blocking!PushCall, Blocking!ProducerGoes, Blocking!cvars, SpscInv,
        SpscTyped
  <2>3. EndHand' = [EndHand EXCEPT !["producer"] = pi] /\ pi \in 0..(Total - 1)
    BY <1>1, SlotsAre
    DEF Blocking!PushCall, Blocking!ProducerGoes, Blocking!cvars, SpscInv,
        SpscTyped
  <2> QED
    BY <2>1, <2>2, <2>3 DEF Blocking!FIFO!CallPush, Flowing, EndStatus, EndHand, Blocking!Nothing
<1>2. ASSUME Blocking!FindsFull
       PROVE  FIFOStutters
  <2>1. Flowing' = Flowing
    BY <1>2
    DEF Blocking!FindsFull, Blocking!ProducerGoes, Blocking!cvars, Flowing,
        Blocking!Contents
  <2>2. EndStatus' = EndStatus
    BY <1>2
    DEF Blocking!FindsFull, Blocking!ProducerGoes, Blocking!cvars
  <2>3. EndHand' = EndHand
    BY <1>2
    DEF Blocking!FindsFull, Blocking!ProducerGoes, Blocking!cvars
  <2> QED
    BY <2>1, <2>2, <2>3 DEF FIFOStutters
<1>3. ASSUME Blocking!NotFull
       PROVE  FIFOStutters
  <2>1. Flowing' = Flowing
    BY <1>3
    DEF Blocking!NotFull, Blocking!ProducerGoes, Blocking!cvars, Flowing,
        Blocking!Contents
  <2>2. EndStatus' = EndStatus
    BY <1>3
    DEF Blocking!NotFull, Blocking!ProducerGoes, Blocking!cvars
  <2>3. EndHand' = EndHand
    BY <1>3
    DEF Blocking!NotFull, Blocking!ProducerGoes, Blocking!cvars
  <2> QED
    BY <2>1, <2>2, <2>3 DEF FIFOStutters
<1>4. ASSUME Blocking!HeadUnchanged
       PROVE  FIFOStutters
  <2>1. Flowing' = Flowing
    BY <1>4
    DEF Blocking!HeadUnchanged, Blocking!ProducerGoes, Blocking!cvars,
        Flowing, Blocking!Contents
  <2>2. EndStatus' = EndStatus
    BY <1>4
    DEF Blocking!HeadUnchanged, Blocking!ProducerGoes, Blocking!cvars
  <2>3. EndHand' = EndHand
    BY <1>4
    DEF Blocking!HeadUnchanged, Blocking!ProducerGoes, Blocking!cvars
  <2> QED
    BY <2>1, <2>2, <2>3 DEF FIFOStutters
<1>5. ASSUME Blocking!Write
       PROVE  FIFOStutters
  <2>1. Flowing' = Flowing
    <3>1. Moves(slots_tail, pi, slots_, slots_') /\ UNCHANGED <<slots_head, slots_tail>>
      BY <1>5, RingFacts DEF Blocking!Write, Blocking!cvars, Moves, Arrays
    <3> QED
      BY <3>1, WriteIsUnseen
  <2>2. EndStatus' = EndStatus
    BY <1>5
    DEF Blocking!Write, Blocking!ProducerGoes, Blocking!cvars
  <2>3. EndHand' = EndHand
    BY <1>5
    DEF Blocking!Write, Blocking!ProducerGoes, Blocking!cvars
  <2> QED
    BY <2>1, <2>2, <2>3 DEF FIFOStutters
<1>6. ASSUME Blocking!PublishTail
       PROVE  Blocking!FIFO!DoPush("producer")
  <2>1. Flowing' = Append(Flowing, pi) /\ Len(Flowing) < slots - 1
    <3>1. /\ ppc = "publish" /\ slots_tail' = Following(slots_tail)
          /\ UNCHANGED <<slots_, slots_head>>
      BY <1>6, FollowingIs
      DEF Blocking!PublishTail, Blocking!ProducerGoes, Blocking!cvars,
          SpscInv, SpscOrdered, InOrder
    <3> QED
      BY <3>1, PublishPushes
  <2>2. EndStatus["producer"] = "called" /\ EndStatus' = [EndStatus EXCEPT !["producer"] = "done"]
    BY <1>6
    DEF Blocking!PublishTail, Blocking!ProducerGoes, Blocking!cvars,
        SpscInv, SpscTyped
  <2>3. EndHand' = EndHand /\ EndHand["producer"] = pi
    BY <1>6, SlotsAre
    DEF Blocking!PublishTail, Blocking!ProducerGoes, Blocking!cvars,
        SpscInv, SpscTyped
  <2> QED
    BY <2>1, <2>2, <2>3 DEF Blocking!FIFO!DoPush, Flowing, EndStatus, EndHand, Blocking!Nothing
<1>7. ASSUME Blocking!NotifyConsumer
       PROVE  Blocking!FIFO!Return("producer")
  <2>1. Flowing' = Flowing
    BY <1>7
    DEF Blocking!NotifyConsumer, Blocking!ProducerGoes, Blocking!cvars,
        Blocking!Notified, Flowing, Blocking!Contents
  <2>2. EndStatus["producer"] = "done" /\ EndStatus' = [EndStatus EXCEPT !["producer"] = "idle"]
    BY <1>7
    DEF Blocking!NotifyConsumer, Blocking!ProducerGoes, Blocking!cvars,
        Blocking!Notified, SpscInv, SpscTyped
  <2>3. EndHand' = [EndHand EXCEPT !["producer"] = Total]
    BY <1>7, SlotsAre
    DEF Blocking!NotifyConsumer, Blocking!ProducerGoes, Blocking!cvars,
        Blocking!Notified, SpscInv, SpscTyped
  <2> QED
    BY <2>1, <2>2, <2>3 DEF Blocking!FIFO!Return, Flowing, EndStatus, EndHand, Blocking!Nothing
<1>8. ASSUME Blocking!ProducerEnds
       PROVE  FIFOStutters
  <2>1. Flowing' = Flowing
    BY <1>8
    DEF Blocking!ProducerEnds, Blocking!ProducerGoes, Blocking!cvars,
        Flowing, Blocking!Contents
  <2>2. EndStatus' = EndStatus
    BY <1>8
    DEF Blocking!ProducerEnds, Blocking!ProducerGoes, Blocking!cvars
  <2>3. EndHand' = EndHand
    BY <1>8
    DEF Blocking!ProducerEnds, Blocking!ProducerGoes, Blocking!cvars
  <2> QED
    BY <2>1, <2>2, <2>3 DEF FIFOStutters
<1>9. ASSUME Blocking!PopCall
       PROVE  Blocking!FIFO!CallPop("consumer")
  <2>1. Flowing' = Flowing
    BY <1>9
    DEF Blocking!PopCall, Blocking!ConsumerGoes, Blocking!pvars, Flowing,
        Blocking!Contents
  <2>2. EndStatus["consumer"] = "idle" /\ EndStatus' = [EndStatus EXCEPT !["consumer"] = "called"]
    BY <1>9
    DEF Blocking!PopCall, Blocking!ConsumerGoes, Blocking!pvars, SpscInv,
        SpscTyped
  <2>3. EndHand' = EndHand
    BY <1>9, SlotsAre
    DEF Blocking!PopCall, Blocking!ConsumerGoes, Blocking!pvars, SpscInv,
        SpscTyped
  <2> QED
    BY <2>1, <2>2, <2>3 DEF Blocking!FIFO!CallPop, Flowing, EndStatus, EndHand, Blocking!Nothing
<1>10. ASSUME Blocking!FindsEmpty
       PROVE  FIFOStutters
  <2>1. Flowing' = Flowing
    BY <1>10
    DEF Blocking!FindsEmpty, Blocking!ConsumerGoes, Blocking!pvars, Flowing,
        Blocking!Contents
  <2>2. EndStatus' = EndStatus
    BY <1>10
    DEF Blocking!FindsEmpty, Blocking!ConsumerGoes, Blocking!pvars
  <2>3. EndHand' = EndHand
    BY <1>10
    DEF Blocking!FindsEmpty, Blocking!ConsumerGoes, Blocking!pvars
  <2> QED
    BY <2>1, <2>2, <2>3 DEF FIFOStutters
<1>11. ASSUME Blocking!NotEmpty
       PROVE  FIFOStutters
  <2>1. Flowing' = Flowing
    BY <1>11
    DEF Blocking!NotEmpty, Blocking!ConsumerGoes, Blocking!pvars, Flowing,
        Blocking!Contents
  <2>2. EndStatus' = EndStatus
    BY <1>11
    DEF Blocking!NotEmpty, Blocking!ConsumerGoes, Blocking!pvars
  <2>3. EndHand' = EndHand
    BY <1>11
    DEF Blocking!NotEmpty, Blocking!ConsumerGoes, Blocking!pvars
  <2> QED
    BY <2>1, <2>2, <2>3 DEF FIFOStutters
<1>12. ASSUME Blocking!TailUnchanged
       PROVE  FIFOStutters
  <2>1. Flowing' = Flowing
    BY <1>12
    DEF Blocking!TailUnchanged, Blocking!ConsumerGoes, Blocking!pvars,
        Flowing, Blocking!Contents
  <2>2. EndStatus' = EndStatus
    BY <1>12
    DEF Blocking!TailUnchanged, Blocking!ConsumerGoes, Blocking!pvars
  <2>3. EndHand' = EndHand
    BY <1>12
    DEF Blocking!TailUnchanged, Blocking!ConsumerGoes, Blocking!pvars
  <2> QED
    BY <2>1, <2>2, <2>3 DEF FIFOStutters
<1>13. ASSUME Blocking!Read
       PROVE  FIFOStutters
  <2>1. Flowing' = Flowing
    BY <1>13
    DEF Blocking!Read, Blocking!ConsumerGoes, Blocking!pvars, Flowing,
        Blocking!Contents
  <2>2. EndStatus' = EndStatus
    BY <1>13
    DEF Blocking!Read, Blocking!ConsumerGoes, Blocking!pvars
  <2>3. EndHand' = EndHand
    BY <1>13
    DEF Blocking!Read, Blocking!ConsumerGoes, Blocking!pvars
  <2> QED
    BY <2>1, <2>2, <2>3 DEF FIFOStutters
<1>14. ASSUME Blocking!PublishHead
       PROVE  Blocking!FIFO!DoPop("consumer")
  <2>1. Flowing # << >> /\ Head(Flowing) = popped /\ Flowing' = Tail(Flowing)
    <3>1. /\ cpc = "publish" /\ slots_head' = Following(slots_head)
          /\ UNCHANGED <<slots_, slots_tail>>
      BY <1>14, FollowingIs
      DEF Blocking!PublishHead, Blocking!ConsumerGoes, Blocking!pvars,
          SpscInv, SpscOrdered, InOrder
    <3> QED
      BY <3>1, PublishPops
  <2>2. EndStatus["consumer"] = "called" /\ EndStatus' = [EndStatus EXCEPT !["consumer"] = "done"]
    BY <1>14
    DEF Blocking!PublishHead, Blocking!ConsumerGoes, Blocking!pvars,
        SpscInv, SpscTyped
  <2>3. EndHand' = [EndHand EXCEPT !["consumer"] = popped]
    BY <1>14, SlotsAre
    DEF Blocking!PublishHead, Blocking!ConsumerGoes, Blocking!pvars,
        SpscInv, SpscTyped
  <2> QED
    BY <2>1, <2>2, <2>3 DEF Blocking!FIFO!DoPop, Flowing, EndStatus, EndHand, Blocking!Nothing
<1>15. ASSUME Blocking!NotifyProducer
       PROVE  Blocking!FIFO!Return("consumer")
  <2>1. Flowing' = Flowing
    BY <1>15
    DEF Blocking!NotifyProducer, Blocking!ConsumerGoes, Blocking!pvars,
        Blocking!Notified, Blocking!Nothing, Flowing, Blocking!Contents
  <2>2. EndStatus["consumer"] = "done" /\ EndStatus' = [EndStatus EXCEPT !["consumer"] = "idle"]
    BY <1>15
    DEF Blocking!NotifyProducer, Blocking!ConsumerGoes, Blocking!pvars,
        Blocking!Notified, Blocking!Nothing, SpscInv, SpscTyped
  <2>3. EndHand' = [EndHand EXCEPT !["consumer"] = Total]
    BY <1>15, SlotsAre
    DEF Blocking!NotifyProducer, Blocking!ConsumerGoes, Blocking!pvars,
        Blocking!Notified, Blocking!Nothing, SpscInv, SpscTyped
  <2> QED
    BY <2>1, <2>2, <2>3 DEF Blocking!FIFO!Return, Flowing, EndStatus, EndHand, Blocking!Nothing
<1>16. ASSUME Blocking!ConsumerEnds
       PROVE  FIFOStutters
  <2>1. Flowing' = Flowing
    BY <1>16
    DEF Blocking!ConsumerEnds, Blocking!ConsumerGoes, Blocking!pvars,
        Flowing, Blocking!Contents
  <2>2. EndStatus' = EndStatus
    BY <1>16
    DEF Blocking!ConsumerEnds, Blocking!ConsumerGoes, Blocking!pvars
  <2>3. EndHand' = EndHand
    BY <1>16
    DEF Blocking!ConsumerEnds, Blocking!ConsumerGoes, Blocking!pvars
  <2> QED
    BY <2>1, <2>2, <2>3 DEF FIFOStutters
<1>17. ASSUME Blocking!ProducerWakes
       PROVE  FIFOStutters
  <2>1. Flowing' = Flowing
    BY <1>17
    DEF Blocking!ProducerWakes, Blocking!ProducerGoes, Blocking!cvars,
        Flowing, Blocking!Contents
  <2>2. EndStatus' = EndStatus
    BY <1>17
    DEF Blocking!ProducerWakes, Blocking!ProducerGoes, Blocking!cvars
  <2>3. EndHand' = EndHand
    BY <1>17
    DEF Blocking!ProducerWakes, Blocking!ProducerGoes, Blocking!cvars
  <2> QED
    BY <2>1, <2>2, <2>3 DEF FIFOStutters
<1>18. ASSUME Blocking!ConsumerWakes
       PROVE  FIFOStutters
  <2>1. Flowing' = Flowing
    BY <1>18
    DEF Blocking!ConsumerWakes, Blocking!ConsumerGoes, Blocking!pvars,
        Flowing, Blocking!Contents
  <2>2. EndStatus' = EndStatus
    BY <1>18
    DEF Blocking!ConsumerWakes, Blocking!ConsumerGoes, Blocking!pvars
  <2>3. EndHand' = EndHand
    BY <1>18
    DEF Blocking!ConsumerWakes, Blocking!ConsumerGoes, Blocking!pvars
  <2> QED
    BY <2>1, <2>2, <2>3 DEF FIFOStutters
<1>19. ASSUME NEW h, Blocking!LoadHead(h)
       PROVE  FIFOStutters
  <2>1. Flowing' = Flowing
    BY <1>19
    DEF Blocking!LoadHead, Blocking!ProducerGoes, Blocking!cvars, Flowing,
        Blocking!Contents
  <2>2. EndStatus' = EndStatus
    BY <1>19
    DEF Blocking!LoadHead, Blocking!ProducerGoes, Blocking!cvars
  <2>3. EndHand' = EndHand
    BY <1>19
    DEF Blocking!LoadHead, Blocking!ProducerGoes, Blocking!cvars
  <2> QED
    BY <2>1, <2>2, <2>3 DEF FIFOStutters
<1>20. ASSUME NEW t, Blocking!LoadTail(t)
       PROVE  FIFOStutters
  <2>1. Flowing' = Flowing
    BY <1>20
    DEF Blocking!LoadTail, Blocking!ConsumerGoes, Blocking!pvars, Flowing,
        Blocking!Contents
  <2>2. EndStatus' = EndStatus
    BY <1>20
    DEF Blocking!LoadTail, Blocking!ConsumerGoes, Blocking!pvars
  <2>3. EndHand' = EndHand
    BY <1>20
    DEF Blocking!LoadTail, Blocking!ConsumerGoes, Blocking!pvars
  <2> QED
    BY <2>1, <2>2, <2>3 DEF FIFOStutters
<1>21. ASSUME NEW h, Blocking!HeadChanged(h)
       PROVE  FIFOStutters
  <2>1. Flowing' = Flowing
    BY <1>21
    DEF Blocking!HeadChanged, Blocking!ProducerGoes, Blocking!cvars,
        Flowing, Blocking!Contents
  <2>2. EndStatus' = EndStatus
    BY <1>21
    DEF Blocking!HeadChanged, Blocking!ProducerGoes, Blocking!cvars
  <2>3. EndHand' = EndHand
    BY <1>21
    DEF Blocking!HeadChanged, Blocking!ProducerGoes, Blocking!cvars
  <2> QED
    BY <2>1, <2>2, <2>3 DEF FIFOStutters
<1>22. ASSUME NEW t, Blocking!TailChanged(t)
       PROVE  FIFOStutters
  <2>1. Flowing' = Flowing
    BY <1>22
    DEF Blocking!TailChanged, Blocking!ConsumerGoes, Blocking!pvars,
        Flowing, Blocking!Contents
  <2>2. EndStatus' = EndStatus
    BY <1>22
    DEF Blocking!TailChanged, Blocking!ConsumerGoes, Blocking!pvars
  <2>3. EndHand' = EndHand
    BY <1>22
    DEF Blocking!TailChanged, Blocking!ConsumerGoes, Blocking!pvars
  <2> QED
    BY <2>1, <2>2, <2>3 DEF FIFOStutters
<1>23. ASSUME Blocking!Joined PROVE FIFOStutters
  <2>1. Flowing' = Flowing
    BY <1>23 DEF Blocking!Joined, Blocking!vars, Flowing, Blocking!Contents
  <2>2. EndStatus' = EndStatus /\ EndHand' = EndHand
    BY <1>23 DEF Blocking!Joined, Blocking!vars
  <2> QED
    BY <2>1, <2>2 DEF FIFOStutters
<1>24. (\E e \in {"producer"} : \/ Blocking!FIFO!CallPush(e) \/ Blocking!FIFO!DoPush(e)
                               \/ Blocking!FIFO!Return(e))
       \/ (\E e \in {"consumer"} : \/ Blocking!FIFO!CallPop(e) \/ Blocking!FIFO!DoPop(e)
                                  \/ Blocking!FIFO!Return(e))
       \/ FIFOStutters
  BY <1>1, <1>2, <1>3, <1>4, <1>5, <1>6, <1>7, <1>8, <1>9, <1>10, <1>11, <1>12,
     <1>13, <1>14, <1>15, <1>16, <1>17, <1>18, <1>19, <1>20, <1>21, <1>22,
     <1>23
  DEF Blocking!Next, Blocking!Producer, Blocking!Consumer
<1> QED
  BY <1>24 DEF Blocking!FIFO!FIFONext, Blocking!FIFO!fifoVars, FIFOStutters, Flowing,
      EndStatus, EndHand

(* Both SPSC rings behave for their two callers as one atomic FIFO with a  *)
(* place less than there are slots, though neither end ever sees more than *)
(* an old value of the other's index: nothing is lost, overwritten, read   *)
(* twice or reordered as the indices go round the ring                     *)
(* (5_spsc_atomics.cpp and 6_spsc_atomic_wait.cpp).                        *)
THEOREM SpscIsFIFO == MCSpec => RefinesRingFIFO
<1>1. MCInit => Blocking!FIFO!FIFOInit
  <2> SUFFICES ASSUME MCInit PROVE Blocking!FIFO!FIFOInit
    OBVIOUS
  <2>1. /\ slots_head = 0 /\ slots_tail = 0 /\ ppc = "loop" /\ cpc = "loop"
    BY DEF MCInit, Blocking!Init
  <2>2. (0 + slots - 0) % slots = 0
    <3>1. 0 \in Places /\ Ahead(0, 0) = 0
      BY SlotsAre DEF Places, Ahead
    <3> QED
      BY <3>1, AheadIs
  <2>3. Blocking!Contents = << >>
    BY <2>1, <2>2 DEF Blocking!Contents
  <2>4. /\ [e \in Blocking!Ends |-> Blocking!Status(e)]
             = [e \in {"producer"} \cup {"consumer"} |-> "idle"]
        /\ [e \in Blocking!Ends |-> Blocking!Hand(e)]
             = [e \in {"producer"} \cup {"consumer"} |-> Blocking!Nothing]
    BY <2>1 DEF Blocking!Ends, Blocking!Status, Blocking!Hand, Blocking!Pc
  <2> QED
    BY <2>3, <2>4 DEF Blocking!FIFO!FIFOInit, Blocking!FIFO!Threads
<1>2. SpscInv /\ SpscInv' /\ [MCNext]_allVars =>
        [Blocking!FIFO!FIFONext]_Blocking!FIFO!fifoVars
  <2> SUFFICES ASSUME SpscInv, SpscInv', [MCNext]_allVars
               PROVE  [Blocking!FIFO!FIFONext]_Blocking!FIFO!fifoVars
    OBVIOUS
  <2>1. CASE SpinRuns(Spinning!SpinNext)
    BY <2>1, SpinningStepRefines DEF SpinRuns
  <2>2. CASE WaitRuns(Blocking!Next)
    BY <2>2, BlockingStepRefines DEF WaitRuns
  <2>3. ASSUME UNCHANGED spscVars PROVE UNCHANGED Blocking!FIFO!fifoVars
    BY <2>3
    DEF spscVars, Blocking!FIFO!fifoVars, Blocking!Contents, Blocking!Status,
        Blocking!Hand, Blocking!Pc
  <2> QED
    BY <2>1, <2>2, <2>3 DEF MCNext, CVRuns, SemaRuns, RingRuns, allVars
<1> QED
  BY <1>1, <1>2, SpscInvHolds, PTL
  DEF MCSpec, RefinesRingFIFO, Blocking!RefinesFIFO, Blocking!FIFO!FIFOSpec
-----------------------------------------------------------------------------
(* The queue with one mutex and two condition variables                    *)

LEMMA CVAssumption ==
  /\ IsFiniteSet(Producers) /\ IsFiniteSet(Consumers)
  /\ Producers \cap Consumers = {} /\ NoDish \notin Dishes
  /\ NoOne \notin Producers \cup Consumers /\ size \in Nat \ {0}
  BY SushiAssumption, RingAssumption DEF Threads

(* What push and pop keep in their thread's local variables: a chef inside *)
(* push carries a dish.                                                    *)
PushCarries ==
  \A p \in Producers : cv_pc[p] \in {"lock", "locked", "asleep"} => cv_elem[p] \in Dishes

(* A thread is in a wait set exactly while it sleeps in wait().            *)
SleepersWait ==
  /\ cons_cv_ = {p \in Producers : cv_pc[p] = "asleep"}
  /\ prod_cv_ = {c \in Consumers : cv_pc[c] = "asleep"}

CVBase == CV!TypeOK /\ PushCarries /\ SleepersWait

LEMMA CVBaseStarts == CV!Init => CVBase
  BY CVAssumption
  DEF CV!Init, CVBase, CV!TypeOK, PushCarries, SleepersWait, CV!Threads, CV!Locations

LEMMA CVBaseKeeps == CVBase /\ [CV!Next]_CV!vars => CVBase'
<1> SUFFICES ASSUME CVBase, [CV!Next]_CV!vars PROVE CVBase'
  OBVIOUS
<1> USE CVAssumption
    DEF CVBase, CV!TypeOK, PushCarries, SleepersWait, CV!Threads, CV!Locations,
        CV!Goto, CV!HasRoom
<1>1. ASSUME NEW t \in CV!Threads, CV!Lock(t) PROVE CVBase'
  BY <1>1 DEF CV!Lock
<1>2. ASSUME NEW t \in CV!Threads, CV!Unlock(t) PROVE CVBase'
  BY <1>2 DEF CV!Unlock
<1>3. ASSUME NEW p \in Producers, CV!MakeDish(p) PROVE CVBase'
  BY <1>3 DEF CV!MakeDish
<1>4. ASSUME NEW p \in Producers, CV!PushWait(p) PROVE CVBase'
  BY <1>4 DEF CV!PushWait
<1>5. ASSUME NEW p \in Producers, CV!Push(p) PROVE CVBase'
  BY <1>5 DEF CV!Push
<1>6. ASSUME NEW p \in Producers, CV!NotifyConsumer(p) PROVE CVBase'
  BY <1>6 DEF CV!NotifyConsumer
<1>7. ASSUME NEW p \in Producers, CV!WakeProducer(p) PROVE CVBase'
  BY <1>7 DEF CV!WakeProducer
<1>8. ASSUME NEW c \in Consumers, CV!Call(c) PROVE CVBase'
  BY <1>8 DEF CV!Call
<1>9. ASSUME NEW c \in Consumers, CV!PopWait(c) PROVE CVBase'
  BY <1>9 DEF CV!PopWait
<1>10. ASSUME NEW c \in Consumers, CV!Pop(c) PROVE CVBase'
  BY <1>10 DEF CV!Pop
<1>11. ASSUME NEW c \in Consumers, CV!NotifyProducer(c) PROVE CVBase'
  BY <1>11 DEF CV!NotifyProducer
<1>12. ASSUME NEW c \in Consumers, CV!WakeConsumer(c) PROVE CVBase'
  BY <1>12 DEF CV!WakeConsumer
<1>13. CASE UNCHANGED CV!vars
  BY <1>13 DEF CV!vars
<1> QED
  BY <1>1, <1>2, <1>3, <1>4, <1>5, <1>6, <1>7, <1>8, <1>9, <1>10, <1>11,
     <1>12, <1>13 DEF CV!Next, CV!producer, CV!consumer

(* The other programs leave the queue as it was.                           *)
LEMMA CVSpec == MCSpec => CV!Spec
<1>1. MCInit => CV!Init
  BY DEF MCInit
<1>2. [MCNext]_allVars => [CV!Next]_CV!vars
  BY DEF MCNext, CVRuns, SemaRuns, RingRuns, SpinRuns, WaitRuns, allVars, cvVars, CV!vars
<1> QED
  BY <1>1, <1>2, PTL DEF MCSpec, CV!Spec

LEMMA CVBaseHolds == MCSpec => []CVBase
  BY CVBaseStarts, CVBaseKeeps, CVSpec, PTL DEF CV!Spec

-----------------------------------------------------------------------------
(* The two counting invariants.  CVBase makes them inductive: a notify_one *)
(* that finds nobody asleep leaves the invariant vacuous, and the next     *)
(* sleeper enters with an empty (or a full) queue.                         *)

LEMMA CVSetsFinite ==
  /\ IsFiniteSet(CV!AwakeConsumers)
  /\ IsFiniteSet(CV!AwakeProducers)
  /\ IsFiniteSet(CV!Announcing(Consumers))
  /\ IsFiniteSet(CV!Announcing(Producers))
BY CVAssumption, FS_Subset DEF CV!AwakeConsumers, CV!AwakeProducers, CV!Announcing

(* A thread that enters or leaves a finite set changes its size by one.    *)
LEMMA Enters ==
  ASSUME NEW S, IsFiniteSet(S), NEW x, x \notin S
  PROVE  /\ Cardinality(S) \in Nat
         /\ Cardinality(S \cup {x}) = Cardinality(S) + 1
BY FS_AddElement, FS_CardinalityType

LEMMA Leaves ==
  ASSUME NEW S, IsFiniteSet(S), NEW x, x \in S
  PROVE  /\ Cardinality(S) \in Nat
         /\ Cardinality(S \ {x}) = Cardinality(S) - 1
BY FS_RemoveElement, FS_CardinalityType

LEMMA ForgottenStarts == CV!Init => CV!NobodyForgotten
BY DEF CV!Init, CV!NobodyForgotten, CV!NoDishForgotten, CV!NoPlaceForgotten,
   CV!Cardinality, Cardinality

LEMMA ForgottenKeeps ==
  CVBase /\ CVBase' /\ CV!NobodyForgotten /\ [CV!Next]_CV!vars => CV!NobodyForgotten'
<1> SUFFICES ASSUME CVBase, CVBase', CV!NobodyForgotten, [CV!Next]_CV!vars
             PROVE  CV!NobodyForgotten'
  OBVIOUS
<1> DEFINE AC == Cardinality(CV!AwakeConsumers)
           AP == Cardinality(CV!AwakeProducers)
           NC == Cardinality(CV!Announcing(Consumers))
           NP == Cardinality(CV!Announcing(Producers))
<1>n. /\ AC \in Nat /\ AP \in Nat /\ NC \in Nat /\ NP \in Nat
      /\ Len(cv_q) \in Nat /\ size \in Nat
  BY CVSetsFinite, FS_CardinalityType, CVAssumption DEF CVBase, CV!TypeOK
<1>m. /\ prod_cv_ # {} => Len(cv_q) <= AC + NP
      /\ cons_cv_ # {} => size - Len(cv_q) <= AP + NC
  BY DEF CV!NobodyForgotten, CV!NoDishForgotten, CV!NoPlaceForgotten,
     CV!Cardinality, Cardinality
<1>f. /\ IsFiniteSet(CV!AwakeConsumers) /\ IsFiniteSet(CV!AwakeProducers)
      /\ IsFiniteSet(CV!Announcing(Consumers)) /\ IsFiniteSet(CV!Announcing(Producers))
  BY CVSetsFinite
<1> USE CVAssumption
    DEF CVBase, CV!TypeOK, SleepersWait, CV!Threads, CV!Locations, CV!Goto, CV!HasRoom
<1>1. ASSUME NEW t \in CV!Threads, CV!Lock(t) PROVE CV!NobodyForgotten'
  <2>1. UNCHANGED <<CV!AwakeConsumers, CV!AwakeProducers, CV!Announcing(Consumers),
                    CV!Announcing(Producers)>>
    BY <1>1 DEF CV!Lock, CV!AwakeConsumers, CV!AwakeProducers, CV!Announcing
  <2> QED
    BY <1>1, <2>1 DEF CV!Lock, CV!NobodyForgotten, CV!NoDishForgotten,
       CV!NoPlaceForgotten, CV!Cardinality, Cardinality
<1>2. ASSUME NEW t \in CV!Threads, CV!Unlock(t) PROVE CV!NobodyForgotten'
  <2>1. UNCHANGED <<CV!AwakeConsumers, CV!AwakeProducers, CV!Announcing(Consumers),
                    CV!Announcing(Producers)>>
    BY <1>2 DEF CV!Unlock, CV!AwakeConsumers, CV!AwakeProducers, CV!Announcing
  <2> QED
    BY <1>2, <2>1 DEF CV!Unlock, CV!NobodyForgotten, CV!NoDishForgotten,
       CV!NoPlaceForgotten, CV!Cardinality, Cardinality
<1>3. ASSUME NEW p \in Producers, CV!MakeDish(p) PROVE CV!NobodyForgotten'
  <2>1. /\ p \notin CV!AwakeProducers
        /\ CV!AwakeProducers' = CV!AwakeProducers \cup {p}
        /\ UNCHANGED <<CV!AwakeConsumers, CV!Announcing(Consumers), CV!Announcing(Producers)>>
    BY <1>3 DEF CV!MakeDish, CV!AwakeConsumers, CV!AwakeProducers, CV!Announcing
  <2>2. AP' = AP + 1
    BY <2>1, <1>f, Enters
  <2> QED
    BY <1>3, <1>n, <2>1, <2>2
    DEF CV!MakeDish, CV!NobodyForgotten, CV!NoDishForgotten, CV!NoPlaceForgotten,
        CV!Cardinality, Cardinality
<1>4. ASSUME NEW p \in Producers, CV!PushWait(p) PROVE CV!NobodyForgotten'
  <2>1. /\ UNCHANGED <<CV!AwakeConsumers, CV!Announcing(Consumers), CV!Announcing(Producers)>>
    BY <1>4 DEF CV!PushWait, CV!AwakeConsumers, CV!AwakeProducers, CV!Announcing
  <2>2. size - Len(cv_q') <= 0 /\ AP' \in Nat
    <3>1. IsFiniteSet(CV!AwakeProducers')
      BY FS_Subset DEF CV!AwakeProducers
    <3> QED
      BY <1>4, <1>n, <3>1, FS_CardinalityType DEF CV!PushWait
  <2> QED
    BY <1>4, <1>n, <2>1, <2>2
    DEF CV!PushWait, CV!NobodyForgotten, CV!NoDishForgotten, CV!NoPlaceForgotten,
        CV!Cardinality, Cardinality
<1>5. ASSUME NEW p \in Producers, CV!Push(p) PROVE CV!NobodyForgotten'
  <2>1. /\ p \in CV!AwakeProducers
        /\ CV!AwakeProducers' = CV!AwakeProducers \ {p}
        /\ p \notin CV!Announcing(Producers)
        /\ CV!Announcing(Producers)' = CV!Announcing(Producers) \cup {p}
        /\ UNCHANGED <<CV!AwakeConsumers, CV!Announcing(Consumers)>>
    BY <1>5 DEF CV!Push, CV!AwakeConsumers, CV!AwakeProducers, CV!Announcing
  <2>2. AP' = AP - 1 /\ NP' = NP + 1
    BY <2>1, <1>f, Enters, Leaves
  <2>3. Len(cv_q') = Len(cv_q) + 1
    BY <1>5 DEF CV!Push
  <2>4. UNCHANGED <<prod_cv_, cons_cv_>>
    BY <1>5 DEF CV!Push
  <2>5. AC' = AC /\ NC' = NC
    BY <2>1
  <2>6. (prod_cv_ # {} => Len(cv_q) + 1 <= AC + NP')
        /\ (cons_cv_ # {} => size - (Len(cv_q) + 1) <= AP' + NC)
    <3> HIDE DEF CVBase, AC, AP, NC, NP
    <3> QED
      BY <1>n, <1>m, <2>2
  <2> QED
    BY <2>3, <2>4, <2>5, <2>6
    DEF CV!NobodyForgotten, CV!NoDishForgotten, CV!NoPlaceForgotten,
        CV!Cardinality, Cardinality
<1>6. ASSUME NEW p \in Producers, CV!NotifyConsumer(p) PROVE CV!NobodyForgotten'
  <2>1. /\ p \in CV!Announcing(Producers)
        /\ CV!Announcing(Producers)' = CV!Announcing(Producers) \ {p}
        /\ UNCHANGED <<CV!AwakeProducers, CV!Announcing(Consumers)>>
    BY <1>6 DEF CV!NotifyConsumer, CV!AwakeConsumers, CV!AwakeProducers, CV!Announcing
  <2>2. NP' = NP - 1
    BY <2>1, <1>f, Leaves
  <2>3. CASE prod_cv_ = {}
    <3>1. UNCHANGED CV!AwakeConsumers
      BY <1>6, <2>3 DEF CV!NotifyConsumer, CV!AwakeConsumers
    <3> QED
      BY <1>6, <1>n, <2>1, <2>2, <2>3, <3>1
      DEF CV!NotifyConsumer, CV!NobodyForgotten, CV!NoDishForgotten,
          CV!NoPlaceForgotten, CV!Cardinality, Cardinality
  <2>4. CASE prod_cv_ # {}
    <3>1. PICK c \in prod_cv_ : /\ cv_pc' = [cv_pc EXCEPT ![p] = "idle", ![c] = "lock"]
                                /\ prod_cv_' = prod_cv_ \ {c}
      BY <1>6, <2>4 DEF CV!NotifyConsumer
    <3>2. c \notin CV!AwakeConsumers /\ CV!AwakeConsumers' = CV!AwakeConsumers \cup {c}
      BY <1>6, <3>1 DEF CV!NotifyConsumer, CV!AwakeConsumers
    <3>3. AC' = AC + 1
      BY <3>2, <1>f, Enters
    <3> QED
      BY <1>6, <1>n, <2>1, <2>2, <2>4, <3>3
      DEF CV!NotifyConsumer, CV!NobodyForgotten, CV!NoDishForgotten,
          CV!NoPlaceForgotten, CV!Cardinality, Cardinality
  <2> QED
    BY <2>3, <2>4
<1>7. ASSUME NEW p \in Producers, CV!WakeProducer(p) PROVE CV!NobodyForgotten'
  <2>1. /\ p \notin CV!AwakeProducers
        /\ CV!AwakeProducers' = CV!AwakeProducers \cup {p}
        /\ UNCHANGED <<CV!AwakeConsumers, CV!Announcing(Consumers), CV!Announcing(Producers)>>
    BY <1>7 DEF CV!WakeProducer, CV!AwakeConsumers, CV!AwakeProducers, CV!Announcing
  <2>2. AP' = AP + 1
    BY <2>1, <1>f, Enters
  <2> QED
    BY <1>7, <1>n, <2>1, <2>2
    DEF CV!WakeProducer, CV!NobodyForgotten, CV!NoDishForgotten, CV!NoPlaceForgotten,
        CV!Cardinality, Cardinality
<1>8. ASSUME NEW c \in Consumers, CV!Call(c) PROVE CV!NobodyForgotten'
  <2>1. /\ c \notin CV!AwakeConsumers
        /\ CV!AwakeConsumers' = CV!AwakeConsumers \cup {c}
        /\ UNCHANGED <<CV!AwakeProducers, CV!Announcing(Consumers), CV!Announcing(Producers)>>
    BY <1>8 DEF CV!Call, CV!AwakeConsumers, CV!AwakeProducers, CV!Announcing
  <2>2. AC' = AC + 1
    BY <2>1, <1>f, Enters
  <2> QED
    BY <1>8, <1>n, <2>1, <2>2
    DEF CV!Call, CV!NobodyForgotten, CV!NoDishForgotten, CV!NoPlaceForgotten,
        CV!Cardinality, Cardinality
<1>9. ASSUME NEW c \in Consumers, CV!PopWait(c) PROVE CV!NobodyForgotten'
  <2>1. UNCHANGED <<CV!AwakeProducers, CV!Announcing(Consumers), CV!Announcing(Producers)>>
    BY <1>9 DEF CV!PopWait, CV!AwakeConsumers, CV!AwakeProducers, CV!Announcing
  <2>2. Len(cv_q') = 0 /\ AC' \in Nat
    <3>1. IsFiniteSet(CV!AwakeConsumers')
      BY FS_Subset DEF CV!AwakeConsumers
    <3> QED
      BY <1>9, <1>n, <3>1, FS_CardinalityType DEF CV!PopWait
  <2> QED
    BY <1>9, <1>n, <2>1, <2>2
    DEF CV!PopWait, CV!NobodyForgotten, CV!NoDishForgotten, CV!NoPlaceForgotten,
        CV!Cardinality, Cardinality
<1>10. ASSUME NEW c \in Consumers, CV!Pop(c) PROVE CV!NobodyForgotten'
  <2>1. /\ c \in CV!AwakeConsumers
        /\ CV!AwakeConsumers' = CV!AwakeConsumers \ {c}
        /\ c \notin CV!Announcing(Consumers)
        /\ CV!Announcing(Consumers)' = CV!Announcing(Consumers) \cup {c}
        /\ UNCHANGED <<CV!AwakeProducers, CV!Announcing(Producers)>>
    BY <1>10 DEF CV!Pop, CV!AwakeConsumers, CV!AwakeProducers, CV!Announcing
  <2>2. AC' = AC - 1 /\ NC' = NC + 1
    BY <2>1, <1>f, Enters, Leaves
  <2>3. Len(cv_q') = Len(cv_q) - 1
    BY <1>10 DEF CV!Pop
  <2>4. UNCHANGED <<prod_cv_, cons_cv_>>
    BY <1>10 DEF CV!Pop
  <2>5. AP' = AP /\ NP' = NP
    BY <2>1
  <2>6. (prod_cv_ # {} => Len(cv_q) - 1 <= AC' + NP)
        /\ (cons_cv_ # {} => size - (Len(cv_q) - 1) <= AP + NC')
    <3> HIDE DEF CVBase, AC, AP, NC, NP
    <3> QED
      BY <1>n, <1>m, <2>2
  <2> QED
    BY <2>3, <2>4, <2>5, <2>6
    DEF CV!NobodyForgotten, CV!NoDishForgotten, CV!NoPlaceForgotten,
        CV!Cardinality, Cardinality
<1>11. ASSUME NEW c \in Consumers, CV!NotifyProducer(c) PROVE CV!NobodyForgotten'
  <2>1. /\ c \in CV!Announcing(Consumers)
        /\ CV!Announcing(Consumers)' = CV!Announcing(Consumers) \ {c}
        /\ UNCHANGED <<CV!AwakeConsumers, CV!Announcing(Producers)>>
    BY <1>11 DEF CV!NotifyProducer, CV!AwakeConsumers, CV!AwakeProducers, CV!Announcing
  <2>2. NC' = NC - 1
    BY <2>1, <1>f, Leaves
  <2>3. CASE cons_cv_ = {}
    <3>1. UNCHANGED CV!AwakeProducers
      BY <1>11, <2>3 DEF CV!NotifyProducer, CV!AwakeProducers
    <3> QED
      BY <1>11, <1>n, <2>1, <2>2, <2>3, <3>1
      DEF CV!NotifyProducer, CV!NobodyForgotten, CV!NoDishForgotten,
          CV!NoPlaceForgotten, CV!Cardinality, Cardinality
  <2>4. CASE cons_cv_ # {}
    <3>1. PICK p \in cons_cv_ : /\ cv_pc' = [cv_pc EXCEPT ![c] = "idle", ![p] = "lock"]
                                /\ cons_cv_' = cons_cv_ \ {p}
      BY <1>11, <2>4 DEF CV!NotifyProducer
    <3>2. p \notin CV!AwakeProducers /\ CV!AwakeProducers' = CV!AwakeProducers \cup {p}
      BY <1>11, <3>1 DEF CV!NotifyProducer, CV!AwakeProducers
    <3>3. AP' = AP + 1
      BY <3>2, <1>f, Enters
    <3> QED
      BY <1>11, <1>n, <2>1, <2>2, <2>4, <3>3
      DEF CV!NotifyProducer, CV!NobodyForgotten, CV!NoDishForgotten,
          CV!NoPlaceForgotten, CV!Cardinality, Cardinality
  <2> QED
    BY <2>3, <2>4
<1>12. ASSUME NEW c \in Consumers, CV!WakeConsumer(c) PROVE CV!NobodyForgotten'
  <2>1. /\ c \notin CV!AwakeConsumers
        /\ CV!AwakeConsumers' = CV!AwakeConsumers \cup {c}
        /\ UNCHANGED <<CV!AwakeProducers, CV!Announcing(Consumers), CV!Announcing(Producers)>>
    BY <1>12 DEF CV!WakeConsumer, CV!AwakeConsumers, CV!AwakeProducers, CV!Announcing
  <2>2. AC' = AC + 1
    BY <2>1, <1>f, Enters
  <2> QED
    BY <1>12, <1>n, <2>1, <2>2
    DEF CV!WakeConsumer, CV!NobodyForgotten, CV!NoDishForgotten, CV!NoPlaceForgotten,
        CV!Cardinality, Cardinality
<1>13. CASE UNCHANGED CV!vars
  BY <1>13 DEF CV!vars, CV!NobodyForgotten, CV!NoDishForgotten, CV!NoPlaceForgotten,
     CV!Cardinality, Cardinality,
     CV!AwakeConsumers, CV!AwakeProducers, CV!Announcing
<1> QED
  BY <1>1, <1>2, <1>3, <1>4, <1>5, <1>6, <1>7, <1>8, <1>9, <1>10, <1>11,
     <1>12, <1>13 DEF CV!Next, CV!producer, CV!consumer

(* No sleeper is left without the wake-up it needs: while a customer       *)
(* sleeps on prod_cv_, enough customers are awake or about to be notified  *)
(* to fetch every dish, and likewise for the chefs and the free places     *)
(* (1_mutex_cv.cpp, notify_one after the unlock).                          *)
THEOREM NobodyIsForgotten == MCSpec => []NobodyForgotten
  BY CVBaseHolds, ForgottenStarts, ForgottenKeeps, CVSpec, PTL
  DEF CV!Spec, NobodyForgotten

-----------------------------------------------------------------------------
(* The mutex-and-condition-variable queue implements the atomic bounded    *)
(* FIFO, for its callers (push and pop as a whole, 1_mutex_cv.cpp).        *)
THEOREM BlockingRefinement == MCSpec => QueueRefinesFIFO
<1> USE CVAssumption DEF CV!Threads, CV!FIFO!Threads, CV!Status
<1>1. CV!Init => CV!FIFO!FIFOInit
  BY DEF CV!Init, CV!FIFO!FIFOInit
<1>2. CVBase /\ [CV!Next]_CV!vars => [CV!FIFO!FIFONext]_CV!FIFO!fifoVars
  <2> SUFFICES ASSUME CVBase, [CV!Next]_CV!vars
               PROVE  [CV!FIFO!FIFONext]_CV!FIFO!fifoVars
    OBVIOUS
  <2> USE DEF CVBase, CV!TypeOK, SleepersWait, CV!Locations, CV!Goto, CV!HasRoom
  <2>1. ASSUME NEW t \in CV!Threads, CV!Lock(t) PROVE UNCHANGED CV!FIFO!fifoVars
    BY <2>1 DEF CV!Lock, CV!FIFO!fifoVars
  <2>2. ASSUME NEW t \in CV!Threads, CV!Unlock(t) PROVE UNCHANGED CV!FIFO!fifoVars
    BY <2>2 DEF CV!Unlock, CV!FIFO!fifoVars
  <2>3. ASSUME NEW p \in Producers, CV!MakeDish(p) PROVE CV!FIFO!CallPush(p)
    <3>1. PICK dish \in Dishes : cv_elem' = [cv_elem EXCEPT ![p] = dish]
      BY <2>3 DEF CV!MakeDish
    <3>2. CV!Status(p) = "idle" /\ cv_q' = cv_q
      BY <2>3 DEF CV!MakeDish
    <3>3. [t \in CV!Threads |-> CV!Status(t)'] =
            [[t \in CV!Threads |-> CV!Status(t)] EXCEPT ![p] = "called"]
      BY <2>3 DEF CV!MakeDish
    <3> QED
      BY <3>1, <3>2, <3>3 DEF CV!FIFO!CallPush
  <2>4. ASSUME NEW p \in Producers, CV!PushWait(p) PROVE UNCHANGED CV!FIFO!fifoVars
    BY <2>4 DEF CV!PushWait, CV!FIFO!fifoVars
  <2>5. ASSUME NEW p \in Producers, CV!Push(p) PROVE CV!FIFO!DoPush(p)
    BY <2>5 DEF CV!Push, CV!FIFO!DoPush
  <2>6. ASSUME NEW p \in Producers, CV!NotifyConsumer(p) PROVE CV!FIFO!Return(p)
    BY <2>6 DEF CV!NotifyConsumer, CV!FIFO!Return
  <2>7. ASSUME NEW p \in Producers, CV!WakeProducer(p) PROVE UNCHANGED CV!FIFO!fifoVars
    BY <2>7 DEF CV!WakeProducer, CV!FIFO!fifoVars
  <2>8. ASSUME NEW c \in Consumers, CV!Call(c) PROVE CV!FIFO!CallPop(c)
    BY <2>8 DEF CV!Call, CV!FIFO!CallPop
  <2>9. ASSUME NEW c \in Consumers, CV!PopWait(c) PROVE UNCHANGED CV!FIFO!fifoVars
    BY <2>9 DEF CV!PopWait, CV!FIFO!fifoVars
  <2>10. ASSUME NEW c \in Consumers, CV!Pop(c) PROVE CV!FIFO!DoPop(c)
    BY <2>10 DEF CV!Pop, CV!FIFO!DoPop
  <2>11. ASSUME NEW c \in Consumers, CV!NotifyProducer(c) PROVE CV!FIFO!Return(c)
    BY <2>11 DEF CV!NotifyProducer, CV!FIFO!Return
  <2>12. ASSUME NEW c \in Consumers, CV!WakeConsumer(c) PROVE UNCHANGED CV!FIFO!fifoVars
    BY <2>12 DEF CV!WakeConsumer, CV!FIFO!fifoVars
  <2>13. CASE UNCHANGED CV!vars
    BY <2>13 DEF CV!vars, CV!FIFO!fifoVars
  <2> QED
    BY <2>1, <2>2, <2>3, <2>4, <2>5, <2>6, <2>7, <2>8, <2>9, <2>10, <2>11,
       <2>12, <2>13 DEF CV!Next, CV!producer, CV!consumer, CV!FIFO!FIFONext
<1> QED
  BY <1>1, <1>2, CVBaseHolds, CVSpec, PTL
  DEF CV!Spec, QueueRefinesFIFO, CV!RefinesFIFO, CV!FIFO!FIFOSpec

-----------------------------------------------------------------------------
(* All five programs                                                       *)

(* In every program the variables have their types: no push exceeds the    *)
(* capacity however many chefs wake at once, the semaphores are never      *)
(* released beyond the places there are (which would be undefined),        *)
(* no thread indexes past the counter's ring although its indices pass     *)
(* through N, and the two ends of an SPSC ring never touch one slot of the *)
(* plain array at the same time (1_mutex_cv.cpp, 2_sema.cpp,               *)
(* 4_sema_ringbuffer.cpp, 5_spsc_atomics.cpp, 6_spsc_atomic_wait.cpp).     *)
THEOREM ArraysAreWellUsed == MCSpec => []ArraysWellUsed
<1>1. MCSpec => []Counter!TypeOK
  <2>1. Counter!Spec => []Counter!TypeOK
    BY CounterAssumption, Counter!TypeCorrect
  <2> QED
    BY <2>1, CounterSpec, PTL
<1>2. CVBase /\ CounterInv /\ Counter!TypeOK /\ SpscInv => ArraysWellUsed
  <2> SUFFICES ASSUME CVBase, CounterInv, Counter!TypeOK, SpscInv PROVE ArraysWellUsed
    OBVIOUS
  <2>0. free_ \in 0..size /\ taken_ \in 0..size /\ elem \in [Threads -> Dishes \cup {NoDish}]
    BY DEF Counter!TypeOK, Counter!CounterTypeOK, Counter!Threads, Threads
  <2>1. InSema => Std!TypeOK
    <3>1. InSema => q_ \in Seq(Dishes)
      BY DEF Counter!TypeOK, InSema, InRing
    <3> QED
      BY <2>0, <3>1 DEF CounterInv, Std!TypeOK, Std!CounterTypeOK, Std!Threads, Threads
  <2>2. InRing => TypeOK /\ IndexInArray
    <3>1. InRing => IndexInArray
      BY SushiPeople DEF CounterInv, RingInv, RingTyped, RingHolding, IndexInArray
    <3> QED
      BY <2>0, <3>1 DEF CounterInv, RingInv, RingTyped, TypeOK, CounterTypeOK
  <2>3. (InSpin => Spinning!SpinTypeOK) /\ (InWait => Blocking!TypeOK)
    BY DEF SpscInv, SpscTyped, SpscOrdered, InOrder, Places, Spinning!SpinTypeOK,
           Blocking!TypeOK, Spinning!RingTypeOK, Blocking!RingTypeOK, Spinning!Slots,
           Blocking!Slots
  <2>4. Blocking!NoDataRace
    BY OrderWhenHeadMoves DEF SpscInv, SpscOrdered, Blocking!NoDataRace
  <2> QED
    BY <2>1, <2>2, <2>3, <2>4 DEF ArraysWellUsed, CVBase
<1> QED
  BY <1>1, <1>2, CVBaseHolds, CounterInvHolds, SpscInvHolds, PTL
=============================================================================
