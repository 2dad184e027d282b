--------------------------- MODULE SemaQueueProofs ---------------------------
(***************************************************************************)
(* Proofs about SemaQueue for any finite sets of chefs and customers and   *)
(* any positive capacity.                                                  *)
(***************************************************************************)
EXTENDS SemaQueue, SharedLemmas

(* TypeOK bounds the semaphores; that bound follows from the counting, so  *)
(* the proof starts from natural numbers.                                  *)
Typed ==
  /\ free_ \in Nat
  /\ taken_ \in Nat
  /\ q_ \in Seq(Dishes)
  /\ pc \in [Threads -> {"idle", "acquire", "lock", "release"}]
  /\ elem \in [Threads -> Dishes \cup {NoDish}]

(* A chef carries a dish from the call of push to its return.              *)
CarriesDish == \A p \in Producers : pc[p] # "idle" => elem[p] \in Dishes

(* TokensCoverQueue is inductive on top of these two: it is what keeps pop *)
(* from taking the head of an empty queue, hence what keeps q_ a sequence  *)
(* of dishes.                                                              *)
IInv == Typed /\ CarriesDish /\ TokensCoverQueue

-----------------------------------------------------------------------------
(* Counting the threads at a location                                      *)

LEMMA AtIsCount ==
  ASSUME NEW S, NEW L
  PROVE  At(S, L) = Count(S, pc, L)
  BY DEF At, Count, Standing

(* The four counts of TokensCoverQueue: the threads between a semaphore    *)
(* and the queue, or between the queue and the other semaphore.            *)
Pushing == At(Producers, {"lock"})
Pushed  == At(Producers, {"release"})
Popping == At(Consumers, {"lock"})
Popped  == At(Consumers, {"release"})

LEMMA CoverMeans ==
  /\ TokensCoverQueue <=> /\ Len(q_) = taken_ + Pushed + Popping
                          /\ size = Len(q_) + free_ + Pushing + Popped
  /\ TokensCoverQueue' <=> /\ Len(q_') = taken_' + Pushed' + Popping'
                           /\ size = Len(q_') + free_' + Pushing' + Popped'
  BY DEF TokensCoverQueue, Pushing, Pushed, Popping, Popped

LEMMA CountsAreNat ==
  /\ Pushing \in Nat /\ Pushed \in Nat
  /\ Popping \in Nat /\ Popped \in Nat
  BY SushiAssumption, AtIsCount, CountIsNat DEF Pushing, Pushed, Popping, Popped

(* What the step of a thread from one location to another adds to the      *)
(* number of threads at loc.                                               *)
Change(loc, from, to) ==
  IF from = to THEN 0 ELSE IF loc = to THEN 1 ELSE IF loc = from THEN -1 ELSE 0

LEMMA CountsAfterMove ==
  ASSUME NEW from, NEW to, NEW t \in Threads, Typed, Goto(t, from, to)
  PROVE  /\ Pushing' = Pushing +
              (IF t \in Producers THEN Change("lock", from, to) ELSE 0)
         /\ Pushed' = Pushed +
              (IF t \in Producers THEN Change("release", from, to) ELSE 0)
         /\ Popping' = Popping +
              (IF t \in Consumers THEN Change("lock", from, to) ELSE 0)
         /\ Popped' = Popped +
              (IF t \in Consumers THEN Change("release", from, to) ELSE 0)
<1>1. DOMAIN pc = Threads /\ Moves(t, to, pc, pc') /\ pc[t] = from
  BY DEF Typed, Goto, Moves
<1>2. \A S \in {Producers, Consumers} : S \subseteq Threads /\ IsFiniteSet(S)
  BY SushiAssumption DEF Threads
<1>3. ASSUME NEW S \in {Producers, Consumers}, NEW loc
      PROVE  Count(S, pc', {loc}) = Count(S, pc, {loc}) +
               (IF t \in S THEN Change(loc, from, to) ELSE 0)
  <2>1. Count(S, pc', {loc}) =
          Count(S, pc, {loc}) +
            (IF t \notin S \/ (pc[t] \in {loc} <=> to \in {loc}) THEN 0
             ELSE IF to \in {loc} THEN 1 ELSE -1)
    BY <1>1, <1>2, CountAfterMove
  <2> QED
    BY <1>1, <2>1 DEF Change
<1>4. /\ Pushing' = Count(Producers, pc', {"lock"})
      /\ Pushed' = Count(Producers, pc', {"release"})
      /\ Popping' = Count(Consumers, pc', {"lock"})
      /\ Popped' = Count(Consumers, pc', {"release"})
  BY DEF At, Count, Standing, Pushing, Pushed, Popping, Popped
<1>5. /\ Pushing = Count(Producers, pc, {"lock"})
      /\ Pushed = Count(Producers, pc, {"release"})
      /\ Popping = Count(Consumers, pc, {"lock"})
      /\ Popped = Count(Consumers, pc, {"release"})
  BY DEF At, Count, Standing, Pushing, Pushed, Popping, Popped
<1> QED
  BY <1>3, <1>4, <1>5

(* A pop that holds the mutex finds a dish, a push finds a place: neither  *)
(* looks.                                                                  *)
LEMMA NeverEmptyAtPop ==
  ASSUME IInv, NEW c \in Consumers, pc[c] = "lock"
  PROVE  q_ # << >>
<1>1. Popping >= 1
  BY SushiAssumption, AtIsCount, CountPositive DEF Pushing, Pushed, Popping, Popped
<1> QED
  BY <1>1, CountsAreNat, CoverMeans, SushiAssumption DEF IInv, Typed

LEMMA RoomAtPush ==
  ASSUME IInv, NEW p \in Producers, pc[p] = "lock"
  PROVE  Len(q_) < size
<1>1. Pushing >= 1
  BY SushiAssumption, AtIsCount, CountPositive DEF Pushing, Pushed, Popping, Popped
<1> QED
  BY <1>1, CountsAreNat, CoverMeans, SushiAssumption DEF IInv, Typed

-----------------------------------------------------------------------------
(* The inductive invariant                                                 *)

LEMMA IInvInit == Init => IInv
<1> SUFFICES ASSUME Init PROVE IInv
  OBVIOUS
<1> USE SushiAssumption DEF Init, CounterInit
<1>1. Typed /\ CarriesDish
  BY DEF Typed, CarriesDish, Threads
<1>2. /\ Pushing = 0 /\ Pushed = 0
      /\ Popping = 0 /\ Popped = 0
  BY AtIsCount, CountZero DEF Threads, Pushing, Pushed, Popping, Popped
<1>3. TokensCoverQueue
  BY <1>2, CoverMeans
<1> QED
  BY <1>1, <1>3 DEF IInv

LEMMA TypedStep == IInv /\ [Next]_vars => Typed' /\ CarriesDish'
<1> SUFFICES ASSUME IInv, [Next]_vars PROVE Typed' /\ CarriesDish'
  OBVIOUS
<1> USE SushiAssumption DEF IInv, Typed, CarriesDish, Threads, Goto
<1>1. ASSUME NEW p \in Producers, MakeDish(p) PROVE Typed' /\ CarriesDish'
  BY <1>1 DEF MakeDish
<1>2. ASSUME NEW p \in Producers, AcquireFree(p) PROVE Typed' /\ CarriesDish'
  BY <1>2 DEF AcquireFree
<1>3. ASSUME NEW p \in Producers, Push(p) PROVE Typed' /\ CarriesDish'
  BY <1>3 DEF Push
<1>4. ASSUME NEW p \in Producers, ReleaseTaken(p) PROVE Typed' /\ CarriesDish'
  BY <1>4 DEF ReleaseTaken
<1>5. ASSUME NEW c \in Consumers, Call(c) PROVE Typed' /\ CarriesDish'
  BY <1>5 DEF Call
<1>6. ASSUME NEW c \in Consumers, AcquireTaken(c) PROVE Typed' /\ CarriesDish'
  BY <1>6 DEF AcquireTaken
<1>7. ASSUME NEW c \in Consumers, Pop(c) PROVE Typed' /\ CarriesDish'
  <2>1. q_ # << >>
    BY <1>7, NeverEmptyAtPop DEF Pop
  <2> QED
    BY <1>7, <2>1 DEF Pop
<1>8. ASSUME NEW c \in Consumers, ReleaseFree(c) PROVE Typed' /\ CarriesDish'
  BY <1>8 DEF ReleaseFree
<1>9. CASE UNCHANGED vars
  BY <1>9 DEF vars
<1> QED
  BY <1>1, <1>2, <1>3, <1>4, <1>5, <1>6, <1>7, <1>8, <1>9
  DEF Next, producer, consumer

LEMMA TokensStep == IInv /\ [Next]_vars => TokensCoverQueue'
<1> SUFFICES ASSUME IInv, [Next]_vars PROVE TokensCoverQueue'
  OBVIOUS
<1>n. /\ free_ \in Nat /\ taken_ \in Nat /\ Len(q_) \in Nat /\ size \in Nat
  BY SushiAssumption DEF IInv, Typed
<1> USE SushiAssumption DEF IInv
<1>1. ASSUME NEW p \in Producers, MakeDish(p) PROVE TokensCoverQueue'
  <2>1. Goto(p, "idle", "acquire")
    BY <1>1 DEF MakeDish
  <2>2. UNCHANGED <<Pushing, Pushed,
                       Popping, Popped>>
    BY <2>1, CountsAreNat, CountsAfterMove DEF Threads, Change
  <2>3. UNCHANGED <<q_, free_, taken_>>
    BY <1>1 DEF MakeDish
  <2> QED
    BY <1>n, <2>2, <2>3, CoverMeans, CountsAreNat
<1>2. ASSUME NEW p \in Producers, AcquireFree(p) PROVE TokensCoverQueue'
  <2>1. Goto(p, "acquire", "lock")
    BY <1>2 DEF AcquireFree
  <2>2. /\ Pushing' = Pushing + 1
        /\ UNCHANGED <<Pushed, Popping,
                       Popped>>
    BY <2>1, CountsAreNat, CountsAfterMove DEF Threads, Change
  <2>3. free_' = free_ - 1 /\ UNCHANGED <<q_, taken_>>
    BY <1>2 DEF AcquireFree
  <2> QED
    BY <1>n, <2>2, <2>3, CoverMeans, CountsAreNat
<1>3. ASSUME NEW p \in Producers, Push(p) PROVE TokensCoverQueue'
  <2>1. Goto(p, "lock", "release")
    BY <1>3 DEF Push
  <2>2. /\ Pushing' = Pushing - 1
        /\ Pushed' = Pushed + 1
        /\ UNCHANGED <<Popping, Popped>>
    BY <2>1, CountsAreNat, CountsAfterMove DEF Threads, Change
  <2>3. Len(q_') = Len(q_) + 1 /\ UNCHANGED <<free_, taken_>>
    BY <1>3 DEF Push, Typed
  <2> QED
    BY <1>n, <2>2, <2>3, CoverMeans, CountsAreNat
<1>4. ASSUME NEW p \in Producers, ReleaseTaken(p) PROVE TokensCoverQueue'
  <2>1. Goto(p, "release", "idle")
    BY <1>4 DEF ReleaseTaken
  <2>2. /\ Pushed' = Pushed - 1
        /\ UNCHANGED <<Pushing, Popping,
                       Popped>>
    BY <2>1, CountsAreNat, CountsAfterMove DEF Threads, Change
  <2>3. taken_' = taken_ + 1 /\ UNCHANGED <<q_, free_>>
    BY <1>4 DEF ReleaseTaken
  <2> QED
    BY <1>n, <2>2, <2>3, CoverMeans, CountsAreNat
<1>5. ASSUME NEW c \in Consumers, Call(c) PROVE TokensCoverQueue'
  <2>1. Goto(c, "idle", "acquire")
    BY <1>5 DEF Call
  <2>2. UNCHANGED <<Pushing, Pushed,
                       Popping, Popped>>
    BY <2>1, CountsAreNat, CountsAfterMove DEF Threads, Change
  <2>3. UNCHANGED <<q_, free_, taken_>>
    BY <1>5 DEF Call
  <2> QED
    BY <1>n, <2>2, <2>3, CoverMeans, CountsAreNat
<1>6. ASSUME NEW c \in Consumers, AcquireTaken(c) PROVE TokensCoverQueue'
  <2>1. Goto(c, "acquire", "lock")
    BY <1>6 DEF AcquireTaken
  <2>2. /\ Popping' = Popping + 1
        /\ UNCHANGED <<Pushing, Pushed,
                       Popped>>
    BY <2>1, CountsAreNat, CountsAfterMove DEF Threads, Change
  <2>3. taken_' = taken_ - 1 /\ UNCHANGED <<q_, free_>>
    BY <1>6 DEF AcquireTaken
  <2> QED
    BY <1>n, <2>2, <2>3, CoverMeans, CountsAreNat
<1>7. ASSUME NEW c \in Consumers, Pop(c) PROVE TokensCoverQueue'
  <2>1. Goto(c, "lock", "release")
    BY <1>7 DEF Pop
  <2>2. /\ Popping' = Popping - 1
        /\ Popped' = Popped + 1
        /\ UNCHANGED <<Pushing, Pushed>>
    BY <2>1, CountsAreNat, CountsAfterMove DEF Threads, Change
  <2>3. Len(q_') = Len(q_) - 1 /\ UNCHANGED <<free_, taken_>>
    BY <1>7, NeverEmptyAtPop DEF Pop, Typed, Goto
  <2> QED
    BY <1>n, <2>2, <2>3, CoverMeans, CountsAreNat
<1>8. ASSUME NEW c \in Consumers, ReleaseFree(c) PROVE TokensCoverQueue'
  <2>1. Goto(c, "release", "idle")
    BY <1>8 DEF ReleaseFree
  <2>2. /\ Popped' = Popped - 1
        /\ UNCHANGED <<Pushing, Pushed,
                       Popping>>
    BY <2>1, CountsAreNat, CountsAfterMove DEF Threads, Change
  <2>3. free_' = free_ + 1 /\ UNCHANGED <<q_, taken_>>
    BY <1>8 DEF ReleaseFree
  <2> QED
    BY <1>n, <2>2, <2>3, CoverMeans, CountsAreNat
<1>9. CASE UNCHANGED vars
  BY <1>9 DEF vars, At, TokensCoverQueue
<1> QED
  BY <1>1, <1>2, <1>3, <1>4, <1>5, <1>6, <1>7, <1>8, <1>9
  DEF Next, producer, consumer

LEMMA IInvHolds == Spec => []IInv
<1>1. IInv /\ [Next]_vars => IInv'
  BY TypedStep, TokensStep DEF IInv
<1> QED
  BY <1>1, IInvInit, PTL DEF Spec

(* A token of taken_ need not be the one that the dish's own push          *)
(* released, yet the dishes in the queue are exactly those that taken_,    *)
(* the pushes before release and the pops before the lock account for, and *)
(* the free places likewise (2_sema.cpp, acquire and release).             *)
THEOREM TokensAlwaysCover == Spec => []TokensCoverQueue
<1>1. IInv => TokensCoverQueue
  BY DEF IInv
<1> QED
  BY <1>1, IInvHolds, PTL

(* The queue never exceeds size, and neither semaphore is ever released    *)
(* beyond it (2_sema.cpp, free_ and taken_).                               *)
THEOREM TypeCorrect == Spec => []TypeOK
<1>1. IInv => TypeOK
  BY CountsAreNat, CoverMeans, SushiAssumption DEF IInv, Typed, TypeOK, CounterTypeOK
<1> QED
  BY <1>1, IInvHolds, PTL

-----------------------------------------------------------------------------
(* The semaphore queue implements the atomic bounded FIFO for its callers: *)
(* push takes effect in its locked block, where a place is certain to be   *)
(* free, and pop in its own, where a dish is certain to be there           *)
(* (2_sema.cpp, push and pop as a whole).                                  *)
THEOREM Refinement == Spec => RefinesFIFO
<1> USE SushiAssumption DEF Threads, FIFO!Threads, Status
<1>1. Init => FIFO!FIFOInit
  BY DEF Init, CounterInit, FIFO!FIFOInit
<1>2. IInv /\ [Next]_vars => [FIFO!FIFONext]_FIFO!fifoVars
  <2> SUFFICES ASSUME IInv, [Next]_vars PROVE [FIFO!FIFONext]_FIFO!fifoVars
    OBVIOUS
  <2> USE DEF IInv, Typed, Goto
  <2>1. ASSUME NEW p \in Producers, MakeDish(p) PROVE FIFO!CallPush(p)
    <3>1. PICK dish \in Dishes : elem' = [elem EXCEPT ![p] = dish]
      BY <2>1 DEF MakeDish
    <3>2. Status(p) = "idle" /\ q_' = q_
      BY <2>1 DEF MakeDish
    <3>3. [t \in Threads |-> Status(t)]' =
            [[t \in Threads |-> Status(t)] EXCEPT ![p] = "called"]
      BY <2>1 DEF MakeDish
    <3> QED
      BY <3>1, <3>2, <3>3 DEF FIFO!CallPush
  <2>2. ASSUME NEW p \in Producers, AcquireFree(p) PROVE UNCHANGED FIFO!fifoVars
    BY <2>2 DEF AcquireFree, FIFO!fifoVars
  <2>3. ASSUME NEW p \in Producers, Push(p) PROVE FIFO!DoPush(p)
    <3>1. Len(q_) < size
      BY <2>3, RoomAtPush DEF Push
    <3> QED
      BY <2>3, <3>1 DEF Push, FIFO!DoPush
  <2>4. ASSUME NEW p \in Producers, ReleaseTaken(p) PROVE FIFO!Return(p)
    BY <2>4 DEF ReleaseTaken, FIFO!Return
  <2>5. ASSUME NEW c \in Consumers, Call(c) PROVE FIFO!CallPop(c)
    BY <2>5 DEF Call, FIFO!CallPop
  <2>6. ASSUME NEW c \in Consumers, AcquireTaken(c) PROVE UNCHANGED FIFO!fifoVars
    BY <2>6 DEF AcquireTaken, FIFO!fifoVars
  <2>7. ASSUME NEW c \in Consumers, Pop(c) PROVE FIFO!DoPop(c)
    <3>1. q_ # << >>
      BY <2>7, NeverEmptyAtPop DEF Pop
    <3> QED
      BY <2>7, <3>1 DEF Pop, FIFO!DoPop
  <2>8. ASSUME NEW c \in Consumers, ReleaseFree(c) PROVE FIFO!Return(c)
    BY <2>8 DEF ReleaseFree, FIFO!Return
  <2>9. CASE UNCHANGED vars
    BY <2>9 DEF vars, FIFO!fifoVars
  <2> QED
    BY <2>1, <2>2, <2>3, <2>4, <2>5, <2>6, <2>7, <2>8, <2>9
    DEF Next, producer, consumer, FIFO!FIFONext
<1> QED
  BY <1>1, <1>2, IInvHolds, PTL DEF Spec, RefinesFIFO, FIFO!FIFOSpec
=============================================================================
