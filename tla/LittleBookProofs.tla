-------------------------- MODULE LittleBookProofs --------------------------
(***************************************************************************)
(* Proofs about the little-book programs as MCLittleBook runs them, for    *)
(* any number of threads and any bounds: what all of them share, the       *)
(* savages' pot and the smokers' table.  The shops are in ShopsProofs.     *)
(***************************************************************************)
EXTENDS MCLittleBook, SharedLemmas

LEMMA Bounds ==
  /\ M \in Nat \ {0} /\ Diners \in Nat \ {0}
  /\ Generations \in Nat /\ Rounds \in Nat
  /\ NCustomers \in Nat \ {0} /\ N_CHAIRS \in Nat \ {0}
  /\ Barbers \in Nat \ {0} /\ Ushers \in Nat \ {0}
  /\ MAX_CUSTOMERS \in Nat \ {0} /\ SOFA_CAPACITY \in Nat \ {0}
  /\ Deer \in Nat \ {0} /\ Elves \in Nat \ {0} /\ Group \in Nat \ {0}
  /\ Group <= Elves
  BY LittleBookAssumption

-----------------------------------------------------------------------------
(* The program that is run never changes, and its threads alone take steps *)

PotNext == Savages!Spurious \/ \E t \in Savages!PotThreads : Savages!Step(t)
SmokersNext == Smokers!Spurious \/ \E t \in Smokers!SmokerThreads : Smokers!Step(t)
PushersNext == Pushers!Spurious \/ \E t \in Pushers!PusherThreads : Pushers!Step(t)
BoardNext == \E t \in Board!BoardThreads : Board!Step(t)
BarberNext == \E t \in Barbershops!ShopThreads : Barbershops!Step(t)
HilzerNext == \E t \in Hilzer!HilzerThreads : Hilzer!Step(t)
NorthNext == North!Spurious \/ \E t \in North!NorthThreads : North!Step(t)

LEMMA OneProgram ==
  [MCNext]_allVars =>
    /\ program' = program
    /\ \/ UNCHANGED allVars
       \/ InPot /\ PotNext /\ PotFrame
       \/ InSmokers /\ SmokersNext /\ SmokersFrame
       \/ InPushers /\ PushersNext /\ PushersFrame
       \/ InBoard /\ BoardNext /\ BoardFrame
       \/ InBarbershop /\ BarberNext /\ BarberFrame
       \/ InHilzer /\ HilzerNext /\ HilzerFrame
       \/ InNorth /\ NorthNext /\ NorthFrame
<1> DEFINE Goal ==
      \/ UNCHANGED allVars
      \/ InPot /\ PotNext /\ PotFrame
      \/ InSmokers /\ SmokersNext /\ SmokersFrame
      \/ InPushers /\ PushersNext /\ PushersFrame
      \/ InBoard /\ BoardNext /\ BoardFrame
      \/ InBarbershop /\ BarberNext /\ BarberFrame
      \/ InHilzer /\ HilzerNext /\ HilzerFrame
      \/ InNorth /\ NorthNext /\ NorthFrame
<1>1. ASSUME UNCHANGED allVars PROVE program' = program /\ Goal
  BY <1>1 DEF allVars
<1>2. ASSUME MCNext PROVE program' = program
  BY <1>2 DEF MCNext
<1>3. ASSUME Others, UNCHANGED program PROVE Goal
  <2>1. CASE InPot /\ Savages!Spurious /\ PotFrame
    BY <2>1 DEF PotNext
  <2>2. CASE InSmokers /\ Smokers!Spurious /\ SmokersFrame
    BY <2>2 DEF SmokersNext
  <2>3. CASE InPushers /\ Pushers!Spurious /\ PushersFrame
    BY <2>3 DEF PushersNext
  <2>4. CASE InNorth /\ North!Spurious /\ NorthFrame
    BY <2>4 DEF NorthNext
  <2>5. CASE InSmokers /\ Smokers!RoundsOver /\ SmokersFrame
    <3>1. UNCHANGED allVars
      BY <1>3, <2>5 DEF Smokers!RoundsOver, SmokersFrame, allVars, threadVars,
         Smokers!threadVars, Smokers!smokerVars, Smokers!itemVars,
         Smokers!localVars, tableVars, smokersOnly
    <3> QED
      BY <3>1
  <2>6. CASE InPushers /\ Pushers!RoundsOver /\ PushersFrame
    <3>1. UNCHANGED allVars
      BY <1>3, <2>6 DEF Pushers!RoundsOver, PushersFrame, allVars, threadVars,
         Pushers!threadVars, Pushers!pushVars, tableVars, pushersOnly
    <3> QED
      BY <3>1
  <2>7. CASE InBoard /\ Board!RoundsOver /\ BoardFrame
    <3>1. UNCHANGED allVars
      BY <1>3, <2>7 DEF Board!RoundsOver, BoardFrame, allVars, threadVars,
         Board!threadVars, Board!boardVars, tableVars, boardOnly
    <3> QED
      BY <3>1
  <2>8. CASE InHilzer /\ Hilzer!MayStop /\ HilzerFrame
    <3>1. UNCHANGED allVars
      BY <1>3, <2>8 DEF Hilzer!MayStop, HilzerFrame, allVars, threadVars,
         Hilzer!threadVars, Hilzer!hilzerVars, shopVars, hilzerOnly
    <3> QED
      BY <3>1
  <2> QED
    BY <1>3, <2>1, <2>2, <2>3, <2>4, <2>5, <2>6, <2>7, <2>8 DEF Others
<1>4. ASSUME NEW t, Runs(t) PROVE Goal
  <2>1. CASE InPot /\ Savages!Step(t) /\ PotFrame
    BY <2>1 DEF PotNext, Savages!Step
  <2>2. CASE InSmokers /\ Smokers!Step(t) /\ SmokersFrame
    <3>1. t \in Smokers!SmokerThreads
      BY <2>2 DEF Smokers!Step, Smokers!SmokerThreads
    <3> QED
      BY <2>2, <3>1 DEF SmokersNext
  <2>3. CASE InPushers /\ Pushers!Step(t) /\ PushersFrame
    <3>1. t \in Pushers!PusherThreads
      BY <2>3 DEF Pushers!Step, Pushers!PusherThreads
    <3> QED
      BY <2>3, <3>1 DEF PushersNext
  <2>4. CASE InBoard /\ Board!Step(t) /\ BoardFrame
    <3>1. t \in Board!BoardThreads
      BY <2>4 DEF Board!Step, Board!BoardThreads, Board!Takers
    <3> QED
      BY <2>4, <3>1 DEF BoardNext
  <2>5. CASE InBarbershop /\ Barbershops!Step(t) /\ BarberFrame
    BY <2>5 DEF BarberNext, Barbershops!Step
  <2>6. CASE InHilzer /\ Hilzer!Step(t) /\ HilzerFrame
    <3>1. t \in Hilzer!HilzerThreads
      BY <2>6 DEF Hilzer!Step, Hilzer!HilzerThreads
    <3> QED
      BY <2>6, <3>1 DEF HilzerNext
  <2>7. CASE InNorth /\ North!Step(t) /\ NorthFrame
    <3>1. t \in North!NorthThreads
      BY <2>7 DEF North!Step, North!NorthThreads
    <3> QED
      BY <2>7, <3>1 DEF NorthNext
  <2> QED
    BY <1>4, <2>1, <2>2, <2>3, <2>4, <2>5, <2>6, <2>7 DEF Runs
<1> HIDE DEF Goal
<1>5. [MCNext]_allVars => program' = program /\ Goal
  BY <1>1, <1>2, <1>3, <1>4 DEF MCNext
<1> QED
  BY <1>5 DEF Goal

LEMMA Starts ==
  MCInit =>
    /\ InPot => Savages!Init
    /\ InSmokers => Smokers!Init
    /\ InPushers => Pushers!Init
    /\ InBoard => Board!Init
    /\ InBarbershop => Barbershops!Init
    /\ InHilzer => Hilzer!Init
    /\ InNorth => North!Init
  BY DEF MCInit, InPot, InSmokers, InPushers, InBoard, InBarbershop, InHilzer,
     InNorth, Savages!Init, Savages!Versions, Smokers!Init, Pushers!Init,
     Board!Init, Barbershops!Init

-----------------------------------------------------------------------------
(* Threads are named by their kind and a number.  Those of them that stand *)
(* at a location, after one of them has moved.                             *)

LEMMA ThreadsAreFinite ==
  ASSUME NEW kind, NEW n \in Nat
  PROVE  IsFiniteSet({kind} \X (1..n)) /\ Cardinality({kind} \X (1..n)) = n
<1>1. IsFiniteSet({kind}) /\ Cardinality({kind}) = 1
  BY FS_Singleton
<1>2. IsFiniteSet(1..n)
  BY FS_Interval
<1>3. Cardinality(1..n) = n
  <2>1. Cardinality(1..n) = IF 1 > n THEN 0 ELSE n - 1 + 1
    BY FS_Interval
  <2> QED
    BY <2>1
<1>4. /\ IsFiniteSet({kind} \X (1..n))
      /\ Cardinality({kind} \X (1..n)) = Cardinality({kind}) * Cardinality(1..n)
  BY <1>1, <1>2, FS_Product
<1> QED
  BY <1>1, <1>3, <1>4

Change(L, from, to) ==
  IF from \in L <=> to \in L THEN 0 ELSE IF to \in L THEN 1 ELSE -1

LEMMA CountsAfterGoto ==
  ASSUME NEW t, NEW from, NEW to, pc[t] = from, Moves(t, to, pc, pc')
  PROVE  \A S, L :
           S \subseteq DOMAIN pc /\ IsFiniteSet(S) =>
             /\ Count(S, pc, L) \in Nat
             /\ Count(S, pc', L) \in Nat
             /\ Count(S, pc', L) =
                  Count(S, pc, L) + (IF t \in S THEN Change(L, from, to) ELSE 0)
<1> SUFFICES ASSUME NEW S, NEW L, S \subseteq DOMAIN pc, IsFiniteSet(S)
             PROVE  /\ Count(S, pc, L) \in Nat
                    /\ Count(S, pc', L) \in Nat
                    /\ Count(S, pc', L) =
                         Count(S, pc, L) +
                           (IF t \in S THEN Change(L, from, to) ELSE 0)
  OBVIOUS
<1>1. Count(S, pc', L) =
        Count(S, pc, L) +
          (IF t \notin S \/ (pc[t] \in L <=> to \in L) THEN 0
           ELSE IF to \in L THEN 1 ELSE -1)
  BY CountAfterMove
<1>2. Count(S, pc, L) \in Nat /\ Count(S, pc', L) \in Nat
  BY CountIsNat
<1> QED
  BY <1>1, <1>2 DEF Change

-----------------------------------------------------------------------------
(* The savages' pot                                                        *)

D(l) == Count(Savages!DinerThreads, pc, {l})
ChefIn(L) == IF pc[Savages!chef] \in L THEN 1 ELSE 0
NoMeals == IF meals = 0 THEN 1 ELSE 0

PotAt == {"start", "loaded", "notify", "refill", "filled", "arrive", "take",
          "empty", "full", "leave"}

PotTyped ==
  /\ pc \in [Savages!PotThreads -> PotAt]
  /\ meals \in Nat
  /\ cur_m \in [Savages!PotThreads -> Nat]
  /\ sem \in [{"servings", "empty_pot", "mtx", "empty", "full"} -> Nat]
  /\ asleep \in [{"not_empty_cv", "empty_cv", "meals", "empty_pot"} ->
                   SUBSET Savages!PotThreads]

(* A chef that has loaded an empty pot still finds it empty.               *)
PotOfAtomics ==
  pc[Savages!chef] = "loaded" /\ cur_m[Savages!chef] = 0 => meals = 0

(* Each serving is in the pot, with a diner that has not yet arrived at    *)
(* the barrier, or counted there; the chef refills when the phase is over. *)
ChefWaits == Savages!chef \in asleep["empty_pot"]

PotOfBarrier ==
  /\ asleep["empty_pot"] \subseteq {Savages!chef}
  /\ pc[Savages!chef] = "start" =>
       ~ChefWaits /\ sem["servings"] + D("arrive") + 1 = sem["empty_pot"]
  /\ pc[Savages!chef] # "start" =>
       /\ pc[Savages!chef] = "refill"
       /\ sem["empty_pot"] \in Nat \ {0}
       /\ IF ChefWaits THEN sem["servings"] + D("arrive") = sem["empty_pot"]
          ELSE /\ sem["servings"] = 0 /\ D("arrive") = 0
               /\ sem["empty_pot"] = Savages!EmptyPot

(* Whoever is between the two semaphores is alone with the pot.            *)
PotOfSemaphores ==
  /\ sem["mtx"] + D("take") + D("empty") + D("full") + D("leave") = 1
  /\ sem["empty"] + sem["full"] + ChefIn({"refill", "filled"})
       = D("full")
  /\ D("empty") + sem["empty"] + ChefIn({"refill"}) = NoMeals

PotInv ==
  /\ PotTyped
  /\ program = "savages_2" => PotOfAtomics
  /\ program = "savages_3" => PotOfBarrier
  /\ program = "savages_4" => PotOfSemaphores

LEMMA DinersAreFinite ==
  /\ IsFiniteSet(Savages!DinerThreads)
  /\ Savages!DinerThreads \subseteq Savages!PotThreads
  /\ Savages!chef \in Savages!PotThreads
  /\ Savages!chef \notin Savages!DinerThreads
  /\ \A t \in Savages!PotThreads : t # Savages!chef => t \in Savages!DinerThreads
<1>1. Diners \in Nat
  BY Bounds
<1>2. IsFiniteSet({"diner"} \X (1..Diners))
  BY <1>1, ThreadsAreFinite
<1> QED
  BY <1>2 DEF Savages!DinerThreads, Savages!PotThreads, Savages!chef

LEMMA DinersCounted ==
  \A l : /\ D(l) \in Nat
         /\ D(l) = Count(Savages!DinerThreads, pc, {l})
         /\ Count(Savages!DinerThreads, pc', {l}) \in Nat
  BY DinersAreFinite, CountIsNat DEF D

LEMMA DinerGoes ==
  ASSUME PotTyped, NEW d \in Savages!DinerThreads, NEW from, NEW to,
         Savages!Goto(d, from, to)
  PROVE  \A l : Count(Savages!DinerThreads, pc', {l}) = D(l) + Change({l}, from, to)
<1>1. pc[d] = from /\ Moves(d, to, pc, pc') /\ Savages!DinerThreads \subseteq DOMAIN pc
  BY DinersAreFinite DEF PotTyped, Savages!Goto, Savages!At, Moves
<1>2. \A L : Count(Savages!DinerThreads, pc', L) =
               Count(Savages!DinerThreads, pc, L) + Change(L, from, to)
  BY <1>1, CountsAfterGoto, DinersAreFinite
<1>3. ASSUME NEW l
      PROVE  Count(Savages!DinerThreads, pc', {l}) =
               Count(Savages!DinerThreads, pc, {l}) + Change({l}, from, to)
  BY <1>2
<1> QED
  BY <1>3 DEF D

LEMMA PotStarts == Savages!Init => PotInv
<1> SUFFICES ASSUME Savages!Init PROVE PotInv
  OBVIOUS
<1> USE DinersAreFinite, Bounds
<1>1. PotTyped
  BY DEF Savages!Init, PotTyped, PotAt, Savages!EmptyPot
<1>2. \A t \in Savages!PotThreads : pc[t] = "start"
  BY DEF Savages!Init
<1>3. \A l \in PotAt \ {"start"} : D(l) = 0
  BY <1>2, CountZero DEF D
<1>4. /\ sem["servings"] = M /\ sem["empty_pot"] = M + 1
      /\ sem["mtx"] = 1 /\ sem["empty"] = 0 /\ sem["full"] = 0
      /\ asleep["empty_pot"] = {}
  BY DEF Savages!Init, Savages!EmptyPot
<1>5. PotOfBarrier
  BY <1>2, <1>3, <1>4 DEF PotOfBarrier, PotAt, ChefWaits
<1>6. program = "savages_4" => PotOfSemaphores
  <2>1. program = "savages_4" => meals # 0
    BY DEF Savages!Init
  <2> QED
    BY <1>2, <1>3, <1>4, <2>1 DEF PotOfSemaphores, PotAt, ChefIn, NoMeals
<1> QED
  BY <1>1, <1>2, <1>5, <1>6 DEF PotInv, PotOfAtomics

(* A step of the pot of problems.md.                                       *)
Serving(s, r) == r = s \/ (s > 0 /\ r = s - 1) \/ (s = 0 /\ r = M)

LEMMA PotOfMutexKeeps ==
  ASSUME PotTyped, program = "savages_1", PotNext
  PROVE  PotTyped' /\ Serving(meals, meals')
<1> USE DinersAreFinite, Bounds DEF PotTyped, PotAt, Serving
<1>1. CASE Savages!Spurious
  BY <1>1 DEF Savages!Spurious, Savages!WakesSpuriously, Savages!potVars
<1>2. CASE Savages!chef1
  BY <1>2 DEF Savages!chef1, Savages!Refill1, Savages!Serve, Savages!Move,
     Savages!Goto, Savages!At, Savages!Sleep, Savages!notify_all, Savages!WakeAll,
     Savages!potVars
<1>3. ASSUME NEW d \in Savages!PotThreads, Savages!diner1(d)
      PROVE  PotTyped' /\ Serving(meals, meals')
  BY <1>3 DEF Savages!diner1, Savages!Serve, Savages!Move, Savages!Goto,
     Savages!At, Savages!Sleep, Savages!notify_one, Savages!WakeOne,
     Savages!NotifyChef, Savages!potVars
<1> QED
  BY <1>1, <1>2, <1>3 DEF PotNext, Savages!Step

LEMMA PotOfAtomicsKeeps ==
  ASSUME PotTyped, PotOfAtomics, program = "savages_2", PotNext
  PROVE  PotTyped' /\ PotOfAtomics' /\ Serving(meals, meals')
<1> USE DinersAreFinite, Bounds DEF PotTyped, PotAt, PotOfAtomics, Serving
<1>1. CASE Savages!Spurious
  BY <1>1 DEF Savages!Spurious, Savages!WakesSpuriously, Savages!potVars
<1>2. ASSUME NEW t \in Savages!PotThreads, Savages!Load(t)
      PROVE  PotTyped' /\ PotOfAtomics' /\ Serving(meals, meals')
  BY <1>2 DEF Savages!Load, Savages!Move, Savages!Goto, Savages!At
<1>3. ASSUME NEW t \in Savages!PotThreads, Savages!AwaitChange(t)
      PROVE  PotTyped' /\ PotOfAtomics' /\ Serving(meals, meals')
  BY <1>3 DEF Savages!AwaitChange, Savages!Move, Savages!Goto, Savages!At,
     Savages!Sleep, Savages!potVars
<1>4. CASE Savages!chef2
  BY <1>2, <1>3, <1>4 DEF Savages!chef2, Savages!Serve, Savages!Move,
     Savages!Goto, Savages!At, Savages!notify_all, Savages!WakeAll, Savages!potVars
<1>5. ASSUME NEW d \in Savages!PotThreads, d # Savages!chef, Savages!diner2(d)
      PROVE  PotTyped' /\ PotOfAtomics' /\ Serving(meals, meals')
  <2>1. CASE Savages!Take2(d)
    BY <1>5, <2>1 DEF Savages!Take2, Savages!Serve, Savages!Move, Savages!Goto,
       Savages!At
  <2>2. CASE Savages!Miss2(d)
    BY <1>5, <2>2 DEF Savages!Miss2, Savages!Move, Savages!Goto, Savages!At,
       Savages!potVars
  <2>3. CASE Savages!notify_all(d, "meals", "notify", "start") /\ UNCHANGED Savages!potVars
    BY <1>5, <2>3 DEF Savages!notify_all, Savages!WakeAll, Savages!Goto,
       Savages!At, Savages!potVars
  <2> QED
    BY <1>2, <1>3, <1>5, <2>1, <2>2, <2>3 DEF Savages!diner2
<1> QED
  BY <1>1, <1>4, <1>5 DEF PotNext, Savages!Step

LEMMA PotOfBarrierKeeps ==
  ASSUME PotTyped, PotOfBarrier, program = "savages_3", PotNext
  PROVE  PotTyped' /\ PotOfBarrier' /\ Serving(sem["servings"], sem["servings"]')
<1> DEFINE Goal ==
      PotTyped' /\ PotOfBarrier' /\ Serving(sem["servings"], sem["servings"]')
<1> USE DinersAreFinite, Bounds DEF PotTyped, PotAt, Serving
<1>d. /\ D("arrive") \in Nat
      /\ D("arrive") = Count(Savages!DinerThreads, pc, {"arrive"})
      /\ D("arrive")' = Count(Savages!DinerThreads, pc', {"arrive"})
      /\ D("arrive")' \in Nat
  <2>1. D("arrive")' = Count(Savages!DinerThreads, pc', {"arrive"})
    BY DEF D, Count, Standing
  <2> QED
    BY <2>1, DinersCounted
<1>1. CASE Savages!Spurious
  <2>1. D("arrive")' = D("arrive")
    BY <1>1, <1>d DEF D, Savages!Spurious, Savages!WakesSpuriously
  <2> QED
    BY <1>1, <2>1 DEF PotOfBarrier, ChefWaits, Savages!Spurious,
       Savages!WakesSpuriously, Savages!potVars
<1>2. ASSUME UNCHANGED Savages!potVars, Savages!chef3 PROVE Goal
  <2>1. D("arrive")' = D("arrive")
    BY <1>2, <1>d, CountSame
    DEF D, Savages!chef3, Savages!arrive_and_wait, Savages!release, Savages!Goto,
        Savages!At
  <2>2. CASE Savages!arrive_and_wait(Savages!chef, "empty_pot", Savages!EmptyPot, "start", "refill")
    BY <1>2, <1>d, <2>1, <2>2
    DEF Savages!arrive_and_wait, Savages!Goto, Savages!At, Savages!CompletesPhase,
        Savages!OpenPhase, Savages!AwaitPhase, Savages!WakeAll, Savages!EmptyPot,
        Savages!potVars, PotOfBarrier, ChefWaits
  <2>3. CASE Savages!release(Savages!chef, "servings", M, "refill", "start")
    BY <1>2, <1>d, <2>1, <2>3
    DEF Savages!release, Savages!Goto, Savages!At, Savages!Awake, Savages!EmptyPot,
        Savages!potVars, PotOfBarrier, ChefWaits
  <2> QED
    BY <1>2, <2>2, <2>3 DEF Savages!chef3
<1>3. ASSUME NEW d \in Savages!DinerThreads, UNCHANGED Savages!potVars, Savages!diner3(d)
      PROVE  Goal
  <2>1. CASE Savages!acquire(d, "servings", "start", "arrive")
    <3>1. D("arrive")' = D("arrive") + 1
      BY <1>d, <2>1, DinerGoes DEF Change, Savages!acquire
    <3> QED
      BY <1>3, <1>d, <2>1, <3>1
      DEF Savages!acquire, Savages!Goto, Savages!At, Savages!potVars, PotOfBarrier,
          ChefWaits, Savages!EmptyPot
  <2>2. CASE Savages!arrive(d, "empty_pot", Savages!EmptyPot, "arrive", "start")
    <3>1. D("arrive")' = D("arrive") - 1
      BY <1>d, <2>2, DinerGoes DEF Change, Savages!arrive
    <3> QED
      BY <1>3, <1>d, <2>2, <3>1
      DEF Savages!arrive, Savages!Goto, Savages!At, Savages!CompletesPhase,
          Savages!OpenPhase, Savages!WakeAll, Savages!EmptyPot, Savages!potVars,
          PotOfBarrier, ChefWaits
  <2> QED
    BY <1>3, <2>1, <2>2 DEF Savages!diner3
<1> QED
  BY <1>1, <1>2, <1>3 DEF PotNext, Savages!Step

LEMMA PotOfSemaphoresKeeps ==
  ASSUME PotTyped, PotOfSemaphores, program = "savages_4", PotNext
  PROVE  PotTyped' /\ PotOfSemaphores' /\ Serving(meals, meals')
<1> DEFINE Goal == PotTyped' /\ PotOfSemaphores' /\ Serving(meals, meals')
<1> USE DEF Serving
<1>d. D("take") \in Nat /\ D("empty") \in Nat /\ D("full") \in Nat /\ D("leave") \in Nat
  BY DinersCounted
<1>e. /\ D("take")' = Count(Savages!DinerThreads, pc', {"take"})
      /\ D("empty")' = Count(Savages!DinerThreads, pc', {"empty"})
      /\ D("full")' = Count(Savages!DinerThreads, pc', {"full"})
      /\ D("leave")' = Count(Savages!DinerThreads, pc', {"leave"})
  BY DEF D, Count, Standing
<1>s. sem["mtx"] \in Nat /\ sem["empty"] \in Nat /\ sem["full"] \in Nat /\ meals \in Nat
  BY DEF PotTyped
<1>1. CASE Savages!Spurious
  <2>1. /\ D("take")' = D("take") /\ D("empty")' = D("empty")
        /\ D("full")' = D("full") /\ D("leave")' = D("leave")
    BY <1>1, <1>e DEF D, Savages!Spurious, Savages!WakesSpuriously
  <2> QED
    BY <1>1, <2>1 DEF PotTyped, PotAt, PotOfSemaphores, ChefIn, NoMeals, Savages!Spurious,
       Savages!WakesSpuriously, Savages!potVars
<1>2. ASSUME Savages!chef4 PROVE Goal
  <2>1. \A d \in Savages!DinerThreads : pc'[d] = pc[d]
    BY <1>2, DinersAreFinite DEF Savages!chef4, Savages!acquire, Savages!release,
       Savages!Move, Savages!Goto, PotTyped
  <2>2. /\ D("take")' = D("take") /\ D("empty")' = D("empty")
        /\ D("full")' = D("full") /\ D("leave")' = D("leave")
    BY <1>e, <2>1, CountSame DEF D
  <2>3. CASE Savages!acquire(Savages!chef, "empty", "start", "refill")
             /\ UNCHANGED Savages!potVars
    <3>1. /\ PotTyped' /\ meals' = meals
          /\ pc[Savages!chef] = "start" /\ pc'[Savages!chef] = "refill"
          /\ sem["empty"] > 0 /\ sem'["empty"] = sem["empty"] - 1
          /\ sem'["full"] = sem["full"] /\ sem'["mtx"] = sem["mtx"]
      BY <2>3, DinersAreFinite DEF Savages!acquire, Savages!Goto, Savages!At, Savages!potVars,
         PotTyped, PotAt
    <3> QED
      BY <1>d, <1>s, <2>2, <3>1, Bounds DEF PotOfSemaphores, ChefIn, NoMeals
  <2>4. CASE Savages!Move(Savages!chef, "refill", "filled") /\ Savages!Serve(M)
    <3>1. /\ PotTyped' /\ meals' = M /\ UNCHANGED sem
          /\ pc[Savages!chef] = "refill" /\ pc'[Savages!chef] = "filled"
      BY <2>4, Bounds, DinersAreFinite DEF Savages!Move, Savages!Goto, Savages!At, Savages!Serve,
         PotTyped, PotAt
    <3> QED
      BY <1>d, <1>s, <2>2, <3>1, Bounds DEF PotOfSemaphores, ChefIn, NoMeals
  <2>5. CASE Savages!release(Savages!chef, "full", 1, "filled", "start")
             /\ UNCHANGED Savages!potVars
    <3>1. /\ PotTyped' /\ meals' = meals
          /\ pc[Savages!chef] = "filled" /\ pc'[Savages!chef] = "start"
          /\ sem'["full"] = sem["full"] + 1
          /\ sem'["empty"] = sem["empty"] /\ sem'["mtx"] = sem["mtx"]
      BY <2>5, DinersAreFinite DEF Savages!release, Savages!Goto, Savages!At, Savages!potVars,
         PotTyped, PotAt
    <3> QED
      BY <1>d, <1>s, <2>2, <3>1, Bounds DEF PotOfSemaphores, ChefIn, NoMeals
  <2> QED
    BY <1>2, <2>3, <2>4, <2>5 DEF Savages!chef4
<1>3. ASSUME NEW d \in Savages!DinerThreads, Savages!diner4(d) PROVE Goal
  <2> DEFINE Goes(from, to) ==
        /\ D("take")' = D("take") + Change({"take"}, from, to)
        /\ D("empty")' = D("empty") + Change({"empty"}, from, to)
        /\ D("full")' = D("full") + Change({"full"}, from, to)
        /\ D("leave")' = D("leave") + Change({"leave"}, from, to)
  <2>0. ASSUME NEW from, NEW to, Savages!Goto(d, from, to) PROVE Goes(from, to)
    BY <1>e, <2>0, DinerGoes
  <2>1. CASE Savages!acquire(d, "mtx", "start", "take") /\ UNCHANGED Savages!potVars
    <3>1. /\ PotTyped' /\ meals' = meals /\ pc'[Savages!chef] = pc[Savages!chef]
          /\ sem["mtx"] > 0 /\ sem'["mtx"] = sem["mtx"] - 1
          /\ sem'["empty"] = sem["empty"] /\ sem'["full"] = sem["full"]
      BY <2>1, DinersAreFinite DEF Savages!acquire, Savages!Goto, Savages!At, Savages!potVars,
         PotTyped, PotAt
    <3>2. Goes("start", "take")
      BY <2>0, <2>1 DEF Savages!acquire
    <3> QED
      BY <1>d, <1>s, <3>1, <3>2 DEF Change, PotOfSemaphores, ChefIn, NoMeals
  <2>2. CASE /\ Savages!Move(d, "take", IF meals = 1 THEN "empty" ELSE "leave")
             /\ Savages!Serve(meals - 1)
    <3>1. D("take") >= 1
      BY <2>2, <1>d, CountPositive, DinersAreFinite DEF D, Savages!Move, Savages!Goto, Savages!At
    <3>2. meals \in Nat \ {0} /\ D("empty") = 0 /\ D("full") = 0
      <4>1. D("empty") = 0 /\ D("full") = 0
        BY <1>d, <1>s, <3>1 DEF PotOfSemaphores
      <4> QED
        <5>1. /\ sem["empty"] + sem["full"] + ChefIn({"refill", "filled"}) = 0
              /\ sem["empty"] + ChefIn({"refill"}) = NoMeals
          BY <1>s, <4>1 DEF PotOfSemaphores, ChefIn
        <5>2. sem["empty"] = 0 /\ ChefIn({"refill", "filled"}) = 0
          BY <1>s, <5>1 DEF ChefIn
        <5> QED
          BY <1>s, <4>1, <5>1, <5>2 DEF ChefIn, NoMeals
    <3>3. /\ PotTyped' /\ meals' = meals - 1 /\ UNCHANGED sem
          /\ pc'[Savages!chef] = pc[Savages!chef]
      BY <2>2, <3>2, DinersAreFinite DEF Savages!Move, Savages!Goto, Savages!At, Savages!Serve,
         PotTyped, PotAt
    <3>4. Goes("take", IF meals = 1 THEN "empty" ELSE "leave")
      BY <2>0, <2>2 DEF Savages!Move
    <3>5. CASE meals = 1
      BY <1>d, <1>s, <3>2, <3>3, <3>4, <3>5 DEF Change, PotOfSemaphores, ChefIn, NoMeals
    <3>6. CASE meals # 1
      BY <1>d, <1>s, <3>2, <3>3, <3>4, <3>6 DEF Change, PotOfSemaphores, ChefIn, NoMeals
    <3> QED
      BY <3>5, <3>6
  <2>3. CASE Savages!release(d, "empty", 1, "empty", "full") /\ UNCHANGED Savages!potVars
    <3>1. /\ PotTyped' /\ meals' = meals /\ pc'[Savages!chef] = pc[Savages!chef]
          /\ sem'["empty"] = sem["empty"] + 1
          /\ sem'["mtx"] = sem["mtx"] /\ sem'["full"] = sem["full"]
      BY <2>3, DinersAreFinite DEF Savages!release, Savages!Goto, Savages!At, Savages!potVars,
         PotTyped, PotAt
    <3>2. Goes("empty", "full")
      BY <2>0, <2>3 DEF Savages!release
    <3> QED
      BY <1>d, <1>s, <3>1, <3>2 DEF Change, PotOfSemaphores, ChefIn, NoMeals
  <2>4. CASE Savages!acquire(d, "full", "full", "leave") /\ UNCHANGED Savages!potVars
    <3>1. /\ PotTyped' /\ meals' = meals /\ pc'[Savages!chef] = pc[Savages!chef]
          /\ sem["full"] > 0 /\ sem'["full"] = sem["full"] - 1
          /\ sem'["mtx"] = sem["mtx"] /\ sem'["empty"] = sem["empty"]
      BY <2>4, DinersAreFinite DEF Savages!acquire, Savages!Goto, Savages!At, Savages!potVars,
         PotTyped, PotAt
    <3>2. Goes("full", "leave")
      BY <2>0, <2>4 DEF Savages!acquire
    <3>3. /\ D("take")' = D("take") /\ D("empty")' = D("empty")
          /\ D("full")' = D("full") - 1 /\ D("leave")' = D("leave") + 1
      BY <1>d, <3>2 DEF Change
    <3> QED
      BY <1>d, <1>s, <3>1, <3>3 DEF PotOfSemaphores, ChefIn, NoMeals
  <2>5. CASE Savages!release(d, "mtx", 1, "leave", "start") /\ UNCHANGED Savages!potVars
    <3>1. /\ PotTyped' /\ meals' = meals /\ pc'[Savages!chef] = pc[Savages!chef]
          /\ sem'["mtx"] = sem["mtx"] + 1
          /\ sem'["empty"] = sem["empty"] /\ sem'["full"] = sem["full"]
      BY <2>5, DinersAreFinite DEF Savages!release, Savages!Goto, Savages!At, Savages!potVars,
         PotTyped, PotAt
    <3>2. Goes("leave", "start")
      BY <2>0, <2>5 DEF Savages!release
    <3> QED
      BY <1>d, <1>s, <3>1, <3>2 DEF Change, PotOfSemaphores, ChefIn, NoMeals
  <2> QED
    BY <1>3, <2>1, <2>2, <2>3, <2>4, <2>5 DEF Savages!diner4
<1> QED
  BY <1>1, <1>2, <1>3, DinersAreFinite DEF PotNext, Savages!Step

LEMMA PotKeeps ==
  ASSUME PotInv, InPot, PotNext, program' = program
  PROVE  PotInv' /\ Serving(Savages!servings, Savages!servings')
<1>1. CASE program = "savages_1"
  BY <1>1, PotOfMutexKeeps DEF PotInv, Savages!servings
<1>2. CASE program = "savages_2"
  BY <1>2, PotOfAtomicsKeeps DEF PotInv, Savages!servings
<1>3. CASE program = "savages_3"
  BY <1>3, PotOfBarrierKeeps DEF PotInv, Savages!servings
<1>4. CASE program = "savages_4"
  BY <1>4, PotOfSemaphoresKeeps DEF PotInv, Savages!servings
<1> QED
  BY <1>1, <1>2, <1>3, <1>4 DEF InPot

LEMMA PotIdles ==
  ASSUME PotInv, UNCHANGED allVars
  PROVE  PotInv' /\ Savages!servings' = Savages!servings
<1>1. UNCHANGED <<program, pc, sem, asleep, meals, cur_m>>
  BY DEF allVars, threadVars, tableVars, potVars
<1>2. \A l : Count(Savages!DinerThreads, pc', {l}) = Count(Savages!DinerThreads, pc, {l})
  BY <1>1
<1> QED
  BY <1>1, <1>2 DEF PotInv, PotTyped, PotOfAtomics, PotOfBarrier, PotOfSemaphores,
     ChefWaits, D, ChefIn, NoMeals, Savages!servings

LEMMA PotInvHolds == MCSpec => [](InPot => PotInv)
<1>1. MCInit => (InPot => PotInv)
  BY Starts, PotStarts
<1>2. (InPot => PotInv) /\ [MCNext]_allVars => (InPot => PotInv)'
  <2> SUFFICES ASSUME InPot => PotInv, [MCNext]_allVars, InPot'
               PROVE  PotInv'
    OBVIOUS
  <2>1. program' = program /\ InPot
    BY OneProgram DEF InPot
  <2>2. UNCHANGED allVars \/ PotNext
    BY <2>1, OneProgram DEF InPot, InSmokers, InPushers, InBoard, InBarbershop,
       InHilzer, InNorth
  <2> QED
    BY <2>1, <2>2, PotKeeps, PotIdles
<1> QED
  BY <1>1, <1>2, PTL DEF MCSpec

(* The four programs of the savages implement the pot of problems.md, for  *)
(* any number of diners and servings.                                      *)
THEOREM PotRefined == MCSpec => RefinesPot
<1>1. MCInit => PotOf!PotInit
  <2> SUFFICES ASSUME MCInit, InPot PROVE Savages!servings \in {0, M}
    BY DEF PotOf!PotInit
  <2> QED
    BY Starts DEF Savages!Init, Savages!servings
<1>2. (InPot => PotInv) /\ [MCNext]_allVars =>
        [PotOf!GetServing \/ PotOf!PutServings]_(IF InPot THEN Savages!servings ELSE 0)
  <2> SUFFICES ASSUME InPot => PotInv, [MCNext]_allVars
               PROVE  [PotOf!GetServing \/ PotOf!PutServings]_(IF InPot THEN Savages!servings ELSE 0)
    OBVIOUS
  <2>1. program' = program
    BY OneProgram
  <2>2. CASE ~InPot
    BY <2>1, <2>2 DEF InPot
  <2>3. CASE InPot
    <3>1. UNCHANGED allVars \/ PotNext
      BY <2>3, OneProgram DEF InPot, InSmokers, InPushers, InBoard, InBarbershop,
         InHilzer, InNorth
    <3>2. Serving(Savages!servings, Savages!servings')
      BY <2>1, <2>3, <3>1, PotKeeps, PotIdles DEF Serving
    <3> QED
      BY <2>1, <2>3, <3>2 DEF Serving, PotOf!GetServing, PotOf!PutServings, InPot
  <2> QED
    BY <2>2, <2>3
<1> QED
  BY <1>1, <1>2, PotInvHolds, PTL DEF MCSpec, RefinesPot, PotOf!PotSpec

-----------------------------------------------------------------------------
(* The smokers' table                                                      *)

Items == 0..2

Pair(x) == [i \in Items |-> IF i = x THEN 0 ELSE 1]

(* A step of the table of problems.md, from the items t on it and the      *)
(* pairs c taken to s and d.                                               *)
Places(patient, x, t, c, s, d) ==
  /\ patient => t = Nothing
  /\ s = [i \in Items |-> t[i] + (IF i = x THEN 0 ELSE 1)]
  /\ d = c

Takes(k, t, c, s, d) ==
  /\ \A i \in Items \ {k} : t[i] > 0
  /\ s = [i \in Items |-> t[i] - (IF i = k THEN 0 ELSE 1)]
  /\ d = [c EXCEPT ![k] = @ + 1]

Smokes(k, t, c, s, d) ==
  /\ c[k] > 0
  /\ d = [c EXCEPT ![k] = @ - 1]
  /\ s = t

Tabling(patient, t, c, s, d) ==
  \/ s = t /\ d = c
  \/ \E k \in Items : \/ Places(patient, k, t, c, s, d)
                      \/ Takes(k, t, c, s, d)
                      \/ Smokes(k, t, c, s, d)

-----------------------------------------------------------------------------
(* cigarette_smoker_1 and _2                                               *)

SmokersTyped ==
  /\ pc \in [Smokers!SmokerThreads -> {"start", "second", "smoke", "notify"}]
  /\ table \in [Items -> Nat]
  /\ item_generation \in [Items -> Nat]
  /\ generation \in Nat
  /\ agent_can_place \in BOOLEAN
  /\ seen_generation \in [Items -> Nat]
  /\ candidate_generation \in [Items -> Nat]

OnePair == table = Nothing \/ \E x \in Items : table = Pair(x)

(* Two items bear the current generation, and an item that does not has    *)
(* one of its own.  Once the agent may place again, the smoker of the last *)
(* pair has seen it; the generation that a smoker waits for a second item  *)
(* with is not that item's, and will not be.                               *)
Generated ==
  /\ \A i \in Items : item_generation[i] <= generation
  /\ \A i, j \in Items :
       i # j /\ item_generation[i] = item_generation[j] =>
         item_generation[i] = generation
  /\ generation > 0 => \E x \in Items : item_generation[x] < generation
  /\ ~agent_can_place => generation > 0
  /\ \A k \in Items :
       agent_can_place /\ (\A i \in Items \ {k} : item_generation[i] = generation) =>
         seen_generation[k] >= generation
  /\ \A k \in Items : pc[Smokers!Smoker(k)] = "second" =>
       /\ seen_generation[k] < candidate_generation[k]
       /\ candidate_generation[k] <= generation
       /\ item_generation[Smokers!item_b(k)] # candidate_generation[k]

SmokersInv ==
  /\ SmokersTyped
  /\ program = "smokers_1" => OnePair
  /\ program = "smokers_2" => Generated

LEMMA SmokersStart == Smokers!Init => SmokersInv /\ Smokers!on_table = Nothing
                                      /\ Smokers!cigarettes = Nothing
<1> SUFFICES ASSUME Smokers!Init
             PROVE  SmokersInv /\ Smokers!on_table = Nothing
                    /\ Smokers!cigarettes = Nothing
  OBVIOUS
<1> USE DEF Smokers!Init, Smokers!SmokersIdle, Smokers!Nothing, Smokers!Items,
        Nothing, Items
<1>1. \A k \in Items : pc[Smokers!Smoker(k)] = "start"
  BY DEF Smokers!SmokerThreads, Smokers!Smoker
<1>2. SmokersTyped
  BY DEF SmokersTyped
<1>3. OnePair
  BY DEF OnePair
<1>4. Generated
  BY <1>1 DEF Generated
<1>5. Smokers!on_table = Nothing /\ Smokers!cigarettes = Nothing
  BY <1>1 DEF Smokers!on_table, Smokers!cigarettes
<1> QED
  BY <1>2, <1>3, <1>4, <1>5 DEF SmokersInv

LEMMA SmokersApart ==
  /\ \A k \in Items : /\ Smokers!Smoker(k) \in Smokers!SmokerThreads
                      /\ Smokers!Smoker(k) # Smokers!agent
  /\ \A j, k \in Items : Smokers!Smoker(j) = Smokers!Smoker(k) => j = k
  /\ Smokers!agent \in Smokers!SmokerThreads
  BY DEF Smokers!SmokerThreads, Smokers!Smoker, Smokers!agent, Smokers!Items, Items

(* A smoker goes somewhere, and its cigarette with it.                     *)
LEMMA SmokerGoes ==
  ASSUME SmokersTyped, NEW k \in Items, NEW from, NEW to,
         Smokers!Goto(Smokers!Smoker(k), from, to)
  PROVE  /\ from # "smoke" /\ to = "smoke" =>
              Smokers!cigarettes' = [Smokers!cigarettes EXCEPT ![k] = @ + 1]
         /\ from = "smoke" /\ to # "smoke" =>
              /\ Smokers!cigarettes[k] > 0
              /\ Smokers!cigarettes' = [Smokers!cigarettes EXCEPT ![k] = @ - 1]
         /\ from # "smoke" /\ to # "smoke" => UNCHANGED Smokers!cigarettes
         /\ \A j \in Items : pc'[Smokers!Smoker(j)] =
                               IF j = k THEN to ELSE pc[Smokers!Smoker(j)]
         /\ pc[Smokers!Smoker(k)] = from
<1>1. /\ pc[Smokers!Smoker(k)] = from
      /\ \A j \in Items : pc'[Smokers!Smoker(j)] =
                               IF j = k THEN to ELSE pc[Smokers!Smoker(j)]
  BY SmokersApart DEF SmokersTyped, Smokers!Goto, Smokers!At
<1> DEFINE one(l) == IF l = "smoke" THEN 1 ELSE 0
<1>2. /\ Smokers!cigarettes = [j \in Items |-> one(pc[Smokers!Smoker(j)])]
      /\ Smokers!cigarettes' = [j \in Items |-> one(pc'[Smokers!Smoker(j)])]
  BY DEF Smokers!cigarettes, Items, Smokers!Items
<1>3. Smokers!cigarettes' = [Smokers!cigarettes EXCEPT ![k] = one(to)]
  BY <1>1, <1>2
<1>4. Smokers!cigarettes[k] = one(from)
  BY <1>1, <1>2
<1>5. from # "smoke" /\ to # "smoke" => UNCHANGED Smokers!cigarettes
  BY <1>1, <1>2
<1>6. CASE from # "smoke" /\ to = "smoke"
  <2>1. Smokers!cigarettes[k] = 0
    BY <1>4, <1>6
  <2>2. Smokers!cigarettes' = [Smokers!cigarettes EXCEPT ![k] = 1]
    BY <1>3, <1>6
  <2>3. Smokers!cigarettes' = [Smokers!cigarettes EXCEPT ![k] = @ + 1]
    BY <2>1, <2>2
  <2> QED
    BY <1>1, <1>6, <2>3
<1>7. CASE from = "smoke" /\ to # "smoke"
  <2>1. Smokers!cigarettes[k] = 1
    BY <1>4, <1>7
  <2>2. Smokers!cigarettes' = [Smokers!cigarettes EXCEPT ![k] = 0]
    BY <1>3, <1>7
  <2>3. Smokers!cigarettes' = [Smokers!cigarettes EXCEPT ![k] = @ - 1]
    BY <2>1, <2>2
  <2> QED
    BY <1>1, <1>7, <2>1, <2>3
<1> QED
  BY <1>1, <1>5, <1>6, <1>7

LEMMA SmokerAgentGoes ==
  ASSUME SmokersTyped, NEW from, NEW to, Smokers!Goto(Smokers!agent, from, to)
  PROVE  /\ UNCHANGED Smokers!cigarettes
         /\ \A j \in Items : pc'[Smokers!Smoker(j)] = pc[Smokers!Smoker(j)]
<1>1. \A j \in Items : pc'[Smokers!Smoker(j)] = pc[Smokers!Smoker(j)]
  BY SmokersApart DEF SmokersTyped, Smokers!Goto, Smokers!At
<1> QED
  BY <1>1 DEF Smokers!cigarettes, Items, Smokers!Items

LEMMA Smokers1Keep ==
  ASSUME SmokersTyped, OnePair, program = "smokers_1", SmokersNext
  PROVE  /\ SmokersTyped' /\ OnePair'
         /\ Tabling(TRUE, table, Smokers!cigarettes, table', Smokers!cigarettes')
<1> DEFINE Goal ==
      /\ SmokersTyped' /\ OnePair'
      /\ Tabling(TRUE, table, Smokers!cigarettes, table', Smokers!cigarettes')
<1> USE SmokersApart DEF SmokersTyped, Nothing, Smokers!Nothing, Items, Smokers!Items
<1>1. CASE Smokers!Spurious
  BY <1>1 DEF Smokers!Spurious, Smokers!WakesSpuriously, Smokers!smokerVars,
     Smokers!itemVars, Smokers!localVars, OnePair, Tabling, Smokers!cigarettes
<1>2. ASSUME NEW x \in Items, Smokers!AgentPlaces1(x) PROVE Goal
  <2>1. UNCHANGED Smokers!cigarettes
    BY <1>2, SmokerAgentGoes DEF Smokers!AgentPlaces1, Smokers!Move
  <2>2. table' = Pair(x) /\ table = Nothing /\ SmokersTyped'
    BY <1>2 DEF Smokers!AgentPlaces1, Smokers!Move, Smokers!Goto, Smokers!localVars,
       Pair
  <2>3. Places(TRUE, x, table, Smokers!cigarettes, table', Smokers!cigarettes')
    BY <2>1, <2>2 DEF Places, Pair
  <2> QED
    BY <2>2, <2>3 DEF OnePair, Tabling
<1>3. CASE Smokers!agent1
  <2>1. CASE Smokers!Sleep(Smokers!agent, "start", Smokers!agent_places_cv)
             /\ UNCHANGED Smokers!smokerVars
    BY <2>1 DEF Smokers!Sleep, Smokers!smokerVars, Smokers!itemVars,
       Smokers!localVars, OnePair, Tabling, Smokers!cigarettes
  <2>2. CASE Smokers!notify_all(Smokers!agent, Smokers!smokers_picks_cv, "notify", "start")
             /\ UNCHANGED Smokers!smokerVars
    <3>1. UNCHANGED Smokers!cigarettes
      BY <2>2, SmokerAgentGoes DEF Smokers!notify_all
    <3> QED
      BY <2>2, <3>1 DEF Smokers!notify_all, Smokers!Goto, Smokers!smokerVars,
         Smokers!itemVars, Smokers!localVars, OnePair, Tabling
  <2> QED
    BY <1>2, <1>3, <2>1, <2>2 DEF Smokers!agent1
<1>4. ASSUME NEW k \in Items, Smokers!smoker1(k) PROVE Goal
  <2>1. CASE /\ Smokers!CompleteFor(k)
             /\ Smokers!Move(Smokers!Smoker(k), "start", "smoke")
             /\ table' = Smokers!Nothing
             /\ UNCHANGED <<item_generation, generation, agent_can_place, Smokers!localVars>>
    <3>1. Smokers!cigarettes' = [Smokers!cigarettes EXCEPT ![k] = @ + 1]
      BY <2>1, SmokerGoes DEF Smokers!Move
    <3>2. table = Pair(k)
      BY <2>1 DEF OnePair, Pair, Smokers!CompleteFor
    <3>3. Takes(k, table, Smokers!cigarettes, table', Smokers!cigarettes')
      BY <2>1, <3>1, <3>2 DEF Takes, Pair
    <3> QED
      BY <2>1, <3>3 DEF Smokers!Move, Smokers!Goto, Smokers!localVars, OnePair, Tabling
  <2>2. CASE Smokers!Sleep(Smokers!Smoker(k), "start", Smokers!smokers_picks_cv)
             /\ UNCHANGED Smokers!smokerVars
    BY <2>2 DEF Smokers!Sleep, Smokers!smokerVars, Smokers!itemVars,
       Smokers!localVars, OnePair, Tabling, Smokers!cigarettes
  <2>3. CASE Smokers!notify_one(Smokers!Smoker(k), Smokers!agent_places_cv, "smoke", "start")
             /\ UNCHANGED Smokers!smokerVars
    <3>1. /\ Smokers!cigarettes[k] > 0
          /\ Smokers!cigarettes' = [Smokers!cigarettes EXCEPT ![k] = @ - 1]
      BY <2>3, SmokerGoes DEF Smokers!notify_one
    <3> QED
      BY <2>3, <3>1 DEF Smokers!notify_one, Smokers!Goto, Smokers!smokerVars,
         Smokers!itemVars, Smokers!localVars, OnePair, Tabling, Smokes
  <2> QED
    BY <1>4, <2>1, <2>2, <2>3 DEF Smokers!smoker1
<1> QED
  BY <1>1, <1>3, <1>4 DEF SmokersNext, Smokers!Step

(* Of two smokers only one finds both items of the current generation.     *)
LEMMA OnePairIsCurrent ==
  ASSUME SmokersTyped, Generated, NEW k \in Items, generation > 0,
         \A i \in Items \ {k} : item_generation[i] = generation
  PROVE  item_generation[k] < generation
  BY DEF SmokersTyped, Generated, Items

LEMMA ItemsOfSmoker ==
  ASSUME NEW k \in Items
  PROVE  Items \ {k} = {Smokers!item_a(k), Smokers!item_b(k)}
         /\ Smokers!item_a(k) \in Items /\ Smokers!item_b(k) \in Items
         /\ Smokers!item_a(k) # Smokers!item_b(k)
  BY DEF Items, Smokers!item_a, Smokers!item_b

Smoke2Goal ==
  /\ SmokersTyped' /\ Generated'
  /\ Tabling(TRUE, Smokers!on_table, Smokers!cigarettes,
             Smokers!on_table', Smokers!cigarettes')

LEMMA SecondKeeps ==
  ASSUME SmokersTyped, Generated, program = "smokers_2", program' = program,
         NEW k \in Items, NEW from \in {"start", "second"}, NEW g \in Nat,
         Smokers!SecondItem(k, from, g),
         g > seen_generation[k], g <= generation,
         from = "start" => g = item_generation[Smokers!item_a(k)],
         from = "second" => item_generation[Smokers!item_b(k)] # g
  PROVE  Smoke2Goal
<1> DEFINE a == Smokers!item_a(k)
           b == Smokers!item_b(k)
           me == Smokers!Smoker(k)
<1>k. /\ Items \ {k} = {a, b} /\ a \in Items /\ b \in Items /\ a # b
  BY ItemsOfSmoker
<1>0. /\ UNCHANGED <<table, item_generation, generation, to_notify>>
      /\ candidate_generation' = [candidate_generation EXCEPT ![k] = g]
      /\ pc[me] = from
  BY DEF Smokers!SecondItem, Smokers!At
<1>t. UNCHANGED agent_can_place => UNCHANGED Smokers!on_table
  BY <1>0 DEF Smokers!on_table
<1> HIDE DEF a, b, me
<1>1. CASE item_generation[b] < g
  <2>1. /\ pc' = [pc EXCEPT ![me] = "second"]
        /\ UNCHANGED <<agent_can_place, seen_generation>>
    BY <1>1 DEF Smokers!SecondItem, b, me
  <2>2. Smokers!Goto(me, from, "second")
    BY <2>1 DEF Smokers!SecondItem, Smokers!Goto, me
  <2>3. /\ \A j \in Items : pc'[Smokers!Smoker(j)] =
                              IF j = k THEN "second" ELSE pc[Smokers!Smoker(j)]
        /\ UNCHANGED Smokers!cigarettes
    BY <2>2, SmokerGoes DEF me
  <2>4. SmokersTyped'
    BY <1>0, <2>1 DEF SmokersTyped
  <2>5. Generated'
    BY <1>0, <1>1, <1>k, <2>1, <2>3 DEF Generated, SmokersTyped, b
  <2> QED
    BY <1>t, <2>1, <2>3, <2>4, <2>5 DEF Smoke2Goal, Tabling
<1>2. CASE ~(item_generation[b] < g) /\ item_generation[b] # g
  <2>1. /\ pc' = [pc EXCEPT ![me] = "start"]
        /\ seen_generation' = [seen_generation EXCEPT ![k] = g]
        /\ UNCHANGED agent_can_place
    BY <1>2 DEF Smokers!SecondItem, Smokers!SameGeneration, b, me
  <2>2. Smokers!Goto(me, from, "start")
    BY <2>1 DEF Smokers!SecondItem, Smokers!Goto, me
  <2>3. /\ \A j \in Items : pc'[Smokers!Smoker(j)] =
                              IF j = k THEN "start" ELSE pc[Smokers!Smoker(j)]
        /\ UNCHANGED Smokers!cigarettes
    BY <2>2, SmokerGoes DEF me
  <2>4. SmokersTyped'
    BY <1>0, <2>1 DEF SmokersTyped
  <2>5. Generated'
    BY <1>0, <2>1, <2>3 DEF Generated, SmokersTyped
  <2> QED
    BY <1>t, <2>1, <2>3, <2>4, <2>5 DEF Smoke2Goal, Tabling
<1>3. CASE item_generation[b] = g
  <2>0. from = "start" /\ item_generation[a] = g
    BY <1>3 DEF a, b
  <2>1. g = generation
    BY <1>3, <1>k, <2>0 DEF Generated
  <2>2. \A i \in Items \ {k} : item_generation[i] = generation
    BY <1>3, <1>k, <2>0, <2>1
  <2>3. ~agent_can_place /\ generation > 0
    BY <2>1, <2>2 DEF Generated, SmokersTyped
  <2>4. item_generation[k] < generation
    BY <2>2, <2>3, OnePairIsCurrent
  <2>5. /\ pc' = [pc EXCEPT ![me] = "smoke"]
        /\ seen_generation' = [seen_generation EXCEPT ![k] = g]
        /\ agent_can_place' = TRUE
    BY <1>3, <2>1, <2>3 DEF Smokers!SecondItem, Smokers!SameGeneration, SmokersTyped, b, me
  <2>6. Smokers!Goto(me, from, "smoke")
    BY <2>5 DEF Smokers!SecondItem, Smokers!Goto, me
  <2>7. /\ \A j \in Items : pc'[Smokers!Smoker(j)] =
                              IF j = k THEN "smoke" ELSE pc[Smokers!Smoker(j)]
        /\ Smokers!cigarettes' = [Smokers!cigarettes EXCEPT ![k] = @ + 1]
    BY <2>0, <2>6, SmokerGoes DEF me
  <2>8. SmokersTyped'
    BY <1>0, <2>5 DEF SmokersTyped
  <2>9. Generated'
    <3>1. ASSUME NEW j \in Items, j # k,
                 \A i \in Items \ {j} : item_generation[i] = generation
          PROVE  FALSE
      BY <2>4, <3>1 DEF SmokersTyped
    <3> QED
      BY <1>0, <2>1, <2>3, <2>5, <2>7, <3>1 DEF Generated, SmokersTyped
  <2>10. Smokers!on_table = Pair(k) /\ Smokers!on_table' = Nothing
    BY <1>0, <2>2, <2>3, <2>4, <2>5
    DEF Smokers!on_table, Pair, Nothing, Smokers!Items, Smokers!Nothing, Items,
        SmokersTyped
  <2>11. Takes(k, Smokers!on_table, Smokers!cigarettes,
               Smokers!on_table', Smokers!cigarettes')
    BY <2>7, <2>10 DEF Takes, Pair, Nothing, Smokers!Items, Smokers!Nothing, Items
  <2> QED
    BY <2>8, <2>9, <2>11 DEF Smoke2Goal, Tabling
<1> QED
  BY <1>1, <1>2, <1>3

LEMMA Smokers2Keep ==
  ASSUME SmokersTyped, Generated, program = "smokers_2", SmokersNext,
         program' = program
  PROVE  Smoke2Goal
<1>0. ASSUME UNCHANGED Smokers!smokerVars,
             \A j \in Items : pc'[Smokers!Smoker(j)] = pc[Smokers!Smoker(j)],
             pc' \in [Smokers!SmokerThreads -> {"start", "second", "smoke", "notify"}]
      PROVE  SmokersTyped' /\ Generated' /\ UNCHANGED Smokers!on_table
  BY <1>0 DEF SmokersTyped, Generated, Smokers!on_table, Smokers!smokerVars,
     Smokers!itemVars, Smokers!localVars
<1>1. CASE Smokers!Spurious
  BY <1>0, <1>1 DEF Smokers!Spurious, Smokers!WakesSpuriously, Smoke2Goal, Tabling,
     Smokers!cigarettes, SmokersTyped
<1>2. ASSUME NEW x \in Items, Smokers!AgentPlaces2(x) PROVE Smoke2Goal
  <2>1. /\ UNCHANGED Smokers!cigarettes
        /\ \A j \in Items : pc'[Smokers!Smoker(j)] = pc[Smokers!Smoker(j)]
    BY <1>2, SmokerAgentGoes DEF Smokers!AgentPlaces2, Smokers!Move
  <2>2. /\ agent_can_place = TRUE /\ agent_can_place' = FALSE
        /\ generation' = generation + 1
        /\ \A i \in Items : item_generation'[i] =
             IF i = x THEN item_generation[i] ELSE generation + 1
        /\ UNCHANGED <<table, seen_generation, candidate_generation>>
    BY <1>2 DEF Smokers!AgentPlaces2, Smokers!Items, Items, SmokersTyped
  <2>3. SmokersTyped'
    <3>1. pc' \in [Smokers!SmokerThreads -> {"start", "second", "smoke", "notify"}]
      BY <1>2, SmokersApart DEF Smokers!AgentPlaces2, Smokers!Move, Smokers!Goto,
         SmokersTyped
    <3>2. item_generation' \in [Items -> Nat] /\ generation' \in Nat
      BY <1>2 DEF Smokers!AgentPlaces2, SmokersTyped, Items, Smokers!Items
    <3> QED
      BY <2>2, <3>1, <3>2 DEF SmokersTyped
  <2>4. Generated'
    <3>1. \A k \in Items : Smokers!item_b(k) \in Items
      BY ItemsOfSmoker
    <3>2. \A i \in Items : item_generation'[i] <= generation'
      BY <2>2 DEF Generated, SmokersTyped
    <3>3. \A i, j \in Items :
            i # j /\ item_generation'[i] = item_generation'[j] =>
              item_generation'[i] = generation'
      BY <2>2 DEF Generated, SmokersTyped
    <3>4. item_generation'[x] < generation' /\ generation' > 0
      BY <2>2 DEF Generated, SmokersTyped
    <3>5. \A k \in Items : pc'[Smokers!Smoker(k)] = "second" =>
            /\ seen_generation'[k] < candidate_generation'[k]
            /\ candidate_generation'[k] <= generation'
            /\ item_generation'[Smokers!item_b(k)] # candidate_generation'[k]
      BY <2>1, <2>2, <3>1 DEF Generated, SmokersTyped
    <3> QED
      BY <2>2, <3>2, <3>3, <3>4, <3>5 DEF Generated
  <2>5. Smokers!on_table = Nothing /\ Smokers!on_table' = Pair(x)
    <3>1. item_generation[x] # generation + 1
      BY DEF Generated, SmokersTyped
    <3> QED
      BY <2>2, <3>1 DEF Smokers!on_table, Nothing, Smokers!Nothing, Smokers!Items,
         Pair, Items
  <2>6. Places(TRUE, x, Smokers!on_table, Smokers!cigarettes,
               Smokers!on_table', Smokers!cigarettes')
    BY <2>1, <2>5 DEF Places, Pair, Nothing, Smokers!Nothing, Smokers!Items, Items
  <2> QED
    BY <2>3, <2>4, <2>6 DEF Smoke2Goal, Tabling
<1>3. ASSUME NEW i \in Items, Smokers!AgentNotifies2(i) PROVE Smoke2Goal
  <2>1. /\ UNCHANGED Smokers!cigarettes
        /\ \A j \in Items : pc'[Smokers!Smoker(j)] = pc[Smokers!Smoker(j)]
    BY <1>3, SmokerAgentGoes DEF Smokers!AgentNotifies2, Smokers!notify_all
  <2>2. SmokersTyped' /\ Generated' /\ UNCHANGED Smokers!on_table
    BY <1>3, <2>1 DEF Smokers!AgentNotifies2, Smokers!notify_all, Smokers!Goto,
       Smokers!itemVars, SmokersTyped, Generated, Smokers!on_table
  <2> QED
    BY <2>1, <2>2 DEF Smoke2Goal, Tabling
<1>4. ASSUME UNCHANGED Smokers!smokerVars,
             Smokers!Sleep(Smokers!agent, "start", Smokers!agent_places_cv) \/
             \E k \in Items :
               Smokers!Sleep(Smokers!Smoker(k), "start", Smokers!item_cv(Smokers!item_a(k)))
      PROVE  Smoke2Goal
  BY <1>0, <1>4 DEF Smokers!Sleep, Smoke2Goal, Tabling, Smokers!cigarettes, SmokersTyped
<1>5. ASSUME NEW k \in Items, Smokers!smoker2(k) PROVE Smoke2Goal
  <2> DEFINE first == item_generation[Smokers!item_a(k)]
  <2>1. CASE first > seen_generation[k] /\ Smokers!SecondItem(k, "start", first)
    <3>1. first \in Nat /\ first <= generation
      BY ItemsOfSmoker DEF SmokersTyped, Generated
    <3> QED
      BY <2>1, <3>1, SecondKeeps
  <2>2. CASE Smokers!SecondItem(k, "second", candidate_generation[k])
    <3>1. /\ candidate_generation[k] \in Nat /\ seen_generation[k] \in Nat
          /\ candidate_generation[k] <= generation
          /\ candidate_generation[k] > seen_generation[k]
          /\ item_generation[Smokers!item_b(k)] # candidate_generation[k]
      BY <2>2 DEF Smokers!SecondItem, Smokers!At, SmokersTyped, Generated
    <3> QED
      BY <2>2, <3>1, SecondKeeps
  <2>3. CASE /\ Smokers!Sleep(Smokers!Smoker(k), "start", Smokers!item_cv(Smokers!item_a(k)))
             /\ UNCHANGED Smokers!smokerVars
    BY <1>4, <2>3
  <2>4. CASE /\ Smokers!notify_one(Smokers!Smoker(k), Smokers!agent_places_cv, "smoke", "start")
             /\ UNCHANGED Smokers!smokerVars
    <3>1. /\ Smokers!cigarettes[k] > 0
          /\ Smokers!cigarettes' = [Smokers!cigarettes EXCEPT ![k] = @ - 1]
          /\ \A j \in Items : pc'[Smokers!Smoker(j)] =
                                IF j = k THEN "start" ELSE pc[Smokers!Smoker(j)]
      BY <2>4, SmokerGoes DEF Smokers!notify_one
    <3>2. SmokersTyped' /\ Generated' /\ UNCHANGED Smokers!on_table
      BY <2>4, <3>1 DEF Smokers!notify_one, Smokers!Goto, Smokers!smokerVars,
         Smokers!itemVars, Smokers!localVars, SmokersTyped, Generated, Smokers!on_table
    <3> QED
      BY <3>1, <3>2 DEF Smoke2Goal, Tabling, Smokes
  <2> QED
    BY <1>5, <2>1, <2>2, <2>3, <2>4 DEF Smokers!smoker2
<1>6. CASE Smokers!agent2
  BY <1>2, <1>3, <1>4, <1>6 DEF Smokers!agent2, Smokers!Items, Items
<1> QED
  BY <1>1, <1>5, <1>6 DEF SmokersNext, Smokers!Step, Smokers!Items, Items

-----------------------------------------------------------------------------
(* cigarette_smoker_3, _3_1 and _hard                                      *)

PT == Pushers!PusherThreads
Agent == Pushers!agent
Pusher(i) == Pushers!Pusher(i)
PSmoker(k) == Pushers!Smoker(k)

PushersTyped ==
  /\ pc \in [PT -> {"start", "announce", "push", "wake", "clear", "smoke"}]
  /\ sem \in [PT -> Nat]
  /\ table \in [Items -> Nat]
  /\ push_pending \in [Items -> Nat]
  /\ agent_can_place \in BOOLEAN
  /\ to_announce \in SUBSET Items
  /\ notif \in [Items -> 0..3]
  /\ pc[Agent] = "start" => to_announce = {}
  /\ \A i \in Items : notif[i] = 3 <=> pc[Pusher(i)] # "wake"
  /\ \A k \in Items : pc[PSmoker(k)] = "clear" => program = "smokers_3_1"

(* How many of item i are on the table, or on their way to it.             *)
Lies(i) ==
  table[i] + push_pending[i] +
  (IF program = "smokers_3" THEN 0
   ELSE (IF i \in to_announce THEN 1 ELSE 0) + sem[Pusher(i)] +
        (IF pc[Pusher(i)] = "push" THEN 1 ELSE 0))

Taken(k) ==
  (IF pc[PSmoker(k)] = "smoke" THEN 1 ELSE 0) +
  (IF program = "smokers_hard" THEN sem[PSmoker(k)] + Count(Items, notif, {k}) ELSE 0)

NothingLies == Pushers!on_table = Nothing
PairLies(x) == Pushers!on_table = Pair(x)

(* One round at a time: nothing, or a pair, until its smoker takes it.     *)
ByConditions ==
  \/ agent_can_place /\ NothingLies
  \/ ~agent_can_place /\ \E x \in Items : PairLies(x)

NobodyNotified == \A i \in Items : notif[i] = 3
SmokersStand(k, l) ==
  \A j \in Items : pc[PSmoker(j)] = IF j = k THEN l ELSE "start"
SmokersHave(k, n) ==
  \A j \in Items : sem[PSmoker(j)] = IF j = k THEN n ELSE 0

PairComes(x) ==
  /\ PairLies(x) /\ NobodyNotified
  /\ SmokersHave(x, 0) /\ SmokersStand(x, "start")
  /\ \E i \in Items \ {x} : table[i] = 0

(* The signal of smokers_3_1 is with the agent, with the pusher that finds *)
(* the pair, or with the smoker.                                           *)
PairComplete(x) ==
  /\ PairLies(x)
  /\ \A i \in Items : table[i] = IF i = x THEN 0 ELSE 1
  /\ \/ /\ \E i \in Items : \A j \in Items : notif[j] = IF j = i THEN x ELSE 3
        /\ SmokersHave(x, 0) /\ SmokersStand(x, "start")
     \/ NobodyNotified /\ SmokersHave(x, 1) /\ SmokersStand(x, "start")
     \/ NobodyNotified /\ SmokersHave(x, 0) /\ SmokersStand(x, "clear")

BySemaphores ==
  \/ /\ sem[Agent] = 1 /\ NothingLies /\ NobodyNotified
     /\ SmokersHave(0, 0) /\ SmokersStand(0, "start")
  \/ /\ sem[Agent] = 0
     /\ \E x \in Items :
          \/ PairComes(x)
          \/ PairComplete(x)
          \/ NothingLies /\ NobodyNotified /\ SmokersHave(x, 0) /\ SmokersStand(x, "smoke")

(* In the harder variant pairs leave the table at once.                    *)
OneKind == \A i, j \in Items : table[i] > 0 /\ table[j] > 0 => i = j

PushersInv ==
  /\ PushersTyped
  /\ program = "smokers_3" => ByConditions
  /\ program # "smokers_3" => \A i \in Items : push_pending[i] = 0
  /\ program = "smokers_3_1" => BySemaphores
  /\ program = "smokers_hard" => OneKind

LEMMA PushersApart ==
  /\ Agent \in PT
  /\ \A i \in Items : /\ Pusher(i) \in PT /\ PSmoker(i) \in PT
                      /\ Pusher(i) # Agent /\ PSmoker(i) # Agent
  /\ \A i, j \in Items : /\ Pusher(i) # PSmoker(j)
                         /\ Pusher(i) = Pusher(j) => i = j
                         /\ PSmoker(i) = PSmoker(j) => i = j
  BY DEF PT, Agent, Pusher, PSmoker, Pushers!PusherThreads, Pushers!agent,
     Pushers!Pusher, Pushers!Smoker, Pushers!Items, Items

LEMMA ItemsAreFinite == IsFiniteSet(Items) /\ Cardinality(Items) = 3
<1>1. IsFiniteSet({0}) /\ Cardinality({0}) = 1
  BY FS_Singleton
<1>2. IsFiniteSet({0} \cup {1}) /\ Cardinality({0} \cup {1}) = 2
  BY <1>1, FS_AddElement
<1>3. IsFiniteSet(({0} \cup {1}) \cup {2}) /\ Cardinality(({0} \cup {1}) \cup {2}) = 3
  <2>1. 2 \notin {0} \cup {1}
    OBVIOUS
  <2> QED
    BY <1>2, <2>1, FS_AddElement
<1>4. Items = ({0} \cup {1}) \cup {2}
  BY DEF Items
<1> QED
  BY <1>3, <1>4

LEMMA TwoKinds ==
  ASSUME NEW K \in SUBSET Items
  PROVE  Cardinality(K) = 2 <=> \E m \in Items : K = Items \ {m}
<1>1. IsFiniteSet(Items \ K) /\ Cardinality(Items \ K) = 3 - Cardinality(Items \cap K)
  BY ItemsAreFinite, FS_Difference
<1>2. Items \cap K = K /\ IsFiniteSet(K) /\ Cardinality(K) \in Nat
  BY ItemsAreFinite, FS_Subset, FS_CardinalityType
<1>3. Cardinality(K) = 2 <=> Cardinality(Items \ K) = 1
  <2>1. Cardinality(Items \ K) = 3 - Cardinality(K)
    BY <1>1, <1>2
  <2> QED
    BY <1>2, <2>1
<1>4. Cardinality(Items \ K) = 1 <=> \E m : Items \ K = {m}
  BY <1>1, FS_Singleton
<1>5. \A m : Items \ K = {m} <=> m \in Items /\ K = Items \ {m}
  OBVIOUS
<1> QED
  BY <1>3, <1>4, <1>5

(* What lies, and what is taken, as functions.                             *)
LEMMA HowManyIsCount ==
  \A f, x : Pushers!HowMany(f, x) = Count(Items, f, {x})
<1> SUFFICES ASSUME NEW f, NEW x
             PROVE  Pushers!HowMany(f, x) = Count(Items, f, {x})
  OBVIOUS
<1>1. {i \in Pushers!Items : f[i] = x} = Standing(Items, f, {x})
  BY DEF Standing, Items, Pushers!Items
<1>2. Pushers!HowMany(f, x) = Cardinality({i \in Pushers!Items : f[i] = x})
  BY DEF Pushers!HowMany, Pushers!Cardinality, Cardinality
<1>3. Count(Items, f, {x}) = Cardinality(Standing(Items, f, {x}))
  BY DEF Count
<1> QED
  BY <1>1, <1>2, <1>3

LEMMA PushersView ==
  /\ Pushers!on_table = [i \in Items |-> Lies(i)]
  /\ Pushers!cigarettes = [k \in Items |-> Taken(k)]
<1>1. Pushers!on_table = [i \in Items |-> Lies(i)]
  BY DEF Pushers!on_table, Lies, Items, Pushers!Items, Pusher, Pushers!waits, Pushers!If
<1>2. Pushers!cigarettes = [k \in Items |-> Taken(k)]
  BY HowManyIsCount DEF Pushers!cigarettes, Taken, Items, Pushers!Items, PSmoker,
     Pushers!hard, Pushers!If
<1> QED
  BY <1>1, <1>2

LEMMA PushersViewNext ==
  /\ Pushers!on_table' = [i \in Items |-> Lies(i)']
  /\ Pushers!cigarettes' = [k \in Items |-> Taken(k)']
<1>1. Pushers!on_table' = [i \in Items |-> Lies(i)']
  BY DEF Pushers!on_table, Lies, Items, Pushers!Items, Pusher, Pushers!waits, Pushers!If
<1>2. Pushers!cigarettes' = [k \in Items |-> Taken(k)']
  BY HowManyIsCount DEF Pushers!cigarettes, Taken, Items, Pushers!Items, PSmoker,
     Pushers!hard, Pushers!If
<1> QED
  BY <1>1, <1>2

LEMMA PushersStart ==
  Pushers!Init => PushersInv /\ Pushers!on_table = Nothing /\ Pushers!cigarettes = Nothing
<1> SUFFICES ASSUME Pushers!Init
             PROVE  PushersInv /\ Pushers!on_table = Nothing
                    /\ Pushers!cigarettes = Nothing
  OBVIOUS
<1> USE DEF Pushers!Init, Pushers!PushersIdle, Pushers!Nothing, Pushers!Items,
        Pushers!Nobody, Items
<1>1. /\ \A t \in PT : pc[t] = "start" /\ sem[t] = IF t = Agent THEN 1 ELSE 0
      /\ \A i \in Items : table[i] = 0 /\ push_pending[i] = 0 /\ notif[i] = 3
      /\ to_announce = {} /\ agent_can_place = TRUE
  BY DEF PT, Agent
<1>2. PushersTyped
  BY <1>1, PushersApart DEF PushersTyped, PT
<1>3. \A i \in Items : Lies(i) = 0
  BY <1>1, PushersApart DEF Lies
<1>4. \A k \in Items : Count(Items, notif, {k}) = 0
  BY <1>1, ItemsAreFinite, CountZero
<1>5. \A k \in Items : Taken(k) = 0
  <2>1. \A k \in Items : pc[PSmoker(k)] = "start" /\ sem[PSmoker(k)] = 0
    BY <1>1, PushersApart
  <2>2. ASSUME NEW k \in Items PROVE Taken(k) = 0
    <3>1. Count(Items, notif, {k}) = 0
      BY <1>4
    <3> QED
      BY <2>1, <3>1 DEF Taken
  <2> QED
    BY <2>2
<1>6. Pushers!on_table = Nothing /\ Pushers!cigarettes = Nothing
  BY <1>3, <1>5, PushersView DEF Nothing, Smokers!Nothing, Smokers!Items
<1>7. ByConditions /\ BySemaphores /\ OneKind
  BY <1>1, <1>6, PushersApart DEF ByConditions, BySemaphores, OneKind, NothingLies,
     NobodyNotified, SmokersHave, SmokersStand
<1> QED
  BY <1>1, <1>2, <1>6, <1>7 DEF PushersInv

LEMMA PushersGo ==
  ASSUME PushersTyped, NEW t \in PT, NEW from,
         NEW to \in {"start", "announce", "push", "wake", "clear", "smoke"},
         Pushers!Goto(t, from, to)
  PROVE  /\ pc[t] = from
         /\ pc' \in [PT -> {"start", "announce", "push", "wake", "clear", "smoke"}]
         /\ \A u \in PT : pc'[u] = IF u = t THEN to ELSE pc[u]
  BY DEF PushersTyped, Pushers!Goto, Pushers!At

(* With item i there are two kinds on the table: all but m.                *)
Filled(i, j) == table[j] + (IF j = i THEN 1 ELSE 0)
AllBut(i, m) == \A j \in Items : Filled(i, j) > 0 <=> j # m

LEMMA PushDoes ==
  ASSUME PushersTyped, NEW i \in Items, NEW from, Pushers!Push(i, from)
  PROVE  \/ /\ ~ \E m \in Items : AllBut(i, m)
            /\ Pushers!Goto(Pusher(i), from, "start")
            /\ table' = [j \in Items |-> Filled(i, j)]
            /\ Moves(i, 3, notif, notif')
         \/ \E m \in Items :
              /\ AllBut(i, m)
              /\ Pushers!Goto(Pusher(i), from, "wake")
              /\ table' = [j \in Items |->
                   Filled(i, j) - (IF program = "smokers_hard" /\ j # m THEN 1 ELSE 0)]
              /\ Moves(i, m, notif, notif')
<1> DEFINE filled == [table EXCEPT ![i] = @ + 1]
           kinds == {j \in Items : filled[j] > 0}
           two == Cardinality(kinds) = 2
           missing == CHOOSE k \in Items : k \notin kinds
<1>1. /\ Pushers!Goto(Pusher(i), from, IF two THEN "wake" ELSE "start")
      /\ table' = IF program = "smokers_hard" /\ two
                  THEN [j \in Items |-> filled[j] - (IF j \in kinds THEN 1 ELSE 0)]
                  ELSE filled
      /\ notif' = [notif EXCEPT ![i] = IF two THEN missing ELSE 3]
  BY DEF Pushers!Push, Pushers!Move, Pusher, Pushers!Items, Items, Pushers!Reserves,
     Pushers!hard, Pushers!Nobody, Pushers!Cardinality, Cardinality
<1>2. filled = [j \in Items |-> Filled(i, j)]
  <2>1. filled \in [Items -> Nat] /\ \A j \in Items : table[j] \in Nat
    BY DEF PushersTyped
  <2>2. \A j \in Items : j = i => filled[j] = Filled(i, j)
    BY <2>1 DEF Filled, PushersTyped
  <2>3. \A j \in Items : j # i => filled[j] = Filled(i, j)
    BY <2>1 DEF Filled, PushersTyped
  <2> QED
    BY <2>1, <2>2, <2>3
<1>3. \A m \in Items : AllBut(i, m) <=> kinds = Items \ {m}
  BY <1>2 DEF AllBut
<1>4. two <=> \E m \in Items : AllBut(i, m)
  BY <1>3, TwoKinds
<1>5. \A m \in Items : AllBut(i, m) => missing = m
  BY <1>3
<1>6. CASE ~two
  BY <1>1, <1>2, <1>4, <1>6 DEF Moves, PushersTyped
<1>7. CASE two
  <2>1. PICK m \in Items : AllBut(i, m)
    BY <1>4, <1>7
  <2>2. missing = m /\ kinds = Items \ {m}
    BY <1>3, <1>5, <2>1
  <2>3. table' = [j \in Items |->
                   Filled(i, j) - (IF program = "smokers_hard" /\ j # m THEN 1 ELSE 0)]
    <3>1. CASE program = "smokers_hard"
      BY <1>1, <1>2, <1>7, <2>2, <3>1
    <3>2. CASE program # "smokers_hard"
      BY <1>1, <1>2, <1>7, <3>2 DEF Filled, PushersTyped
    <3> QED
      BY <3>1, <3>2
  <2>4. Moves(i, m, notif, notif')
    BY <1>1, <1>7, <2>2 DEF Moves, PushersTyped
  <2> QED
    BY <1>1, <1>7, <2>1, <2>3, <2>4
<1> QED
  BY <1>6, <1>7

(* The agent's steps.                                                      *)
LEMMA PusherAgentPlaces ==
  ASSUME PushersTyped, program' = program, InPushers, NEW x \in Items,
         Pushers!AgentPlaces(x)
  PROVE  /\ PushersTyped'
         /\ pc[Agent] = "start"
         /\ \A u \in PT : pc'[u] = IF u = Agent THEN "announce" ELSE pc[u]
         /\ UNCHANGED <<table, notif>>
         /\ \A i \in Items : sem'[Pusher(i)] = sem[Pusher(i)]
         /\ \A k \in Items : sem'[PSmoker(k)] = sem[PSmoker(k)]
         /\ Pushers!on_table' =
              [i \in Items |-> Pushers!on_table[i] + (IF i = x THEN 0 ELSE 1)]
         /\ UNCHANGED Pushers!cigarettes
<1>1. Pushers!Goto(Agent, "start", "announce")
  BY DEF Pushers!AgentPlaces, Pushers!Move, Pushers!acquire, Agent
<1>2. /\ pc[Agent] = "start"
      /\ pc' \in [PT -> {"start", "announce", "push", "wake", "clear", "smoke"}]
      /\ \A u \in PT : pc'[u] = IF u = Agent THEN "announce" ELSE pc[u]
  BY <1>1, PushersGo, PushersApart
<1>3. /\ to_announce = {} /\ to_announce' = Items \ {x}
      /\ UNCHANGED <<table, notif>>
  BY <1>2 DEF Pushers!AgentPlaces, PushersTyped, Items, Pushers!Items
<1>4. /\ sem' \in [PT -> Nat]
      /\ \A i \in Items : sem'[Pusher(i)] = sem[Pusher(i)]
      /\ \A i \in Items : sem'[PSmoker(i)] = sem[PSmoker(i)]
  BY PushersApart DEF Pushers!AgentPlaces, Pushers!Move, Pushers!acquire, Agent,
     PushersTyped
<1>5. /\ push_pending' \in [Items -> Nat] /\ agent_can_place' \in BOOLEAN
      /\ \A i \in Items : push_pending'[i] = push_pending[i] +
           (IF program = "smokers_3" /\ i # x THEN 1 ELSE 0)
  <2>1. CASE program = "smokers_3"
    <3>1. /\ agent_can_place' = FALSE
          /\ push_pending' = [i \in Items |-> push_pending[i] + (IF i = x THEN 0 ELSE 1)]
      BY <2>1 DEF Pushers!AgentPlaces, Pushers!waits, Pushers!hard, Pushers!Items, Items
    <3>2. \A i \in Items : push_pending[i] \in Nat
      BY DEF PushersTyped
    <3>3. push_pending' \in [Items -> Nat]
      BY <3>1, <3>2
    <3>4. \A i \in Items : push_pending'[i] = push_pending[i] + (IF i = x THEN 0 ELSE 1)
      BY <3>1
    <3> QED
      BY <2>1, <3>1, <3>3, <3>4
  <2>2. CASE program # "smokers_3"
    BY <2>2 DEF Pushers!AgentPlaces, Pushers!waits, PushersTyped
  <2> QED
    BY <2>1, <2>2
<1>6. \A i \in Items : pc'[Pusher(i)] = pc[Pusher(i)] /\ pc'[PSmoker(i)] = pc[PSmoker(i)]
  BY <1>2, PushersApart
<1>7. PushersTyped'
  BY <1>2, <1>3, <1>4, <1>5, <1>6, PushersApart DEF PushersTyped
<1>8. \A i \in Items : Lies(i)' = Lies(i) + (IF i = x THEN 0 ELSE 1)
  <2>1. \A i \in Items : /\ push_pending[i] \in Nat /\ table[i] \in Nat
                         /\ sem[Pusher(i)] \in Nat
    BY PushersApart DEF PushersTyped
  <2> QED
    BY <1>3, <1>4, <1>5, <1>6, <2>1 DEF Lies
<1>9. UNCHANGED Pushers!cigarettes
  BY <1>3, <1>4, <1>6, PushersView, PushersViewNext DEF Taken
<1>10. Pushers!on_table' =
         [i \in Items |-> Pushers!on_table[i] + (IF i = x THEN 0 ELSE 1)]
  <2>1. \A i \in Items : Pushers!on_table[i] = Lies(i)
    BY PushersView
  <2> QED
    BY <1>8, <2>1, PushersViewNext DEF Lies
<1> QED
  BY <1>2, <1>3, <1>4, <1>7, <1>9, <1>10

LEMMA PusherAgentAnnounces ==
  ASSUME PushersTyped, program' = program, InPushers, NEW x \in Items,
         Pushers!AgentAnnounces(x)
  PROVE  /\ PushersTyped'
         /\ pc[Agent] = "announce"
         /\ \A u \in PT \ {Agent} : pc'[u] = pc[u]
         /\ UNCHANGED <<table, agent_can_place, notif>>
         /\ x \in to_announce /\ sem'[Agent] = sem[Agent]
         /\ \A k \in Items : sem'[PSmoker(k)] = sem[PSmoker(k)]
         /\ UNCHANGED <<Pushers!on_table, Pushers!cigarettes>>
<1> DEFINE to == IF to_announce = {x} THEN "start" ELSE "announce"
<1>1. Pushers!Goto(Agent, "announce", to)
  BY DEF Pushers!AgentAnnounces, Pushers!notify_one, Pushers!release, Agent
<1>2. /\ pc[Agent] = "announce"
      /\ pc' \in [PT -> {"start", "announce", "push", "wake", "clear", "smoke"}]
      /\ \A u \in PT : pc'[u] = IF u = Agent THEN to ELSE pc[u]
  BY <1>1, PushersGo, PushersApart
<1>3. /\ x \in to_announce /\ to_announce' = to_announce \ {x}
      /\ UNCHANGED <<table, push_pending, agent_can_place, notif>>
  BY DEF Pushers!AgentAnnounces
<1>4. /\ sem' \in [PT -> Nat]
      /\ \A i \in Items : sem'[Pusher(i)] = sem[Pusher(i)] +
           (IF program # "smokers_3" /\ i = x THEN 1 ELSE 0)
      /\ \A i \in Items : sem'[PSmoker(i)] = sem[PSmoker(i)]
      /\ sem'[Agent] = sem[Agent]
  <2>1. CASE program = "smokers_3"
    BY <2>1, PushersApart DEF Pushers!AgentAnnounces, Pushers!notify_one, Pushers!waits,
       PushersTyped
  <2>2. CASE program # "smokers_3"
    BY <2>2, PushersApart DEF Pushers!AgentAnnounces, Pushers!release, Pushers!waits,
       PushersTyped, Pusher
  <2> QED
    BY <2>1, <2>2
<1>6. /\ \A i \in Items : pc'[Pusher(i)] = pc[Pusher(i)] /\ pc'[PSmoker(i)] = pc[PSmoker(i)]
      /\ \A u \in PT \ {Agent} : pc'[u] = pc[u]
  BY <1>2, PushersApart
<1>7. PushersTyped'
  <2>1. pc'[Agent] = "start" => to_announce' = {}
    BY <1>2, <1>3, PushersApart
  <2> QED
    BY <1>2, <1>3, <1>4, <1>6, <2>1 DEF PushersTyped
<1>8. \A i \in Items : Lies(i)' = Lies(i)
  <2>1. \A i \in Items : /\ push_pending[i] \in Nat /\ table[i] \in Nat
                         /\ sem[Pusher(i)] \in Nat
    BY PushersApart DEF PushersTyped
  <2> QED
    BY <1>3, <1>4, <1>6, <2>1 DEF Lies
<1>9. UNCHANGED Pushers!cigarettes
  BY <1>3, <1>4, <1>6, PushersView, PushersViewNext DEF Taken
<1>10. UNCHANGED Pushers!on_table
  BY <1>8, PushersView, PushersViewNext DEF Lies
<1> QED
  BY <1>2, <1>3, <1>4, <1>6, <1>7, <1>9, <1>10

(* A pusher takes the permit of its item.                                  *)
LEMMA PusherAcquires ==
  ASSUME PushersTyped, program' = program, InPushers, NEW x \in Items,
         program # "smokers_3", UNCHANGED Pushers!pushVars,
         Pushers!acquire(Pusher(x), Pusher(x), "start", "push")
  PROVE  /\ PushersTyped'
         /\ \A i \in Items : pc'[PSmoker(i)] = pc[PSmoker(i)]
         /\ \A k \in Items : sem'[PSmoker(k)] = sem[PSmoker(k)]
         /\ sem'[Agent] = sem[Agent]
         /\ UNCHANGED <<Pushers!on_table, Pushers!cigarettes>>
<1>1. Pushers!Goto(Pusher(x), "start", "push")
  BY DEF Pushers!acquire
<1>2. /\ pc[Pusher(x)] = "start"
      /\ pc' \in [PT -> {"start", "announce", "push", "wake", "clear", "smoke"}]
      /\ \A u \in PT : pc'[u] = IF u = Pusher(x) THEN "push" ELSE pc[u]
  BY <1>1, PushersGo, PushersApart
<1>3. UNCHANGED <<table, push_pending, agent_can_place, to_announce, notif>>
  BY DEF Pushers!pushVars
<1>4. /\ sem' \in [PT -> Nat]
      /\ sem[Pusher(x)] > 0
      /\ \A i \in Items : sem'[Pusher(i)] = sem[Pusher(i)] - (IF i = x THEN 1 ELSE 0)
      /\ \A i \in Items : sem'[PSmoker(i)] = sem[PSmoker(i)]
      /\ sem'[Agent] = sem[Agent]
  BY PushersApart DEF Pushers!acquire, PushersTyped
<1>6. /\ \A i \in Items : pc'[Pusher(i)] = IF i = x THEN "push" ELSE pc[Pusher(i)]
      /\ \A i \in Items : pc'[PSmoker(i)] = pc[PSmoker(i)]
      /\ pc'[Agent] = pc[Agent]
  BY <1>2, PushersApart
<1>7. PushersTyped'
  BY <1>2, <1>3, <1>4, <1>6 DEF PushersTyped
<1>8. \A i \in Items : Lies(i)' = Lies(i)
  <2>1. \A i \in Items : /\ push_pending[i] \in Nat /\ table[i] \in Nat
                         /\ sem[Pusher(i)] \in Nat
    BY PushersApart DEF PushersTyped
  <2> QED
    BY <1>2, <1>3, <1>4, <1>6, <2>1 DEF Lies
<1>9. UNCHANGED Pushers!cigarettes
  BY <1>3, <1>4, <1>6, PushersView, PushersViewNext DEF Taken
<1>10. UNCHANGED Pushers!on_table
  BY <1>8, PushersView, PushersViewNext DEF Lies
<1> QED
  BY <1>4, <1>6, <1>7, <1>9, <1>10

(* The block under the mutex: the item is on the table, where it was.  In  *)
(* the harder variant a pair leaves the table for its smoker.              *)
LEMMA PusherPushes ==
  ASSUME PushersTyped, program' = program, InPushers, NEW x \in Items,
         NEW from \in {"start", "push"},
         from = "push" <=> program # "smokers_3",
         Pushers!Push(x, from),
         push_pending' = IF from = "push" THEN push_pending
                         ELSE [push_pending EXCEPT ![x] = @ - 1],
         from = "start" => push_pending[x] > 0
  PROVE  /\ PushersTyped'
         /\ \A i \in Items : pc'[PSmoker(i)] = pc[PSmoker(i)]
         /\ UNCHANGED sem /\ UNCHANGED agent_can_place
         /\ \/ /\ UNCHANGED <<Pushers!on_table, Pushers!cigarettes>>
               /\ \A j \in Items : table'[j] = Filled(x, j)
               /\ \/ ~(\E m \in Items : AllBut(x, m)) /\ notif' = notif
                  \/ /\ program # "smokers_hard"
                     /\ \E m \in Items : AllBut(x, m) /\ Moves(x, m, notif, notif')
            \/ /\ program = "smokers_hard"
               /\ \E m \in Items :
                    /\ AllBut(x, m)
                    /\ \A j \in Items :
                         table'[j] = Filled(x, j) - (IF j # m THEN 1 ELSE 0)
                    /\ Takes(m, Pushers!on_table, Pushers!cigarettes,
                             Pushers!on_table', Pushers!cigarettes')
<1> DEFINE Labels == {"start", "announce", "push", "wake", "clear", "smoke"}
<1>1. /\ UNCHANGED <<agent_can_place, to_announce, sem>>
  BY DEF Pushers!Push, Pushers!Move
<1>2. \A i \in Items : /\ push_pending[i] \in Nat /\ table[i] \in Nat
                       /\ sem[Pusher(i)] \in Nat /\ sem[PSmoker(i)] \in Nat
  BY PushersApart DEF PushersTyped
<1>3. /\ push_pending' \in [Items -> Nat]
      /\ \A j \in Items : push_pending'[j] =
           push_pending[j] - (IF program = "smokers_3" /\ j = x THEN 1 ELSE 0)
  <2>1. CASE from = "start"
    <3>1. push_pending' = [push_pending EXCEPT ![x] = @ - 1]
      BY <2>1
    <3>2. push_pending[x] > 0
      BY <2>1
    <3>3. push_pending' \in [Items -> Nat]
      BY <1>2, <3>1, <3>2 DEF PushersTyped
    <3>4. \A j \in Items : push_pending'[j] =
           push_pending[j] - (IF j = x THEN 1 ELSE 0)
      BY <1>2, <3>1 DEF PushersTyped
    <3> QED
      BY <2>1, <3>3, <3>4
  <2>2. CASE from = "push"
    BY <1>2, <2>2 DEF PushersTyped
  <2> QED
    BY <2>1, <2>2
<1> DEFINE Staying ==
      /\ Pushers!Goto(Pusher(x), from, "start")
      /\ table' = [j \in Items |-> Filled(x, j)]
      /\ Moves(x, 3, notif, notif')
<1> DEFINE Going(m) ==
      /\ AllBut(x, m)
      /\ Pushers!Goto(Pusher(x), from, "wake")
      /\ table' = [j \in Items |->
           Filled(x, j) - (IF program = "smokers_hard" /\ j # m THEN 1 ELSE 0)]
      /\ Moves(x, m, notif, notif')
<1>4. (~ (\E m \in Items : AllBut(x, m)) /\ Staying) \/ \E m \in Items : Going(m)
  BY PushDoes
<1>5. ASSUME NEW to \in {"start", "wake"}, NEW n \in 0..3, n = 3 <=> to = "start",
             Pushers!Goto(Pusher(x), from, to), Moves(x, n, notif, notif'),
             table' \in [Items -> Nat]
      PROVE  /\ PushersTyped'
             /\ pc[Pusher(x)] = from
             /\ \A i \in Items : /\ pc'[Pusher(i)] = IF i = x THEN to ELSE pc[Pusher(i)]
                                 /\ pc'[PSmoker(i)] = pc[PSmoker(i)]
             /\ notif' \in [Items -> 0..3] /\ notif[x] = 3
  <2>1. /\ pc[Pusher(x)] = from /\ pc' \in [PT -> Labels]
        /\ \A u \in PT : pc'[u] = IF u = Pusher(x) THEN to ELSE pc[u]
    BY <1>5, PushersGo, PushersApart
  <2>2. \A i \in Items : /\ pc'[Pusher(i)] = IF i = x THEN to ELSE pc[Pusher(i)]
                         /\ pc'[PSmoker(i)] = pc[PSmoker(i)]
    BY <2>1, PushersApart
  <2>3. pc'[Agent] = pc[Agent]
    BY <2>1, PushersApart
  <2>4. /\ notif' \in [Items -> 0..3] /\ notif[x] = 3
        /\ \A i \in Items : notif'[i] = IF i = x THEN n ELSE notif[i]
    BY <1>5, <2>1 DEF Moves, PushersTyped
  <2>5. PushersTyped'
    BY <1>1, <1>3, <1>5, <2>1, <2>2, <2>3, <2>4 DEF PushersTyped
  <2> QED
    BY <2>1, <2>2, <2>4, <2>5
<1>6. \A j \in Items : Filled(x, j) \in Nat
  BY <1>2 DEF Filled
<1>7. ASSUME NEW to \in {"start", "wake"}, NEW n \in 0..3, n = 3 <=> to = "start",
             Pushers!Goto(Pusher(x), from, to), Moves(x, n, notif, notif'),
             table' = [j \in Items |-> Filled(x, j)],
             program = "smokers_hard" => n = 3
      PROVE  /\ PushersTyped'
             /\ \A i \in Items : pc'[PSmoker(i)] = pc[PSmoker(i)]
             /\ UNCHANGED <<Pushers!on_table, Pushers!cigarettes>>
             /\ \A j \in Items : table'[j] = Filled(x, j)
             /\ n = 3 => notif' = notif
  <2>1. /\ table' \in [Items -> Nat]
        /\ \A j \in Items : table'[j] = Filled(x, j)
    BY <1>6, <1>7
  <2>2. /\ PushersTyped'
        /\ pc[Pusher(x)] = from
        /\ \A i \in Items : /\ pc'[Pusher(i)] = IF i = x THEN to ELSE pc[Pusher(i)]
                            /\ pc'[PSmoker(i)] = pc[PSmoker(i)]
        /\ notif' \in [Items -> 0..3] /\ notif[x] = 3
    BY <1>5, <1>7, <2>1
  <2>3. n = 3 => notif' = notif
    BY <1>7, <2>2 DEF Moves, PushersTyped
  <2>4. \A i \in Items : Lies(i)' = Lies(i)
    <3>1. CASE program = "smokers_3"
      BY <1>2, <1>3, <2>1, <2>2, <3>1 DEF Lies, Filled
    <3>2. CASE program # "smokers_3"
      <4>1. from = "push" /\ UNCHANGED push_pending
        BY <3>2
      <4> QED
        BY <1>1, <1>2, <2>1, <2>2, <3>2, <4>1 DEF Lies, Filled
    <3> QED
      BY <3>1, <3>2
  <2>5. UNCHANGED Pushers!on_table
    BY <2>4, PushersView, PushersViewNext DEF Lies
  <2>6. UNCHANGED Pushers!cigarettes
    BY <1>1, <1>7, <2>2, <2>3, PushersView, PushersViewNext DEF Taken
  <2> QED
    BY <2>1, <2>2, <2>3, <2>5, <2>6
<1>8. CASE ~(\E m \in Items : AllBut(x, m)) /\ Staying
  BY <1>1, <1>7, <1>8
<1>9. ASSUME NEW m \in Items, Going(m), program # "smokers_hard"
      PROVE  /\ PushersTyped'
             /\ \A i \in Items : pc'[PSmoker(i)] = pc[PSmoker(i)]
             /\ UNCHANGED <<Pushers!on_table, Pushers!cigarettes>>
             /\ \A j \in Items : table'[j] = Filled(x, j)
  <2>1. table' = [j \in Items |-> Filled(x, j)]
    BY <1>6, <1>9
  <2>2. m \in 0..3 /\ m # 3
    BY DEF Items
  <2> QED
    BY <1>7, <1>9, <2>1, <2>2
<1>10. ASSUME NEW m \in Items, Going(m), program = "smokers_hard"
       PROVE  /\ PushersTyped'
              /\ \A i \in Items : pc'[PSmoker(i)] = pc[PSmoker(i)]
              /\ \A j \in Items :
                   table'[j] = Filled(x, j) - (IF j # m THEN 1 ELSE 0)
              /\ Takes(m, Pushers!on_table, Pushers!cigarettes,
                       Pushers!on_table', Pushers!cigarettes')
  <2>1. /\ table' \in [Items -> Nat]
        /\ \A j \in Items : table'[j] = Filled(x, j) - (IF j # m THEN 1 ELSE 0)
    BY <1>6, <1>10 DEF AllBut
  <2>2. m \in 0..3 /\ m # 3
    BY DEF Items
  <2>3. /\ PushersTyped'
        /\ pc[Pusher(x)] = from
        /\ \A i \in Items : /\ pc'[Pusher(i)] = IF i = x THEN "wake" ELSE pc[Pusher(i)]
                            /\ pc'[PSmoker(i)] = pc[PSmoker(i)]
        /\ notif[x] = 3
    BY <1>5, <1>10, <2>1, <2>2
  <2>4. from = "push" /\ UNCHANGED push_pending
    BY <1>10
  <2>5. \A i \in Items : Lies(i)' = Lies(i) - (IF i = m THEN 0 ELSE 1)
    BY <1>1, <1>2, <1>10, <2>1, <2>3, <2>4 DEF Lies, Filled
  <2>6. \A k \in Items : Count(Items, notif', {k}) =
                           Count(Items, notif, {k}) + (IF k = m THEN 1 ELSE 0)
    <3> SUFFICES ASSUME NEW k \in Items
                 PROVE  Count(Items, notif', {k}) =
                          Count(Items, notif, {k}) + (IF k = m THEN 1 ELSE 0)
      OBVIOUS
    <3>1. Moves(x, m, notif, notif') /\ Items \subseteq DOMAIN notif
      BY <1>10 DEF PushersTyped
    <3>2. Count(Items, notif', {k}) = Count(Items, notif, {k}) +
             (IF x \notin Items \/ (notif[x] \in {k} <=> m \in {k}) THEN 0
              ELSE IF m \in {k} THEN 1 ELSE -1)
      BY <3>1, ItemsAreFinite, CountAfterMove
    <3>3. Count(Items, notif, {k}) \in Nat
      BY ItemsAreFinite, CountIsNat
    <3>4. notif[x] \notin {k}
      BY <2>3 DEF Items
    <3> QED
      BY <3>2, <3>3, <3>4
  <2>7. \A k \in Items : Taken(k)' = Taken(k) + (IF k = m THEN 1 ELSE 0)
    <3> SUFFICES ASSUME NEW k \in Items
                 PROVE  Taken(k)' = Taken(k) + (IF k = m THEN 1 ELSE 0)
      BY DEF Taken
    <3> DEFINE c == Count(Items, notif, {k})
               d == Count(Items, notif', {k})
    <3>1. c \in Nat
      BY ItemsAreFinite, CountIsNat
    <3>2. d = c + (IF k = m THEN 1 ELSE 0)
      BY <2>6
    <3>3. /\ sem'[PSmoker(k)] = sem[PSmoker(k)] /\ sem[PSmoker(k)] \in Nat
          /\ pc'[PSmoker(k)] = pc[PSmoker(k)]
      BY <1>1, <1>2, <2>3
    <3>4. /\ Taken(k) = (IF pc[PSmoker(k)] = "smoke" THEN 1 ELSE 0) + (sem[PSmoker(k)] + c)
          /\ Taken(k)' = (IF pc'[PSmoker(k)] = "smoke" THEN 1 ELSE 0) + (sem'[PSmoker(k)] + d)
      BY <1>10 DEF Taken
    <3> HIDE DEF c, d
    <3> QED
      BY <3>1, <3>2, <3>3, <3>4
  <2>8. Pushers!on_table' = [i \in Items |-> Pushers!on_table[i] - (IF i = m THEN 0 ELSE 1)]
    <3>1. \A i \in Items : Pushers!on_table[i] = Lies(i)
      BY PushersView
    <3> QED
      BY <2>5, <3>1, PushersViewNext DEF Lies
  <2>9. Pushers!cigarettes' = [Pushers!cigarettes EXCEPT ![m] = @ + 1]
    <3>1. \A k \in Items : Pushers!cigarettes'[k] =
                              Pushers!cigarettes[k] + (IF k = m THEN 1 ELSE 0)
      BY <2>7, PushersView, PushersViewNext DEF Taken
    <3>2. \A k \in Items : Pushers!cigarettes[k] \in Nat
      <4>1. \A k \in Items : Count(Items, notif, {k}) \in Nat
        BY ItemsAreFinite, CountIsNat
      <4> QED
        BY <1>2, <4>1, PushersView DEF Taken
    <3>3. /\ Pushers!cigarettes = [k \in Items |-> Pushers!cigarettes[k]]
          /\ Pushers!cigarettes' = [k \in Items |-> Pushers!cigarettes'[k]]
      BY PushersView, PushersViewNext
    <3> QED
      BY <3>1, <3>2, <3>3
  <2>10. \A i \in Items \ {m} : Pushers!on_table[i] > 0
    <3>1. \A i \in Items \ {m} : Filled(x, i) > 0
      BY <1>10 DEF AllBut
    <3>2. \A i \in Items \ {m} : Lies(i) > 0
      BY <1>2, <1>10, <2>3, <2>4, <3>1 DEF Lies, Filled
    <3> QED
      BY <3>2, PushersView
  <2> QED
    BY <2>1, <2>3, <2>8, <2>9, <2>10 DEF Takes
<1> QED
  BY <1>1, <1>4, <1>8, <1>9, <1>10

(* The pusher signals to the smoker whose pair it found.                   *)
LEMMA PusherSignals ==
  ASSUME PushersTyped, program' = program, InPushers, NEW x \in Items,
         Pushers!PusherWakes(x)
  PROVE  /\ PushersTyped' /\ notif[x] \in Items
         /\ Moves(x, 3, notif, notif')
         /\ \A i \in Items : pc'[PSmoker(i)] = pc[PSmoker(i)]
         /\ UNCHANGED <<table, agent_can_place>>
         /\ sem'[Agent] = sem[Agent]
         /\ \A k \in Items : sem'[PSmoker(k)] = sem[PSmoker(k)] +
              (IF program # "smokers_3" /\ k = notif[x] THEN 1 ELSE 0)
         /\ UNCHANGED <<Pushers!on_table, Pushers!cigarettes>>
<1> DEFINE n == notif[x]
<1>1. /\ n \in Items
      /\ notif' = [notif EXCEPT ![x] = 3]
      /\ UNCHANGED <<table, agent_can_place, push_pending, to_announce>>
  BY DEF Pushers!PusherWakes, PushersTyped, Pushers!Nobody, Items
<1>2. Pushers!Goto(Pusher(x), "wake", "start")
  BY DEF Pushers!PusherWakes, Pushers!WakeSmoker, Pushers!notify_one,
     Pushers!release, Pusher
<1>3. /\ pc[Pusher(x)] = "wake"
      /\ pc' \in [PT -> {"start", "announce", "push", "wake", "clear", "smoke"}]
      /\ \A u \in PT : pc'[u] = IF u = Pusher(x) THEN "start" ELSE pc[u]
  BY <1>2, PushersGo, PushersApart
<1>4. /\ sem' \in [PT -> Nat]
      /\ \A k \in Items : sem'[PSmoker(k)] = sem[PSmoker(k)] +
              (IF program # "smokers_3" /\ k = n THEN 1 ELSE 0)
      /\ \A k \in Items : sem'[Pusher(k)] = sem[Pusher(k)]
      /\ sem'[Agent] = sem[Agent]
  <2>1. CASE program = "smokers_3"
    <3>1. UNCHANGED sem
      BY <2>1 DEF Pushers!PusherWakes, Pushers!WakeSmoker, Pushers!waits, Pushers!notify_one
    <3> QED
      BY <2>1, <3>1, PushersApart DEF PushersTyped
  <2>2. CASE program # "smokers_3"
    <3>1. sem' = [sem EXCEPT ![PSmoker(n)] = @ + 1]
      BY <2>2 DEF Pushers!PusherWakes, Pushers!WakeSmoker, Pushers!waits,
         Pushers!release, PSmoker
    <3> HIDE DEF n
    <3> QED
      BY <1>1, <2>2, <3>1, PushersApart DEF PushersTyped
  <2> QED
    BY <2>1, <2>2
<1>5. /\ \A i \in Items : pc'[Pusher(i)] = IF i = x THEN "start" ELSE pc[Pusher(i)]
      /\ \A i \in Items : pc'[PSmoker(i)] = pc[PSmoker(i)]
      /\ pc'[Agent] = pc[Agent]
  BY <1>3, PushersApart
<1>6. notif' \in [Items -> 0..3] /\ \A i \in Items : notif'[i] = IF i = x THEN 3 ELSE notif[i]
  BY <1>1 DEF PushersTyped
<1>7. PushersTyped'
  BY <1>1, <1>3, <1>4, <1>5, <1>6 DEF PushersTyped
<1>8. \A i \in Items : Lies(i)' = Lies(i)
  BY <1>1, <1>3, <1>4, <1>5 DEF Lies
<1>9. UNCHANGED Pushers!on_table
  BY <1>8, PushersView, PushersViewNext DEF Lies
<1>10. Moves(x, 3, notif, notif') /\ Items = DOMAIN notif
  BY <1>1 DEF Moves, PushersTyped
<1>11. \A k \in Items : Taken(k)' = Taken(k)
  <2> SUFFICES ASSUME NEW k \in Items PROVE Taken(k)' = Taken(k)
    BY DEF Taken
  <2> DEFINE c == Count(Items, notif, {k})
             d == Count(Items, notif', {k})
  <2>1. c \in Nat
    BY ItemsAreFinite, CountIsNat
  <2>2. d = c - (IF k = n THEN 1 ELSE 0)
    <3>1. d = c + (IF x \notin Items \/ (notif[x] \in {k} <=> 3 \in {k}) THEN 0
                   ELSE IF 3 \in {k} THEN 1 ELSE -1)
      BY <1>10, ItemsAreFinite, CountAfterMove
    <3> HIDE DEF c, d
    <3>2. 3 \notin {k} /\ (notif[x] \in {k} <=> k = n)
      BY DEF Items
    <3> QED
      BY <2>1, <3>1, <3>2
  <2>3. /\ pc'[PSmoker(k)] = pc[PSmoker(k)] /\ sem[PSmoker(k)] \in Nat
    BY <1>5, PushersApart DEF PushersTyped
  <2>4. CASE program = "smokers_hard"
    <3>1. /\ Taken(k) = (IF pc[PSmoker(k)] = "smoke" THEN 1 ELSE 0) + (sem[PSmoker(k)] + c)
          /\ Taken(k)' = (IF pc'[PSmoker(k)] = "smoke" THEN 1 ELSE 0) + (sem'[PSmoker(k)] + d)
      BY <2>4 DEF Taken
    <3>2. sem'[PSmoker(k)] = sem[PSmoker(k)] + (IF k = n THEN 1 ELSE 0)
      BY <1>4, <2>4
    <3> HIDE DEF c, d, n
    <3> QED
      BY <2>1, <2>2, <2>3, <3>1, <3>2
  <2>5. CASE program # "smokers_hard"
    BY <2>3, <2>5 DEF Taken
  <2> QED
    BY <2>4, <2>5
<1>12. UNCHANGED Pushers!cigarettes
  BY <1>11, PushersView, PushersViewNext DEF Taken
<1> QED
  BY <1>1, <1>4, <1>5, <1>7, <1>9, <1>10, <1>12

(* The smokers' steps.                                                     *)
LEMMA PusherSmokerGoes ==
  ASSUME PushersTyped, program' = program, NEW k \in Items, NEW from,
         NEW to \in {"start", "clear", "smoke"},
         to = "clear" => program = "smokers_3_1",
         Pushers!Goto(PSmoker(k), from, to)
  PROVE  /\ pc[PSmoker(k)] = from
         /\ pc' \in [PT -> {"start", "announce", "push", "wake", "clear", "smoke"}]
         /\ \A i \in Items : pc'[Pusher(i)] = pc[Pusher(i)]
         /\ \A i \in Items : pc'[PSmoker(i)] = IF i = k THEN to ELSE pc[PSmoker(i)]
         /\ pc'[Agent] = pc[Agent]
         /\ \A i \in Items : pc'[PSmoker(i)] = "clear" => program' = "smokers_3_1"
<1>1. /\ pc[PSmoker(k)] = from
      /\ pc' \in [PT -> {"start", "announce", "push", "wake", "clear", "smoke"}]
      /\ \A u \in PT : pc'[u] = IF u = PSmoker(k) THEN to ELSE pc[u]
  BY PushersGo, PushersApart
<1>2. /\ \A i \in Items : pc'[Pusher(i)] = pc[Pusher(i)]
      /\ \A i \in Items : pc'[PSmoker(i)] = IF i = k THEN to ELSE pc[PSmoker(i)]
      /\ pc'[Agent] = pc[Agent]
  BY <1>1, PushersApart
<1> QED
  BY <1>1, <1>2 DEF PushersTyped

LEMMA PusherSmokerAcquires ==
  ASSUME PushersTyped, program' = program, InPushers, NEW k \in Items,
         program # "smokers_3", UNCHANGED Pushers!pushVars,
         Pushers!acquire(PSmoker(k), PSmoker(k), "start",
                         IF program = "smokers_hard" THEN "smoke" ELSE "clear")
  PROVE  /\ PushersTyped'
         /\ \A i \in Items : pc'[PSmoker(i)] =
              IF i # k THEN pc[PSmoker(i)]
              ELSE IF program = "smokers_hard" THEN "smoke" ELSE "clear"
         /\ sem[PSmoker(k)] > 0 /\ pc[PSmoker(k)] = "start"
         /\ \A j \in Items : sem'[PSmoker(j)] = sem[PSmoker(j)] - (IF j = k THEN 1 ELSE 0)
         /\ sem'[Agent] = sem[Agent]
         /\ UNCHANGED <<Pushers!on_table, Pushers!cigarettes>>
<1> DEFINE to == IF program = "smokers_hard" THEN "smoke" ELSE "clear"
<1>1. Pushers!Goto(PSmoker(k), "start", to)
  BY DEF Pushers!acquire
<1>2. to = "clear" => program = "smokers_3_1"
  BY DEF InPushers
<1>3. /\ pc[PSmoker(k)] = "start"
      /\ pc' \in [PT -> {"start", "announce", "push", "wake", "clear", "smoke"}]
      /\ \A i \in Items : pc'[Pusher(i)] = pc[Pusher(i)]
      /\ \A i \in Items : pc'[PSmoker(i)] = IF i = k THEN to ELSE pc[PSmoker(i)]
      /\ pc'[Agent] = pc[Agent]
      /\ \A i \in Items : pc'[PSmoker(i)] = "clear" => program' = "smokers_3_1"
  BY <1>1, <1>2, PusherSmokerGoes
<1>4. UNCHANGED <<table, push_pending, agent_can_place, to_announce, notif>>
  BY DEF Pushers!pushVars
<1>5. /\ sem' \in [PT -> Nat]
      /\ sem[PSmoker(k)] > 0
      /\ \A i \in Items : sem'[PSmoker(i)] = sem[PSmoker(i)] - (IF i = k THEN 1 ELSE 0)
      /\ \A i \in Items : sem'[Pusher(i)] = sem[Pusher(i)]
      /\ sem'[Agent] = sem[Agent]
  BY PushersApart DEF Pushers!acquire, PushersTyped
<1>7. PushersTyped'
  BY <1>3, <1>4, <1>5 DEF PushersTyped
<1>8. \A i \in Items : Lies(i)' = Lies(i)
  BY <1>3, <1>4, <1>5 DEF Lies
<1>9. UNCHANGED Pushers!on_table
  BY <1>8, PushersView, PushersViewNext DEF Lies
<1>10. \A i \in Items : Taken(i)' = Taken(i)
  <2> SUFFICES ASSUME NEW i \in Items PROVE Taken(i)' = Taken(i)
    BY DEF Taken
  <2>1. Count(Items, notif, {i}) \in Nat /\ sem[PSmoker(i)] \in Nat
    BY ItemsAreFinite, CountIsNat, PushersApart DEF PushersTyped
  <2> DEFINE c == Count(Items, notif, {i})
  <2>2. c \in Nat /\ Count(Items, notif', {i}) = c
    BY <1>4, <2>1
  <2>3. CASE program = "smokers_hard"
    <3>1. /\ Taken(i) = (IF pc[PSmoker(i)] = "smoke" THEN 1 ELSE 0) + (sem[PSmoker(i)] + c)
          /\ Taken(i)' = (IF pc'[PSmoker(i)] = "smoke" THEN 1 ELSE 0) + (sem'[PSmoker(i)] + c)
      BY <2>2, <2>3 DEF Taken
    <3> HIDE DEF c
    <3> QED
      BY <1>3, <1>5, <2>1, <2>2, <2>3, <3>1
  <2>4. CASE program # "smokers_hard"
    BY <1>3, <2>4 DEF Taken
  <2> QED
    BY <2>3, <2>4
<1>11. UNCHANGED Pushers!cigarettes
  BY <1>10, PushersView, PushersViewNext DEF Taken
<1> QED
  BY <1>3, <1>5, <1>7, <1>9, <1>11

(* The smoker takes what lies on the table: a pair, and all that there is. *)
LEMMA PusherSmokerTakes ==
  ASSUME PushersTyped, program' = program, NEW k \in Items, NEW from,
         program # "smokers_hard", from # "smoke", PairLies(k),
         \A i \in Items : table[i] = IF i = k THEN 0 ELSE 1,
         Pushers!Move(PSmoker(k), from, "smoke"),
         Pushers!ClearTable, agent_can_place' \in BOOLEAN
  PROVE  /\ PushersTyped'
         /\ \A i \in Items : pc'[PSmoker(i)] = IF i = k THEN "smoke" ELSE pc[PSmoker(i)]
         /\ Pushers!on_table' = Nothing
         /\ Takes(k, Pushers!on_table, Pushers!cigarettes,
                  Pushers!on_table', Pushers!cigarettes')
<1>1. Pushers!Goto(PSmoker(k), from, "smoke") /\ UNCHANGED sem
  BY DEF Pushers!Move
<1>3. /\ pc[PSmoker(k)] = from
      /\ pc' \in [PT -> {"start", "announce", "push", "wake", "clear", "smoke"}]
      /\ \A i \in Items : pc'[Pusher(i)] = pc[Pusher(i)]
      /\ \A i \in Items : pc'[PSmoker(i)] = IF i = k THEN "smoke" ELSE pc[PSmoker(i)]
      /\ pc'[Agent] = pc[Agent]
      /\ \A i \in Items : pc'[PSmoker(i)] = "clear" => program' = "smokers_3_1"
  BY <1>1, PusherSmokerGoes
<1>4. /\ table' = [i \in Items |-> 0]
      /\ UNCHANGED <<push_pending, to_announce, notif>>
  BY DEF Pushers!ClearTable, Pushers!Nothing, Pushers!Items, Items
<1>5. PushersTyped'
  BY <1>1, <1>3, <1>4 DEF PushersTyped
<1>6. \A i \in Items : Lies(i)' = 0 /\ Lies(i) = IF i = k THEN 0 ELSE 1
  <2> SUFFICES ASSUME NEW i \in Items
               PROVE  Lies(i)' = 0 /\ Lies(i) = table[i]
    BY DEF Lies
  <2>1. /\ push_pending[i] \in Nat /\ sem[Pusher(i)] \in Nat
        /\ table[i] \in Nat
    BY PushersApart DEF PushersTyped
  <2>2. table'[i] = 0 /\ pc'[Pusher(i)] = pc[Pusher(i)]
    BY <1>3, <1>4
  <2>3. Lies(i) = table[i]
    BY PushersView DEF PairLies, Pair
  <2>4. CASE program = "smokers_3"
    BY <1>4, <2>1, <2>2, <2>3, <2>4 DEF Lies
  <2>5. CASE program # "smokers_3"
    BY <1>1, <1>4, <2>1, <2>2, <2>3, <2>5 DEF Lies
  <2> QED
    BY <2>3, <2>4, <2>5
<1>7. /\ \A i \in Items : Taken(i) = IF pc[PSmoker(i)] = "smoke" THEN 1 ELSE 0
      /\ \A i \in Items : Taken(i)' = IF pc'[PSmoker(i)] = "smoke" THEN 1 ELSE 0
  BY DEF Taken
<1>8. Pushers!on_table = Pair(k) /\ Pushers!on_table' = Nothing
  BY <1>6, PushersView, PushersViewNext
  DEF Pair, Nothing, Smokers!Nothing, Smokers!Items, Items, Lies
<1>9. Pushers!cigarettes' = [Pushers!cigarettes EXCEPT ![k] = @ + 1]
  <2>1. \A i \in Items : Pushers!cigarettes'[i] =
                           IF i = k THEN Pushers!cigarettes[i] + 1 ELSE Pushers!cigarettes[i]
    BY <1>3, <1>7, PushersView, PushersViewNext DEF Taken
  <2>2. /\ Pushers!cigarettes = [i \in Items |-> Pushers!cigarettes[i]]
        /\ Pushers!cigarettes' = [i \in Items |-> Pushers!cigarettes'[i]]
    BY PushersView, PushersViewNext
  <2> QED
    BY <2>1, <2>2
<1>10. Takes(k, Pushers!on_table, Pushers!cigarettes,
             Pushers!on_table', Pushers!cigarettes')
  BY <1>8, <1>9 DEF Takes, Pair, Nothing, Smokers!Nothing, Smokers!Items, Items
<1> QED
  BY <1>3, <1>5, <1>8, <1>10

LEMMA PusherSmokerDone ==
  ASSUME PushersTyped, program' = program, NEW k \in Items,
         Pushers!SmokerIsDone(k)
  PROVE  /\ PushersTyped'
         /\ pc[PSmoker(k)] = "smoke"
         /\ \A i \in Items : pc'[PSmoker(i)] = IF i = k THEN "start" ELSE pc[PSmoker(i)]
         /\ UNCHANGED <<table, agent_can_place, notif>>
         /\ \A i \in Items : sem'[PSmoker(i)] = sem[PSmoker(i)]
         /\ sem'[Agent] = sem[Agent] + (IF program = "smokers_3_1" THEN 1 ELSE 0)
         /\ UNCHANGED Pushers!on_table
         /\ Smokes(k, Pushers!on_table, Pushers!cigarettes,
                   Pushers!on_table', Pushers!cigarettes')
<1>1. Pushers!Goto(PSmoker(k), "smoke", "start")
  BY DEF Pushers!SmokerIsDone, Pushers!notify_one, Pushers!release, Pushers!Move, PSmoker
<1>3. /\ pc[PSmoker(k)] = "smoke"
      /\ pc' \in [PT -> {"start", "announce", "push", "wake", "clear", "smoke"}]
      /\ \A i \in Items : pc'[Pusher(i)] = pc[Pusher(i)]
      /\ \A i \in Items : pc'[PSmoker(i)] = IF i = k THEN "start" ELSE pc[PSmoker(i)]
      /\ pc'[Agent] = pc[Agent]
      /\ \A i \in Items : pc'[PSmoker(i)] = "clear" => program' = "smokers_3_1"
  BY <1>1, PusherSmokerGoes
<1>4. UNCHANGED <<table, push_pending, agent_can_place, to_announce, notif>>
  BY DEF Pushers!SmokerIsDone, Pushers!pushVars
<1>5. sem' = IF program = "smokers_3_1" THEN [sem EXCEPT ![Agent] = @ + 1] ELSE sem
  BY DEF Pushers!SmokerIsDone, Pushers!notify_one, Pushers!release, Pushers!Move,
     Pushers!waits, Pushers!hard, Agent
<1>6. /\ sem' \in [PT -> Nat]
      /\ \A i \in Items : sem'[PSmoker(i)] = sem[PSmoker(i)] /\ sem[PSmoker(i)] \in Nat
      /\ \A i \in Items : sem'[Pusher(i)] = sem[Pusher(i)]
      /\ sem'[Agent] = sem[Agent] + (IF program = "smokers_3_1" THEN 1 ELSE 0)
  BY <1>5, PushersApart DEF PushersTyped
<1>7. PushersTyped'
  BY <1>3, <1>4, <1>6 DEF PushersTyped
<1>8. \A i \in Items : Lies(i)' = Lies(i)
  BY <1>3, <1>4, <1>6 DEF Lies
<1>9. UNCHANGED Pushers!on_table
  BY <1>8, PushersView, PushersViewNext DEF Lies
<1>10. \A i \in Items : /\ Taken(i)' = Taken(i) - (IF i = k THEN 1 ELSE 0)
                        /\ Taken(i) \in Nat /\ Taken(k) > 0
  <2> SUFFICES ASSUME NEW i \in Items
               PROVE  /\ Taken(i)' = Taken(i) - (IF i = k THEN 1 ELSE 0)
                      /\ Taken(i) \in Nat /\ (i = k => Taken(i) > 0)
    BY DEF Taken
  <2> DEFINE c == Count(Items, notif, {i})
  <2>1. c \in Nat /\ Count(Items, notif', {i}) = c
    BY <1>4, ItemsAreFinite, CountIsNat
  <2>2. CASE program = "smokers_hard"
    <3>1. /\ Taken(i) = (IF pc[PSmoker(i)] = "smoke" THEN 1 ELSE 0) + (sem[PSmoker(i)] + c)
          /\ Taken(i)' = (IF pc'[PSmoker(i)] = "smoke" THEN 1 ELSE 0) + (sem'[PSmoker(i)] + c)
      BY <2>1, <2>2 DEF Taken
    <3> HIDE DEF c
    <3> QED
      BY <1>3, <1>6, <2>1, <2>2, <3>1
  <2>3. CASE program # "smokers_hard"
    BY <1>3, <2>3 DEF Taken
  <2> QED
    BY <2>2, <2>3
<1>11. /\ Pushers!cigarettes[k] > 0
       /\ Pushers!cigarettes' = [Pushers!cigarettes EXCEPT ![k] = @ - 1]
  <2>1. \A i \in Items : Pushers!cigarettes'[i] =
                           IF i = k THEN Pushers!cigarettes[i] - 1 ELSE Pushers!cigarettes[i]
    BY <1>10, PushersView, PushersViewNext DEF Taken
  <2>2. /\ Pushers!cigarettes = [i \in Items |-> Pushers!cigarettes[i]]
        /\ Pushers!cigarettes' = [i \in Items |-> Pushers!cigarettes'[i]]
    BY PushersView, PushersViewNext
  <2>3. Pushers!cigarettes[k] > 0
    BY <1>10, PushersView
  <2> QED
    BY <2>1, <2>2, <2>3
<1> QED
  BY <1>3, <1>4, <1>6, <1>7, <1>9, <1>11 DEF Smokes

PushersGoal ==
  /\ PushersInv'
  /\ Tabling(program # "smokers_hard", Pushers!on_table, Pushers!cigarettes,
             Pushers!on_table', Pushers!cigarettes')

(* Steps that concern nobody's pair.                                       *)
LEMMA PushersStand ==
  ASSUME PushersInv, PushersTyped', program' = program,
         UNCHANGED <<table, agent_can_place>>,
         UNCHANGED <<Pushers!on_table, Pushers!cigarettes>>,
         program # "smokers_3" => UNCHANGED push_pending,
         program = "smokers_3_1" =>
           /\ UNCHANGED notif /\ sem'[Agent] = sem[Agent]
           /\ \A k \in Items : /\ sem'[PSmoker(k)] = sem[PSmoker(k)]
                               /\ pc'[PSmoker(k)] = pc[PSmoker(k)]
  PROVE  PushersGoal
<1>1. program = "smokers_3" => ByConditions'
  BY DEF PushersInv, ByConditions, NothingLies, PairLies
<1>2. program = "smokers_3_1" => BySemaphores'
  BY DEF PushersInv, BySemaphores, NothingLies, PairLies, NobodyNotified,
     SmokersHave, SmokersStand, PairComes, PairComplete
<1>3. program = "smokers_hard" => OneKind'
  BY DEF PushersInv, OneKind
<1>4. program # "smokers_3" => (\A i \in Items : push_pending[i] = 0)'
  BY DEF PushersInv
<1> QED
  BY <1>1, <1>2, <1>3, <1>4 DEF PushersInv, PushersGoal, Tabling

LEMMA PushersIdle ==
  ASSUME PushersInv, program' = program, UNCHANGED <<pc, sem, Pushers!pushVars>>
  PROVE  PushersGoal
<1>1. UNCHANGED <<table, push_pending, agent_can_place, to_announce, notif>>
  BY DEF Pushers!pushVars
<1>2. PushersTyped'
  BY <1>1 DEF PushersInv, PushersTyped
<1>3. UNCHANGED <<Pushers!on_table, Pushers!cigarettes>>
  BY <1>1, PushersView, PushersViewNext DEF Lies, Taken
<1> QED
  BY <1>1, <1>2, <1>3, PushersStand

LEMMA PushersPlaceKeeps ==
  ASSUME PushersInv, InPushers, program' = program, NEW x \in Items,
         Pushers!AgentPlaces(x)
  PROVE  PushersGoal
<1>0. PushersTyped
  BY DEF PushersInv
<1>1. /\ PushersTyped'
      /\ \A u \in PT : pc'[u] = IF u = Agent THEN "announce" ELSE pc[u]
      /\ UNCHANGED <<table, notif>>
      /\ \A i \in Items : sem'[Pusher(i)] = sem[Pusher(i)]
      /\ \A k \in Items : sem'[PSmoker(k)] = sem[PSmoker(k)]
      /\ Pushers!on_table' =
           [i \in Items |-> Pushers!on_table[i] + (IF i = x THEN 0 ELSE 1)]
      /\ UNCHANGED Pushers!cigarettes
  BY <1>0, PusherAgentPlaces
<1>2. CASE program = "smokers_3"
  <2>1. agent_can_place = TRUE /\ agent_can_place' = FALSE
    BY <1>2 DEF Pushers!AgentPlaces, Pushers!waits, Pushers!hard
  <2>2. Pushers!on_table = Nothing
    BY <1>2, <2>1 DEF PushersInv, ByConditions, NothingLies
  <2>3. Pushers!on_table' = Pair(x)
    BY <1>1, <2>2 DEF Pair, Nothing, Smokers!Nothing, Smokers!Items, Items
  <2>4. PushersInv'
    BY <1>1, <1>2, <2>1, <2>3 DEF PushersInv, ByConditions, PairLies
  <2> QED
    BY <1>1, <1>2, <2>2, <2>4 DEF PushersGoal, Tabling, Places
<1>3. CASE program = "smokers_3_1"
  <2>1. /\ sem[Agent] > 0 /\ sem' = [sem EXCEPT ![Agent] = @ - 1]
        /\ UNCHANGED push_pending
    BY <1>3 DEF Pushers!AgentPlaces, Pushers!waits, Pushers!hard, Pushers!acquire, Agent
  <2>2. /\ sem[Agent] = 1 /\ NothingLies /\ NobodyNotified
        /\ SmokersHave(0, 0) /\ SmokersStand(0, "start")
    BY <1>3, <2>1 DEF PushersInv, BySemaphores
  <2>3. sem'[Agent] = 0
    BY <1>0, <2>1, <2>2, PushersApart DEF PushersTyped
  <2>4. Pushers!on_table' = Pair(x)
    BY <1>1, <2>2 DEF Pair, NothingLies, Nothing, Smokers!Nothing, Smokers!Items, Items
  <2>5. \A i \in Items : table[i] = 0
    <3>1. \A i \in Items : Lies(i) = 0
      BY <2>2, PushersView DEF NothingLies, Nothing, Smokers!Nothing, Smokers!Items, Items
    <3>2. \A i \in Items : table[i] \in Nat /\ push_pending[i] \in Nat /\ sem[Pusher(i)] \in Nat
      BY <1>0, PushersApart DEF PushersTyped
    <3> QED
      BY <3>1, <3>2 DEF Lies
  <2>6. BySemaphores'
    <3>1. \E i \in Items \ {x} : table'[i] = 0
      BY <1>1, <2>5 DEF Items
    <3>2. (NobodyNotified /\ SmokersHave(x, 0) /\ SmokersStand(x, "start"))'
      BY <1>1, <2>2, PushersApart DEF NobodyNotified, SmokersHave, SmokersStand
    <3> QED
      BY <2>3, <2>4, <3>1, <3>2 DEF BySemaphores, PairComes, PairLies
  <2>7. PushersInv'
    BY <1>1, <1>3, <2>1, <2>6 DEF PushersInv
  <2> QED
    BY <1>1, <1>3, <2>2, <2>7 DEF PushersGoal, Tabling, Places, NothingLies
<1>4. CASE program = "smokers_hard"
  <2>1. UNCHANGED push_pending
    BY <1>4 DEF Pushers!AgentPlaces, Pushers!waits
  <2>2. PushersInv'
    BY <1>1, <1>4, <2>1 DEF PushersInv, OneKind
  <2> QED
    BY <1>1, <1>4, <2>2 DEF PushersGoal, Tabling, Places
<1> QED
  BY <1>2, <1>3, <1>4 DEF InPushers

LEMMA PushersPushKeeps ==
  ASSUME PushersInv, InPushers, program' = program, NEW x \in Items,
         NEW from \in {"start", "push"},
         from = "push" <=> program # "smokers_3",
         Pushers!Push(x, from),
         push_pending' = IF from = "push" THEN push_pending
                         ELSE [push_pending EXCEPT ![x] = @ - 1],
         from = "start" => push_pending[x] > 0
  PROVE  PushersGoal
<1>0. PushersTyped
  BY DEF PushersInv
<1>1. /\ PushersTyped'
      /\ \A i \in Items : pc'[PSmoker(i)] = pc[PSmoker(i)]
      /\ UNCHANGED sem /\ UNCHANGED agent_can_place
  BY <1>0, PusherPushes
<1>2. \/ /\ UNCHANGED <<Pushers!on_table, Pushers!cigarettes>>
         /\ \A j \in Items : table'[j] = Filled(x, j)
         /\ \/ ~(\E m \in Items : AllBut(x, m)) /\ notif' = notif
            \/ /\ program # "smokers_hard"
               /\ \E m \in Items : AllBut(x, m) /\ Moves(x, m, notif, notif')
      \/ /\ program = "smokers_hard"
         /\ \E m \in Items :
              /\ AllBut(x, m)
              /\ \A j \in Items : table'[j] = Filled(x, j) - (IF j # m THEN 1 ELSE 0)
              /\ Takes(m, Pushers!on_table, Pushers!cigarettes,
                       Pushers!on_table', Pushers!cigarettes')
  BY <1>0, PusherPushes
<1>3. pc[Pusher(x)] = from
  BY DEF Pushers!Push, Pushers!Move, Pushers!Goto, Pushers!At, Pusher
<1>4. \A i \in Items : /\ table[i] \in Nat /\ push_pending[i] \in Nat
                       /\ sem[Pusher(i)] \in Nat
  BY <1>0, PushersApart DEF PushersTyped
<1>5. CASE program = "smokers_3"
  <2>1. PushersInv'
    BY <1>1, <1>2, <1>5 DEF PushersInv, ByConditions, NothingLies, PairLies
  <2> QED
    BY <1>2, <1>5, <2>1 DEF PushersGoal, Tabling
<1>6. CASE program = "smokers_3_1"
  <2>1. from = "push" /\ UNCHANGED push_pending
    BY <1>6
  <2>2. /\ UNCHANGED <<Pushers!on_table, Pushers!cigarettes>>
        /\ \A j \in Items : table'[j] = Filled(x, j)
        /\ \/ ~(\E m \in Items : AllBut(x, m)) /\ notif' = notif
           \/ \E m \in Items : AllBut(x, m) /\ Moves(x, m, notif, notif')
    BY <1>2, <1>6
  <2>3. \A i \in Items : /\ Pushers!on_table[i] >= table[i]
                         /\ i = x => Pushers!on_table[i] >= table[i] + 1
    <3>1. \A i \in Items : Lies(i) >= table[i] /\ (i = x => Lies(i) >= table[i] + 1)
      BY <1>3, <1>4, <1>6, <2>1 DEF Lies
    <3> QED
      BY <3>1, PushersView
  <2>4. ~NothingLies
    BY <1>4, <2>3 DEF NothingLies, Nothing, Smokers!Nothing, Smokers!Items, Items
  <2>5. ASSUME NEW y \in Items, PairLies(y)
        PROVE  /\ x # y /\ table[x] = 0 /\ table[y] = 0
               /\ \A i \in Items : table[i] <= 1
    <3>1. \A i \in Items : Pushers!on_table[i] = IF i = y THEN 0 ELSE 1
      BY <2>5 DEF PairLies, Pair
    <3> QED
      BY <1>4, <2>3, <3>1
  <2>6. ASSUME NEW y \in Items, PairComplete(y) PROVE FALSE
    BY <2>5, <2>6 DEF PairComplete
  <2>7. /\ sem[Agent] = 0
        /\ \E y \in Items : PairComes(y)
    BY <1>6, <2>4, <2>6 DEF PushersInv, BySemaphores
  <2>8. PICK y \in Items : /\ PairLies(y) /\ NobodyNotified
                           /\ SmokersHave(y, 0) /\ SmokersStand(y, "start")
    BY <2>7 DEF PairComes
  <2>9. x # y /\ table[x] = 0 /\ table[y] = 0 /\ \A i \in Items : table[i] <= 1
    BY <2>5, <2>8
  <2>10. (SmokersHave(y, 0) /\ SmokersStand(y, "start") /\ PairLies(y))'
         /\ sem'[Agent] = 0
    BY <1>1, <2>2, <2>7, <2>8 DEF SmokersHave, SmokersStand, PairLies
  <2>11. ASSUME ~(\E m \in Items : AllBut(x, m)), notif' = notif
         PROVE  BySemaphores'
    <3>1. \E i \in Items \ {y} : table'[i] = 0
      <4>1. \A i \in Items : Filled(x, i) \in Nat /\ Filled(x, y) = 0
        BY <1>4, <2>9 DEF Filled
      <4>2. \E i \in Items \ {y} : ~(Filled(x, i) > 0)
        BY <2>11, <4>1 DEF AllBut
      <4> QED
        BY <2>2, <4>1, <4>2
    <3>2. NobodyNotified'
      BY <2>8, <2>11 DEF NobodyNotified
    <3>3. PairComes(y)'
      BY <2>10, <3>1, <3>2 DEF PairComes
    <3> QED
      BY <2>10, <3>3 DEF BySemaphores
  <2>12. ASSUME NEW m \in Items, AllBut(x, m), Moves(x, m, notif, notif')
         PROVE  BySemaphores'
    <3>1. m = y
      BY <2>9, <2>12 DEF AllBut, Filled
    <3>2. \A i \in Items : table'[i] = IF i = y THEN 0 ELSE 1
      <4>1. \A i \in Items : /\ i # y => Filled(x, i) > 0
                             /\ Filled(x, i) <= 1 /\ Filled(x, y) = 0
        BY <1>4, <2>9, <2>12, <3>1 DEF AllBut, Filled
      <4>2. \A i \in Items : Filled(x, i) \in Nat
        BY <1>4 DEF Filled
      <4> QED
        BY <2>2, <4>1, <4>2
    <3>3. \A j \in Items : notif'[j] = IF j = x THEN y ELSE 3
      BY <1>0, <2>8, <2>12, <3>1 DEF Moves, NobodyNotified, PushersTyped
    <3>4. PairComplete(y)'
      BY <2>10, <3>2, <3>3 DEF PairComplete
    <3> QED
      BY <2>10, <3>4 DEF BySemaphores
  <2>13. BySemaphores'
    BY <2>2, <2>11, <2>12
  <2>14. PushersInv'
    BY <1>1, <1>6, <2>1, <2>13 DEF PushersInv
  <2> QED
    BY <1>6, <2>2, <2>14 DEF PushersGoal, Tabling
<1>7. CASE program = "smokers_hard"
  <2>1. UNCHANGED push_pending
    BY <1>7
  <2>2. OneKind
    BY <1>7 DEF PushersInv
  <2>3. CASE /\ UNCHANGED <<Pushers!on_table, Pushers!cigarettes>>
             /\ \A j \in Items : table'[j] = Filled(x, j)
             /\ ~(\E m \in Items : AllBut(x, m))
    <3>1. OneKind'
      <4>1. ASSUME NEW i \in Items, NEW j \in Items, i # j,
                   Filled(x, i) > 0, Filled(x, j) > 0
            PROVE  FALSE
        <5>1. PICK m \in Items : m # i /\ m # j
          BY DEF Items
        <5>2. \A n \in Items : n = i \/ n = j \/ n = m
          BY <4>1, <5>1 DEF Items
        <5>3. Filled(x, m) = 0
          BY <1>4, <2>2, <4>1, <5>1, <5>2 DEF OneKind, Filled
        <5> QED
          BY <2>3, <4>1, <5>1, <5>2, <5>3 DEF AllBut
      <4> QED
        BY <2>3, <4>1 DEF OneKind
    <3>2. PushersInv'
      BY <1>1, <1>7, <2>1, <3>1 DEF PushersInv
    <3> QED
      BY <1>7, <2>3, <3>2 DEF PushersGoal, Tabling
  <2>4. ASSUME NEW m \in Items, AllBut(x, m),
               \A j \in Items : table'[j] = Filled(x, j) - (IF j # m THEN 1 ELSE 0),
               Takes(m, Pushers!on_table, Pushers!cigarettes,
                     Pushers!on_table', Pushers!cigarettes')
        PROVE  PushersGoal
    <3>1. x # m /\ table[x] = 0
      <4>1. PICK j \in Items : j # m /\ j # x
        BY DEF Items
      <4>2. table[j] > 0
        BY <1>4, <2>4, <4>1 DEF AllBut, Filled
      <4> QED
        BY <1>4, <2>2, <2>4, <4>1, <4>2 DEF OneKind, AllBut, Filled
    <3>2. \A j \in Items : table'[j] > 0 => table[j] > 0
      BY <1>4, <2>4, <3>1 DEF Filled
    <3>3. OneKind'
      BY <2>2, <3>2 DEF OneKind
    <3>4. PushersInv'
      BY <1>1, <1>7, <2>1, <3>3 DEF PushersInv
    <3> QED
      BY <1>7, <2>4, <3>4 DEF PushersGoal, Tabling
  <2> QED
    BY <1>2, <1>7, <2>3, <2>4
<1> QED
  BY <1>5, <1>6, <1>7 DEF InPushers

LEMMA PushersSignalKeeps ==
  ASSUME PushersInv, InPushers, program' = program, NEW x \in Items,
         Pushers!PusherWakes(x)
  PROVE  PushersGoal
<1>0. PushersTyped /\ UNCHANGED push_pending
  BY DEF PushersInv, Pushers!PusherWakes
<1>1. /\ PushersTyped' /\ notif[x] \in Items
      /\ Moves(x, 3, notif, notif')
      /\ \A i \in Items : pc'[PSmoker(i)] = pc[PSmoker(i)]
      /\ UNCHANGED <<table, agent_can_place>>
      /\ sem'[Agent] = sem[Agent]
      /\ UNCHANGED <<Pushers!on_table, Pushers!cigarettes>>
  BY <1>0, PusherSignals
<1>2. \A k \in Items : sem'[PSmoker(k)] = sem[PSmoker(k)] +
        (IF program # "smokers_3" /\ k = notif[x] THEN 1 ELSE 0)
  BY <1>0, PusherSignals
<1>3. CASE program # "smokers_3_1"
  BY <1>0, <1>1, <1>3, PushersStand
<1>4. CASE program = "smokers_3_1"
  <2>1. notif[x] # 3
    BY <1>1 DEF Items
  <2>2. sem[Agent] = 0 /\ \E y \in Items : PairComplete(y)
    BY <1>4, <2>1 DEF PushersInv, BySemaphores, NobodyNotified, PairComes
  <2>3. PICK y \in Items : PairComplete(y)
    BY <2>2
  <2>4. /\ \E i \in Items : \A j \in Items : notif[j] = IF j = i THEN y ELSE 3
        /\ SmokersHave(y, 0) /\ SmokersStand(y, "start")
    BY <2>1, <2>3 DEF PairComplete, NobodyNotified
  <2>5. notif[x] = y /\ \A j \in Items \ {x} : notif[j] = 3
    BY <2>1, <2>4
  <2>6. NobodyNotified'
    BY <1>0, <1>1, <2>5 DEF NobodyNotified, Moves, PushersTyped
  <2>7. SmokersHave(y, 1)' /\ SmokersStand(y, "start")'
    <3>1. \A k \in Items : sem'[PSmoker(k)] = sem[PSmoker(k)] + (IF k = y THEN 1 ELSE 0)
      BY <1>2, <1>4, <2>5
    <3>2. \A k \in Items : sem[PSmoker(k)] = 0
      BY <2>4 DEF SmokersHave
    <3> QED
      BY <1>1, <2>4, <3>1, <3>2 DEF SmokersHave, SmokersStand
  <2>8. PairComplete(y)'
    BY <1>1, <2>3, <2>6, <2>7 DEF PairComplete, PairLies
  <2>9. BySemaphores'
    BY <1>1, <2>2, <2>8 DEF BySemaphores
  <2>10. PushersInv'
    BY <1>0, <1>1, <1>4, <2>9 DEF PushersInv
  <2> QED
    BY <1>1, <2>10 DEF PushersGoal, Tabling
<1> QED
  BY <1>3, <1>4

LEMMA PushersPermitKeeps ==
  ASSUME PushersInv, InPushers, program' = program, NEW k \in Items,
         program # "smokers_3", UNCHANGED Pushers!pushVars,
         Pushers!acquire(PSmoker(k), PSmoker(k), "start",
                         IF program = "smokers_hard" THEN "smoke" ELSE "clear")
  PROVE  PushersGoal
<1>0. PushersTyped /\ UNCHANGED <<table, agent_can_place, push_pending, notif>>
  BY DEF PushersInv, Pushers!pushVars
<1>1. /\ PushersTyped'
      /\ \A i \in Items : pc'[PSmoker(i)] =
           IF i # k THEN pc[PSmoker(i)]
           ELSE IF program = "smokers_hard" THEN "smoke" ELSE "clear"
      /\ sem[PSmoker(k)] > 0
      /\ \A j \in Items : sem'[PSmoker(j)] = sem[PSmoker(j)] - (IF j = k THEN 1 ELSE 0)
      /\ sem'[Agent] = sem[Agent]
      /\ UNCHANGED <<Pushers!on_table, Pushers!cigarettes>>
  BY <1>0, PusherSmokerAcquires
<1>2. CASE program = "smokers_hard"
  BY <1>0, <1>1, <1>2, PushersStand
<1>3. CASE program = "smokers_3_1"
  <2>1. sem[Agent] = 0 /\ \E y \in Items : PairComplete(y)
    BY <1>1, <1>3 DEF PushersInv, BySemaphores, PairComes, SmokersHave
  <2>2. PICK y \in Items : PairComplete(y)
    BY <2>1
  <2>3. y = k /\ NobodyNotified /\ SmokersHave(y, 1) /\ SmokersStand(y, "start")
    BY <1>1, <2>2 DEF PairComplete, SmokersHave
  <2>4. NobodyNotified' /\ SmokersHave(y, 0)' /\ SmokersStand(y, "clear")'
    BY <1>0, <1>1, <1>3, <2>3 DEF NobodyNotified, SmokersHave, SmokersStand
  <2>5. PairComplete(y)'
    BY <1>0, <1>1, <2>2, <2>4 DEF PairComplete, PairLies
  <2>6. BySemaphores'
    BY <1>1, <2>1, <2>5 DEF BySemaphores
  <2>7. PushersInv'
    BY <1>0, <1>1, <1>3, <2>6 DEF PushersInv
  <2> QED
    BY <1>1, <2>7 DEF PushersGoal, Tabling
<1> QED
  BY <1>2, <1>3 DEF InPushers

LEMMA PushersTakeKeeps ==
  ASSUME PushersInv, InPushers, program' = program, NEW k \in Items,
         \/ /\ program = "smokers_3" /\ Pushers!CompleteFor(k)
            /\ Pushers!Move(PSmoker(k), "start", "smoke")
            /\ Pushers!ClearTable /\ agent_can_place' = TRUE
         \/ /\ Pushers!Move(PSmoker(k), "clear", "smoke")
            /\ Pushers!ClearTable /\ UNCHANGED agent_can_place
  PROVE  PushersGoal
<1>0. PushersTyped /\ UNCHANGED <<push_pending, notif>>
  BY DEF PushersInv, Pushers!ClearTable
<1>1. CASE /\ program = "smokers_3" /\ Pushers!CompleteFor(k)
           /\ Pushers!Move(PSmoker(k), "start", "smoke")
           /\ Pushers!ClearTable /\ agent_can_place' = TRUE
  <2>1. \A i \in Items : /\ Pushers!on_table[i] = table[i] + push_pending[i]
                         /\ table[i] \in Nat /\ push_pending[i] \in Nat
    BY <1>0, <1>1, PushersView DEF Lies, PushersTyped
  <2>2. \A i \in Items \ {k} : table[i] > 0
    BY <1>1 DEF Pushers!CompleteFor, Pushers!Items, Items
  <2>3. PICK y \in Items : Pushers!on_table = Pair(y)
    <3>1. PICK i \in Items : i # k
      BY DEF Items
    <3>2. Pushers!on_table # Nothing
      BY <2>1, <2>2, <3>1 DEF Nothing, Smokers!Nothing, Smokers!Items, Items
    <3> QED
      BY <1>1, <3>2 DEF PushersInv, ByConditions, NothingLies, PairLies
  <2>4. \A i \in Items : Pushers!on_table[i] = IF i = y THEN 0 ELSE 1
    BY <2>3 DEF Pair
  <2>5. y = k
    BY <2>1, <2>2, <2>4
  <2>6. \A i \in Items : table[i] = IF i = k THEN 0 ELSE 1
    BY <2>1, <2>2, <2>4, <2>5
  <2>7. /\ PushersTyped' /\ Pushers!on_table' = Nothing
        /\ Takes(k, Pushers!on_table, Pushers!cigarettes,
                 Pushers!on_table', Pushers!cigarettes')
    BY <1>0, <1>1, <2>3, <2>5, <2>6, PusherSmokerTakes DEF PairLies
  <2>8. PushersInv'
    BY <1>1, <2>7 DEF PushersInv, ByConditions, NothingLies
  <2> QED
    BY <2>7, <2>8 DEF PushersGoal, Tabling
<1>2. CASE /\ Pushers!Move(PSmoker(k), "clear", "smoke")
           /\ Pushers!ClearTable /\ UNCHANGED agent_can_place
  <2>1. pc[PSmoker(k)] = "clear" /\ UNCHANGED sem
    BY <1>2 DEF Pushers!Move, Pushers!Goto, Pushers!At
  <2>2. program = "smokers_3_1"
    BY <1>0, <2>1 DEF PushersTyped
  <2>3. sem[Agent] = 0 /\ \E y \in Items : PairComplete(y)
    BY <2>1, <2>2 DEF PushersInv, BySemaphores, PairComes, SmokersStand
  <2>4. PICK y \in Items : PairComplete(y)
    BY <2>3
  <2>5. y = k /\ NobodyNotified /\ SmokersHave(y, 0) /\ SmokersStand(y, "clear")
    BY <2>1, <2>4 DEF PairComplete, SmokersStand
  <2>6. PairLies(k) /\ \A i \in Items : table[i] = IF i = k THEN 0 ELSE 1
    BY <2>4, <2>5 DEF PairComplete
  <2>7. /\ PushersTyped' /\ Pushers!on_table' = Nothing
        /\ \A i \in Items : pc'[PSmoker(i)] = IF i = k THEN "smoke" ELSE pc[PSmoker(i)]
        /\ Takes(k, Pushers!on_table, Pushers!cigarettes,
                 Pushers!on_table', Pushers!cigarettes')
    <3>1. agent_can_place' \in BOOLEAN
      BY <1>0, <1>2 DEF PushersTyped
    <3> QED
      BY <1>0, <1>2, <2>2, <2>6, <3>1, PusherSmokerTakes
  <2>8. NobodyNotified' /\ SmokersHave(k, 0)' /\ SmokersStand(k, "smoke")' /\ NothingLies'
    BY <1>0, <2>1, <2>5, <2>7 DEF NobodyNotified, SmokersHave, SmokersStand, NothingLies
  <2>9. BySemaphores'
    BY <2>1, <2>3, <2>8 DEF BySemaphores
  <2>10. PushersInv'
    BY <1>0, <2>2, <2>7, <2>9 DEF PushersInv
  <2> QED
    BY <2>7, <2>10 DEF PushersGoal, Tabling
<1> QED
  BY <1>1, <1>2

LEMMA PushersDoneKeeps ==
  ASSUME PushersInv, InPushers, program' = program, NEW k \in Items,
         Pushers!SmokerIsDone(k)
  PROVE  PushersGoal
<1>0. PushersTyped /\ UNCHANGED push_pending
  BY DEF PushersInv, Pushers!SmokerIsDone, Pushers!pushVars
<1>1. /\ PushersTyped'
      /\ pc[PSmoker(k)] = "smoke"
      /\ \A i \in Items : pc'[PSmoker(i)] = IF i = k THEN "start" ELSE pc[PSmoker(i)]
      /\ UNCHANGED <<table, agent_can_place, notif>>
      /\ \A i \in Items : sem'[PSmoker(i)] = sem[PSmoker(i)]
      /\ sem'[Agent] = sem[Agent] + (IF program = "smokers_3_1" THEN 1 ELSE 0)
      /\ UNCHANGED Pushers!on_table
      /\ Smokes(k, Pushers!on_table, Pushers!cigarettes,
                Pushers!on_table', Pushers!cigarettes')
  BY <1>0, PusherSmokerDone
<1>2. program = "smokers_3" => ByConditions'
  BY <1>1 DEF PushersInv, ByConditions, NothingLies, PairLies
<1>3. program = "smokers_hard" => OneKind'
  BY <1>1 DEF PushersInv, OneKind
<1>4. program # "smokers_3" => (\A i \in Items : push_pending[i] = 0)'
  BY <1>0 DEF PushersInv
<1>5. CASE program = "smokers_3_1"
  <2>1. PICK y \in Items : /\ sem[Agent] = 0 /\ NothingLies /\ NobodyNotified
                           /\ SmokersHave(y, 0) /\ SmokersStand(y, "smoke")
    BY <1>1, <1>5 DEF PushersInv, BySemaphores, PairComes, PairComplete, SmokersStand
  <2>2. y = k
    BY <1>1, <2>1 DEF SmokersStand
  <2>3. SmokersStand(0, "start")'
    BY <1>1, <2>1, <2>2 DEF SmokersStand
  <2>4. /\ SmokersHave(0, 0)' /\ NothingLies' /\ NobodyNotified'
        /\ sem'[Agent] = 1
    BY <1>1, <1>5, <2>1 DEF SmokersHave, NothingLies, NobodyNotified
  <2> QED
    BY <1>0, <1>1, <1>2, <1>3, <1>4, <1>5, <2>3, <2>4
    DEF PushersInv, PushersGoal, Tabling, BySemaphores
<1> QED
  BY <1>1, <1>2, <1>3, <1>4, <1>5 DEF PushersInv, PushersGoal, Tabling

LEMMA PushersKeep ==
  ASSUME PushersInv, InPushers, program' = program, PushersNext
  PROVE  PushersGoal
<1> USE DEF Items, Pushers!Items
<1>1. CASE Pushers!Spurious
  BY <1>1, PushersIdle DEF Pushers!Spurious, Pushers!WakesSpuriously
<1>2. CASE Pushers!AgentSleeps
  BY <1>2, PushersIdle DEF Pushers!AgentSleeps, Pushers!Sleep
<1>3. ASSUME NEW i \in Items, Pushers!AgentPlaces(i) PROVE PushersGoal
  BY <1>3, PushersPlaceKeeps
<1>4. ASSUME NEW i \in Items, Pushers!AgentAnnounces(i) PROVE PushersGoal
  <2>1. /\ PushersTyped /\ UNCHANGED push_pending
    BY <1>4 DEF PushersInv, Pushers!AgentAnnounces
  <2>2. /\ PushersTyped'
        /\ \A u \in PT \ {Agent} : pc'[u] = pc[u]
        /\ UNCHANGED <<table, agent_can_place, notif>>
        /\ sem'[Agent] = sem[Agent]
        /\ \A k \in Items : sem'[PSmoker(k)] = sem[PSmoker(k)]
        /\ UNCHANGED <<Pushers!on_table, Pushers!cigarettes>>
    BY <1>4, <2>1, PusherAgentAnnounces
  <2>3. \A k \in Items : pc'[PSmoker(k)] = pc[PSmoker(k)]
    BY <2>2, PushersApart
  <2> QED
    BY <2>1, <2>2, <2>3, PushersStand
<1>5. ASSUME NEW i \in Items, Pushers!pusher(i) PROVE PushersGoal
  <2>1. CASE /\ Pushers!waits /\ push_pending[i] > 0 /\ Pushers!Push(i, "start")
             /\ push_pending' = [push_pending EXCEPT ![i] = @ - 1]
    BY <2>1, PushersPushKeeps DEF Pushers!waits
  <2>2. CASE Pushers!Sleep(Pushers!Pusher(i), "start", Pushers!Pusher(i))
             /\ UNCHANGED Pushers!pushVars
    BY <2>2, PushersIdle DEF Pushers!Sleep
  <2>3. CASE /\ ~Pushers!waits
             /\ Pushers!acquire(Pushers!Pusher(i), Pushers!Pusher(i), "start", "push")
             /\ UNCHANGED Pushers!pushVars
    <3>1. /\ PushersTyped /\ program # "smokers_3"
          /\ UNCHANGED <<table, agent_can_place, notif, push_pending>>
      BY <2>3 DEF PushersInv, Pushers!pushVars, Pushers!waits
    <3>2. /\ PushersTyped'
          /\ \A k \in Items : pc'[PSmoker(k)] = pc[PSmoker(k)]
          /\ \A k \in Items : sem'[PSmoker(k)] = sem[PSmoker(k)]
          /\ sem'[Agent] = sem[Agent]
          /\ UNCHANGED <<Pushers!on_table, Pushers!cigarettes>>
      BY <2>3, <3>1, PusherAcquires DEF Pusher
    <3> QED
      BY <3>1, <3>2, PushersStand
  <2>4. CASE ~Pushers!waits /\ Pushers!Push(i, "push") /\ UNCHANGED push_pending
    BY <2>4, PushersPushKeeps DEF Pushers!waits
  <2> QED
    BY <1>5, <2>1, <2>2, <2>3, <2>4 DEF Pushers!pusher
<1>6. ASSUME NEW i \in Items, Pushers!PusherWakes(i) PROVE PushersGoal
  BY <1>6, PushersSignalKeeps
<1>7. ASSUME NEW k \in Items, Pushers!smoker(k) PROVE PushersGoal
  <2>1. CASE /\ Pushers!waits /\ Pushers!CompleteFor(k)
             /\ Pushers!Move(Pushers!Smoker(k), "start", "smoke")
             /\ Pushers!ClearTable /\ agent_can_place' = TRUE
    BY <2>1, PushersTakeKeeps DEF Pushers!waits, PSmoker
  <2>2. CASE Pushers!Sleep(Pushers!Smoker(k), "start", Pushers!Smoker(k))
             /\ UNCHANGED Pushers!pushVars
    BY <2>2, PushersIdle DEF Pushers!Sleep
  <2>3. CASE /\ ~Pushers!waits /\ UNCHANGED Pushers!pushVars
             /\ Pushers!acquire(Pushers!Smoker(k), Pushers!Smoker(k), "start",
                                IF Pushers!hard THEN "smoke" ELSE "clear")
    BY <2>3, PushersPermitKeeps DEF Pushers!waits, Pushers!hard, PSmoker
  <2>4. CASE /\ Pushers!Move(Pushers!Smoker(k), "clear", "smoke")
             /\ Pushers!ClearTable /\ UNCHANGED agent_can_place
    BY <2>4, PushersTakeKeeps DEF PSmoker
  <2> QED
    BY <1>7, <2>1, <2>2, <2>3, <2>4 DEF Pushers!smoker
<1>8. ASSUME NEW k \in Items, Pushers!SmokerIsDone(k) PROVE PushersGoal
  BY <1>8, PushersDoneKeeps
<1> QED
  BY <1>1, <1>2, <1>3, <1>4, <1>5, <1>6, <1>7, <1>8 DEF PushersNext, Pushers!Step

-----------------------------------------------------------------------------
(* cigarette_smoker_hard_atomics                                           *)

BT == Board!BoardThreads
BTakers == Board!Takers
BAgent == Board!agent
BPusher(i) == Board!Pusher(i)
BSmoker(k) == Board!Smoker(k)

BoardLabels == {"start", "try", "place", "swap", "post", "notify"}
Scores == {b \in [item : 0..3, count : Nat] : b.item = 3 <=> b.count = 0}

BoardTyped ==
  /\ pc \in [BT -> BoardLabels]
  /\ sem \in [BTakers -> Nat]
  /\ current \in [BTakers -> Nat]
  /\ scoreboard \in Scores
  /\ old \in [Items -> Scores]
  /\ notify \in [Items -> 0..3]
  /\ to_post \in SUBSET Items
  /\ pc[BAgent] = "start" => to_post = {}
  /\ \A t \in BTakers : pc[t] = "try" => current[t] > 0
  /\ \A i \in Items : pc[BPusher(i)] \in {"post", "notify"} => notify[i] \in Items

(* How many of item i the scoreboard b shows.                              *)
Shows(b, i) == IF b.item = i THEN b.count ELSE 0
Posts(i) == i \in to_post /\ ~(pc[BAgent] = "notify" /\ \A j \in to_post : i <= j)
Posting == [i \in Items |-> IF pc[BPusher(i)] = "post" THEN notify[i] ELSE 3]

BoardLies(i) ==
  Shows(scoreboard, i) + sem[BPusher(i)] +
  (IF pc[BPusher(i)] \in {"place", "swap"} THEN 1 ELSE 0) +
  (IF Posts(i) THEN 1 ELSE 0)

BoardTaken(k) == sem[BSmoker(k)] + Count(Items, Posting, {k})

LEMMA BoardApart ==
  /\ BAgent \in BT /\ BAgent \notin BTakers /\ BTakers \subseteq BT
  /\ \A i \in Items : /\ BPusher(i) \in BTakers /\ BSmoker(i) \in BTakers
                      /\ BPusher(i) # BAgent /\ BSmoker(i) # BAgent
  /\ \A i, j \in Items : /\ BPusher(i) # BSmoker(j)
                         /\ BPusher(i) = BPusher(j) => i = j
                         /\ BSmoker(i) = BSmoker(j) => i = j
  BY DEF BT, BTakers, BAgent, BPusher, BSmoker, Board!BoardThreads, Board!Takers,
     Board!agent, Board!Pusher, Board!Smoker, Board!Items, Items

LEMMA BoardHowMany ==
  \A f, x : Board!HowMany(f, x) = Count(Items, f, {x})
<1> SUFFICES ASSUME NEW f, NEW x
             PROVE  Board!HowMany(f, x) = Count(Items, f, {x})
  OBVIOUS
<1>1. {i \in Board!Items : f[i] = x} = Standing(Items, f, {x})
  BY DEF Standing, Items, Board!Items
<1>2. Board!HowMany(f, x) = Cardinality({i \in Board!Items : f[i] = x})
  BY DEF Board!HowMany, Board!Cardinality, Cardinality
<1>3. Count(Items, f, {x}) = Cardinality(Standing(Items, f, {x}))
  BY DEF Count
<1> QED
  BY <1>1, <1>2, <1>3

LEMMA ScoresShown ==
  ASSUME NEW b \in Scores
  PROVE  /\ \A i \in Items : Shows(b, i) \in Nat
         /\ \A i \in Items : Board!If(b.item = i) * b.count = Shows(b, i)
  BY DEF Scores, Shows, Board!If, Items

LEMMA BoardView ==
  ASSUME BoardTyped
  PROVE  /\ Board!on_table = [i \in Items |-> BoardLies(i)]
         /\ Board!cigarettes = [k \in Items |-> BoardTaken(k)]
<1>1. Board!on_table = [i \in Items |-> BoardLies(i)]
  <2>1. \A i \in Items : Board!If(scoreboard.item = i) * scoreboard.count = Shows(scoreboard, i)
    BY ScoresShown DEF BoardTyped
  <2> QED
    BY <2>1 DEF Board!on_table, BoardLies, Posts, Items, Board!Items, BPusher, BAgent, Board!If
<1>2. Board!posting = Posting
  BY DEF Board!posting, Posting, Board!Items, Items, Board!Nobody, BPusher
<1>3. Board!cigarettes = [k \in Items |-> BoardTaken(k)]
  BY <1>2, BoardHowMany DEF Board!cigarettes, BoardTaken, Items, Board!Items, BSmoker
<1> QED
  BY <1>1, <1>3

LEMMA BoardViewNext ==
  ASSUME BoardTyped'
  PROVE  /\ Board!on_table' = [i \in Items |-> BoardLies(i)']
         /\ Board!cigarettes' = [k \in Items |-> BoardTaken(k)']
<1>1. Board!on_table' = [i \in Items |-> BoardLies(i)']
  <2>1. \A i \in Items : Board!If(scoreboard'.item = i) * scoreboard'.count = Shows(scoreboard', i)
    BY ScoresShown DEF BoardTyped
  <2> QED
    BY <2>1 DEF Board!on_table, BoardLies, Posts, Items, Board!Items, BPusher, BAgent, Board!If
<1>2. Board!posting' = Posting'
  BY DEF Board!posting, Posting, Board!Items, Items, Board!Nobody, BPusher
<1>3. Board!cigarettes' = [k \in Items |-> BoardTaken(k)']
  BY <1>2, BoardHowMany DEF Board!cigarettes, BoardTaken, Items, Board!Items, BSmoker
<1> QED
  BY <1>1, <1>3

LEMMA BoardStart ==
  Board!Init => BoardTyped /\ Board!on_table = Nothing /\ Board!cigarettes = Nothing
<1> SUFFICES ASSUME Board!Init
             PROVE  BoardTyped /\ Board!on_table = Nothing /\ Board!cigarettes = Nothing
  OBVIOUS
<1>1. /\ \A t \in BT : pc[t] = "start"
      /\ \A t \in BTakers : sem[t] = 0 /\ current[t] = 0
      /\ scoreboard = [item |-> 3, count |-> 0]
      /\ \A i \in Items : old[i] = [item |-> 3, count |-> 0] /\ notify[i] = 3
      /\ to_post = {}
  BY DEF Board!Init, Board!BoardIdle, Board!Items, Items, Board!Empty, Board!Nobody,
     BT, BTakers
<1>2. [item |-> 3, count |-> 0] \in Scores
  BY DEF Scores
<1>3. BoardTyped
  <2>1. /\ pc \in [BT -> BoardLabels] /\ sem \in [BTakers -> Nat]
        /\ current \in [BTakers -> Nat]
    BY DEF Board!Init, Board!BoardIdle, BT, BTakers, BoardLabels
  <2>2. /\ old \in [Items -> Scores] /\ notify \in [Items -> 0..3]
    BY <1>2 DEF Board!Init, Board!BoardIdle, Board!Empty, Board!Nobody, Board!Items, Items
  <2> QED
    BY <1>1, <1>2, <2>1, <2>2, BoardApart DEF BoardTyped
<1>4. \A i \in Items : BoardLies(i) = 0
  <2>1. \A i \in Items : pc[BPusher(i)] = "start" /\ sem[BPusher(i)] = 0
    BY <1>1, BoardApart
  <2> QED
    BY <1>1, <2>1 DEF BoardLies, Posts, Shows, Items
<1>5. \A k \in Items : BoardTaken(k) = 0
  <2>1. \A i \in Items : Posting[i] = 3
    BY <1>1, BoardApart DEF Posting
  <2> SUFFICES ASSUME NEW k \in Items PROVE BoardTaken(k) = 0
    OBVIOUS
  <2>2. Count(Items, Posting, {k}) = 0
    <3>1. \A i \in Items : Posting[i] \notin {k}
      BY <2>1 DEF Items
    <3> QED
      BY <3>1, ItemsAreFinite, CountZero
  <2>3. sem[BSmoker(k)] = 0
    BY <1>1, BoardApart
  <2> QED
    BY <2>2, <2>3 DEF BoardTaken
<1> QED
  BY <1>3, <1>4, <1>5, BoardView DEF Nothing, Smokers!Nothing, Smokers!Items, Items

BoardGoal ==
  /\ BoardTyped'
  /\ Tabling(FALSE, Board!on_table, Board!cigarettes, Board!on_table', Board!cigarettes')

LEMMA BoardGo ==
  ASSUME BoardTyped, NEW t \in BT, NEW from, NEW to \in BoardLabels,
         Board!Goto(t, from, to)
  PROVE  /\ pc[t] = from
         /\ pc' \in [BT -> BoardLabels]
         /\ \A u \in BT : pc'[u] = IF u = t THEN to ELSE pc[u]
  BY DEF BoardTyped, Board!Goto, Board!At

(* Steps that move no item and no permit of a smoker.                      *)
LEMMA BoardStill ==
  ASSUME BoardTyped, BoardTyped', UNCHANGED <<sem, scoreboard, to_post>>,
         pc'[BAgent] = pc[BAgent],
         \A i \in Items :
           /\ pc'[BPusher(i)] \in {"place", "swap"} <=> pc[BPusher(i)] \in {"place", "swap"}
           /\ pc'[BPusher(i)] = "post" <=> pc[BPusher(i)] = "post"
           /\ pc[BPusher(i)] = "post" => notify'[i] = notify[i]
  PROVE  BoardGoal
<1>1. Posting' = Posting
  BY DEF Posting
<1>2. \A i \in Items : BoardLies(i)' = BoardLies(i)
  BY DEF BoardLies, Posts
<1>3. UNCHANGED Board!on_table
  BY <1>2, BoardView, BoardViewNext DEF BoardLies
<1>4. UNCHANGED Board!cigarettes
  BY <1>1, BoardView, BoardViewNext DEF BoardTaken
<1> QED
  BY <1>3, <1>4 DEF BoardGoal, Tabling

LEMMA BoardTakes ==
  ASSUME BoardTyped, NEW t \in BTakers, NEW to \in {"place", "start"},
         (to = "place" /\ \E i \in Items : t = BPusher(i)) \/
         (to = "start" /\ \E k \in Items : t = BSmoker(k)),
         Board!take(t, to)
  PROVE  BoardGoal
<1>0. /\ UNCHANGED <<scoreboard, old, notify, to_post>>
      /\ t \in BT /\ t # BAgent
  BY BoardApart DEF Board!take
<1>1. CASE Board!WaitForPermit(t)
  <2>1. UNCHANGED <<pc, sem, current>>
    BY <1>1 DEF Board!WaitForPermit, Board!Sleep
  <2>2. BoardTyped'
    BY <1>0, <2>1 DEF BoardTyped
  <2> QED
    BY <1>0, <2>1, <2>2, BoardStill
<1>2. CASE Board!LoadPermits(t)
  <2>1. /\ Board!Goto(t, "start", "try") /\ UNCHANGED sem
        /\ sem[t] # 0 /\ current' = [current EXCEPT ![t] = sem[t]]
    BY <1>2 DEF Board!LoadPermits, Board!Move
  <2>2. /\ pc[t] = "start" /\ pc' \in [BT -> BoardLabels]
        /\ \A u \in BT : pc'[u] = IF u = t THEN "try" ELSE pc[u]
    BY <1>0, <2>1, BoardGo DEF BoardLabels
  <2>3. BoardTyped'
    <3>1. current' \in [BTakers -> Nat] /\ \A u \in BTakers : pc'[u] = "try" => current'[u] > 0
      BY <2>1, <2>2, BoardApart DEF BoardTyped
    <3>2. /\ pc'[BAgent] = pc[BAgent]
          /\ \A i \in Items : pc'[BPusher(i)] \in {"post", "notify"} =>
                              pc[BPusher(i)] \in {"post", "notify"}
      BY <1>0, <2>2, BoardApart
    <3> QED
      BY <1>0, <2>1, <2>2, <3>1, <3>2 DEF BoardTyped
  <2> QED
    BY <1>0, <2>1, <2>2, <2>3, BoardApart, BoardStill
<1>3. CASE Board!MissPermit(t)
  <2>1. /\ Board!Goto(t, "try", "start") /\ UNCHANGED sem
        /\ current' = [current EXCEPT ![t] = 0]
    BY <1>3 DEF Board!MissPermit, Board!Move
  <2>2. /\ pc[t] = "try" /\ pc' \in [BT -> BoardLabels]
        /\ \A u \in BT : pc'[u] = IF u = t THEN "start" ELSE pc[u]
    BY <1>0, <2>1, BoardGo DEF BoardLabels
  <2>3. BoardTyped'
    <3>1. current' \in [BTakers -> Nat] /\ \A u \in BTakers : pc'[u] = "try" => current'[u] > 0
      BY <2>1, <2>2, BoardApart DEF BoardTyped
    <3>2. /\ pc'[BAgent] = pc[BAgent]
          /\ \A i \in Items : pc'[BPusher(i)] \in {"post", "notify"} =>
                              pc[BPusher(i)] \in {"post", "notify"}
      BY <1>0, <2>2, BoardApart
    <3> QED
      BY <1>0, <2>1, <2>2, <3>1, <3>2 DEF BoardTyped
  <2> QED
    BY <1>0, <2>1, <2>2, <2>3, BoardApart, BoardStill
<1>4. CASE Board!Claim(t, to)
  <2>1. /\ Board!Goto(t, "try", to)
        /\ sem[t] = current[t]
        /\ sem' = [sem EXCEPT ![t] = current[t] - 1]
        /\ current' = [current EXCEPT ![t] = 0]
    BY <1>4 DEF Board!Claim
  <2>2. /\ pc[t] = "try" /\ pc' \in [BT -> BoardLabels]
        /\ \A u \in BT : pc'[u] = IF u = t THEN to ELSE pc[u]
    BY <1>0, <2>1, BoardGo DEF BoardLabels
  <2>3. /\ sem' \in [BTakers -> Nat] /\ sem[t] > 0
        /\ \A u \in BTakers : sem'[u] = sem[u] - (IF u = t THEN 1 ELSE 0)
        /\ \A u \in BTakers : u # t => sem'[u] = sem[u]
    <3>1. sem[t] \in Nat /\ sem[t] > 0
      BY <2>1, <2>2 DEF BoardTyped
    <3>2. sem' = [sem EXCEPT ![t] = sem[t] - 1]
      BY <2>1
    <3> QED
      BY <3>1, <3>2 DEF BoardTyped
  <2>4. BoardTyped'
    <3>1. current' \in [BTakers -> Nat] /\ \A u \in BTakers : pc'[u] = "try" => current'[u] > 0
      BY <2>1, <2>2, BoardApart DEF BoardTyped
    <3>2. /\ pc'[BAgent] = pc[BAgent]
          /\ \A i \in Items : pc'[BPusher(i)] \in {"post", "notify"} =>
                              pc[BPusher(i)] \in {"post", "notify"}
      BY <1>0, <2>2, BoardApart
    <3> QED
      BY <1>0, <2>1, <2>2, <2>3, <3>1, <3>2 DEF BoardTyped
  <2>5. Posting' = Posting
    <3>1. \A i \in Items : pc'[BPusher(i)] = "post" <=> pc[BPusher(i)] = "post"
      BY <2>2, BoardApart
    <3> QED
      BY <1>0, <3>1 DEF Posting
  <2>6. \A i \in Items : sem[BPusher(i)] \in Nat /\ sem[BSmoker(i)] \in Nat
                         /\ Count(Items, Posting, {i}) \in Nat
    BY BoardApart, ItemsAreFinite, CountIsNat DEF BoardTyped
  <2>7. CASE to = "place" /\ \E i \in Items : t = BPusher(i)
    <3>1. PICK i \in Items : t = BPusher(i)
      BY <2>7
    <3>2. \A j \in Items :
            /\ pc'[BPusher(j)] = IF j = i THEN "place" ELSE pc[BPusher(j)]
            /\ sem'[BPusher(j)] = sem[BPusher(j)] - (IF j = i THEN 1 ELSE 0)
            /\ sem'[BSmoker(j)] = sem[BSmoker(j)]
      <4>1. \A j \in Items : pc'[BPusher(j)] = IF j = i THEN "place" ELSE pc[BPusher(j)]
        BY <2>2, <2>7, <3>1, BoardApart
      <4>2. \A j \in Items : BPusher(j) = t <=> j = i
        BY <3>1, BoardApart
      <4>3. \A j \in Items : BSmoker(j) # t
        BY <3>1, BoardApart
      <4>4. \A j \in Items : sem'[BPusher(j)] = sem[BPusher(j)] - (IF j = i THEN 1 ELSE 0)
        BY <2>3, <4>2, BoardApart
      <4>5. \A j \in Items : sem'[BSmoker(j)] = sem[BSmoker(j)]
        BY <2>3, <4>3, BoardApart
      <4> QED
        BY <4>1, <4>4, <4>5
    <3>3. \A j \in Items : BoardLies(j)' = BoardLies(j)
      <4>1. pc'[BAgent] = pc[BAgent] /\ \A j \in Items : Posts(j)' = Posts(j)
        BY <1>0, <2>2, BoardApart DEF Posts
      <4>2. \A j \in Items : Shows(scoreboard', j) = Shows(scoreboard, j)
                             /\ Shows(scoreboard, j) \in Nat
        BY <1>0, ScoresShown DEF BoardTyped
      <4>3. pc[BPusher(i)] = "try"
        BY <2>2, <3>1
      <4> SUFFICES ASSUME NEW j \in Items PROVE BoardLies(j)' = BoardLies(j)
        BY DEF BoardLies, Posts
      <4>4. (IF Posts(j) THEN 1 ELSE 0)' = (IF Posts(j) THEN 1 ELSE 0)
            /\ (IF Posts(j) THEN 1 ELSE 0) \in Nat
        BY <1>0, <4>1 DEF Posts
      <4>5. (sem[BPusher(j)] + (IF pc[BPusher(j)] \in {"place", "swap"} THEN 1 ELSE 0))' =
            sem[BPusher(j)] + (IF pc[BPusher(j)] \in {"place", "swap"} THEN 1 ELSE 0)
        <5>1. sem[BPusher(j)] \in Nat
          BY <2>6
        <5>2. /\ pc'[BPusher(j)] = IF j = i THEN "place" ELSE pc[BPusher(j)]
              /\ sem'[BPusher(j)] = sem[BPusher(j)] - (IF j = i THEN 1 ELSE 0)
          BY <3>2
        <5>3. CASE j = i
          BY <4>3, <5>1, <5>2, <5>3
        <5>4. CASE j # i
          BY <5>1, <5>2, <5>4
        <5> QED
          BY <5>3, <5>4
      <4>6. Shows(scoreboard', j) = Shows(scoreboard, j) /\ Shows(scoreboard, j) \in Nat
            /\ sem[BPusher(j)] \in Nat /\ sem'[BPusher(j)] \in Nat
        BY <2>3, <2>6, <4>2, BoardApart
      <4> QED
        BY <4>4, <4>5, <4>6 DEF BoardLies
    <3>4. UNCHANGED Board!on_table
      BY <2>4, <3>3, BoardView, BoardViewNext DEF BoardLies
    <3>5. UNCHANGED Board!cigarettes
      BY <2>4, <2>5, <3>2, BoardView, BoardViewNext DEF BoardTaken
    <3> QED
      BY <2>4, <3>4, <3>5 DEF BoardGoal, Tabling
  <2>8. CASE to = "start" /\ \E k \in Items : t = BSmoker(k)
    <3>1. PICK k \in Items : t = BSmoker(k)
      BY <2>8
    <3>2. \A j \in Items :
            /\ pc'[BPusher(j)] = pc[BPusher(j)]
            /\ sem'[BPusher(j)] = sem[BPusher(j)]
            /\ sem'[BSmoker(j)] = sem[BSmoker(j)] - (IF j = k THEN 1 ELSE 0)
      <4>1. \A j \in Items : BSmoker(j) = t <=> j = k
        BY <3>1, BoardApart
      <4>2. \A j \in Items : BPusher(j) # t
        BY <3>1, BoardApart
      <4>3. \A j \in Items : pc'[BPusher(j)] = pc[BPusher(j)]
        BY <2>2, <4>2, BoardApart
      <4>4. \A j \in Items : sem'[BSmoker(j)] = sem[BSmoker(j)] - (IF j = k THEN 1 ELSE 0)
        BY <2>3, <4>1, BoardApart
      <4>5. \A j \in Items : sem'[BPusher(j)] = sem[BPusher(j)]
        BY <2>3, <4>2, BoardApart
      <4> QED
        BY <4>3, <4>4, <4>5
    <3>3. \A j \in Items : BoardLies(j)' = BoardLies(j)
      <4>1. pc'[BAgent] = pc[BAgent]
        BY <1>0, <2>2, BoardApart
      <4> QED
        BY <1>0, <3>2, <4>1 DEF BoardLies, Posts
    <3>4. UNCHANGED Board!on_table
      BY <2>4, <3>3, BoardView, BoardViewNext DEF BoardLies
    <3>5. \A j \in Items : /\ BoardTaken(j)' = IF j = k THEN BoardTaken(j) - 1 ELSE BoardTaken(j)
                           /\ BoardTaken(k) > 0
      <4> SUFFICES ASSUME NEW j \in Items
                   PROVE  /\ BoardTaken(j)' = IF j = k THEN BoardTaken(j) - 1 ELSE BoardTaken(j)
                          /\ (j = k => BoardTaken(j) > 0)
        BY DEF BoardTaken
      <4>1. /\ BoardTaken(j) = sem[BSmoker(j)] + Count(Items, Posting, {j})
            /\ BoardTaken(j)' = sem'[BSmoker(j)] + Count(Items, Posting, {j})
        BY <2>5 DEF BoardTaken
      <4> QED
        BY <2>3, <2>6, <3>1, <3>2, <4>1
    <3>6. /\ Board!cigarettes[k] > 0
          /\ Board!cigarettes' = [Board!cigarettes EXCEPT ![k] = @ - 1]
      BY <2>4, <3>5, BoardView, BoardViewNext DEF BoardTaken
    <3> QED
      BY <2>4, <3>4, <3>6 DEF BoardGoal, Tabling, Smokes
  <2> QED
    BY <2>7, <2>8
<1> QED
  BY <1>1, <1>2, <1>3, <1>4 DEF Board!take

LEMMA BoardLoads ==
  ASSUME BoardTyped, NEW i \in Items, Board!LoadBoard(i) \/ Board!MissBoard(i)
  PROVE  BoardGoal
<1>1. PICK from \in {"place", "swap"}, to \in {"place", "swap"} :
        Board!Goto(BPusher(i), from, to)
  BY DEF Board!LoadBoard, Board!MissBoard, Board!Move, BPusher
<1>2. /\ pc[BPusher(i)] = from /\ pc' \in [BT -> BoardLabels]
      /\ \A u \in BT : pc'[u] = IF u = BPusher(i) THEN to ELSE pc[u]
  BY <1>1, BoardGo, BoardApart DEF BoardLabels
<1>3. /\ UNCHANGED <<sem, scoreboard, current, notify, to_post>>
      /\ old' = [old EXCEPT ![i] = scoreboard] \/ old' = [old EXCEPT ![i] = Board!Empty]
  BY DEF Board!LoadBoard, Board!MissBoard, Board!Move
<1>4. old' \in [Items -> Scores]
  <2>1. Board!Empty \in Scores
    BY DEF Board!Empty, Scores
  <2> QED
    BY <1>3, <2>1 DEF BoardTyped
<1>5. /\ pc'[BAgent] = pc[BAgent]
      /\ \A j \in Items : pc'[BPusher(j)] = IF j = i THEN to ELSE pc[BPusher(j)]
      /\ \A u \in BTakers : pc'[u] = "try" => pc[u] = "try"
  BY <1>2, BoardApart
<1>6. BoardTyped'
  BY <1>2, <1>3, <1>4, <1>5 DEF BoardTyped
<1> QED
  BY <1>2, <1>3, <1>5, <1>6, BoardStill

(* The exchange succeeds: the item joins those of its kind, or makes a     *)
(* pair with one of another kind.                                          *)
LEMMA ArrivalShows ==
  ASSUME NEW b \in Scores, NEW i \in Items
  PROVE  /\ Board!Arrival(b, i) \in Scores
         /\ ~Board!Completes(b, i) =>
              \A j \in Items : Shows(Board!Arrival(b, i), j) =
                                 Shows(b, j) + (IF j = i THEN 1 ELSE 0)
         /\ Board!Completes(b, i) =>
              /\ 3 - b.item - i \in Items
              /\ b.item # 3 - b.item - i /\ i # 3 - b.item - i
              /\ \A j \in Items : Shows(Board!Arrival(b, i), j) =
                   Shows(b, j) - (IF j = i \/ j = 3 - b.item - i THEN 0 ELSE 1)
              /\ \A j \in Items : j = i \/ j = 3 - b.item - i \/ Shows(b, j) > 0
<1> DEFINE a == Board!Arrival(b, i)
<1>0. /\ b = [item |-> b.item, count |-> b.count]
      /\ b.item \in 0..3 /\ b.count \in Nat /\ (b.item = 3 <=> b.count = 0)
  BY DEF Scores
<1>1. CASE b.count = 0
  <2>1. a = [item |-> i, count |-> 1]
    BY <1>1 DEF Board!Arrival
  <2> HIDE DEF a
  <2>2. a \in Scores
    BY <2>1 DEF Scores, Items
  <2>3. a.item = i /\ a.count = 1
    BY <2>1
  <2>4. \A j \in Items : Shows(a, j) = Shows(b, j) + (IF j = i THEN 1 ELSE 0)
    BY <1>0, <1>1, <2>3 DEF Shows, Items
  <2> QED
    BY <1>1, <2>2, <2>4 DEF Board!Completes, a
<1>2. CASE b.count # 0 /\ b.item = i
  <2>1. a = [b EXCEPT !.count = @ + 1]
    BY <1>2 DEF Board!Arrival
  <2> HIDE DEF a
  <2>2. a = [item |-> b.item, count |-> b.count + 1]
    BY <1>0, <2>1
  <2>3. a.item = i /\ a.count = b.count + 1 /\ a \in Scores
    BY <1>0, <1>2, <2>2 DEF Scores, Items
  <2>4. \A j \in Items : Shows(a, j) = Shows(b, j) + (IF j = i THEN 1 ELSE 0)
    BY <1>0, <1>2, <2>3 DEF Shows, Items
  <2> QED
    BY <1>2, <2>3, <2>4 DEF Board!Completes, a
<1>3. CASE b.count # 0 /\ b.item # i
  <2>1. /\ Board!Completes(b, i) /\ b.item \in Items
        /\ 3 - b.item - i \in Items
        /\ b.item # 3 - b.item - i /\ i # 3 - b.item - i
        /\ \A j \in Items : j = i \/ j = 3 - b.item - i \/ j = b.item
    BY <1>0, <1>3 DEF Board!Completes, Items
  <2>2. CASE b.count = 1
    <3>1. a = [item |-> 3, count |-> 0]
      BY <1>3, <2>2 DEF Board!Arrival, Board!Empty
    <3> HIDE DEF a
    <3>2. a \in Scores /\ a.item = 3 /\ a.count = 0
      BY <3>1 DEF Scores
    <3>3. \A j \in Items : /\ Shows(a, j) = 0
                           /\ Shows(b, j) = IF j = b.item THEN 1 ELSE 0
      BY <2>2, <3>2 DEF Shows, Items
    <3>4. \A j \in Items : Shows(a, j) = Shows(b, j) - (IF j = i \/ j = 3 - b.item - i THEN 0 ELSE 1)
      BY <1>3, <2>1, <3>3
    <3>5. \A j \in Items : j = i \/ j = 3 - b.item - i \/ Shows(b, j) > 0
      BY <2>1, <3>3
    <3> QED
      BY <2>1, <3>2, <3>4, <3>5 DEF a
  <2>3. CASE b.count # 1
    <3>1. a = [b EXCEPT !.count = @ - 1]
      BY <1>3, <2>3 DEF Board!Arrival
    <3> HIDE DEF a
    <3>2. a = [item |-> b.item, count |-> b.count - 1]
      BY <1>0, <3>1
    <3>3. a.item = b.item /\ a.count = b.count - 1 /\ a \in Scores
      BY <1>0, <1>3, <2>1, <2>3, <3>2 DEF Scores, Items
    <3>4. \A j \in Items : /\ Shows(a, j) = IF j = b.item THEN b.count - 1 ELSE 0
                           /\ Shows(b, j) = IF j = b.item THEN b.count ELSE 0
      BY <3>3 DEF Shows
    <3>5. \A j \in Items : Shows(a, j) = Shows(b, j) - (IF j = i \/ j = 3 - b.item - i THEN 0 ELSE 1)
      BY <1>0, <2>1, <1>3, <3>4
    <3> QED
      BY <1>0, <1>3, <2>1, <3>3, <3>4, <3>5 DEF a
  <2> QED
    BY <2>2, <2>3
<1> QED
  BY <1>0, <1>1, <1>2, <1>3

(* What pusher i posts next.                                               *)
LEMMA PostingMoves ==
  ASSUME BoardTyped, NEW i \in Items, NEW n,
         \A j \in Items \ {i} : Posting'[j] = Posting[j], Posting'[i] = n
  PROVE  \A k \in Items :
           Count(Items, Posting', {k}) = Count(Items, Posting, {k}) +
             (IF Posting[i] = k THEN (IF n = k THEN 0 ELSE -1)
              ELSE IF n = k THEN 1 ELSE 0)
<1>1. /\ Posting = [j \in Items |-> Posting[j]]
      /\ Posting' = [j \in Items |-> Posting'[j]]
  BY DEF Posting
<1>2. Moves(i, n, Posting, Posting') /\ DOMAIN Posting = Items
  BY <1>1 DEF Moves
<1> SUFFICES ASSUME NEW k \in Items
             PROVE  Count(Items, Posting', {k}) = Count(Items, Posting, {k}) +
             (IF Posting[i] = k THEN (IF n = k THEN 0 ELSE -1)
              ELSE IF n = k THEN 1 ELSE 0)
  OBVIOUS
<1> DEFINE c == Count(Items, Posting, {k})
           d == Count(Items, Posting', {k})
<1>3. c \in Nat
  BY ItemsAreFinite, CountIsNat
<1>4. d = c + (IF i \notin Items \/ (Posting[i] \in {k} <=> n \in {k}) THEN 0
               ELSE IF n \in {k} THEN 1 ELSE -1)
  BY <1>2, ItemsAreFinite, CountAfterMove
<1> HIDE DEF c, d
<1>5. d = c + (IF Posting[i] = k THEN (IF n = k THEN 0 ELSE -1)
              ELSE IF n = k THEN 1 ELSE 0)
  BY <1>3, <1>4
<1> QED
  BY <1>5 DEF c, d

LEMMA BoardSwaps ==
  ASSUME BoardTyped, NEW i \in Items, Board!SwapBoard(i)
  PROVE  BoardGoal
<1> DEFINE b == scoreboard
           m == 3 - b.item - i
           to == IF Board!Completes(b, i) THEN "post" ELSE "start"
<1>1. /\ Board!Goto(BPusher(i), "swap", to) /\ UNCHANGED <<sem, current, to_post>>
      /\ scoreboard' = Board!Arrival(b, i)
      /\ notify' = [notify EXCEPT ![i] = IF Board!Completes(b, i) THEN m ELSE 3]
      /\ old' = [old EXCEPT ![i] = Board!Empty]
  BY DEF Board!SwapBoard, Board!Move, BPusher, Board!Nobody
<1>2. /\ b \in Scores
      /\ Board!Arrival(b, i) \in Scores
      /\ ~Board!Completes(b, i) =>
           \A j \in Items : Shows(Board!Arrival(b, i), j) =
                              Shows(b, j) + (IF j = i THEN 1 ELSE 0)
      /\ Board!Completes(b, i) =>
           /\ m \in Items
           /\ b.item # m /\ i # m
           /\ \A j \in Items : Shows(Board!Arrival(b, i), j) =
                Shows(b, j) - (IF j = i \/ j = m THEN 0 ELSE 1)
           /\ \A j \in Items : j = i \/ j = m \/ Shows(b, j) > 0
  <2>1. b \in Scores
    BY DEF BoardTyped
  <2> QED
    BY <2>1, ArrivalShows
<1>s. \A j \in Items : Shows(b, j) \in Nat
  BY <1>2, ScoresShown
<1> HIDE DEF m, b
<1>3. /\ pc[BPusher(i)] = "swap" /\ pc' \in [BT -> BoardLabels]
      /\ \A u \in BT : pc'[u] = IF u = BPusher(i) THEN to ELSE pc[u]
  BY <1>1, BoardGo, BoardApart DEF BoardLabels
<1>4. old' \in [Items -> Scores]
  <2>1. Board!Empty \in Scores
    BY DEF Board!Empty, Scores
  <2> QED
    BY <1>1, <2>1 DEF BoardTyped
<1>5. /\ pc'[BAgent] = pc[BAgent]
      /\ \A j \in Items : pc'[BPusher(j)] = IF j = i THEN to ELSE pc[BPusher(j)]
      /\ \A u \in BTakers : pc'[u] = "try" => pc[u] = "try"
  BY <1>3, BoardApart
<1>6. /\ notify' \in [Items -> 0..3]
      /\ \A j \in Items : notify'[j] = IF j # i THEN notify[j]
                                       ELSE IF Board!Completes(b, i) THEN m ELSE 3
  <2>1. Board!Completes(b, i) => m \in 0..3
    BY <1>2 DEF Items
  <2> QED
    BY <1>1, <2>1 DEF BoardTyped
<1>7. BoardTyped'
  BY <1>1, <1>2, <1>3, <1>4, <1>5, <1>6 DEF BoardTyped
<1>8. \A j \in Items : /\ sem[BPusher(j)] \in Nat /\ sem[BSmoker(j)] \in Nat
                       /\ Count(Items, Posting, {j}) \in Nat
  BY BoardApart, ItemsAreFinite, CountIsNat DEF BoardTyped
<1>9. /\ \A j \in Items \ {i} : Posting'[j] = Posting[j]
      /\ Posting[i] = 3
      /\ Posting'[i] = IF Board!Completes(b, i) THEN m ELSE 3
  BY <1>3, <1>5, <1>6 DEF Posting
<1>10. \A j \in Items : Count(Items, Posting', {j}) =
         Count(Items, Posting, {j}) +
           (IF Board!Completes(b, i) /\ j = m THEN 1 ELSE 0)
  <2>1. \A k \in Items :
           Count(Items, Posting', {k}) = Count(Items, Posting, {k}) +
             (IF Posting[i] = k THEN (IF Posting'[i] = k THEN 0 ELSE -1)
              ELSE IF Posting'[i] = k THEN 1 ELSE 0)
    BY <1>9, PostingMoves
  <2>2. \A k \in Items : k # 3
    BY DEF Items
  <2> QED
    BY <1>8, <1>9, <2>1, <2>2
<1>11. \A j \in Items : Posts(j)' = Posts(j)
  BY <1>1, <1>5 DEF Posts
<1>12. CASE ~Board!Completes(b, i)
  <2>1. \A j \in Items : BoardLies(j)' = BoardLies(j)
    <3> SUFFICES ASSUME NEW j \in Items PROVE BoardLies(j)' = BoardLies(j)
      BY DEF BoardLies, Posts
    <3>1. Shows(scoreboard', j) = Shows(b, j) + (IF j = i THEN 1 ELSE 0)
      BY <1>1, <1>2, <1>12
    <3>2. pc[BPusher(i)] = "swap" /\ pc'[BPusher(j)] = IF j = i THEN "start" ELSE pc[BPusher(j)]
      BY <1>3, <1>5, <1>12
    <3> DEFINE p == IF Posts(j) THEN 1 ELSE 0
    <3>3. /\ BoardLies(j) = Shows(b, j) + sem[BPusher(j)] +
                             (IF pc[BPusher(j)] \in {"place", "swap"} THEN 1 ELSE 0) + p
          /\ BoardLies(j)' = Shows(scoreboard', j) + sem[BPusher(j)] +
                             (IF pc'[BPusher(j)] \in {"place", "swap"} THEN 1 ELSE 0) + p
          /\ p \in Nat
      BY <1>1, <1>5 DEF BoardLies, Posts, b
    <3>4. sem[BPusher(j)] \in Nat /\ Shows(b, j) \in Nat
      BY <1>8, <1>s
    <3> HIDE DEF p
    <3>5. CASE j = i
      BY <3>1, <3>2, <3>3, <3>4, <3>5
    <3>6. CASE j # i
      BY <3>1, <3>2, <3>3, <3>4, <3>6
    <3> QED
      BY <3>5, <3>6
  <2>2. UNCHANGED Board!on_table
    BY <1>7, <2>1, BoardView, BoardViewNext DEF BoardLies
  <2>3. Posting' = Posting
    BY <1>9, <1>12 DEF Posting
  <2>4. UNCHANGED Board!cigarettes
    BY <1>1, <1>7, <2>3, BoardView, BoardViewNext DEF BoardTaken
  <2> QED
    BY <1>7, <2>2, <2>4 DEF BoardGoal, Tabling
<1>13. CASE Board!Completes(b, i)
  <2>0. m \in Items /\ i # m
    BY <1>2, <1>13
  <2>1. \A j \in Items : /\ BoardLies(j)' = BoardLies(j) - (IF j = m THEN 0 ELSE 1)
                         /\ j # m => BoardLies(j) > 0
    <3> SUFFICES ASSUME NEW j \in Items
                 PROVE  /\ BoardLies(j)' = BoardLies(j) - (IF j = m THEN 0 ELSE 1)
                        /\ j # m => BoardLies(j) > 0
      BY DEF BoardLies, Posts
    <3>1. /\ Shows(scoreboard', j) = Shows(b, j) - (IF j = i \/ j = m THEN 0 ELSE 1)
          /\ j = i \/ j = m \/ Shows(b, j) > 0
      BY <1>1, <1>2, <1>13
    <3>2. pc[BPusher(i)] = "swap" /\ pc'[BPusher(j)] = IF j = i THEN "post" ELSE pc[BPusher(j)]
      BY <1>3, <1>5, <1>13
    <3> DEFINE p == IF Posts(j) THEN 1 ELSE 0
    <3>3. /\ BoardLies(j) = Shows(b, j) + sem[BPusher(j)] +
                             (IF pc[BPusher(j)] \in {"place", "swap"} THEN 1 ELSE 0) + p
          /\ BoardLies(j)' = Shows(scoreboard', j) + sem[BPusher(j)] +
                             (IF pc'[BPusher(j)] \in {"place", "swap"} THEN 1 ELSE 0) + p
          /\ p \in Nat
      BY <1>1, <1>5 DEF BoardLies, Posts, b
    <3>4. sem[BPusher(j)] \in Nat /\ Shows(b, j) \in Nat
      BY <1>8, <1>s
    <3> HIDE DEF p
    <3>5. CASE j = i
      BY <2>0, <3>1, <3>2, <3>3, <3>4, <3>5
    <3>6. CASE j # i
      BY <3>1, <3>2, <3>3, <3>4, <3>6
    <3> QED
      BY <3>5, <3>6
  <2>2. Board!on_table' = [j \in Items |-> Board!on_table[j] - (IF j = m THEN 0 ELSE 1)]
    <3>1. \A j \in Items : Board!on_table[j] = BoardLies(j)
      BY BoardView
    <3> QED
      BY <1>7, <2>1, <3>1, BoardViewNext DEF BoardLies
  <2>3. \A j \in Items \ {m} : Board!on_table[j] > 0
    BY <2>1, BoardView
  <2>4. \A j \in Items : BoardTaken(j)' = IF j = m THEN BoardTaken(j) + 1 ELSE BoardTaken(j)
    <3> SUFFICES ASSUME NEW j \in Items
                 PROVE  BoardTaken(j)' = IF j = m THEN BoardTaken(j) + 1 ELSE BoardTaken(j)
      BY DEF BoardTaken
    <3>1. /\ BoardTaken(j) = sem[BSmoker(j)] + Count(Items, Posting, {j})
          /\ BoardTaken(j)' = sem[BSmoker(j)] + Count(Items, Posting', {j})
      BY <1>1 DEF BoardTaken
    <3> QED
      BY <1>8, <1>10, <1>13, <3>1
  <2>5. Board!cigarettes' = [Board!cigarettes EXCEPT ![m] = @ + 1]
    BY <1>7, <2>4, BoardView, BoardViewNext DEF BoardTaken
  <2>6. Takes(m, Board!on_table, Board!cigarettes, Board!on_table', Board!cigarettes')
    BY <2>2, <2>3, <2>5 DEF Takes
  <2> QED
    BY <1>7, <2>0, <2>6 DEF BoardGoal, Tabling
<1> QED
  BY <1>12, <1>13

LEMMA BoardPosts ==
  ASSUME BoardTyped, NEW i \in Items, Board!PostPermit(i)
  PROVE  BoardGoal
<1> DEFINE n == notify[i]
<1>1. CASE /\ Board!notify_one(BPusher(i), BSmoker(n), "notify", "start")
           /\ notify' = [notify EXCEPT ![i] = 3]
           /\ UNCHANGED <<scoreboard, current, old, to_post, rounds>>
  <2>1. Board!Goto(BPusher(i), "notify", "start") /\ UNCHANGED sem
    BY <1>1 DEF Board!notify_one
  <2>2. /\ pc[BPusher(i)] = "notify" /\ pc' \in [BT -> BoardLabels]
        /\ \A u \in BT : pc'[u] = IF u = BPusher(i) THEN "start" ELSE pc[u]
    BY <2>1, BoardGo, BoardApart DEF BoardLabels
  <2>3. /\ pc'[BAgent] = pc[BAgent]
        /\ \A j \in Items : pc'[BPusher(j)] = IF j = i THEN "start" ELSE pc[BPusher(j)]
        /\ \A u \in BTakers : pc'[u] = "try" => pc[u] = "try"
    BY <2>2, BoardApart
  <2>4. /\ notify' \in [Items -> 0..3]
        /\ \A j \in Items : j # i => notify'[j] = notify[j]
    BY <1>1 DEF BoardTyped
  <2>5. BoardTyped'
    BY <1>1, <2>1, <2>2, <2>3, <2>4 DEF BoardTyped
  <2> QED
    BY <1>1, <2>1, <2>2, <2>3, <2>4, <2>5, BoardStill
<1>2. CASE /\ Board!release(BPusher(i), BSmoker(n), 1, "post", "notify")
           /\ UNCHANGED Board!boardVars
  <2>1. /\ Board!Goto(BPusher(i), "post", "notify")
        /\ sem' = [sem EXCEPT ![BSmoker(n)] = @ + 1]
        /\ UNCHANGED <<scoreboard, current, old, notify, to_post>>
    BY <1>2 DEF Board!release, Board!boardVars
  <2>2. /\ pc[BPusher(i)] = "post" /\ pc' \in [BT -> BoardLabels]
        /\ \A u \in BT : pc'[u] = IF u = BPusher(i) THEN "notify" ELSE pc[u]
    BY <2>1, BoardGo, BoardApart DEF BoardLabels
  <2>3. /\ pc'[BAgent] = pc[BAgent]
        /\ \A j \in Items : pc'[BPusher(j)] = IF j = i THEN "notify" ELSE pc[BPusher(j)]
        /\ \A u \in BTakers : pc'[u] = "try" => pc[u] = "try"
    BY <2>2, BoardApart
  <2>4. n \in Items
    BY <2>2 DEF BoardTyped
  <2> HIDE DEF n
  <2>5. /\ sem' \in [BTakers -> Nat]
        /\ \A j \in Items : sem'[BPusher(j)] = sem[BPusher(j)]
        /\ \A j \in Items : /\ sem'[BSmoker(j)] = sem[BSmoker(j)] + (IF j = n THEN 1 ELSE 0)
                            /\ sem[BSmoker(j)] \in Nat
    <3>1. BSmoker(n) \in BTakers /\ sem[BSmoker(n)] \in Nat
      BY <2>4, BoardApart DEF BoardTyped
    <3>2. sem' \in [BTakers -> Nat]
      BY <2>1, <3>1 DEF BoardTyped
    <3>3. \A j \in Items : BPusher(j) # BSmoker(n) /\ (BSmoker(j) = BSmoker(n) <=> j = n)
      BY <2>4, BoardApart
    <3>4. \A u \in BTakers : sem'[u] = IF u = BSmoker(n) THEN sem[u] + 1 ELSE sem[u]
      BY <2>1 DEF BoardTyped
    <3>5. \A j \in Items : BPusher(j) \in BTakers /\ BSmoker(j) \in BTakers
                           /\ sem[BSmoker(j)] \in Nat
      BY BoardApart DEF BoardTyped
    <3> QED
      BY <3>2, <3>3, <3>4, <3>5
  <2>6. BoardTyped'
    BY <2>1, <2>2, <2>3, <2>4, <2>5 DEF BoardTyped, n
  <2>7. \A j \in Items : BoardLies(j)' = BoardLies(j)
    BY <2>1, <2>2, <2>3, <2>5 DEF BoardLies, Posts
  <2>8. UNCHANGED Board!on_table
    BY <2>6, <2>7, BoardView, BoardViewNext DEF BoardLies
  <2>9. /\ \A j \in Items \ {i} : Posting'[j] = Posting[j]
        /\ Posting[i] = n /\ Posting'[i] = 3
    BY <2>1, <2>2, <2>3 DEF Posting, n
  <2>10. \A j \in Items : Count(Items, Posting', {j}) =
           Count(Items, Posting, {j}) - (IF j = n THEN 1 ELSE 0)
    <3>1. \A k \in Items :
           Count(Items, Posting', {k}) = Count(Items, Posting, {k}) +
             (IF Posting[i] = k THEN (IF Posting'[i] = k THEN 0 ELSE -1)
              ELSE IF Posting'[i] = k THEN 1 ELSE 0)
      BY <2>9, PostingMoves
    <3> SUFFICES ASSUME NEW j \in Items
                 PROVE  Count(Items, Posting', {j}) =
                          Count(Items, Posting, {j}) - (IF j = n THEN 1 ELSE 0)
      OBVIOUS
    <3> DEFINE c == Count(Items, Posting, {j})
               d == Count(Items, Posting', {j})
    <3>2. c \in Nat /\ j # 3
      BY ItemsAreFinite, CountIsNat DEF Items
    <3>3. d = c + (IF Posting[i] = j THEN (IF Posting'[i] = j THEN 0 ELSE -1)
                   ELSE IF Posting'[i] = j THEN 1 ELSE 0)
      BY <3>1
    <3> HIDE DEF c, d
    <3>4. d = c - (IF j = n THEN 1 ELSE 0)
      BY <2>9, <3>2, <3>3
    <3> QED
      BY <3>4 DEF c, d
  <2>11. \A j \in Items : BoardTaken(j)' = BoardTaken(j)
    <3> SUFFICES ASSUME NEW j \in Items PROVE BoardTaken(j)' = BoardTaken(j)
      BY DEF BoardTaken
    <3>1. /\ BoardTaken(j) = sem[BSmoker(j)] + Count(Items, Posting, {j})
          /\ BoardTaken(j)' = sem'[BSmoker(j)] + Count(Items, Posting', {j})
      BY DEF BoardTaken
    <3>2. Count(Items, Posting, {j}) \in Nat
      BY ItemsAreFinite, CountIsNat
    <3> QED
      BY <2>5, <2>10, <3>1, <3>2
  <2>12. UNCHANGED Board!cigarettes
    BY <2>6, <2>11, BoardView, BoardViewNext DEF BoardTaken
  <2> QED
    BY <2>6, <2>8, <2>12 DEF BoardGoal, Tabling
<1> QED
  BY <1>1, <1>2 DEF Board!PostPermit, BPusher, BSmoker, Board!Nobody

(* The agent.                                                              *)
LEMMA BoardAgent ==
  ASSUME BoardTyped, NEW x \in Items, Board!AgentPlaces(x) \/ Board!AgentPosts(x)
  PROVE  BoardGoal
<1>0. /\ UNCHANGED <<scoreboard, current, old, notify>>
  BY DEF Board!AgentPlaces, Board!AgentPosts
<1>s. \A j \in Items : /\ Shows(scoreboard, j) \in Nat /\ sem[BPusher(j)] \in Nat
  BY ScoresShown, BoardApart DEF BoardTyped
<1>1. ASSUME NEW from, NEW to \in BoardLabels, Board!Goto(BAgent, from, to)
      PROVE  /\ pc[BAgent] = from /\ pc'[BAgent] = to /\ pc' \in [BT -> BoardLabels]
             /\ \A u \in BTakers : pc'[u] = pc[u]
  <2>1. /\ pc[BAgent] = from /\ pc' \in [BT -> BoardLabels]
        /\ \A u \in BT : pc'[u] = IF u = BAgent THEN to ELSE pc[u]
    BY <1>1, BoardGo, BoardApart
  <2> QED
    BY <2>1, BoardApart
<1>2. ASSUME NEW to, pc'[BAgent] = to, pc' \in [BT -> BoardLabels],
             \A u \in BTakers : pc'[u] = pc[u],
             sem' \in [BTakers -> Nat], to_post' \in SUBSET Items,
             to = "start" => to_post' = {},
             \A k \in Items : sem'[BSmoker(k)] = sem[BSmoker(k)]
      PROVE  /\ BoardTyped' /\ UNCHANGED Board!cigarettes
             /\ \A j \in Items : pc'[BPusher(j)] = pc[BPusher(j)]
  <2>1. \A j \in Items : pc'[BPusher(j)] = pc[BPusher(j)]
    BY <1>2, BoardApart
  <2>2. BoardTyped'
    BY <1>0, <1>2, <2>1 DEF BoardTyped
  <2>3. Posting' = Posting
    BY <1>0, <2>1 DEF Posting
  <2> QED
    BY <1>2, <2>1, <2>2, <2>3, BoardView, BoardViewNext DEF BoardTaken
<1>3. CASE Board!AgentPlaces(x)
  <2>1. /\ Board!Goto(BAgent, "start", "post") /\ UNCHANGED sem
        /\ to_post' = Items \ {x}
    BY <1>3 DEF Board!AgentPlaces, Board!Move, BAgent, Board!Items, Items
  <2>2. /\ pc[BAgent] = "start" /\ pc'[BAgent] = "post" /\ pc' \in [BT -> BoardLabels]
        /\ \A u \in BTakers : pc'[u] = pc[u]
    BY <1>1, <2>1 DEF BoardLabels
  <2>3. to_post = {} /\ sem' \in [BTakers -> Nat] /\ to_post' \in SUBSET Items
    BY <2>1, <2>2 DEF BoardTyped
  <2>4. /\ BoardTyped' /\ UNCHANGED Board!cigarettes
        /\ \A j \in Items : pc'[BPusher(j)] = pc[BPusher(j)]
    BY <1>2, <2>1, <2>2, <2>3
  <2>5. \A j \in Items : BoardLies(j)' = BoardLies(j) + (IF j = x THEN 0 ELSE 1)
    <3> SUFFICES ASSUME NEW j \in Items
                 PROVE  BoardLies(j)' = BoardLies(j) + (IF j = x THEN 0 ELSE 1)
      BY DEF BoardLies, Posts
    <3>1. ~Posts(j) /\ (Posts(j)' <=> j # x)
      BY <2>1, <2>2, <2>3 DEF Posts
    <3> QED
      BY <1>0, <1>s, <2>1, <2>4, <3>1 DEF BoardLies
  <2>6. Board!on_table' = [j \in Items |-> Board!on_table[j] + (IF j = x THEN 0 ELSE 1)]
    <3>1. \A j \in Items : Board!on_table[j] = BoardLies(j)
      BY BoardView
    <3> QED
      BY <2>4, <2>5, <3>1, BoardViewNext DEF BoardLies
  <2> QED
    BY <2>4, <2>6 DEF BoardGoal, Tabling, Places
<1>4. CASE Board!AgentPosts(x)
  <2>0. x \in to_post /\ \A j \in to_post : x <= j
    BY <1>4 DEF Board!AgentPosts
  <2>1. CASE Board!release(BAgent, BPusher(x), 1, "post", "notify") /\ UNCHANGED to_post
    <3>1. /\ Board!Goto(BAgent, "post", "notify")
          /\ sem' = [sem EXCEPT ![BPusher(x)] = @ + 1]
      BY <2>1 DEF Board!release
    <3>2. /\ pc[BAgent] = "post" /\ pc'[BAgent] = "notify" /\ pc' \in [BT -> BoardLabels]
          /\ \A u \in BTakers : pc'[u] = pc[u]
      BY <1>1, <3>1 DEF BoardLabels
    <3>3. /\ sem' \in [BTakers -> Nat]
          /\ \A j \in Items : sem'[BSmoker(j)] = sem[BSmoker(j)]
          /\ \A j \in Items : sem'[BPusher(j)] = sem[BPusher(j)] + (IF j = x THEN 1 ELSE 0)
      <4>1. BPusher(x) \in BTakers /\ sem[BPusher(x)] \in Nat
        BY BoardApart DEF BoardTyped
      <4>2. \A u \in BTakers : sem'[u] = IF u = BPusher(x) THEN sem[u] + 1 ELSE sem[u]
        BY <3>1 DEF BoardTyped
      <4>3. sem' \in [BTakers -> Nat]
        BY <3>1, <4>1 DEF BoardTyped
      <4>4. \A j \in Items : /\ BPusher(j) \in BTakers /\ BSmoker(j) \in BTakers
                             /\ BSmoker(j) # BPusher(x) /\ (BPusher(j) = BPusher(x) <=> j = x)
        BY BoardApart
      <4> QED
        BY <1>s, <4>2, <4>3, <4>4
    <3>4. to_post' \in SUBSET Items
      BY <2>1 DEF BoardTyped
    <3>5. /\ BoardTyped' /\ UNCHANGED Board!cigarettes
          /\ \A j \in Items : pc'[BPusher(j)] = pc[BPusher(j)]
      BY <1>2, <3>2, <3>3, <3>4
    <3>6. \A j \in Items : BoardLies(j)' = BoardLies(j)
      <4> SUFFICES ASSUME NEW j \in Items PROVE BoardLies(j)' = BoardLies(j)
        BY DEF BoardLies, Posts
      <4>1. (Posts(j) <=> j \in to_post) /\ (Posts(j)' <=> j \in to_post /\ j # x)
        <5>1. \A k \in to_post : k \in Nat /\ x \in Nat
          BY DEF BoardTyped, Items
        <5> QED
          BY <2>0, <2>1, <3>2, <5>1 DEF Posts
      <4>2. CASE j = x
        BY <1>0, <1>s, <2>0, <3>3, <3>5, <4>1, <4>2 DEF BoardLies
      <4>3. CASE j # x
        BY <1>0, <1>s, <3>3, <3>5, <4>1, <4>3 DEF BoardLies
      <4> QED
        BY <4>2, <4>3
    <3>7. UNCHANGED Board!on_table
      BY <3>5, <3>6, BoardView, BoardViewNext DEF BoardLies
    <3> QED
      BY <3>5, <3>7 DEF BoardGoal, Tabling
  <2>2. CASE /\ Board!notify_one(BAgent, BPusher(x), "notify",
                                 IF to_post = {x} THEN "start" ELSE "post")
             /\ to_post' = to_post \ {x}
    <3> DEFINE to == IF to_post = {x} THEN "start" ELSE "post"
    <3>1. Board!Goto(BAgent, "notify", to) /\ UNCHANGED sem
      BY <2>2 DEF Board!notify_one
    <3>2. /\ pc[BAgent] = "notify" /\ pc'[BAgent] = to /\ pc' \in [BT -> BoardLabels]
          /\ \A u \in BTakers : pc'[u] = pc[u]
      BY <1>1, <3>1 DEF BoardLabels
    <3>3. /\ sem' \in [BTakers -> Nat] /\ to_post' \in SUBSET Items
          /\ (to = "start" => to_post' = {}) /\ to # "notify"
      BY <2>2, <3>1 DEF BoardTyped
    <3> HIDE DEF to
    <3>4. /\ BoardTyped' /\ UNCHANGED Board!cigarettes
          /\ \A j \in Items : pc'[BPusher(j)] = pc[BPusher(j)]
      BY <1>2, <3>1, <3>2, <3>3
    <3>5. \A j \in Items : BoardLies(j)' = BoardLies(j)
      <4> SUFFICES ASSUME NEW j \in Items PROVE BoardLies(j)' = BoardLies(j)
        BY DEF BoardLies, Posts
      <4>1. (Posts(j) <=> j \in to_post /\ j # x) /\ (Posts(j)' <=> j \in to_post /\ j # x)
        <5>1. \A k \in to_post : k \in Nat /\ x \in Nat
          BY DEF BoardTyped, Items
        <5> QED
          BY <2>0, <2>2, <3>2, <3>3, <5>1 DEF Posts
      <4> QED
        BY <1>0, <3>1, <3>4, <4>1 DEF BoardLies
    <3>6. UNCHANGED Board!on_table
      BY <3>4, <3>5, BoardView, BoardViewNext DEF BoardLies
    <3> QED
      BY <3>4, <3>6 DEF BoardGoal, Tabling
  <2> QED
    BY <1>4, <2>1, <2>2 DEF Board!AgentPosts, BAgent, BPusher
<1> QED
  BY <1>3, <1>4

LEMMA BoardKeeps ==
  ASSUME BoardTyped, BoardNext
  PROVE  BoardGoal
<1> USE DEF Items, Board!Items
<1>1. ASSUME NEW i \in Items, Board!pusher(i) PROVE BoardGoal
  <2>1. CASE Board!take(Board!Pusher(i), "place")
    BY <2>1, BoardTakes, BoardApart DEF BPusher
  <2> QED
    BY <1>1, <2>1, BoardLoads, BoardSwaps, BoardPosts DEF Board!pusher
<1>2. ASSUME NEW k \in Items, Board!smoker(k) PROVE BoardGoal
  BY <1>2, BoardTakes, BoardApart DEF BSmoker, Board!smoker
<1> QED
  BY <1>1, <1>2, BoardAgent DEF BoardNext, Board!Step

-----------------------------------------------------------------------------
(* The six programs of the smokers                                         *)

TableInv ==
  /\ InSmokers => SmokersInv
  /\ InPushers => PushersInv
  /\ InBoard => BoardTyped

smoked ==
  CASE InSmokers -> Smokers!cigarettes
    [] InPushers -> Pushers!cigarettes
    [] InBoard -> Board!cigarettes [] OTHER -> Nothing

LEMMA TableStarts == MCInit => TableInv /\ lies_on_table = Nothing /\ smoked = Nothing
<1> SUFFICES ASSUME MCInit
             PROVE  TableInv /\ lies_on_table = Nothing /\ smoked = Nothing
  OBVIOUS
<1>1. CASE InSmokers
  BY <1>1, Starts, SmokersStart DEF TableInv, lies_on_table, smoked, InSmokers,
     InPushers, InBoard
<1>2. CASE InPushers
  BY <1>2, Starts, PushersStart DEF TableInv, lies_on_table, smoked, InSmokers,
     InPushers, InBoard
<1>3. CASE InBoard
  BY <1>3, Starts, BoardStart DEF TableInv, lies_on_table, smoked, InSmokers,
     InPushers, InBoard
<1>4. CASE ~InSmokers /\ ~InPushers /\ ~InBoard
  BY <1>4 DEF TableInv, lies_on_table, smoked
<1> QED
  BY <1>1, <1>2, <1>3, <1>4

TableGoal ==
  TableInv' /\ Tabling(~Impatient, lies_on_table, smoked, lies_on_table', smoked')

LEMMA TableKeeps ==
  ASSUME TableInv, [MCNext]_allVars
  PROVE  TableGoal
<1>0. program' = program
  BY OneProgram
<1>1. CASE UNCHANGED allVars
  <2>0. UNCHANGED <<pc, sem, asleep, table, agent_can_place, rounds, item_generation,
                    generation, to_notify, seen_generation, candidate_generation,
                    push_pending, to_announce, notif, scoreboard, current, old,
                    notify, to_post>>
    BY <1>1 DEF allVars, threadVars, tableVars, smokersOnly, pushersOnly, boardOnly
  <2>1. InSmokers => SmokersInv'
    BY <1>0, <2>0 DEF TableInv, SmokersInv, SmokersTyped, OnePair, Generated
  <2>2. InSmokers => UNCHANGED <<Smokers!on_table, Smokers!cigarettes>>
    BY <1>0, <2>0 DEF Smokers!on_table, Smokers!cigarettes
  <2>3. InPushers => PushersGoal
    BY <1>0, <2>0, PushersIdle DEF TableInv, Pushers!pushVars
  <2>4. InBoard => BoardGoal
    <3>1. InBoard => BoardTyped /\ BoardTyped'
      BY <2>0 DEF TableInv, BoardTyped
    <3> QED
      BY <2>0, <3>1, BoardStill
  <2>5. CASE InSmokers
    BY <1>0, <2>1, <2>2, <2>5 DEF TableGoal, TableInv, Tabling, lies_on_table, smoked,
       InSmokers, InPushers, InBoard
  <2>6. CASE InPushers
    BY <1>0, <2>3, <2>6 DEF PushersGoal, TableGoal, TableInv, lies_on_table, smoked,
       InSmokers, InPushers, InBoard, Impatient
  <2>7. CASE InBoard
    BY <1>0, <2>4, <2>7 DEF BoardGoal, TableGoal, TableInv, lies_on_table, smoked,
       InSmokers, InPushers, InBoard, Impatient
  <2>8. CASE ~InSmokers /\ ~InPushers /\ ~InBoard
    BY <1>0, <2>8 DEF TableGoal, TableInv, Tabling, lies_on_table, smoked, InSmokers,
       InPushers, InBoard
  <2> QED
    BY <2>5, <2>6, <2>7, <2>8
<1>2. CASE InSmokers /\ SmokersNext
  <2>1. CASE program = "smokers_1"
    <3>1. /\ SmokersInv'
          /\ Tabling(TRUE, table, Smokers!cigarettes, table', Smokers!cigarettes')
      BY <1>0, <1>2, <2>1, Smokers1Keep DEF TableInv, SmokersInv
    <3>2. Smokers!on_table = table /\ Smokers!on_table' = table'
      BY <1>0, <2>1 DEF Smokers!on_table
    <3> QED
      BY <1>0, <1>2, <2>1, <3>1, <3>2 DEF TableGoal, TableInv, lies_on_table, smoked,
         InSmokers, InPushers, InBoard, Impatient
  <2>2. CASE program = "smokers_2"
    <3>1. Smoke2Goal
      BY <1>0, <1>2, <2>2, Smokers2Keep DEF TableInv, SmokersInv
    <3>2. SmokersInv'
      BY <1>0, <2>2, <3>1 DEF Smoke2Goal, SmokersInv
    <3> QED
      BY <1>0, <1>2, <2>2, <3>1, <3>2 DEF Smoke2Goal, TableGoal, TableInv,
         lies_on_table, smoked, InSmokers, InPushers, InBoard, Impatient
  <2> QED
    BY <1>2, <2>1, <2>2 DEF InSmokers
<1>3. CASE InPushers /\ PushersNext
  <2>1. PushersGoal
    BY <1>0, <1>3, PushersKeep DEF TableInv
  <2> QED
    BY <1>0, <1>3, <2>1 DEF PushersGoal, TableGoal, TableInv, lies_on_table, smoked,
       InSmokers, InPushers, InBoard, Impatient
<1>4. CASE InBoard /\ BoardNext
  <2>1. BoardGoal
    BY <1>4, BoardKeeps DEF TableInv
  <2> QED
    BY <1>0, <1>4, <2>1 DEF BoardGoal, TableGoal, TableInv, lies_on_table, smoked,
       InSmokers, InPushers, InBoard, Impatient
<1>5. CASE ~InSmokers /\ ~InPushers /\ ~InBoard
  BY <1>0, <1>5 DEF TableGoal, TableInv, Tabling, lies_on_table, smoked, InSmokers,
     InPushers, InBoard
<1> QED
  BY <1>1, <1>2, <1>3, <1>4, <1>5, OneProgram DEF InPot, InSmokers, InPushers, InBoard,
     InBarbershop, InHilzer, InNorth

LEMMA TableInvHolds == MCSpec => []TableInv
<1>1. MCInit => TableInv
  BY TableStarts
<1>2. TableInv /\ [MCNext]_allVars => TableInv'
  BY TableKeeps DEF TableGoal
<1> QED
  BY <1>1, <1>2, PTL DEF MCSpec

(* The six programs of the smokers implement the table of problems.md, for *)
(* any number of generations and rounds; the scoreboard's agent places the *)
(* two pairs that MCLittleBook gives it.                                   *)
THEOREM TableRefined == MCSpec => RefinesTable
<1>1. MCInit => TableOf!TableInit
  BY TableStarts DEF TableOf!TableInit, TableOf!Nothing, TableOf!Ingredients, smoked,
     Nothing, Smokers!Nothing, Smokers!Items
<1>2. TableInv /\ [MCNext]_allVars => [TableOf!TableNext]_TableOf!tableVars
  <2> SUFFICES ASSUME TableInv, [MCNext]_allVars
               PROVE  [TableOf!TableNext]_TableOf!tableVars
    OBVIOUS
  <2>1. Tabling(~Impatient, lies_on_table, smoked, lies_on_table', smoked')
    BY TableKeeps DEF TableGoal
  <2>2. Impatient' = Impatient
    BY OneProgram DEF Impatient
  <2>3. CASE lies_on_table' = lies_on_table /\ smoked' = smoked
    BY <2>2, <2>3 DEF TableOf!tableVars, smoked
  <2>4. ASSUME NEW k \in Items,
               Places(~Impatient, k, lies_on_table, smoked, lies_on_table', smoked')
        PROVE  TableOf!Place(k)
    BY <2>2, <2>4 DEF Places, TableOf!Place, TableOf!Nothing, TableOf!Ingredients,
       Items, Nothing, Smokers!Nothing, Smokers!Items, smoked
  <2>5. ASSUME NEW k \in Items,
               Takes(k, lies_on_table, smoked, lies_on_table', smoked')
        PROVE  TableOf!Take(k)
    BY <2>2, <2>5 DEF Takes, TableOf!Take, TableOf!Ingredients, Items, smoked
  <2>6. ASSUME NEW k \in Items,
               Smokes(k, lies_on_table, smoked, lies_on_table', smoked')
        PROVE  TableOf!Smoke(k)
    BY <2>2, <2>6 DEF Smokes, TableOf!Smoke, smoked
  <2> QED
    BY <2>1, <2>3, <2>4, <2>5, <2>6 DEF Tabling, TableOf!TableNext,
       TableOf!Ingredients, Items
<1> QED
  BY <1>1, <1>2, TableInvHolds, PTL DEF MCSpec, RefinesTable, TableOf!TableSpec

(* The asserts of cigarette_smoker_2.cpp hold, and the binary semaphores   *)
(* of the pot and of the table are never released above one, for any       *)
(* number of threads, generations and rounds.                              *)
THEOREM GrantedThroughout == MCSpec => []TakenForGranted
<1>1. InSmokers /\ SmokersInv => Smokers!AssertsHold
  <2> SUFFICES ASSUME SmokersTyped, NEW t \in DOMAIN pc
               PROVE  pc[t] # "assert failed"
    BY DEF SmokersInv, Smokers!AssertsHold
  <2>1. pc[t] \in {"start", "second", "smoke", "notify"}
    BY DEF SmokersTyped
  <2> QED
    BY <2>1
<1>2. ASSUME PotInv, program = "savages_4"
      PROVE  \A s \in {"mtx", "empty", "full"} : sem[s] <= 1
  <2>1. /\ sem["mtx"] \in Nat /\ sem["empty"] \in Nat /\ sem["full"] \in Nat
        /\ D("take") \in Nat /\ D("empty") \in Nat /\ D("full") \in Nat
        /\ D("leave") \in Nat
    BY <1>2, DinersCounted DEF PotInv, PotTyped
  <2>2. /\ ChefIn({"refill", "filled"}) \in {0, 1} /\ ChefIn({"refill"}) \in {0, 1}
        /\ NoMeals \in {0, 1}
    BY DEF ChefIn, NoMeals
  <2>3. PotOfSemaphores
    BY <1>2 DEF PotInv
  <2>4. sem["mtx"] <= 1 /\ D("full") <= 1
    BY <2>1, <2>3 DEF PotOfSemaphores
  <2>5. sem["empty"] <= 1 /\ sem["full"] <= 1
    BY <2>1, <2>2, <2>3, <2>4 DEF PotOfSemaphores
  <2> QED
    BY <2>4, <2>5
<1>3. ASSUME PushersInv, program = "smokers_3_1", NEW s \in DOMAIN sem
      PROVE  sem[s] <= 1
  <2>1. PushersTyped /\ BySemaphores
    BY <1>3 DEF PushersInv
  <2>2. s = Agent \/ \E i \in Items : s = Pusher(i) \/ s = PSmoker(i)
    BY <1>3, <2>1 DEF PushersTyped, PT, Agent, Pusher, PSmoker, Pushers!PusherThreads,
       Pushers!Items, Items
  <2>3. sem[Agent] <= 1
    BY <2>1 DEF BySemaphores
  <2>4. ASSUME NEW i \in Items PROVE sem[PSmoker(i)] <= 1
    <3>1. \E x \in Items, n \in {0, 1} : SmokersHave(x, n)
      BY <2>1 DEF BySemaphores, PairComes, PairComplete, Items
    <3> QED
      BY <3>1 DEF SmokersHave
  <2>5. ASSUME NEW i \in Items PROVE sem[Pusher(i)] <= 1
    <3>1. NothingLies \/ \E x \in Items : PairLies(x)
      BY <2>1 DEF BySemaphores, PairComes, PairComplete
    <3>2. Pushers!on_table[i] <= 1
      BY <3>1 DEF NothingLies, PairLies, Pair, Nothing, Smokers!Nothing, Smokers!Items, Items
    <3>3. Pushers!on_table[i] = Lies(i)
      BY PushersView
    <3>4. /\ table[i] \in Nat /\ push_pending[i] \in Nat /\ sem[Pusher(i)] \in Nat
      BY <2>1, PushersApart DEF PushersTyped
    <3>5. Lies(i) \in Nat /\ Lies(i) >= sem[Pusher(i)]
      BY <1>3, <3>4 DEF Lies
    <3> QED
      BY <3>2, <3>3, <3>4, <3>5
  <2> QED
    BY <2>2, <2>3, <2>4, <2>5
<1>4. TableInv /\ (InPot => PotInv) => TakenForGranted
  BY <1>1, <1>2, <1>3 DEF TakenForGranted, TableInv, InPot, InPushers
<1> QED
  BY <1>4, PotInvHolds, TableInvHolds, PTL
=============================================================================
