---------------------------- MODULE DiningSavages ----------------------------
(***************************************************************************)
(* cpp/problems/from little book of semaphores/dining_savages_1..4.cpp:    *)
(* four programs for one pot.  A behaviour is one of the program that is   *)
(* chosen at the start.                                                    *)
(***************************************************************************)
EXTENDS Threading

CONSTANTS
  M,           \* servings of a full pot (10)
  Diners       \* how many (5)

VARIABLES
  program,
  meals,       \* in the pot; in the third program the semaphore servings is
  cur_m        \* [thread -> what it has loaded from meals]

potVars == <<meals, cur_m>>
vars == <<program, threadVars, potVars>>

Versions == {"savages_1", "savages_2", "savages_3", "savages_4"}

chef == <<"chef", 0>>
DinerThreads == {"diner"} \X (1..Diners)
PotThreads == {chef} \cup DinerThreads

PotIdle == meals = 0 /\ cur_m = [t \in PotThreads |-> 0]

EmptyPot == M + 1         \* the diners of a pot and the chef

Init ==
  /\ program \in Versions
  /\ pc = [t \in PotThreads |-> "start"]
  /\ sem = [s \in {"servings", "empty_pot", "mtx", "empty", "full"} |->
              CASE s = "servings" -> M [] s = "empty_pot" -> EmptyPot
                [] s = "mtx" -> 1 [] OTHER -> 0]
  /\ asleep = [c \in {"not_empty_cv", "empty_cv", "meals", "empty_pot"} |-> {}]
  /\ meals = IF program \in {"savages_2", "savages_4"} THEN M ELSE 0
  /\ cur_m = [t \in PotThreads |-> 0]

Serve(n) == meals' = n /\ UNCHANGED cur_m

-----------------------------------------------------------------------------
(* dining_savages_1: one mutex, two condition variables                    *)

Refill1 == meals = 0 /\ Move(chef, "start", "notify") /\ Serve(M)

chef1 ==
  \/ Refill1
  \/ meals # 0 /\ Sleep(chef, "start", "empty_cv") /\ UNCHANGED potVars
  \/ notify_all(chef, "not_empty_cv", "notify", "start") /\ UNCHANGED potVars

NotifyAfterLast(d) ==     \* faulty: tests for the empty pot after the decrement
  IF meals = 0 THEN "notify" ELSE "start"

NotifyChef(d) == IF meals = 1 THEN "notify" ELSE "start"

diner1(d) ==
  \/ meals > 0 /\ Move(d, "start", NotifyChef(d)) /\ Serve(meals - 1)
  \/ meals = 0 /\ Sleep(d, "start", "not_empty_cv") /\ UNCHANGED potVars
  \/ notify_one(d, "empty_cv", "notify", "start") /\ UNCHANGED potVars

-----------------------------------------------------------------------------
(* dining_savages_2: one atomic                                            *)

Load(t) ==
  /\ Move(t, "start", "loaded")
  /\ cur_m' = [cur_m EXCEPT ![t] = meals]
  /\ UNCHANGED meals

(* meals.wait(old), for a thread that has loaded old                       *)
AwaitChange(t) ==
  /\ \/ meals = cur_m[t] /\ Sleep(t, "loaded", "meals")
     \/ meals # cur_m[t] /\ Move(t, "loaded", "start")
  /\ UNCHANGED potVars

chef2 ==
  \/ Load(chef)
  \/ cur_m[chef] > 0 /\ AwaitChange(chef)
  \/ cur_m[chef] = 0 /\ Move(chef, "loaded", "notify") /\ Serve(M)
  \/ notify_all(chef, "meals", "notify", "start") /\ UNCHANGED potVars

Take2Blindly(d) ==        \* faulty: a store where the code compares and swaps
  /\ cur_m[d] > 0
  /\ Move(d, "loaded", IF cur_m[d] = 1 THEN "notify" ELSE "start")
  /\ Serve(cur_m[d] - 1)

Take2(d) ==               \* compare_exchange_weak succeeds
  /\ cur_m[d] > 0 /\ meals = cur_m[d]
  /\ Move(d, "loaded", IF cur_m[d] = 1 THEN "notify" ELSE "start")
  /\ Serve(cur_m[d] - 1)

(* It fails.  A weak exchange that fails for no reason brings the diner    *)
(* back to where it was before the load, and is left out.                  *)
Miss2(d) ==
  /\ cur_m[d] > 0 /\ meals # cur_m[d]
  /\ Move(d, "loaded", "start")
  /\ UNCHANGED potVars

diner2(d) ==
  \/ Load(d)
  \/ cur_m[d] = 0 /\ AwaitChange(d)
  \/ Take2(d)
  \/ Miss2(d)
  \/ notify_all(d, "meals", "notify", "start") /\ UNCHANGED potVars

-----------------------------------------------------------------------------
(* dining_savages_3: a counting semaphore and a barrier                    *)

chef3 ==
  \/ arrive_and_wait(chef, "empty_pot", EmptyPot, "start", "refill")
  \/ release(chef, "servings", M, "refill", "start")

diner3(d) ==
  \/ acquire(d, "servings", "start", "arrive")
  \/ arrive(d, "empty_pot", EmptyPot, "arrive", "start")

-----------------------------------------------------------------------------
(* dining_savages_4: binary semaphores                                     *)

chef4 ==
  \/ acquire(chef, "empty", "start", "refill") /\ UNCHANGED potVars
  \/ Move(chef, "refill", "filled") /\ Serve(M)
  \/ release(chef, "full", 1, "filled", "start") /\ UNCHANGED potVars

diner4(d) ==
  \/ acquire(d, "mtx", "start", "take") /\ UNCHANGED potVars
  \/ Move(d, "take", IF meals = 1 THEN "empty" ELSE "leave") /\ Serve(meals - 1)
  \/ release(d, "empty", 1, "empty", "full") /\ UNCHANGED potVars
  \/ acquire(d, "full", "full", "leave") /\ UNCHANGED potVars
  \/ release(d, "mtx", 1, "leave", "start") /\ UNCHANGED potVars

-----------------------------------------------------------------------------
Step(t) ==
  /\ t \in PotThreads
  /\ \/ program = "savages_1" /\ IF t = chef THEN chef1 ELSE diner1(t)
     \/ program = "savages_2" /\ IF t = chef THEN chef2 ELSE diner2(t)
     \/ /\ program = "savages_3" /\ UNCHANGED potVars
        /\ IF t = chef THEN chef3 ELSE diner3(t)
     \/ program = "savages_4" /\ IF t = chef THEN chef4 ELSE diner4(t)

Spurious ==
  /\ \E t \in PotThreads, c \in {"not_empty_cv", "empty_cv", "meals"} :
       WakesSpuriously(t, c)
  /\ UNCHANGED potVars

Next == (Spurious \/ \E t \in PotThreads : Step(t)) /\ UNCHANGED program

-----------------------------------------------------------------------------
(* What is in the pot.                                                     *)
servings == IF program = "savages_3" THEN sem["servings"] ELSE meals
=============================================================================
