------------------------------ MODULE GameLobby ------------------------------
(***************************************************************************)
(* cpp/problems/5_game_lobby.cpp: a reusable barrier of one mutex, one     *)
(* condition variable and a generation counter, and the players that meet  *)
(* at it in every round.  The last player to arrive opens the next         *)
(* generation and is off; it may be back for the next round before the     *)
(* others have left the previous one, which is what orig_gen is for.       *)
(***************************************************************************)
EXTENDS Naturals, FiniteSets

CONSTANTS
  Players,     \* the threads; their number is total_
  rounds,      \* how often each player comes (3 in main)
  NoOne

ASSUME LobbyAssumption ==
  /\ IsFiniteSet(Players)
  /\ NoOne \notin Players
  /\ rounds \in Nat

VARIABLES
  current_,    \* arrivals of this generation
  gen_ctr_,
  mtx_,
  cv_,         \* the players asleep
  pc,
  orig_gen,    \* the generation a player arrived in
  round

vars == <<current_, gen_ctr_, mtx_, cv_, pc, orig_gen, round>>

total_ == Cardinality(Players)

Locations ==
  {"loop", "arrive", "counted", "asleep", "relock", "predicate", "leave", "done"}

(* The types, and the ranges: current_ never passes total_, or the barrier *)
(* would never open again.                                                 *)
TypeOK ==
  /\ current_ \in 0..total_
  /\ gen_ctr_ \in 0..rounds
  /\ mtx_ \in Players \cup {NoOne}
  /\ cv_ \in SUBSET Players
  /\ pc \in [Players -> Locations]
  /\ orig_gen \in [Players -> 0..rounds]
  /\ round \in [Players -> 1..(rounds + 1)]

Init ==
  /\ current_ = 0
  /\ gen_ctr_ = 0
  /\ mtx_ = NoOne
  /\ cv_ = {}
  /\ pc = [p \in Players |-> "loop"]
  /\ orig_gen = [p \in Players |-> 0]
  /\ round = [p \in Players |-> 1]

Goto(p, from, to) == pc[p] = from /\ pc' = [pc EXCEPT ![p] = to]

-----------------------------------------------------------------------------
(* arrive_and_wait                                                         *)

Arrive(p) ==
  /\ Goto(p, "arrive", "counted")
  /\ mtx_ = NoOne
  /\ mtx_' = p
  /\ orig_gen' = [orig_gen EXCEPT ![p] = gen_ctr_]
  /\ current_' = current_ + 1
  /\ UNCHANGED <<gen_ctr_, cv_, round>>

OpenWithoutReset(p) ==    \* faulty: current_ goes on counting
  /\ pc[p] = "counted"
  /\ current_ = total_
  /\ gen_ctr_' = gen_ctr_ + 1
  /\ pc' = [q \in Players |-> IF q = p THEN "leave"
                              ELSE IF q \in cv_ THEN "relock" ELSE pc[q]]
  /\ cv_' = {}
  /\ UNCHANGED <<current_, mtx_, orig_gen, round>>

OpenForOne(p) ==          \* faulty: notify_one instead of notify_all
  /\ pc[p] = "counted"
  /\ current_ = total_
  /\ gen_ctr_' = gen_ctr_ + 1
  /\ current_' = 0
  /\ LET woken == IF cv_ = {} THEN {} ELSE {CHOOSE q \in cv_ : TRUE}
     IN /\ pc' = [q \in Players |-> IF q = p THEN "leave"
                                    ELSE IF q \in woken THEN "relock" ELSE pc[q]]
        /\ cv_' = cv_ \ woken
  /\ UNCHANGED <<mtx_, orig_gen, round>>

Open(p) ==                \* the last arrival: next generation, notify_all
  /\ pc[p] = "counted"
  /\ current_ = total_
  /\ gen_ctr_' = gen_ctr_ + 1
  /\ current_' = 0
  /\ pc' = [q \in Players |-> IF q = p THEN "leave"
                              ELSE IF q \in cv_ THEN "relock" ELSE pc[q]]
  /\ cv_' = {}
  /\ UNCHANGED <<mtx_, orig_gen, round>>

BeginWait(p) ==
  /\ Goto(p, "counted", "predicate")
  /\ current_ # total_
  /\ UNCHANGED <<current_, gen_ctr_, mtx_, cv_, orig_gen, round>>

Sleep(p) ==
  /\ Goto(p, "predicate", "asleep")
  /\ ~(orig_gen[p] < gen_ctr_)
  /\ cv_' = cv_ \cup {p}
  /\ mtx_' = NoOne
  /\ UNCHANGED <<current_, gen_ctr_, orig_gen, round>>

Wake(p) ==                \* spurious
  /\ Goto(p, "asleep", "relock")
  /\ cv_' = cv_ \ {p}
  /\ UNCHANGED <<current_, gen_ctr_, mtx_, orig_gen, round>>

Relock(p) ==
  /\ Goto(p, "relock", "predicate")
  /\ mtx_ = NoOne
  /\ mtx_' = p
  /\ UNCHANGED <<current_, gen_ctr_, cv_, orig_gen, round>>

EndWaitUnchecked(p) ==    \* faulty: wait without its predicate
  /\ Goto(p, "predicate", "leave")
  /\ UNCHANGED <<current_, gen_ctr_, mtx_, cv_, orig_gen, round>>

EndWait(p) ==
  /\ Goto(p, "predicate", "leave")
  /\ orig_gen[p] < gen_ctr_
  /\ UNCHANGED <<current_, gen_ctr_, mtx_, cv_, orig_gen, round>>

-----------------------------------------------------------------------------
(* player                                                                  *)

NextRound(p) ==
  /\ Goto(p, "loop", "arrive")
  /\ round[p] <= rounds
  /\ UNCHANGED <<current_, gen_ctr_, mtx_, cv_, orig_gen, round>>

(* The mutex is released on return; the player starts its work.            *)
Leave(p) ==
  /\ Goto(p, "leave", "loop")
  /\ mtx_' = NoOne
  /\ round' = [round EXCEPT ![p] = @ + 1]
  /\ UNCHANGED <<current_, gen_ctr_, cv_, orig_gen>>

PlayerEnds(p) ==
  /\ Goto(p, "loop", "done")
  /\ ~(round[p] <= rounds)
  /\ UNCHANGED <<current_, gen_ctr_, mtx_, cv_, orig_gen, round>>

AllJoined ==
  /\ \A p \in Players : pc[p] = "done"
  /\ UNCHANGED vars

arrive_and_wait(p) ==
  \/ Arrive(p) \/ Open(p) \/ BeginWait(p) \/ Sleep(p) \/ Relock(p) \/ EndWait(p)

player(p) == NextRound(p) \/ arrive_and_wait(p) \/ Leave(p) \/ PlayerEnds(p)

Next == (\E p \in Players : player(p) \/ Wake(p)) \/ AllJoined

Spec == Init /\ [][Next]_vars
-----------------------------------------------------------------------------
(* Properties                                                              *)

Inside == {p \in Players : pc[p] \in {"counted", "asleep", "relock", "predicate"}}

(* A player sleeps only in the generation that is still open: whoever is   *)
(* to be let through is awake, so nobody is left behind when the others    *)
(* are already waiting for the next round.                                 *)
NobodyLeftBehind == \A p \in cv_ : orig_gen[p] = gen_ctr_

(* current_ counts exactly the players that wait for this generation;      *)
(* those still leaving the previous one are not among them.                *)
CurrentCountsWaiters ==
  current_ = Cardinality({p \in Inside : orig_gen[p] = gen_ctr_})

Arrived(p) == round[p] - 1 + (IF p \in Inside \/ pc[p] = "leave" THEN 1 ELSE 0)

Passed(p) == round[p] - 1 + (IF pc[p] = "leave" THEN 1 ELSE 0)

Abstract == INSTANCE RoundBarrier WITH
  arrived <- [p \in Players |-> Arrived(p)],
  passed <- [p \in Players |-> Passed(p)]

(* The counter and the generations implement the barrier: no player starts *)
(* the work of a round before every player has arrived for that round,     *)
(* however far the first is ahead of the last.                             *)
RefinesBarrier == Abstract!BarrierSpec
=============================================================================
