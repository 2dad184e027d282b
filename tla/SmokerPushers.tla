---------------------------- MODULE SmokerPushers ----------------------------
(***************************************************************************)
(* cpp/problems/from little book of semaphores/cigarette_smoker_3.cpp,     *)
(* _3_1.cpp and _hard.cpp: a pusher per ingredient puts it on the table    *)
(* and wakes the smoker that can use what lies there, through condition    *)
(* variables (3) or semaphores (3_1).  In the harder variant the agent     *)
(* never waits, and the pusher takes the pair off the table itself.        *)
(***************************************************************************)
EXTENDS Threading

CONSTANT Rounds      \* bound: pairs that the agent which never waits places

VARIABLES
  program,
  table,
  push_pending, agent_can_place,     \* of cigarette_smoker_3
  to_announce,    \* the items that the agent's loop has still to announce
  notif,          \* [pusher -> the smoker it is about to notify]
  rounds          \* pairs placed, counted in the harder variant

pushVars ==
  <<table, push_pending, agent_can_place, to_announce, notif, rounds>>
vars == <<program, threadVars, pushVars>>

Items == 0..2
Nothing == [i \in Items |-> 0]
Nobody == 3

waits == program = "smokers_3"        \* on condition variables
hard == program = "smokers_hard"

agent == <<"agent", 0>>
Pusher(i) == <<"pusher", i>>
Smoker(k) == <<"smoker", k>>
PusherThreads == {agent} \cup {Pusher(i) : i \in Items} \cup {Smoker(k) : k \in Items}

(* The semaphores and condition variables, one for each thread, are named  *)
(* by the thread that waits on them.                                       *)
PushersIdle ==
  /\ table = Nothing /\ push_pending = Nothing /\ agent_can_place = TRUE
  /\ to_announce = {} /\ notif = [i \in Items |-> Nobody] /\ rounds = 0

Init ==
  /\ program \in {"smokers_3", "smokers_3_1", "smokers_hard"}
  /\ pc = [t \in PusherThreads |-> "start"]
  /\ sem = [t \in PusherThreads |-> IF t = agent THEN 1 ELSE 0]
  /\ asleep = [t \in PusherThreads |-> {}]
  /\ PushersIdle

-----------------------------------------------------------------------------
(* agent                                                                   *)

AgentPlaces(x) ==
  /\ to_announce' = Items \ {x}
  /\ UNCHANGED <<table, notif>>
  /\ \/ /\ waits /\ agent_can_place /\ Move(agent, "start", "announce")
        /\ agent_can_place' = FALSE
        /\ push_pending' =
             [i \in Items |-> push_pending[i] + (IF i = x THEN 0 ELSE 1)]
        /\ UNCHANGED rounds
     \/ /\ program = "smokers_3_1" /\ acquire(agent, agent, "start", "announce")
        /\ UNCHANGED <<push_pending, agent_can_place, rounds>>
     \/ /\ hard /\ rounds < Rounds /\ Move(agent, "start", "announce")
        /\ rounds' = rounds + 1
        /\ UNCHANGED <<push_pending, agent_can_place>>

AgentAnnounces(i) ==
  LET to == IF to_announce = {i} THEN "start" ELSE "announce"
  IN /\ i \in to_announce /\ \A j \in to_announce : i <= j
     /\ IF waits THEN notify_one(agent, Pusher(i), "announce", to)
                 ELSE release(agent, Pusher(i), 1, "announce", to)
     /\ to_announce' = to_announce \ {i}
     /\ UNCHANGED <<table, push_pending, agent_can_place, notif, rounds>>

AgentSleeps ==
  /\ waits /\ ~agent_can_place /\ Sleep(agent, "start", agent)
  /\ UNCHANGED pushVars

-----------------------------------------------------------------------------
(* pusher                                                                  *)

LeavesPair(two) == FALSE     \* faulty: the items stay for the smoker to take

Reserves(two) == hard /\ two

(* The block under the mutex.  With two kinds on the table, notif is the   *)
(* third; in the harder variant the pusher takes one of each.              *)
Push(i, from) ==
  LET filled == [table EXCEPT ![i] = @ + 1]
      kinds == {j \in Items : filled[j] > 0}
      two == Cardinality(kinds) = 2
      missing == CHOOSE k \in Items : k \notin kinds
  IN /\ Move(Pusher(i), from, IF two THEN "wake" ELSE "start")
     /\ table' = IF Reserves(two)
                 THEN [j \in Items |-> filled[j] - (IF j \in kinds THEN 1 ELSE 0)]
                 ELSE filled
     /\ notif' = [notif EXCEPT ![i] = IF two THEN missing ELSE Nobody]
     /\ UNCHANGED <<agent_can_place, to_announce, rounds>>

pusher(i) ==
  \/ /\ waits /\ push_pending[i] > 0 /\ Push(i, "start")
     /\ push_pending' = [push_pending EXCEPT ![i] = @ - 1]
  \/ /\ waits /\ push_pending[i] = 0 /\ Sleep(Pusher(i), "start", Pusher(i))
     /\ UNCHANGED pushVars
  \/ ~waits /\ acquire(Pusher(i), Pusher(i), "start", "push") /\ UNCHANGED pushVars
  \/ ~waits /\ Push(i, "push") /\ UNCHANGED push_pending

WakeSmoker(i, k) ==
  IF waits THEN notify_one(Pusher(i), Smoker(k), "wake", "start")
           ELSE release(Pusher(i), Smoker(k), 1, "wake", "start")

PusherWakes(i) ==
  /\ notif[i] # Nobody /\ WakeSmoker(i, notif[i])
  /\ notif' = [notif EXCEPT ![i] = Nobody]
  /\ UNCHANGED <<table, push_pending, agent_can_place, to_announce, rounds>>

-----------------------------------------------------------------------------
(* smoker                                                                  *)

CompleteFor(k) == \A i \in Items \ {k} : table[i] > 0

ClearTable ==
  /\ table' = Nothing
  /\ UNCHANGED <<push_pending, to_announce, notif, rounds>>

smoker(k) ==
  \/ /\ waits /\ CompleteFor(k) /\ Move(Smoker(k), "start", "smoke")
     /\ ClearTable /\ agent_can_place' = TRUE
  \/ /\ waits /\ ~CompleteFor(k) /\ Sleep(Smoker(k), "start", Smoker(k))
     /\ UNCHANGED pushVars
  \/ /\ ~waits /\ UNCHANGED pushVars
     /\ acquire(Smoker(k), Smoker(k), "start", IF hard THEN "smoke" ELSE "clear")
  \/ Move(Smoker(k), "clear", "smoke") /\ ClearTable /\ UNCHANGED agent_can_place

SmokerIsDone(k) ==
  /\ \/ waits /\ notify_one(Smoker(k), agent, "smoke", "start")
     \/ program = "smokers_3_1" /\ release(Smoker(k), agent, 1, "smoke", "start")
     \/ hard /\ Move(Smoker(k), "smoke", "start")
  /\ UNCHANGED pushVars

-----------------------------------------------------------------------------
Step(t) ==
  \/ t = agent /\ (AgentSleeps \/ \E i \in Items : AgentPlaces(i) \/ AgentAnnounces(i))
  \/ \E i \in Items : t = Pusher(i) /\ (pusher(i) \/ PusherWakes(i))
  \/ \E k \in Items : t = Smoker(k) /\ (smoker(k) \/ SmokerIsDone(k))

Spurious ==
  /\ \E t \in PusherThreads : WakesSpuriously(t, t)
  /\ UNCHANGED pushVars

(* The bound of the harder variant: every permit has been used.            *)
RoundsOver ==
  /\ hard /\ rounds = Rounds
  /\ \A t \in PusherThreads : pc[t] = "start" /\ (t # agent => sem[t] = 0)
  /\ UNCHANGED <<threadVars, pushVars>>

Next ==
  /\ Spurious \/ RoundsOver \/ \E t \in PusherThreads : Step(t)
  /\ UNCHANGED program

-----------------------------------------------------------------------------
If(b) == IF b THEN 1 ELSE 0

HowMany(f, x) == Cardinality({i \in Items : f[i] = x})

(* An item is on the table from the moment the agent has chosen it.        *)
on_table ==
  [i \in Items |->
    table[i] + push_pending[i] +
    (IF waits THEN 0
     ELSE If(i \in to_announce) + sem[Pusher(i)] + If(pc[Pusher(i)] = "push"))]

(* In the harder variant a pair has been taken for smoker k when a pusher  *)
(* has reserved it.                                                        *)
cigarettes ==
  [k \in Items |->
    If(pc[Smoker(k)] = "smoke") +
    (IF hard THEN sem[Smoker(k)] + HowMany(notif, k) ELSE 0)]

(* No pair waits on the table; in the harder variant all that was taken    *)
(* has been smoked, too.                                                   *)
Settled ==
  /\ Cardinality({i \in Items : on_table[i] > 0}) < 2
  /\ hard => cigarettes = Nothing
=============================================================================
