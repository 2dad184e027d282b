--------------------------- MODULE CigaretteSmokers ---------------------------
(***************************************************************************)
(* cpp/problems/from little book of semaphores/cigarette_smoker_1.cpp and  *)
(* _2.cpp: the smokers look at the table themselves.  In the first program *)
(* all of them wake for every pair.  In the second each ingredient has a   *)
(* condition variable and remembers the generation it was placed in; a     *)
(* smoker that has seen one ingredient waits for the other of the same     *)
(* generation, while later generations come and go.                        *)
(***************************************************************************)
EXTENDS Threading

CONSTANT Generations     \* bound: pairs that the second program's agent places

VARIABLES
  program,
  table,
  item_generation, generation,
  agent_can_place,
  to_notify,   \* the items that the agent's loop has still to announce
  seen_generation, candidate_generation    \* [smoker -> its local variable]

itemVars == <<table, item_generation, generation, agent_can_place>>
localVars == <<to_notify, seen_generation, candidate_generation>>
smokerVars == <<itemVars, localVars>>
vars == <<program, threadVars, smokerVars>>

Items == 0..2
Nothing == [i \in Items |-> 0]

agent == <<"agent", 0>>
agent_places_cv == <<"agent_places_cv", 0>>
smokers_picks_cv == <<"smokers_picks_cv", 0>>
item_cv(i) == <<"item_cv", i>>
Smoker(k) == <<"smoker", k>>
Cvs == {agent_places_cv, smokers_picks_cv} \cup {item_cv(i) : i \in Items}
SmokerThreads == {agent} \cup {Smoker(k) : k \in Items}

(* The two items that smoker k needs, in index order.                      *)
item_a(k) == IF k = 0 THEN 1 ELSE 0
item_b(k) == IF k = 2 THEN 1 ELSE 2

SmokersIdle ==
  /\ table = Nothing /\ item_generation = Nothing /\ generation = 0
  /\ agent_can_place = TRUE /\ to_notify = {}
  /\ seen_generation = Nothing /\ candidate_generation = Nothing

Init ==
  /\ program \in {"smokers_1", "smokers_2"}
  /\ pc = [t \in SmokerThreads |-> "start"]
  /\ sem = [s \in {} |-> 0]
  /\ asleep = [c \in Cvs |-> {}]
  /\ SmokersIdle

-----------------------------------------------------------------------------
(* cigarette_smoker_1                                                      *)

AgentPlaces1(x) ==
  /\ Move(agent, "start", "notify")
  /\ table = Nothing
  /\ table' = [i \in Items |-> IF i = x THEN 0 ELSE 1]
  /\ UNCHANGED <<item_generation, generation, agent_can_place, localVars>>

agent1 ==
  \/ \E x \in Items : AgentPlaces1(x)
  \/ /\ table # Nothing /\ Sleep(agent, "start", agent_places_cv)
     /\ UNCHANGED smokerVars
  \/ /\ notify_all(agent, smokers_picks_cv, "notify", "start")
     /\ UNCHANGED smokerVars

CompleteFor(k) == \A i \in Items \ {k} : table[i] > 0

smoker1(k) ==
  \/ /\ CompleteFor(k) /\ Move(Smoker(k), "start", "smoke")
     /\ table' = Nothing
     /\ UNCHANGED <<item_generation, generation, agent_can_place, localVars>>
  \/ /\ ~CompleteFor(k) /\ Sleep(Smoker(k), "start", smokers_picks_cv)
     /\ UNCHANGED smokerVars
  \/ /\ notify_one(Smoker(k), agent_places_cv, "smoke", "start")
     /\ UNCHANGED smokerVars

-----------------------------------------------------------------------------
(* cigarette_smoker_2                                                      *)

AgentPlaces2(x) ==
  /\ Move(agent, "start", "notify")
  /\ agent_can_place /\ generation < Generations
  /\ agent_can_place' = FALSE
  /\ generation' = generation + 1
  /\ item_generation' =
       [i \in Items |-> IF i = x THEN item_generation[i] ELSE generation + 1]
  /\ to_notify' = Items \ {x}
  /\ UNCHANGED <<table, seen_generation, candidate_generation>>

(* for (i < 3) if (i != exclude) item_cvs[i].notify_all()                  *)
AgentNotifies2(i) ==
  /\ i \in to_notify /\ \A j \in to_notify : i <= j
  /\ notify_all(agent, item_cv(i), "notify",
                IF to_notify = {i} THEN "start" ELSE "notify")
  /\ to_notify' = to_notify \ {i}
  /\ UNCHANGED <<itemVars, seen_generation, candidate_generation>>

agent2 ==
  \/ \E x \in Items : AgentPlaces2(x) \/ AgentNotifies2(x)
  \/ /\ ~agent_can_place /\ Sleep(agent, "start", agent_places_cv)
     /\ UNCHANGED smokerVars

AnyGeneration(k, g) == TRUE      \* faulty: the test before continue is missing

SameGeneration(k, g) == item_generation[item_b(k)] = g

(* The second wait and what follows it, for a smoker whose candidate is g, *)
(* with the mutex held.  A failing assert ends the program.                *)
SecondItem(k, from, g) ==
  /\ At(Smoker(k), from)
  /\ candidate_generation' = [candidate_generation EXCEPT ![k] = g]
  /\ UNCHANGED <<sem, table, item_generation, generation, to_notify>>
  /\ IF item_generation[item_b(k)] < g
     THEN /\ pc' = [pc EXCEPT ![Smoker(k)] = "second"]
          /\ asleep' = [asleep EXCEPT ![item_cv(item_b(k))] = @ \cup {Smoker(k)}]
          /\ UNCHANGED <<agent_can_place, seen_generation>>
     ELSE /\ seen_generation' = [seen_generation EXCEPT ![k] = g]
          /\ UNCHANGED asleep
          /\ IF SameGeneration(k, g)
             THEN /\ pc' = [pc EXCEPT ![Smoker(k)] =
                              IF g = generation /\ ~agent_can_place
                              THEN "smoke" ELSE "assert failed"]
                  /\ agent_can_place' = TRUE
             ELSE /\ pc' = [pc EXCEPT ![Smoker(k)] = "start"]
                  /\ UNCHANGED agent_can_place

smoker2(k) ==
  LET first == item_generation[item_a(k)]
  IN \/ first > seen_generation[k] /\ SecondItem(k, "start", first)
     \/ /\ first <= seen_generation[k] /\ Sleep(Smoker(k), "start", item_cv(item_a(k)))
        /\ UNCHANGED smokerVars
     \/ SecondItem(k, "second", candidate_generation[k])
     \/ /\ notify_one(Smoker(k), agent_places_cv, "smoke", "start")
        /\ UNCHANGED smokerVars

-----------------------------------------------------------------------------
Step(t) ==
  \/ program = "smokers_1" /\ t = agent /\ agent1
  \/ program = "smokers_2" /\ t = agent /\ agent2
  \/ program = "smokers_1" /\ \E k \in Items : t = Smoker(k) /\ smoker1(k)
  \/ program = "smokers_2" /\ \E k \in Items : t = Smoker(k) /\ smoker2(k)

Spurious ==
  /\ \E t \in SmokerThreads : \E c \in DOMAIN asleep : WakesSpuriously(t, c)
  /\ UNCHANGED smokerVars

(* The bound: the agent places no more.                                    *)
RoundsOver ==
  /\ program = "smokers_2" /\ generation = Generations /\ agent_can_place
  /\ UNCHANGED <<threadVars, smokerVars>>

Next ==
  /\ Spurious \/ RoundsOver \/ \E t \in SmokerThreads : Step(t)
  /\ UNCHANGED program

-----------------------------------------------------------------------------
(* What lies on the table: in the second program the items of the current  *)
(* generation, until a smoker lets the agent place again.                  *)
on_table ==
  IF program = "smokers_1" THEN table
  ELSE [i \in Items |-> IF item_generation[i] = generation /\ ~agent_can_place
                        THEN 1 ELSE 0]

cigarettes == [k \in Items |-> IF pc[Smoker(k)] = "smoke" THEN 1 ELSE 0]

(* The asserts of cigarette_smoker_2.cpp:82-83 hold.                       *)
AssertsHold == \A t \in DOMAIN pc : pc[t] # "assert failed"
=============================================================================
