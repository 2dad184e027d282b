--------------------------- MODULE SmokerScoreboard ---------------------------
(***************************************************************************)
(* cpp/problems/from little book of semaphores/                            *)
(* cigarette_smoker_hard_atomics.cpp: the harder variant with atomics      *)
(* only.  The permits of pushers and smokers are counters (sem) that are   *)
(* taken by compare-exchange and waited for at zero; the table is one      *)
(* atomic pair, the kind of item without a partner and how many there are. *)
(* All operations are relaxed, but each touches a single atomic and no     *)
(* other memory is read on the strength of it.                             *)
(***************************************************************************)
EXTENDS Threading

CONSTANTS
  Rounds,      \* bound: pairs that the agent places
  Draws        \* bound: [round -> what rand_int may return in it]

VARIABLES
  program,
  scoreboard,     \* [item, count]; item 3 when empty
  current, old,   \* what a thread has loaded, until it has used it:
                  \* take its permits, place the scoreboard
  notify,         \* [pusher -> the smoker to post to]
  to_post,        \* the items that the agent's loop has still to post
  rounds          \* pairs placed

boardVars == <<scoreboard, current, old, notify, to_post, rounds>>
vars == <<program, threadVars, boardVars>>

Items == 0..2
Nothing == [i \in Items |-> 0]
Nobody == 3
Empty == [item |-> 3, count |-> 0]

agent == <<"agent", 0>>
Pusher(i) == <<"pusher", i>>
Smoker(k) == <<"smoker", k>>
Takers == {Pusher(i) : i \in Items} \cup {Smoker(k) : k \in Items}
BoardThreads == {agent} \cup Takers

BoardIdle ==
  /\ scoreboard = Empty
  /\ current = [t \in Takers |-> 0]
  /\ old = [i \in Items |-> Empty] /\ notify = [i \in Items |-> Nobody]
  /\ to_post = {} /\ rounds = 0

Init ==
  /\ program = "smokers_atomics"
  /\ pc = [t \in BoardThreads |-> "start"]
  /\ sem = [t \in Takers |-> 0]
  /\ asleep = [t \in Takers |-> {}]
  /\ BoardIdle

-----------------------------------------------------------------------------
(* take: each counter has one taker, after which it is named.  A thread    *)
(* that has loaded zero has done nothing that wait(0) would not do again;  *)
(* a failed exchange loads anew.  An exchange that fails for no reason     *)
(* brings the thread back to where it was before the load: left out.       *)

WaitForPermit(t) == sem[t] = 0 /\ Sleep(t, "start", t) /\ UNCHANGED current

LoadPermits(t) ==
  /\ sem[t] # 0 /\ Move(t, "start", "try")
  /\ current' = [current EXCEPT ![t] = sem[t]]

Claim(t, to) ==           \* compare_exchange_weak succeeds
  /\ Goto(t, "try", to)
  /\ sem[t] = current[t]
  /\ sem' = [sem EXCEPT ![t] = current[t] - 1]
  /\ current' = [current EXCEPT ![t] = 0]
  /\ UNCHANGED asleep

MissPermit(t) ==          \* it fails
  /\ sem[t] # current[t]
  /\ Move(t, "try", "start")
  /\ current' = [current EXCEPT ![t] = 0]

take(t, to) ==
  /\ WaitForPermit(t) \/ LoadPermits(t) \/ Claim(t, to) \/ MissPermit(t)
  /\ UNCHANGED <<scoreboard, old, notify, to_post, rounds>>

-----------------------------------------------------------------------------
(* place                                                                   *)

(* The scoreboard after an arrival, and the smoker whose pair it completes *)
Arrival(board, i) ==
  IF board.count = 0 THEN [item |-> i, count |-> 1]
  ELSE IF board.item = i THEN [board EXCEPT !.count = @ + 1]
  ELSE IF board.count = 1 THEN Empty ELSE [board EXCEPT !.count = @ - 1]

Completes(board, i) == board.count > 0 /\ board.item # i

LoadBoard(i) ==
  /\ Move(Pusher(i), "place", "swap")
  /\ old' = [old EXCEPT ![i] = scoreboard]
  /\ UNCHANGED <<scoreboard, current, notify, to_post, rounds>>

SwapBoard(i) ==
  /\ scoreboard = old[i]
  /\ Move(Pusher(i), "swap", IF Completes(old[i], i) THEN "post" ELSE "start")
  /\ scoreboard' = Arrival(old[i], i)
  /\ notify' = [notify EXCEPT ![i] =
                  IF Completes(old[i], i) THEN 3 - old[i].item - i ELSE Nobody]
  /\ old' = [old EXCEPT ![i] = Empty]
  /\ UNCHANGED <<current, to_post, rounds>>

MissBoard(i) ==
  /\ scoreboard # old[i]
  /\ Move(Pusher(i), "swap", "place")
  /\ old' = [old EXCEPT ![i] = Empty]
  /\ UNCHANGED <<scoreboard, current, notify, to_post, rounds>>

-----------------------------------------------------------------------------
(* post: fetch_add, then notify_one                                        *)

PostPermit(i) ==          \* the pusher
  \/ /\ release(Pusher(i), Smoker(notify[i]), 1, "post", "notify")
     /\ UNCHANGED boardVars
  \/ /\ notify_one(Pusher(i), Smoker(notify[i]), "notify", "start")
     /\ notify' = [notify EXCEPT ![i] = Nobody]
     /\ UNCHANGED <<scoreboard, current, old, to_post, rounds>>

AgentPlaces(x) ==
  /\ rounds < Rounds /\ x \in Draws[rounds + 1]
  /\ Move(agent, "start", "post")
  /\ rounds' = rounds + 1
  /\ to_post' = Items \ {x}
  /\ UNCHANGED <<scoreboard, current, old, notify>>

AgentPosts(i) ==
  /\ i \in to_post /\ \A j \in to_post : i <= j
  /\ UNCHANGED <<scoreboard, current, old, notify, rounds>>
  /\ \/ release(agent, Pusher(i), 1, "post", "notify") /\ UNCHANGED to_post
     \/ /\ notify_one(agent, Pusher(i), "notify",
                      IF to_post = {i} THEN "start" ELSE "post")
        /\ to_post' = to_post \ {i}

-----------------------------------------------------------------------------
pusher(i) ==
  \/ take(Pusher(i), "place")
  \/ LoadBoard(i) \/ SwapBoard(i) \/ MissBoard(i)
  \/ PostPermit(i)

(* It smokes as soon as it has its permit.                                 *)
smoker(k) == take(Smoker(k), "start")

Step(t) ==
  \/ t = agent /\ (\/ \E x \in Items : AgentPlaces(x)
                    \/ \E i \in Items : AgentPosts(i))
  \/ \E i \in Items : t = Pusher(i) /\ pusher(i)
  \/ \E k \in Items : t = Smoker(k) /\ smoker(k)

RoundsOver ==
  /\ rounds = Rounds /\ pc[agent] = "start"
  /\ \A t \in Takers : t \in asleep[t]
  /\ UNCHANGED <<threadVars, boardVars>>

Next ==
  /\ RoundsOver \/ \E t \in BoardThreads : Step(t)
  /\ UNCHANGED program

-----------------------------------------------------------------------------
If(b) == IF b THEN 1 ELSE 0

HowMany(f, x) == Cardinality({i \in Items : f[i] = x})

on_table ==
  [i \in Items |->
    If(scoreboard.item = i) * scoreboard.count + sem[Pusher(i)] +
    If(pc[Pusher(i)] \in {"place", "swap"}) +
    If(i \in to_post /\ ~(pc[agent] = "notify" /\ \A j \in to_post : i <= j))]

posting ==
  [i \in Items |-> IF pc[Pusher(i)] = "post" THEN notify[i] ELSE Nobody]

cigarettes == [k \in Items |-> sem[Smoker(k)] + HowMany(posting, k)]

(* All that can be matched has been matched and smoked.                    *)
Settled ==
  /\ Cardinality({i \in Items : on_table[i] > 0}) < 2
  /\ cigarettes = Nothing
=============================================================================
