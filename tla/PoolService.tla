----------------------------- MODULE PoolService -----------------------------
(***************************************************************************)
(* What the thread pools of cpp/problems/7_thread_pool promise to their    *)
(* clients, whatever queues they keep inside.  A task is accepted while    *)
(* the pool is open; once closed the pool accepts nothing (submit throws), *)
(* yet it is gone only when every task it accepted has run to its end.     *)
(* Each task is started once.                                              *)
(***************************************************************************)
CONSTANT Tasks

VARIABLES
  queued,      \* accepted, not started
  running,
  finished,
  phase        \* "open", "closed" or "gone"

serviceVars == <<queued, running, finished, phase>>

ServiceInit ==
  /\ queued = {}
  /\ running = {}
  /\ finished = {}
  /\ phase = "open"

Accept(t) ==
  /\ phase = "open"
  /\ t \notin queued \cup running \cup finished
  /\ queued' = queued \cup {t}
  /\ UNCHANGED <<running, finished, phase>>

Start(t) ==
  /\ phase # "gone"
  /\ t \in queued
  /\ queued' = queued \ {t}
  /\ running' = running \cup {t}
  /\ UNCHANGED <<finished, phase>>

Finish(t) ==
  /\ phase # "gone"
  /\ t \in running
  /\ running' = running \ {t}
  /\ finished' = finished \cup {t}
  /\ UNCHANGED <<queued, phase>>

Close ==
  /\ phase = "open"
  /\ phase' = "closed"
  /\ UNCHANGED <<queued, running, finished>>

Vanish ==
  /\ phase = "closed"
  /\ queued = {} /\ running = {}
  /\ phase' = "gone"
  /\ UNCHANGED <<queued, running, finished>>

ServiceNext ==
  \/ \E t \in Tasks : Accept(t) \/ Start(t) \/ Finish(t)
  \/ Close
  \/ Vanish

ServiceSpec == ServiceInit /\ [][ServiceNext]_serviceVars
=============================================================================
