------------------------------- MODULE PingPong -------------------------------
(***************************************************************************)
(* cpp/problems/1_two_thread_ping_pong.cpp: two threads take turns on one  *)
(* mutex and one condition variable until the count is reached.            *)
(***************************************************************************)
EXTENDS Threading

CONSTANT STOP_AT       \* (10); the tests before the breaks repeat the number

VARIABLES turn, count

gameVars == <<turn, count>>
vars == <<threadVars, gameVars>>

pinger == <<"pinger", 0>>
ponger == <<"ponger", 0>>
PingPongThreads == {pinger, ponger}

Other(t) == IF t = pinger THEN ponger ELSE pinger

Init ==
  /\ pc = [t \in PingPongThreads |-> "start"]
  /\ sem = [s \in {} |-> 0]
  /\ asleep = [c \in {"cv"} |-> {}]
  /\ turn = pinger /\ count = 0

MayGoOn(t) == turn = t \/ count = STOP_AT

SayTurn(t) ==
  /\ MayGoOn(t) /\ count # STOP_AT
  /\ Move(t, "start", "notify")
  /\ turn' = Other(turn)
  /\ count' = IF t = ponger THEN count + 1 ELSE count

NotifySelf(t) ==       \* faulty: leaves without waking the other
  Move(t, "notify", "start")

NotifyOther(t) == notify_one(t, "cv", "notify", "start")

Step(t) ==
  /\ t \in PingPongThreads
  /\ \/ SayTurn(t)
     \/ /\ UNCHANGED gameVars
        /\ \/ NotifyOther(t)
           \/ count = STOP_AT /\ notify_one(t, "cv", "start", "done")
           \/ ~MayGoOn(t) /\ Sleep(t, "start", "cv")

Spurious == \E t \in PingPongThreads : WakesSpuriously(t, "cv") /\ UNCHANGED gameVars

Ended == \A t \in PingPongThreads : pc[t] = "done"
=============================================================================
