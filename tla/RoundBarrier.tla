---------------------------- MODULE RoundBarrier ----------------------------
(***************************************************************************)
(* What a reusable barrier promises: a player passes its n-th round only   *)
(* when every player has arrived for its own n-th round.                   *)
(***************************************************************************)
EXTENDS Naturals

CONSTANT Players

VARIABLES
  arrived,     \* [player -> how often it has arrived]
  passed       \* [player -> how often it has been let through]

barrierVars == <<arrived, passed>>

BarrierInit ==
  /\ arrived = [p \in Players |-> 0]
  /\ passed = [p \in Players |-> 0]

Arrive(p) ==
  /\ arrived[p] = passed[p]
  /\ arrived' = [arrived EXCEPT ![p] = @ + 1]
  /\ UNCHANGED passed

Pass(p) ==
  /\ passed[p] < arrived[p]
  /\ \A q \in Players : arrived[p] <= arrived[q]
  /\ passed' = [passed EXCEPT ![p] = @ + 1]
  /\ UNCHANGED arrived

BarrierNext == \E p \in Players : Arrive(p) \/ Pass(p)

BarrierSpec == BarrierInit /\ [][BarrierNext]_barrierVars
=============================================================================
