------------------------------ MODULE HorseRace ------------------------------
(***************************************************************************)
(* cpp/problems/2_horse_race.cpp: horses that meet at a barrier whose      *)
(* completion shows the track.  Every horse looks for a winner before it   *)
(* moves, while the others may already be moving: the unique_lock of line  *)
(* 54 is default-constructed and locks nothing.  A horse that finds one    *)
(* leaves the barrier for good.                                            *)
(*                                                                         *)
(* positions only grow and are looked at for one value, so reading them    *)
(* one by one is reading them at once, at the moment of the last read that *)
(* decides.  The array is not atomic; a read sees the old or the new int.  *)
(***************************************************************************)
EXTENDS Threading

CONSTANTS
  horses,          \* (3)
  finish,          \* (25)
  Deltas           \* how far a horse may jump (1..4)

VARIABLES
  positions,
  expected,        \* of the barrier: the horses that still take part
  shown,           \* history: positions when the track was last shown
  moved            \* history: the horses that have moved since

raceVars == <<positions, expected, shown, moved>>
vars == <<threadVars, raceVars>>

Horses == {"horse"} \X (1..horses)

Init ==
  /\ pc = [h \in Horses |-> "start"]
  /\ sem = [s \in {"barrier"} |-> horses]
  /\ asleep = [c \in {"barrier"} |-> {}]
  /\ positions = [h \in Horses |-> 0]
  /\ expected = horses
  /\ shown = positions /\ moved = {}

winner(track) == \E h \in Horses : track[h] = finish

Capped(n) == IF n > finish THEN finish ELSE n

LookForWinner(h) ==
  /\ Move(h, "start", IF winner(positions) THEN "drop" ELSE "jump")
  /\ UNCHANGED raceVars

Jump(h) == \E delta \in Deltas :
  /\ Move(h, "jump", "arrive")
  /\ positions' = [positions EXCEPT ![h] = Capped(@ + delta)]
  /\ moved' = moved \cup {h}
  /\ UNCHANGED <<expected, shown>>

(* print_track, if this arrival completes the phase.                       *)
Show ==
  /\ UNCHANGED positions
  /\ IF CompletesPhase("barrier") THEN shown' = positions /\ moved' = {}
                                  ELSE UNCHANGED <<shown, moved>>

ArriveOnly(h) ==   \* faulty: does not wait for the others
  /\ arrive(h, "barrier", expected, "arrive", "start")
  /\ Show /\ UNCHANGED expected

ArriveAndWait(h) ==
  /\ arrive_and_wait(h, "barrier", expected, "arrive", "start")
  /\ Show /\ UNCHANGED expected

ArriveAndDrop(h) ==
  /\ arrive(h, "barrier", expected - 1, "drop", "done")
  /\ expected' = expected - 1
  /\ Show

Step(h) ==
  /\ h \in Horses
  /\ LookForWinner(h) \/ Jump(h) \/ ArriveAndWait(h) \/ ArriveAndDrop(h)

Ended == \A h \in Horses : pc[h] = "done"

-----------------------------------------------------------------------------
(* Once the track was shown with a winner nobody moves any more, although  *)
(* nobody tells the other horses; between two pictures each horse moves at *)
(* most once, so whoever moved waits in the barrier.                       *)
RaceOver ==
  /\ winner(shown) => positions = shown
  /\ \A h \in Horses : (h \in moved) <=> pc[h] = "arrive" \/ h \in asleep["barrier"]

(* "each updates it's position; when they all have make a move, update     *)
(* screen" (2_horse_race.cpp:3-4): while the race is on, the track is      *)
(* shown when all have moved.                                              *)
ShownWhenAllMoved ==
  moved # {} /\ moved' = {} => moved = Horses
=============================================================================
