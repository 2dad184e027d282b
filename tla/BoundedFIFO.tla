----------------------------- MODULE BoundedFIFO -----------------------------
(***************************************************************************)
(* What every sushi-counter queue of cpp/problems/3_sushi_chefs promises   *)
(* its chefs and customers: one bounded first-in-first-out counter, each   *)
(* push and each pop taking effect atomically between its call and its     *)
(* return.  A push takes effect only when there is room, a pop only when   *)
(* there is a dish; until then the caller is blocked.  The detailed queues *)
(* (BlockingQueue, SemaQueue, RingQueue) are shown to implement this       *)
(* module under a refinement mapping.                                      *)
(***************************************************************************)
EXTENDS Naturals, Sequences

CONSTANTS
  Producers,   \* the chefs
  Consumers,   \* the customers
  Dishes,      \* what a chef can put on the counter
  NoDish,      \* the content of a hand that holds nothing
  size         \* capacity of the counter

VARIABLES
  items,       \* the dishes on the counter, oldest first
  status,      \* [thread -> "idle", "called" (blocked or running), "done"]
  hand         \* [thread -> the dish it is pushing or has popped]

fifoVars == <<items, status, hand>>

Threads == Producers \cup Consumers

FIFOInit ==
  /\ items = << >>
  /\ status = [t \in Threads |-> "idle"]
  /\ hand = [t \in Threads |-> NoDish]

CallPush(p) == \E d \in Dishes :
  /\ status[p] = "idle"
  /\ status' = [status EXCEPT ![p] = "called"]
  /\ hand' = [hand EXCEPT ![p] = d]
  /\ UNCHANGED items

DoPush(p) ==
  /\ status[p] = "called"
  /\ Len(items) < size
  /\ items' = Append(items, hand[p])
  /\ status' = [status EXCEPT ![p] = "done"]
  /\ UNCHANGED hand

CallPop(c) ==
  /\ status[c] = "idle"
  /\ status' = [status EXCEPT ![c] = "called"]
  /\ UNCHANGED <<items, hand>>

DoPop(c) ==
  /\ status[c] = "called"
  /\ items # << >>
  /\ hand' = [hand EXCEPT ![c] = Head(items)]
  /\ items' = Tail(items)
  /\ status' = [status EXCEPT ![c] = "done"]

Return(t) ==
  /\ status[t] = "done"
  /\ status' = [status EXCEPT ![t] = "idle"]
  /\ hand' = [hand EXCEPT ![t] = NoDish]
  /\ UNCHANGED items

FIFONext ==
  \/ \E p \in Producers : CallPush(p) \/ DoPush(p) \/ Return(p)
  \/ \E c \in Consumers : CallPop(c) \/ DoPop(c) \/ Return(c)

FIFOSpec == FIFOInit /\ [][FIFONext]_fifoVars
=============================================================================
