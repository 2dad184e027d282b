---------------------------- MODULE SushiCounter ----------------------------
(***************************************************************************)
(* The chefs, the customers and the counter between them: the parameters   *)
(* of the two semaphore queues of cpp/problems/3_sushi_chefs, and the      *)
(* semaphores, locations and hands that both programs have.                *)
(***************************************************************************)
EXTENDS Naturals, Sequences, FiniteSets

CONSTANTS
  Producers,   \* the chefs
  Consumers,   \* the customers
  Dishes,
  NoDish,
  size         \* the places of the counter; N in 4_sema_ringbuffer.cpp

ASSUME SushiAssumption ==
  /\ IsFiniteSet(Producers)
  /\ IsFiniteSet(Consumers)
  /\ Producers \cap Consumers = {}
  /\ NoDish \notin Dishes
  /\ size \in Nat \ {0}

VARIABLES
  free_,       \* the semaphore of free places
  taken_,      \* the semaphore of dishes ready to be popped
  pc,          \* where each thread stands in push or pop
  elem         \* the argument of push, the result of pop

Threads == Producers \cup Consumers

(* The types, and the range of the two counting semaphores: neither is     *)
(* released beyond size, which for std::counting_semaphore would be        *)
(* undefined.                                                              *)
CounterTypeOK(locations) ==
  /\ free_ \in 0..size
  /\ taken_ \in 0..size
  /\ pc \in [Threads -> locations]
  /\ elem \in [Threads -> Dishes \cup {NoDish}]

CounterInit ==
  /\ free_ = size
  /\ taken_ = 0
  /\ pc = [t \in Threads |-> "idle"]
  /\ elem = [t \in Threads |-> NoDish]

Goto(t, from, to) == pc[t] = from /\ pc' = [pc EXCEPT ![t] = to]

(* What the callers of push and pop see of a thread.                       *)
Status(t) ==
  CASE pc[t] = "idle" -> "idle"
    [] pc[t] \in {"acquire", "lock", "inside"} -> "called"
    [] OTHER -> "done"

=============================================================================
