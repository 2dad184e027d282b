------------------------------ MODULE Barbershop ------------------------------
(***************************************************************************)
(* cpp/problems/from little book of semaphores/barbershop_0..2.cpp: three  *)
(* programs for one shop.  A behaviour is one of the program that is       *)
(* chosen at the start.  global_mtx guards short blocks only: each is one  *)
(* step (see Threading).                                                   *)
(***************************************************************************)
EXTENDS Threading, Sequences

CONSTANTS
  NCustomers,  \* threads (6)
  N_CHAIRS     \* (5)

VARIABLES
  program,
  n_customers,
  barber_chair_free,   \* of the first program
  queue,               \* of the third: the customers, by their barber_ready
  called               \* the customer whose barber_ready the barber holds

shopVars == <<n_customers, barber_chair_free, queue, called>>
vars == <<program, threadVars, shopVars>>

barber == <<"barber", 0>>
Customer(i) == <<"customer", i>>
Customers == {Customer(i) : i \in 1..NCustomers}
ShopThreads == Customers \cup {barber}

barber_chair == <<"barber_chair", 0>>
haircut_request == <<"haircut_request", 0>>
done_haircut == <<"done_haircut", 0>>
customer_ready == <<"customer_ready", 0>>
barber_done == <<"barber_done", 0>>
customer_done == <<"customer_done", 0>>

ShopIdle ==
  n_customers = 0 /\ barber_chair_free = TRUE /\ queue = << >> /\ called = barber

(* A customer's barber_ready bears its name; a new one is made for every   *)
(* visit, when the old one holds no token and nobody knows it.             *)
Init ==
  /\ program \in {"barbershop_0", "barbershop_1", "barbershop_2"}
  /\ pc = [t \in ShopThreads |-> "start"]
  /\ sem = [s \in {barber_chair, haircut_request, done_haircut,
                   customer_ready, barber_done, customer_done} \cup Customers |->
              IF s = barber_chair THEN 1 ELSE 0]
  /\ asleep = [c \in {"barber_chair_free_cv"} |-> {}]
  /\ ShopIdle

-----------------------------------------------------------------------------
(* The block under mtx or global_mtx: come in, or walk out and try again.  *)

HasChairOffByOne == n_customers <= N_CHAIRS     \* faulty

HasChair == n_customers < N_CHAIRS

Arrive(c, to) ==
  /\ HasChair /\ Move(c, "start", to)
  /\ n_customers' = n_customers + 1
  /\ queue' = IF program = "barbershop_2" THEN Append(queue, c) ELSE queue
  /\ UNCHANGED <<barber_chair_free, called>>

WalkOut(c) == ~HasChair /\ Move(c, "start", "start") /\ UNCHANGED shopVars

LeaveShop(c, to) ==
  /\ Move(c, "leave", to)
  /\ n_customers' = n_customers - 1
  /\ UNCHANGED <<barber_chair_free, queue, called>>

-----------------------------------------------------------------------------
(* barbershop_0: no barber; barber_chair_mtx (sem barber_chair) is held    *)
(* throughout the cut, so barber_chair_free_cv never waits and nobody is   *)
(* there to be notified.                                                   *)

SetChair(free) ==
  barber_chair_free' = free /\ UNCHANGED <<n_customers, queue, called>>

customer0(c) ==
  \/ Arrive(c, "sit") \/ WalkOut(c)
  \/ barber_chair_free /\ acquire(c, barber_chair, "sit", "cut") /\ SetChair(FALSE)
  \/ release(c, barber_chair, 1, "cut", "leave") /\ SetChair(TRUE)
  \/ LeaveShop(c, "start")

-----------------------------------------------------------------------------
(* barbershop_1                                                            *)

barber1 ==
  /\ \/ acquire(barber, haircut_request, "start", "cut")
     \/ release(barber, done_haircut, 1, "cut", "start")
  /\ UNCHANGED shopVars

StandUpForgotten(c) ==    \* faulty: keeps the chair
  Move(c, "stand", "start")

StandUp(c) == release(c, barber_chair, 1, "stand", "start")

customer1(c) ==
  \/ Arrive(c, "sit") \/ WalkOut(c)
  \/ /\ \/ acquire(c, barber_chair, "sit", "request")
        \/ release(c, haircut_request, 1, "request", "done")
        \/ acquire(c, done_haircut, "done", "leave")
        \/ StandUp(c)
     /\ UNCHANGED shopVars
  \/ LeaveShop(c, "stand")

-----------------------------------------------------------------------------
(* barbershop_2                                                            *)

NextCustomer ==
  /\ Move(barber, "pop", "call")
  /\ called' = Head(queue)
  /\ queue' = Tail(queue)
  /\ UNCHANGED <<n_customers, barber_chair_free>>

AwaitNobody ==            \* faulty: the barber goes on without the customer
  Move(barber, "wait", "start")

AwaitCustomer == acquire(barber, customer_done, "wait", "start")

barber2 ==
  \/ NextCustomer
  \/ /\ \/ acquire(barber, customer_ready, "start", "pop")
        \/ release(barber, called, 1, "call", "cut")
        \/ release(barber, barber_done, 1, "cut", "wait")
        \/ AwaitCustomer
     /\ UNCHANGED shopVars

customer2(c) ==
  \/ Arrive(c, "ready") \/ WalkOut(c)
  \/ /\ \/ release(c, customer_ready, 1, "ready", "sit")
        \/ acquire(c, c, "sit", "done")
        \/ acquire(c, barber_done, "done", "ack")
        \/ release(c, customer_done, 1, "ack", "leave")
     /\ UNCHANGED shopVars
  \/ LeaveShop(c, "start")

-----------------------------------------------------------------------------
Step(t) ==
  /\ t \in ShopThreads
  /\ \/ program = "barbershop_0" /\ t # barber /\ customer0(t)
     \/ program = "barbershop_1" /\ IF t = barber THEN barber1 ELSE customer1(t)
     \/ program = "barbershop_2" /\ IF t = barber THEN barber2 ELSE customer2(t)

Next == (\E t \in ShopThreads : Step(t)) /\ UNCHANGED program

-----------------------------------------------------------------------------
(* Who is where, as a customer sees it.                                    *)

CustomersAt(locs) == {c \in Customers : pc[c] \in locs}

in_chair ==
  CASE program = "barbershop_0" -> CustomersAt({"cut"})
    [] program = "barbershop_1" -> {c \in CustomersAt({"done"}) : pc[barber] = "cut"}
    [] program = "barbershop_2" -> {c \in {called} : pc[barber] = "cut"}

(* The haircut is over and the customer has not left; it may not even have *)
(* noticed yet.                                                            *)
shorn ==
  CustomersAt({"ack", "leave"}) \cup
  (CASE program = "barbershop_1" /\ sem[done_haircut] > 0 -> CustomersAt({"done"})
     [] program = "barbershop_2" /\ pc[barber] = "wait" /\ sem[customer_done] = 0 ->
          {called} \cap CustomersAt({"ready", "sit", "done"})
     [] OTHER -> {})

waiting ==
  CustomersAt({"sit", "request", "ready", "done"}) \ (in_chair \cup shorn)

(* The semaphores that are binary_semaphore in the code.                   *)
binary ==
  {barber_chair, haircut_request, done_haircut, barber_done,
   customer_done} \cup Customers
=============================================================================
