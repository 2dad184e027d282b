--------------------------- MODULE HilzerBarbershop ---------------------------
(***************************************************************************)
(* cpp/problems/from little book of semaphores/hilzer_barbershop.cpp.      *)
(* while_held takes a binary semaphore for a mutex.  A block that does not *)
(* wait inside is one step that finds the mutex free; the usher, the       *)
(* barber and the paying customer wait inside theirs, and hold it.         *)
(*                                                                         *)
(* The two-way signals release and acquire one ticket from both sides.     *)
(* Nothing keeps a thread from acquiring the token that it has itself just *)
(* released: front at 93-102, next_cust at 55-58, cut_ticket at 143-147.   *)
(***************************************************************************)
EXTENDS Threading, Sequences

CONSTANTS
  Barbers, Ushers, NCustomers,     \* how many threads (3, 4, 10)
  MAX_CUSTOMERS,                   \* (20)
  SOFA_CAPACITY,                   \* (4)
  LeftOut                          \* bound: of these sets of threads one does not run

VARIABLES
  n_customers,
  standing_queue, sofa_queue,      \* the customers, by their tickets
  next,                            \* [usher or barber -> the customer it popped]
  ahead                            \* history: [customer -> those inside who came
                                   \* in before it]

hilzerVars == <<n_customers, standing_queue, sofa_queue, next, ahead>>
vars == <<threadVars, hilzerVars>>

BarberThreads == {"barber"} \X (1..Barbers)
UsherThreads == {"usher"} \X (1..Ushers)
CustomerThreads == {"customer"} \X (1..NCustomers)
HilzerThreads == BarberThreads \cup UsherThreads \cup CustomerThreads

global_mtx == <<"global_mtx", 0>>
sofa_mtx == <<"sofa_mtx", 0>>
register_mtx == <<"register_mtx", 0>>
has_space_on_sofa == <<"has_space_on_sofa", 0>>
customer_standing == <<"customer_standing", 0>>
customer_on_sofa == <<"customer_on_sofa", 0>>
payment_ready == <<"payment_ready", 0>>
receipt_ready == <<"receipt_ready", 0>>
sofa_ticket(c) == <<"sofa_ticket", c[2]>>
cut_ticket(c) == <<"cut_ticket", c[2]>>

Tickets == {"sofa_ticket", "cut_ticket"} \X (1..NCustomers)

binary ==
  {global_mtx, sofa_mtx, register_mtx, payment_ready, receipt_ready} \cup Tickets

HilzerIdle ==
  /\ n_customers = 0 /\ standing_queue = << >> /\ sofa_queue = << >>
  /\ next = [t \in UsherThreads \cup BarberThreads |-> t]
  /\ ahead = [c \in CustomerThreads |-> {}]

(* A ticket bears its customer's name.  A customer makes a new one when it *)
(* comes again; whoever then still holds the old one waits on it for ever  *)
(* (Stuck below) and holds a mutex that the customer needs first.          *)
Init ==
  /\ \E S \in LeftOut :
       pc = [t \in HilzerThreads |-> IF t \in S THEN "left out" ELSE "start"]
  /\ sem = [s \in binary \cup {has_space_on_sofa, customer_standing, customer_on_sofa} |->
              CASE s \in {global_mtx, sofa_mtx, register_mtx} -> 1
                [] s = has_space_on_sofa -> SOFA_CAPACITY [] OTHER -> 0]
  /\ asleep = [c \in {} |-> {}]
  /\ HilzerIdle

Free(mutex) == sem[mutex] > 0

-----------------------------------------------------------------------------
barber(b) ==
  \/ /\ acquire(b, sofa_mtx, "pop", "call")
     /\ next' = [next EXCEPT ![b] = Head(sofa_queue)]
     /\ sofa_queue' = Tail(sofa_queue)
     /\ UNCHANGED <<n_customers, standing_queue, ahead>>
  \/ /\ \/ acquire(b, customer_on_sofa, "start", "pop")
        \/ release(b, cut_ticket(next[b]), 1, "call", "meet")
        \/ acquire(b, cut_ticket(next[b]), "meet", "met")
        \/ release(b, sofa_mtx, 1, "met", "cut")
        \/ release(b, cut_ticket(next[b]), 1, "cut", "register")
        \/ acquire(b, payment_ready, "register", "receipt")
        \/ release(b, receipt_ready, 1, "receipt", "start")
     /\ UNCHANGED hilzerVars

-----------------------------------------------------------------------------
NextStanding(u, from, to) ==     \* the body up to front->release()
  /\ Goto(u, from, to)
  /\ next' = [next EXCEPT ![u] = Head(standing_queue)]
  /\ standing_queue' = Tail(standing_queue)
  /\ UNCHANGED <<asleep, n_customers, sofa_queue, ahead>>

PopUnlocked(u) ==                \* faulty: global_mtx is not held while waiting
  /\ Free(global_mtx)
  /\ NextStanding(u, "pop", "call") /\ UNCHANGED sem

PopStanding(u) ==
  /\ Free(global_mtx)
  /\ NextStanding(u, "pop", "call")
  /\ sem' = [sem EXCEPT ![global_mtx] = 0]

TakeNoPlace(u) == Move(u, "space", "pop")   \* faulty: calls without a place

TakeSofaPlace(u) == acquire(u, has_space_on_sofa, "space", "pop")

usher(u) ==
  \/ PopStanding(u)
  \/ /\ \/ acquire(u, customer_standing, "start", "space")
        \/ TakeSofaPlace(u)
        \/ release(u, sofa_ticket(next[u]), 1, "call", "meet")
        \/ acquire(u, sofa_ticket(next[u]), "meet", "met")
        \/ /\ Goto(u, "met", "start")
           /\ sem' = [sem EXCEPT ![global_mtx] = 1]
           /\ UNCHANGED asleep
     /\ UNCHANGED hilzerVars

-----------------------------------------------------------------------------
EnterShop(c) ==
  /\ Free(global_mtx) /\ n_customers # MAX_CUSTOMERS
  /\ release(c, customer_standing, 1, "start", "standing")
  /\ n_customers' = n_customers + 1
  /\ standing_queue' = Append(standing_queue, c)
  /\ ahead' = [ahead EXCEPT ![c] = {d \in CustomerThreads : pc[d] # "start"}]
  /\ UNCHANGED <<sofa_queue, next>>

Balk(c) ==
  /\ Free(global_mtx) /\ n_customers = MAX_CUSTOMERS
  /\ Move(c, "start", "start") /\ UNCHANGED hilzerVars

SitOnSofa(c) ==
  /\ Free(sofa_mtx) /\ Move(c, "sofa", "seated")
  /\ sofa_queue' = Append(sofa_queue, c)
  /\ UNCHANGED <<n_customers, standing_queue, next, ahead>>

LeaveSofaTaken(c) == Move(c, "up", "ready")   \* faulty: keeps the place

LeaveSofa(c) == release(c, has_space_on_sofa, 1, "up", "ready")

PayAnywhere(c) ==                \* faulty: without the mutex of the register
  Free(register_mtx) /\ Move(c, "cut", "pay")

TakeRegister(c) == acquire(c, register_mtx, "cut", "pay")

Pay(c) ==
  \/ TakeRegister(c)
  \/ release(c, payment_ready, 1, "pay", "paid")
  \/ acquire(c, receipt_ready, "paid", "receipt")
  \/ release(c, register_mtx, 1, "receipt", "leave")

LeaveShop(c) ==
  /\ Free(global_mtx) /\ Move(c, "leave", "start")
  /\ n_customers' = n_customers - 1
  /\ ahead' = [d \in CustomerThreads |-> IF d = c THEN {} ELSE ahead[d] \ {c}]
  /\ UNCHANGED <<standing_queue, sofa_queue, next>>

customer(c) ==
  \/ EnterShop(c) \/ Balk(c)
  \/ SitOnSofa(c)
  \/ /\ \/ acquire(c, sofa_ticket(c), "standing", "sofa")
        \/ release(c, sofa_ticket(c), 1, "seated", "signal")
        \/ release(c, customer_on_sofa, 1, "signal", "wait")
        \/ acquire(c, cut_ticket(c), "wait", "up")
        \/ LeaveSofa(c)
        \/ release(c, cut_ticket(c), 1, "ready", "in_chair")
        \/ acquire(c, cut_ticket(c), "in_chair", "cut")
        \/ Pay(c)
     /\ UNCHANGED hilzerVars
  \/ LeaveShop(c)

-----------------------------------------------------------------------------
Step(t) ==
  \/ t \in BarberThreads /\ barber(t)
  \/ t \in UsherThreads /\ usher(t)
  \/ t \in CustomerThreads /\ customer(t)

(* What taking back one's own token leads to: a customer whose ticket its  *)
(* usher has taken stands for ever; a barber or usher whose customer has   *)
(* moved on waits for it for ever, in its mutex.                           *)
Meets(t, c) == next[t] = c /\ pc[t] \in {"call", "meet"}

StandsForEver(c) ==
  /\ pc[c] = "standing" /\ sem[sofa_ticket(c)] = 0
  /\ \A i \in 1..Len(standing_queue) : standing_queue[i] # c
  /\ ~\E u \in UsherThreads : Meets(u, c)

Stuck(b) ==
  /\ pc[b] = "meet" /\ sem[cut_ticket(next[b])] = 0
  /\ pc[next[b]] \notin {"wait", "up", "ready"}

Stranded ==
  \/ \E c \in CustomerThreads : StandsForEver(c)
  \/ \E b \in BarberThreads : Stuck(b)

(* The shop that has lost somebody may stop; any other must not.           *)
MayStop == Stranded /\ UNCHANGED <<threadVars, hilzerVars>>

Next == MayStop \/ \E t \in HilzerThreads : Step(t)

Spec == Init /\ [][Next]_vars

-----------------------------------------------------------------------------
(* "longest standing customer sits when sofa spot opens", "longest seated  *)
(* customer on sofa gets served" (problems.md:318-319): though several     *)
(* ushers and customers run, those on the sofa and then those who stand    *)
(* are in the order of their arrival.                                      *)
InOrder ==
  LET line == sofa_queue \o standing_queue
  IN \A i, j \in 1..Len(line) : i < j => line[i] \in ahead[line[j]]

AtLocs(S, locs) == {t \in S : pc[t] \in locs}

(* The sofa is never overcrowded, whatever becomes of the tokens, and a    *)
(* payment at the register is taken by one barber, whose receipt goes to   *)
(* the customer who pays: there is one at a time.                          *)
SofaAndRegister ==
  /\ Cardinality(AtLocs(CustomerThreads, {"sofa", "seated", "signal", "wait", "up"}))
       <= SOFA_CAPACITY
  /\ LET paying == AtLocs(CustomerThreads, {"paid"})
     IN /\ Cardinality(paying) <= 1
        /\ Cardinality(paying) =
             sem[payment_ready] + Cardinality(AtLocs(BarberThreads, {"receipt"}))
               + sem[receipt_ready]

(* "the cust WILL release again once he sits" (hilzer_barbershop.cpp:101): *)
(* when the usher has acquired that token, its customer has sat down.      *)
UsherAwaitsSeating ==
  \A u \in UsherThreads : pc[u] = "met" => pc[next[u]] # "standing"
=============================================================================
