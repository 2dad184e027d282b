----------------------------- MODULE ShopsProofs -----------------------------
(***************************************************************************)
(* Proofs about the barbershops, Hilzer's barbershop and Santa Claus as    *)
(* MCLittleBook runs them, for any number of threads and any bounds.       *)
(***************************************************************************)
EXTENDS LittleBookProofs

-----------------------------------------------------------------------------
(* The barbershops                                                         *)

BCustomers == Barbershops!Customers
Barber == Barbershops!barber
Chair == Barbershops!barber_chair
BSems ==
  {Chair, Barbershops!haircut_request, Barbershops!done_haircut,
   Barbershops!customer_ready, Barbershops!barber_done,
   Barbershops!customer_done} \cup BCustomers
Inside == {"sit", "cut", "request", "ready", "done", "ack", "leave"}
BC(l) == Count(BCustomers, pc, {l})
BarberIs(l) == IF pc[Barber] = l THEN 1 ELSE 0

BarberTyped ==
  /\ pc \in [Barbershops!ShopThreads -> Inside \cup {"start", "stand", "pop", "call", "wait"}]
  /\ sem \in [BSems -> Nat]
  /\ n_customers = Count(BCustomers, pc, Inside)
  /\ queue \in Seq(BCustomers)
  /\ called \in Barbershops!ShopThreads
  /\ barber_chair_free \in BOOLEAN

CustomersStand(L) == \A c \in BCustomers : pc[c] \in L

(* Nobody but the customer who holds barber_chair_mtx is at the chair.     *)
ChairByMutex ==
  /\ CustomersStand({"start", "sit", "cut", "leave"})
  /\ sem[Chair] + BC("cut") = 1
  /\ barber_chair_free <=> sem[Chair] = 1
  /\ \A s \in Barbershops!binary \ {Chair} : sem[s] = 0

(* The chair is held until the customer has left; its request, the cut and *)
(* the answer follow one another while it waits for them.                  *)
ChairBySemaphore ==
  /\ CustomersStand({"start", "sit", "request", "done", "leave", "stand"})
  /\ pc[Barber] \in {"start", "cut"}
  /\ sem[Chair] + BC("request") + BC("done") + BC("leave") + BC("stand") = 1
  /\ sem[Barbershops!haircut_request] + BarberIs("cut")
       + sem[Barbershops!done_haircut] = BC("done")
  /\ \A s \in Barbershops!binary \ {Chair, Barbershops!haircut_request,
                                    Barbershops!done_haircut} : sem[s] = 0
  /\ barber_chair_free = TRUE

(* The customer whose barber_ready the barber holds, until it has answered *)
(* customer_done: all others who wait are in the queue.                    *)
Attended ==
  \/ pc[Barber] \in {"call", "cut"}
  \/ pc[Barber] = "wait" /\ sem[Barbershops!customer_done] = 0

InShop == {"ready", "sit", "done", "ack"}

QueueLine ==
  /\ Distinct(queue)
  /\ \A c \in BCustomers :
       pc[c] \in InShop <=> c \in Elements(queue) \/ (Attended /\ c = called)
  /\ Attended => called \in BCustomers /\ called \notin Elements(queue)

QueueTokens ==
  /\ \A c \in BCustomers : pc[c] \in {"done", "ack"} => Attended /\ c = called
  /\ pc[Barber] = "call" => pc[called] \notin {"done", "ack"}
  /\ pc[Barber] = "cut" => pc[called] # "ack"
  /\ \A c \in BCustomers :
       sem[c] = IF /\ Attended /\ pc[Barber] # "call" /\ c = called
                   /\ pc[c] \in {"ready", "sit"} THEN 1 ELSE 0
  /\ sem[Barbershops!barber_done] =
       IF Attended /\ pc[Barber] = "wait" /\ pc[called] # "ack" THEN 1 ELSE 0
  /\ sem[Barbershops!customer_done] \in {0, 1}
  /\ sem[Barbershops!customer_done] = 1 => pc[Barber] = "wait"

QueueCounted ==
  sem[Barbershops!customer_ready] + BarberIs("pop") + BC("ready") = Len(queue)

QueueRest ==
  /\ sem[Chair] = 1 /\ barber_chair_free = TRUE
  /\ \A s \in {Barbershops!haircut_request, Barbershops!done_haircut} : sem[s] = 0

ChairByQueue ==
  /\ CustomersStand({"start", "ready", "sit", "done", "ack", "leave"})
  /\ pc[Barber] \in {"start", "pop", "call", "cut", "wait"}
  /\ QueueLine /\ QueueTokens /\ QueueCounted /\ QueueRest

BarberInv ==
  /\ BarberTyped
  /\ program = "barbershop_0" => ChairByMutex
  /\ program = "barbershop_1" => ChairBySemaphore
  /\ program = "barbershop_2" => ChairByQueue

(* The customers, the barber and the semaphores are told apart.            *)
LEMMA BarbersApart ==
  /\ IsFiniteSet(BCustomers)
  /\ BCustomers \subseteq Barbershops!ShopThreads
  /\ Barber \in Barbershops!ShopThreads
  /\ Barber \notin BCustomers
  /\ \A t \in Barbershops!ShopThreads : t # Barber => t \in BCustomers
  /\ \A s \in {Chair, Barbershops!haircut_request, Barbershops!done_haircut,
               Barbershops!customer_ready, Barbershops!barber_done,
               Barbershops!customer_done} : s \notin BCustomers
  /\ Chair # Barbershops!haircut_request /\ Chair # Barbershops!done_haircut
  /\ Chair # Barbershops!customer_ready /\ Chair # Barbershops!barber_done
  /\ Chair # Barbershops!customer_done
  /\ Barbershops!haircut_request # Barbershops!done_haircut
  /\ Barbershops!haircut_request # Barbershops!customer_ready
  /\ Barbershops!haircut_request # Barbershops!barber_done
  /\ Barbershops!haircut_request # Barbershops!customer_done
  /\ Barbershops!done_haircut # Barbershops!customer_ready
  /\ Barbershops!done_haircut # Barbershops!barber_done
  /\ Barbershops!done_haircut # Barbershops!customer_done
  /\ Barbershops!customer_ready # Barbershops!barber_done
  /\ Barbershops!customer_ready # Barbershops!customer_done
  /\ Barbershops!barber_done # Barbershops!customer_done
<1>1. BCustomers = {"customer"} \X (1..NCustomers)
  BY DEF BCustomers, Barbershops!Customers, Barbershops!Customer
<1>2. IsFiniteSet({"customer"} \X (1..NCustomers))
  BY Bounds, ThreadsAreFinite
<1>3. /\ Barber = <<"barber", 0>> /\ Chair = <<"barber_chair", 0>>
      /\ Barbershops!haircut_request = <<"haircut_request", 0>>
      /\ Barbershops!done_haircut = <<"done_haircut", 0>>
      /\ Barbershops!customer_ready = <<"customer_ready", 0>>
      /\ Barbershops!barber_done = <<"barber_done", 0>>
      /\ Barbershops!customer_done = <<"customer_done", 0>>
  BY DEF Barber, Chair, Barbershops!barber, Barbershops!barber_chair,
     Barbershops!haircut_request, Barbershops!done_haircut, Barbershops!customer_ready,
     Barbershops!barber_done, Barbershops!customer_done
<1>4. Barbershops!ShopThreads = BCustomers \cup {Barber}
  BY DEF Barbershops!ShopThreads, BCustomers, Barber
<1>5. IsFiniteSet(BCustomers)
  BY <1>1, <1>2
<1>6. Barber \notin BCustomers
  BY <1>1, <1>3
<1>7. \A s \in {Chair, Barbershops!haircut_request, Barbershops!done_haircut,
                Barbershops!customer_ready, Barbershops!barber_done,
                Barbershops!customer_done} : s \notin BCustomers
  BY <1>1, <1>3
<1> QED
  BY <1>3, <1>4, <1>5, <1>6, <1>7

LEMMA BarberCounted ==
  \A L : /\ Count(BCustomers, pc, L) \in Nat
         /\ Count(BCustomers, pc', L) \in Nat
  BY BarbersApart, CountIsNat

LEMMA BarberStarts == Barbershops!Init => BarberInv
<1> SUFFICES ASSUME Barbershops!Init PROVE BarberInv
  OBVIOUS
<1>1. /\ \A t \in Barbershops!ShopThreads : pc[t] = "start"
      /\ sem[Chair] = 1
      /\ \A s \in Barbershops!binary \ {Chair} : sem[s] = 0
      /\ sem[Barbershops!customer_ready] = 0
      /\ queue = << >> /\ called = Barber /\ barber_chair_free = TRUE
      /\ n_customers = 0
  BY BarbersApart DEF Barbershops!Init, Barbershops!ShopIdle, Barbershops!binary, Chair, Barber
<1>2. \A L : "start" \notin L => Count(BCustomers, pc, L) = 0
  BY <1>1, BarbersApart, CountZero
<1>3. BarberTyped
  <2>1. n_customers = Count(BCustomers, pc, Inside)
    BY <1>1, <1>2 DEF Inside
  <2> QED
    BY <1>1, <2>1, BarbersApart DEF Barbershops!Init, BarberTyped, BSems, Chair, BCustomers
<1>4. Len(queue) = 0 /\ Elements(queue) = {} /\ Distinct(queue)
  BY <1>1 DEF Elements, Distinct
<1>5. /\ BC("cut") = 0 /\ BC("request") = 0 /\ BC("done") = 0 /\ BC("leave") = 0
      /\ BC("stand") = 0 /\ BC("ready") = 0
  BY <1>2 DEF BC
<1>6. \A c \in BCustomers : sem[c] = 0 /\ pc[c] = "start"
  BY <1>1, BarbersApart DEF Barbershops!binary, BCustomers
<1>7. /\ sem[Barbershops!haircut_request] = 0 /\ sem[Barbershops!done_haircut] = 0
      /\ sem[Barbershops!barber_done] = 0 /\ sem[Barbershops!customer_done] = 0
      /\ pc[Barber] = "start"
  BY <1>1, BarbersApart DEF Barbershops!binary
<1>8. ChairByMutex
  BY <1>1, <1>5, <1>6 DEF ChairByMutex, CustomersStand
<1>9. ChairBySemaphore
  BY <1>1, <1>5, <1>6, <1>7 DEF ChairBySemaphore, CustomersStand, BarberIs
<1>10. ChairByQueue
  BY <1>1, <1>4, <1>5, <1>6, <1>7 DEF ChairByQueue, QueueLine, QueueTokens, QueueCounted,
     QueueRest, InShop, CustomersStand, BarberIs, Attended
<1> QED
  BY <1>3, <1>8, <1>9, <1>10 DEF BarberInv

LEMMA CustomerGoes ==
  ASSUME BarberTyped, NEW c \in BCustomers, NEW from, NEW to,
         Barbershops!Goto(c, from, to)
  PROVE  /\ pc[c] = from /\ Moves(c, to, pc, pc')
         /\ \A L : /\ Count(BCustomers, pc, L) \in Nat
                   /\ Count(BCustomers, pc', L) \in Nat
                   /\ Count(BCustomers, pc', L) =
                        Count(BCustomers, pc, L) + Change(L, from, to)
<1>1. /\ pc[c] = from /\ Moves(c, to, pc, pc') /\ BCustomers \subseteq DOMAIN pc
      /\ IsFiniteSet(BCustomers)
  BY BarbersApart DEF BarberTyped, Barbershops!Goto, Barbershops!At, Moves
<1>2. \A L : /\ Count(BCustomers, pc, L) \in Nat
             /\ Count(BCustomers, pc', L) \in Nat
             /\ Count(BCustomers, pc', L) =
                  Count(BCustomers, pc, L) + Change(L, from, to)
  BY <1>1, CountsAfterGoto
<1> QED
  BY <1>1, <1>2

LEMMA BarberGoes ==
  ASSUME BarberTyped, NEW from, NEW to, Barbershops!Goto(Barber, from, to)
  PROVE  /\ pc[Barber] = from /\ Moves(Barber, to, pc, pc')
         /\ \A L : /\ Count(BCustomers, pc, L) \in Nat
                   /\ Count(BCustomers, pc', L) = Count(BCustomers, pc, L)
<1>1. pc[Barber] = from /\ Moves(Barber, to, pc, pc')
  BY BarbersApart DEF BarberTyped, Barbershops!Goto, Barbershops!At, Moves
<1>2. \A c \in BCustomers : pc'[c] = pc[c]
  BY <1>1, BarbersApart DEF BarberTyped, Moves
<1>3. \A L : Count(BCustomers, pc', L) = Count(BCustomers, pc, L)
  BY <1>2, CountSame
<1> QED
  BY <1>1, <1>3, BarberCounted

(* A step of the shop of problems.md, from those who wait, have their hair *)
(* cut and have had it to those who do then.                               *)
Enters(c, w, i, s, v, j, r) ==
  /\ c \notin w \cup i \cup s /\ Cardinality(w \cup i \cup s) < N_CHAIRS
  /\ v = w \cup {c} /\ j = i /\ r = s

BeginsCut(c, w, i, s, v, j, r) ==
  c \in w /\ i = {} /\ v = w \ {c} /\ j = {c} /\ r = s

EndsCut(c, w, i, s, v, j, r) ==
  i = {c} /\ j = {} /\ r = s \cup {c} /\ v = w

Leaves(c, w, i, s, v, j, r) ==
  c \in s /\ r = s \ {c} /\ v = w /\ j = i

Visits(w, i, s, v, j, r) ==
  \/ v = w /\ j = i /\ r = s
  \/ \E c \in BCustomers :
       \/ Enters(c, w, i, s, v, j, r) \/ BeginsCut(c, w, i, s, v, j, r)
       \/ EndsCut(c, w, i, s, v, j, r) \/ Leaves(c, w, i, s, v, j, r)

Visited ==
  Visits(Barbershops!waiting, Barbershops!in_chair, Barbershops!shorn,
         Barbershops!waiting', Barbershops!in_chair', Barbershops!shorn')

(* n_customers counts those who are inside.                                *)
LEMMA InsideCounted ==
  ASSUME BarberInv, InBarbershop
  PROVE  /\ Barbershops!waiting \cup Barbershops!in_chair \cup Barbershops!shorn
              = Standing(BCustomers, pc, Inside)
         /\ n_customers = Cardinality(Barbershops!waiting \cup Barbershops!in_chair
                                        \cup Barbershops!shorn)
         /\ n_customers \in Nat
<1> DEFINE All == Barbershops!waiting \cup Barbershops!in_chair \cup Barbershops!shorn
<1>1. Barbershops!waiting =
        Standing(BCustomers, pc, {"sit", "request", "ready", "done"})
          \ (Barbershops!in_chair \cup Barbershops!shorn)
  BY DEF Barbershops!waiting, Barbershops!CustomersAt, Standing, BCustomers
<1>2. /\ Standing(BCustomers, pc, {"ack", "leave"}) \subseteq Barbershops!shorn
      /\ Barbershops!shorn \subseteq
           Standing(BCustomers, pc, {"ready", "sit", "done", "ack", "leave"})
  BY DEF Barbershops!shorn, Barbershops!CustomersAt, Standing, BCustomers
<1>3. ASSUME /\ Standing(BCustomers, pc, {"cut"}) \subseteq Barbershops!in_chair
             /\ Barbershops!in_chair \subseteq Standing(BCustomers, pc, Inside)
      PROVE  All = Standing(BCustomers, pc, Inside)
  <2> HIDE DEF All
  <2>1. ASSUME NEW c PROVE c \in All <=> c \in Standing(BCustomers, pc, Inside)
    BY <1>1, <1>2, <1>3 DEF All, Standing, Inside
  <2> QED
    BY <2>1
<1>4. ASSUME program = "barbershop_0" PROVE All = Standing(BCustomers, pc, Inside)
  BY <1>3, <1>4 DEF Barbershops!in_chair, Barbershops!CustomersAt, Standing, BCustomers, Inside
<1>5. ASSUME program = "barbershop_1" PROVE All = Standing(BCustomers, pc, Inside)
  <2>1. CustomersStand({"start", "sit", "request", "done", "leave", "stand"})
    BY <1>5 DEF BarberInv, ChairBySemaphore
  <2> QED
    BY <1>3, <1>5, <2>1 DEF Barbershops!in_chair, Barbershops!CustomersAt, Standing,
       BCustomers, Inside, CustomersStand
<1>6. ASSUME program = "barbershop_2" PROVE All = Standing(BCustomers, pc, Inside)
  <2>1. ChairByQueue
    BY <1>6 DEF BarberInv
  <2>2. Standing(BCustomers, pc, {"cut"}) = {}
    BY <2>1 DEF ChairByQueue, CustomersStand, Standing
  <2>3. pc[Barber] = "cut" =>
          called \in BCustomers /\ pc[called] \in {"ready", "sit", "done", "ack"}
    BY <2>1 DEF ChairByQueue, QueueLine, InShop, Attended
  <2> QED
    BY <1>3, <1>6, <2>2, <2>3 DEF Barbershops!in_chair, Standing, Inside, Barber
<1>7. n_customers = Cardinality(Standing(BCustomers, pc, Inside)) /\ n_customers \in Nat
  BY BarberCounted DEF BarberInv, BarberTyped, Count
<1> QED
  BY <1>4, <1>5, <1>6, <1>7 DEF InBarbershop

LEMMA StandingAfterMove ==
  ASSUME NEW t, NEW to, NEW f, NEW g, Moves(t, to, f, g),
         NEW S, S \subseteq DOMAIN f, t \in S
  PROVE  \A L : Standing(S, g, L) = IF to \in L THEN Standing(S, f, L) \cup {t}
                                               ELSE Standing(S, f, L) \ {t}
<1>1. \A u \in S : g[u] = IF u = t THEN to ELSE f[u]
  BY DEF Moves
<1> QED
  BY <1>1 DEF Standing

LEMMA MutexViews ==
  ASSUME program = "barbershop_0", CustomersStand({"start", "sit", "cut", "leave"})
  PROVE  /\ Barbershops!waiting = Standing(BCustomers, pc, {"sit"})
         /\ Barbershops!in_chair = Standing(BCustomers, pc, {"cut"})
         /\ Barbershops!shorn = Standing(BCustomers, pc, {"leave"})
<1>1. Barbershops!in_chair = Standing(BCustomers, pc, {"cut"})
  BY DEF Barbershops!in_chair, Barbershops!CustomersAt, Standing, BCustomers
<1>2. Barbershops!shorn = Standing(BCustomers, pc, {"leave"})
  BY DEF Barbershops!shorn, Barbershops!CustomersAt, Standing, BCustomers, CustomersStand
<1>3. Barbershops!waiting = Standing(BCustomers, pc, {"sit"})
  BY <1>1, <1>2 DEF Barbershops!waiting, Barbershops!CustomersAt, Standing, BCustomers,
     CustomersStand
<1> QED
  BY <1>1, <1>2, <1>3

LEMMA MutexViewsNext ==
  ASSUME program' = "barbershop_0", CustomersStand({"start", "sit", "cut", "leave"})'
  PROVE  /\ Barbershops!waiting' = Standing(BCustomers, pc', {"sit"})
         /\ Barbershops!in_chair' = Standing(BCustomers, pc', {"cut"})
         /\ Barbershops!shorn' = Standing(BCustomers, pc', {"leave"})
<1>1. Barbershops!in_chair' = Standing(BCustomers, pc', {"cut"})
  BY DEF Barbershops!in_chair, Barbershops!CustomersAt, Standing, BCustomers
<1>2. Barbershops!shorn' = Standing(BCustomers, pc', {"leave"})
  BY DEF Barbershops!shorn, Barbershops!CustomersAt, Standing, BCustomers, CustomersStand
<1>3. Barbershops!waiting' = Standing(BCustomers, pc', {"sit"})
  BY <1>1, <1>2 DEF Barbershops!waiting, Barbershops!CustomersAt, Standing, BCustomers,
     CustomersStand
<1> QED
  BY <1>1, <1>2, <1>3

LEMMA CustomerTyped ==
  ASSUME BarberTyped, NEW c \in BCustomers, NEW from, NEW to,
         Barbershops!Goto(c, from, to), to \in Inside \cup {"start", "stand"},
         sem' \in [BSems -> Nat],
         n_customers' = n_customers + Change(Inside, from, to),
         queue' \in Seq(BCustomers), called' \in Barbershops!ShopThreads,
         barber_chair_free' \in BOOLEAN
  PROVE  BarberTyped'
<1>1. pc' \in [Barbershops!ShopThreads -> Inside \cup {"start", "stand", "pop", "call", "wait"}]
  <2>1. Moves(c, to, pc, pc') /\ pc[c] = from
    BY CustomerGoes
  <2> QED
    BY <2>1 DEF BarberTyped, Moves
<1>2. n_customers' = Count(BCustomers, pc', Inside)
  BY CustomerGoes DEF BarberTyped
<1> QED
  BY <1>1, <1>2 DEF BarberTyped

LEMMA MutexKeeps ==
  ASSUME BarberInv, program = "barbershop_0", program' = program, BarberNext
  PROVE  BarberInv' /\ Visited
<1>0. BarberTyped /\ ChairByMutex /\ InBarbershop
  BY DEF BarberInv, InBarbershop
<1>v. /\ Barbershops!waiting = Standing(BCustomers, pc, {"sit"})
      /\ Barbershops!in_chair = Standing(BCustomers, pc, {"cut"})
      /\ Barbershops!shorn = Standing(BCustomers, pc, {"leave"})
  BY <1>0, MutexViews DEF ChairByMutex
<1>w. ASSUME ChairByMutex'
      PROVE  /\ Barbershops!waiting' = Standing(BCustomers, pc', {"sit"})
             /\ Barbershops!in_chair' = Standing(BCustomers, pc', {"cut"})
             /\ Barbershops!shorn' = Standing(BCustomers, pc', {"leave"})
  BY <1>w, MutexViewsNext DEF ChairByMutex
<1>i. BarberTyped' /\ ChairByMutex' => BarberInv'
  BY DEF BarberInv
<1> SUFFICES ASSUME NEW c \in BCustomers, Barbershops!customer0(c)
             PROVE  BarberTyped' /\ ChairByMutex' /\ Visited
  BY <1>i, BarbersApart DEF BarberNext, Barbershops!Step, Barber
<1>1. ASSUME NEW from, NEW to, Barbershops!Goto(c, from, to)
      PROVE  /\ pc[c] = from /\ Moves(c, to, pc, pc')
             /\ BC("cut") \in Nat /\ BC("cut")' \in Nat
             /\ BC("cut")' = BC("cut") + Change({"cut"}, from, to)
             /\ Count(BCustomers, pc, Inside) \in Nat
             /\ Count(BCustomers, pc', Inside)
                  = Count(BCustomers, pc, Inside) + Change(Inside, from, to)
             /\ \A L : Standing(BCustomers, pc', L) =
                  IF to \in L THEN Standing(BCustomers, pc, L) \cup {c}
                              ELSE Standing(BCustomers, pc, L) \ {c}
             /\ \A d \in BCustomers : pc'[d] = IF d = c THEN to ELSE pc[d]
  <2>1. BC("cut")' = Count(BCustomers, pc', {"cut"})
    BY DEF BC, Count, Standing, BCustomers, Barbershops!Customers
  <2>2. BCustomers \subseteq DOMAIN pc
    BY <1>0, BarbersApart DEF BarberTyped
  <2>3. pc[c] = from /\ Moves(c, to, pc, pc')
    BY <1>0, <1>1, CustomerGoes
  <2>4. \A L : Standing(BCustomers, pc', L) =
                  IF to \in L THEN Standing(BCustomers, pc, L) \cup {c}
                              ELSE Standing(BCustomers, pc, L) \ {c}
    BY <2>2, <2>3, StandingAfterMove
  <2>5. \A d \in BCustomers : pc'[d] = IF d = c THEN to ELSE pc[d]
    BY <2>2, <2>3 DEF Moves
  <2> QED
    BY <1>0, <1>1, <2>1, <2>3, <2>4, <2>5, CustomerGoes DEF BC
<1>2. CASE Barbershops!Arrive(c, "sit")
  <2> USE <1>2 DEF Barbershops!Arrive, Barbershops!Move
  <2>1. Barbershops!Goto(c, "start", "sit") /\ UNCHANGED <<sem, called, barber_chair_free, queue>>
        /\ n_customers' = n_customers + 1 /\ n_customers < N_CHAIRS
    BY DEF Barbershops!HasChair
  <2>2. BarberTyped' /\ ChairByMutex'
    <3>1. BarberTyped'
      BY <1>0, <2>1, CustomerTyped, BarbersApart DEF BarberTyped, Change, Inside
    <3>2. BC("cut")' = BC("cut")
      BY <1>1, <2>1 DEF Change
    <3>3. CustomersStand({"start", "sit", "cut", "leave"})'
      BY <1>0, <1>1, <2>1 DEF ChairByMutex, CustomersStand
    <3>4. ChairByMutex'
      BY <1>0, <2>1, <3>2, <3>3 DEF ChairByMutex
    <3> QED
      BY <3>1, <3>4
  <2>3. c \notin Standing(BCustomers, pc, {"sit", "cut", "leave"})
    BY <1>1, <2>1 DEF Standing
  <2> QED
    <3>1. /\ Standing(BCustomers, pc', {"sit"}) = Standing(BCustomers, pc, {"sit"}) \cup {c}
          /\ Standing(BCustomers, pc', {"cut"}) = Standing(BCustomers, pc, {"cut"})
          /\ Standing(BCustomers, pc', {"leave"}) = Standing(BCustomers, pc, {"leave"})
      BY <1>1, <2>1, <2>3 DEF Standing
    <3>2. Cardinality(Barbershops!waiting \cup Barbershops!in_chair
                        \cup Barbershops!shorn) < N_CHAIRS
      BY <1>0, <2>1, InsideCounted
    <3>3. Enters(c, Barbershops!waiting, Barbershops!in_chair, Barbershops!shorn,
                 Barbershops!waiting', Barbershops!in_chair', Barbershops!shorn')
      BY <1>v, <1>w, <2>2, <2>3, <3>1, <3>2 DEF Enters, Standing
    <3> QED
      BY <2>2, <3>3 DEF Visited, Visits
<1>3. CASE Barbershops!WalkOut(c)
  <2>1. Barbershops!Goto(c, "start", "start") /\ UNCHANGED sem /\ UNCHANGED Barbershops!shopVars
    BY <1>3 DEF Barbershops!WalkOut, Barbershops!Move
  <2>2. pc' = pc
    BY <1>0, <2>1 DEF BarberTyped, Barbershops!Goto, Barbershops!At
  <2>3. BarberTyped' /\ ChairByMutex'
    BY <1>0, <2>1, <2>2 DEF BarberTyped, ChairByMutex, CustomersStand, BC,
       Barbershops!shopVars
  <2> QED
    BY <1>v, <1>w, <2>2, <2>3 DEF Visited, Visits
<1>4. CASE barber_chair_free /\ Barbershops!acquire(c, Chair, "sit", "cut") /\ Barbershops!SetChair(FALSE)
  <2>1. /\ Barbershops!Goto(c, "sit", "cut") /\ sem[Chair] > 0
        /\ sem' = [sem EXCEPT ![Chair] = @ - 1]
        /\ UNCHANGED <<called, n_customers, queue>> /\ barber_chair_free' = FALSE
    BY <1>4 DEF Barbershops!acquire, Barbershops!SetChair
  <2>s. /\ sem' \in [BSems -> Nat] /\ sem[Chair] \in Nat
        /\ sem'[Chair] = sem[Chair] - 1
        /\ \A s \in Barbershops!binary \ {Chair} : sem'[s] = sem[s]
    BY <1>0, <2>1, BarbersApart DEF BarberTyped, BSems, Barbershops!binary, BCustomers
  <2>2. BarberTyped'
    <3>1. n_customers \in Nat /\ "sit" \in Inside /\ "cut" \in Inside
      BY <1>0, BarberCounted DEF BarberTyped, Inside
    <3>2. n_customers' = n_customers + Change(Inside, "sit", "cut")
      BY <2>1, <3>1 DEF Change
    <3> QED
      BY <1>0, <2>1, <2>s, <3>1, <3>2, CustomerTyped, BarbersApart DEF BarberTyped
  <2>3. BC("cut")' = BC("cut") + 1 /\ BC("cut") = 0 /\ sem[Chair] = 1
    BY <1>0, <1>1, <2>1, <2>s DEF Change, ChairByMutex
  <2>4. ChairByMutex'
    <3>1. CustomersStand({"start", "sit", "cut", "leave"})'
      BY <1>0, <1>1, <2>1 DEF ChairByMutex, CustomersStand
    <3> QED
      BY <1>0, <2>1, <2>s, <2>3, <3>1 DEF ChairByMutex
  <2>5. Standing(BCustomers, pc, {"cut"}) = {}
    <3>1. \A d \in BCustomers : pc[d] \notin {"cut"}
      BY <2>3, CountZero, BarbersApart DEF BC
    <3> QED
      BY <3>1 DEF Standing
  <2>6. /\ Standing(BCustomers, pc', {"sit"}) = Standing(BCustomers, pc, {"sit"}) \ {c}
        /\ Standing(BCustomers, pc', {"cut"}) = {c}
        /\ Standing(BCustomers, pc', {"leave"}) = Standing(BCustomers, pc, {"leave"})
    BY <1>1, <2>1, <2>5 DEF Standing
  <2>7. BeginsCut(c, Barbershops!waiting, Barbershops!in_chair, Barbershops!shorn,
                  Barbershops!waiting', Barbershops!in_chair', Barbershops!shorn')
    BY <1>1, <1>v, <1>w, <2>1, <2>4, <2>5, <2>6 DEF BeginsCut, Standing
  <2> QED
    BY <2>2, <2>4, <2>7 DEF Visited, Visits
<1>5. CASE Barbershops!release(c, Chair, 1, "cut", "leave") /\ Barbershops!SetChair(TRUE)
  <2>1. /\ Barbershops!Goto(c, "cut", "leave")
        /\ sem' = [sem EXCEPT ![Chair] = @ + 1]
        /\ UNCHANGED <<called, n_customers, queue>> /\ barber_chair_free' = TRUE
    BY <1>5 DEF Barbershops!release, Barbershops!SetChair
  <2>s. /\ sem' \in [BSems -> Nat] /\ sem[Chair] \in Nat
        /\ sem'[Chair] = sem[Chair] + 1
        /\ \A s \in Barbershops!binary \ {Chair} : sem'[s] = sem[s]
    BY <1>0, <2>1, BarbersApart DEF BarberTyped, BSems, Barbershops!binary, BCustomers
  <2>2. BarberTyped'
    <3>1. n_customers \in Nat /\ "cut" \in Inside /\ "leave" \in Inside
      BY <1>0, BarberCounted DEF BarberTyped, Inside
    <3>2. n_customers' = n_customers + Change(Inside, "cut", "leave")
      BY <2>1, <3>1 DEF Change
    <3> QED
      BY <1>0, <2>1, <2>s, <3>1, <3>2, CustomerTyped, BarbersApart DEF BarberTyped
  <2>3. BC("cut")' = BC("cut") - 1 /\ BC("cut")' = 0 /\ sem[Chair] = 0
    BY <1>0, <1>1, <2>1, <2>s DEF Change, ChairByMutex
  <2>4. ChairByMutex'
    <3>1. CustomersStand({"start", "sit", "cut", "leave"})'
      BY <1>0, <1>1, <2>1 DEF ChairByMutex, CustomersStand
    <3> QED
      BY <1>0, <2>1, <2>s, <2>3, <3>1 DEF ChairByMutex
  <2>5. Standing(BCustomers, pc', {"cut"}) = {}
    <3>1. Count(BCustomers, pc', {"cut"}) = 0
      BY <2>3 DEF BC, Count, Standing, BCustomers, Barbershops!Customers
    <3>2. \A d \in BCustomers : pc'[d] \notin {"cut"}
      BY <3>1, CountZero, BarbersApart
    <3> QED
      BY <3>2 DEF Standing
  <2>6. /\ Standing(BCustomers, pc', {"sit"}) = Standing(BCustomers, pc, {"sit"})
        /\ Standing(BCustomers, pc, {"cut"}) = {c}
        /\ Standing(BCustomers, pc', {"leave"}) = Standing(BCustomers, pc, {"leave"}) \cup {c}
    BY <1>1, <2>1, <2>5 DEF Standing
  <2>7. EndsCut(c, Barbershops!waiting, Barbershops!in_chair, Barbershops!shorn,
                Barbershops!waiting', Barbershops!in_chair', Barbershops!shorn')
    BY <1>1, <1>v, <1>w, <2>1, <2>4, <2>5, <2>6 DEF EndsCut
  <2> QED
    BY <2>2, <2>4, <2>7 DEF Visited, Visits
<1>6. CASE Barbershops!LeaveShop(c, "start")
  <2>1. /\ Barbershops!Goto(c, "leave", "start") /\ n_customers' = n_customers - 1
        /\ UNCHANGED <<sem, barber_chair_free, queue, called>>
    BY <1>6 DEF Barbershops!LeaveShop, Barbershops!Move
  <2>2. BarberTyped'
    <3>1. n_customers \in Nat
      BY <1>0, BarberCounted DEF BarberTyped
    <3>2. n_customers' = n_customers + Change(Inside, "leave", "start")
      BY <2>1, <3>1 DEF Change, Inside
    <3> QED
      BY <1>0, <2>1, <3>2, CustomerTyped, BarbersApart DEF BarberTyped
  <2>3. BC("cut")' = BC("cut")
    BY <1>1, <2>1 DEF Change
  <2>4. ChairByMutex'
    <3>1. CustomersStand({"start", "sit", "cut", "leave"})'
      BY <1>0, <1>1, <2>1 DEF ChairByMutex, CustomersStand
    <3> QED
      BY <1>0, <2>1, <2>3, <3>1 DEF ChairByMutex
  <2>5. /\ Standing(BCustomers, pc', {"sit"}) = Standing(BCustomers, pc, {"sit"})
        /\ Standing(BCustomers, pc', {"cut"}) = Standing(BCustomers, pc, {"cut"})
        /\ Standing(BCustomers, pc', {"leave"}) = Standing(BCustomers, pc, {"leave"}) \ {c}
    BY <1>1, <2>1 DEF Standing
  <2>6. Leaves(c, Barbershops!waiting, Barbershops!in_chair, Barbershops!shorn,
               Barbershops!waiting', Barbershops!in_chair', Barbershops!shorn')
    BY <1>1, <1>v, <1>w, <2>1, <2>4, <2>5 DEF Leaves, Standing
  <2> QED
    BY <2>2, <2>4, <2>6 DEF Visited, Visits
<1> QED
  BY <1>2, <1>3, <1>4, <1>5, <1>6 DEF Barbershops!customer0, Chair

SemaphoreViews(w, i, s, f, m) ==
  /\ i = IF f[Barber] = "cut" THEN Standing(BCustomers, f, {"done"}) ELSE {}
  /\ s = Standing(BCustomers, f, {"leave"}) \cup
           (IF m[Barbershops!done_haircut] > 0 THEN Standing(BCustomers, f, {"done"}) ELSE {})
  /\ w = Standing(BCustomers, f, {"sit", "request", "done"}) \ (i \cup s)

LEMMA SemaphoreViewsHold ==
  ASSUME program = "barbershop_1",
         CustomersStand({"start", "sit", "request", "done", "leave", "stand"})
  PROVE  SemaphoreViews(Barbershops!waiting, Barbershops!in_chair, Barbershops!shorn,
                        pc, sem)
<1>1. Barbershops!in_chair = IF pc[Barber] = "cut" THEN Standing(BCustomers, pc, {"done"}) ELSE {}
  BY DEF Barbershops!in_chair, Barbershops!CustomersAt, Standing, BCustomers, Barber
<1>2. Barbershops!shorn =
        Standing(BCustomers, pc, {"leave"}) \cup
          (IF sem[Barbershops!done_haircut] > 0 THEN Standing(BCustomers, pc, {"done"}) ELSE {})
  BY DEF Barbershops!shorn, Barbershops!CustomersAt, Standing, BCustomers, CustomersStand
<1>3. Barbershops!waiting = Standing(BCustomers, pc, {"sit", "request", "done"})
                              \ (Barbershops!in_chair \cup Barbershops!shorn)
  BY DEF Barbershops!waiting, Barbershops!CustomersAt, Standing, BCustomers, CustomersStand
<1> QED
  BY <1>1, <1>2, <1>3 DEF SemaphoreViews

LEMMA SemaphoreViewsHoldNext ==
  ASSUME program' = "barbershop_1",
         CustomersStand({"start", "sit", "request", "done", "leave", "stand"})'
  PROVE  SemaphoreViews(Barbershops!waiting', Barbershops!in_chair', Barbershops!shorn',
                        pc', sem')
<1>1. Barbershops!in_chair' = IF pc'[Barber] = "cut" THEN Standing(BCustomers, pc', {"done"}) ELSE {}
  BY DEF Barbershops!in_chair, Barbershops!CustomersAt, Standing, BCustomers, Barber
<1>2. Barbershops!shorn' =
        Standing(BCustomers, pc', {"leave"}) \cup
          (IF sem'[Barbershops!done_haircut] > 0 THEN Standing(BCustomers, pc', {"done"}) ELSE {})
  BY DEF Barbershops!shorn, Barbershops!CustomersAt, Standing, BCustomers, CustomersStand
<1>3. Barbershops!waiting' = Standing(BCustomers, pc', {"sit", "request", "done"})
                              \ (Barbershops!in_chair' \cup Barbershops!shorn')
  BY DEF Barbershops!waiting, Barbershops!CustomersAt, Standing, BCustomers, CustomersStand
<1> QED
  BY <1>1, <1>2, <1>3 DEF SemaphoreViews

(* What a customer's step of the second program does to the counts and to  *)
(* those who stand at a location.                                          *)
LEMMA SemaphoreCustomerGoes ==
  ASSUME BarberTyped, ChairBySemaphore, NEW c \in BCustomers, NEW from, NEW to,
         Barbershops!Goto(c, from, to),
         to \in {"start", "sit", "request", "done", "leave", "stand"}
  PROVE  /\ pc[c] = from /\ pc'[Barber] = pc[Barber]
         /\ BC("request") \in Nat /\ BC("done") \in Nat /\ BC("leave") \in Nat
         /\ BC("stand") \in Nat /\ n_customers \in Nat
         /\ BC("request")' = BC("request") + Change({"request"}, from, to)
         /\ BC("done")' = BC("done") + Change({"done"}, from, to)
         /\ BC("leave")' = BC("leave") + Change({"leave"}, from, to)
         /\ BC("stand")' = BC("stand") + Change({"stand"}, from, to)
         /\ \A L : Standing(BCustomers, pc', L) =
              IF to \in L THEN Standing(BCustomers, pc, L) \cup {c}
                          ELSE Standing(BCustomers, pc, L) \ {c}
         /\ CustomersStand({"start", "sit", "request", "done", "leave", "stand"})'
         /\ \A l : BC(l) = 0 <=> Standing(BCustomers, pc, {l}) = {}
         /\ \A l : BC(l) = 1 /\ pc[c] = l => Standing(BCustomers, pc, {l}) = {c}
<1>1. /\ BC("request")' = Count(BCustomers, pc', {"request"})
      /\ BC("done")' = Count(BCustomers, pc', {"done"})
      /\ BC("leave")' = Count(BCustomers, pc', {"leave"})
      /\ BC("stand")' = Count(BCustomers, pc', {"stand"})
  BY DEF BC, Count, Standing, BCustomers, Barbershops!Customers
<1>2. BCustomers \subseteq DOMAIN pc /\ c # Barber /\ IsFiniteSet(BCustomers)
  BY BarbersApart DEF BarberTyped
<1>3. pc[c] = from /\ Moves(c, to, pc, pc')
  BY CustomerGoes
<1>4. \A L : Standing(BCustomers, pc', L) =
              IF to \in L THEN Standing(BCustomers, pc, L) \cup {c}
                          ELSE Standing(BCustomers, pc, L) \ {c}
  BY <1>2, <1>3, StandingAfterMove
<1>5. CustomersStand({"start", "sit", "request", "done", "leave", "stand"})'
  BY <1>2, <1>3 DEF CustomersStand, ChairBySemaphore, Moves
<1>6. pc'[Barber] = pc[Barber]
  BY <1>2, <1>3, BarbersApart DEF Moves, BarberTyped
<1>7. n_customers \in Nat
  BY BarberCounted DEF BarberTyped
<1>8. ASSUME NEW l PROVE BC(l) = 0 <=> Standing(BCustomers, pc, {l}) = {}
  BY <1>2, CountZero DEF BC, Standing
<1>9. ASSUME NEW l, BC(l) = 1, pc[c] = l PROVE Standing(BCustomers, pc, {l}) = {c}
  <2>1. \E x : Standing(BCustomers, pc, {l}) = {x}
    <3>1. IsFiniteSet(Standing(BCustomers, pc, {l}))
      BY <1>2, FS_Subset DEF Standing
    <3> QED
      BY <1>9, <3>1, FS_Singleton DEF BC, Count
  <2>2. c \in Standing(BCustomers, pc, {l})
    BY <1>9 DEF Standing
  <2> QED
    BY <2>1, <2>2
<1>10. /\ BC("request") \in Nat /\ BC("done") \in Nat /\ BC("leave") \in Nat
       /\ BC("stand") \in Nat
  BY BarberCounted DEF BC
<1>11. /\ BC("request")' = BC("request") + Change({"request"}, from, to)
       /\ BC("done")' = BC("done") + Change({"done"}, from, to)
       /\ BC("leave")' = BC("leave") + Change({"leave"}, from, to)
       /\ BC("stand")' = BC("stand") + Change({"stand"}, from, to)
  BY <1>1, CustomerGoes DEF BC
<1> QED
  BY <1>3, <1>4, <1>5, <1>6, <1>7, <1>8, <1>9, <1>10, <1>11

SemaphoreOthers ==
  Barbershops!binary \ {Chair, Barbershops!haircut_request, Barbershops!done_haircut}

LEMMA OneOfFive ==
  ASSUME NEW a \in Nat, NEW b \in Nat, NEW c \in Nat, NEW d \in Nat, NEW e \in Nat,
         a + b + c + d + e = 1
  PROVE  c \in {0, 1} /\ (b # 0 \/ d # 0 => c = 0)
  OBVIOUS

LEMMA SemaphoreCustomerKeeps ==
  ASSUME BarberInv, program = "barbershop_1", program' = program,
         NEW c \in BCustomers, Barbershops!customer1(c)
  PROVE  BarberTyped' /\ ChairBySemaphore' /\ Visited
<1> DEFINE R == sem[Barbershops!haircut_request]
           A == sem[Barbershops!done_haircut]
<1>0. BarberTyped /\ ChairBySemaphore /\ InBarbershop
  BY DEF BarberInv, InBarbershop
<1>v. SemaphoreViews(Barbershops!waiting, Barbershops!in_chair, Barbershops!shorn, pc, sem)
  BY <1>0, SemaphoreViewsHold DEF ChairBySemaphore
<1>w. ASSUME CustomersStand({"start", "sit", "request", "done", "leave", "stand"})'
      PROVE  SemaphoreViews(Barbershops!waiting', Barbershops!in_chair', Barbershops!shorn',
                            pc', sem')
  BY <1>w, SemaphoreViewsHoldNext
<1>s. /\ sem[Chair] \in Nat /\ R \in Nat /\ A \in Nat
      /\ BarberIs("cut") \in {0, 1} /\ pc[Barber] \in {"start", "cut"}
      /\ sem[Chair] + BC("request") + BC("done") + BC("leave") + BC("stand") = 1
      /\ R + BarberIs("cut") + A = BC("done")
      /\ \A s \in SemaphoreOthers : sem[s] = 0
      /\ barber_chair_free = TRUE
  BY <1>0 DEF BarberTyped, BSems, ChairBySemaphore, BarberIs, SemaphoreOthers
<1>q. ASSUME BarberTyped',
             CustomersStand({"start", "sit", "request", "done", "leave", "stand"})',
             pc'[Barber] = pc[Barber], barber_chair_free' = barber_chair_free,
             \A s \in SemaphoreOthers : sem'[s] = sem[s],
             sem'[Chair] + BC("request")' + BC("done")' + BC("leave")' + BC("stand")' = 1,
             R' + BarberIs("cut") + A' = BC("done")'
      PROVE  ChairBySemaphore'
  BY <1>q, <1>s DEF ChairBySemaphore, SemaphoreOthers, BarberIs, Barbershops!binary
<1> HIDE DEF R, A
<1>2. CASE Barbershops!Arrive(c, "sit")
  <2>1. /\ Barbershops!Goto(c, "start", "sit")
        /\ UNCHANGED <<sem, called, barber_chair_free, queue>>
        /\ n_customers' = n_customers + 1 /\ n_customers < N_CHAIRS
    BY <1>2, <1>0 DEF Barbershops!HasChair, Barbershops!Arrive, Barbershops!Move
  <2>2. BarberTyped'
    BY <1>0, <2>1, CustomerTyped, BarbersApart DEF BarberTyped, Change, Inside
  <2>3. /\ BC("request")' = BC("request") /\ BC("done")' = BC("done")
        /\ BC("leave")' = BC("leave") /\ BC("stand")' = BC("stand")
    BY <1>0, <2>1, SemaphoreCustomerGoes DEF Change
  <2>4. ChairBySemaphore'
    BY <1>0, <1>q, <1>s, <2>1, <2>2, <2>3, SemaphoreCustomerGoes DEF R, A
  <2>5. c \notin Standing(BCustomers, pc, Inside)
    BY <1>0, <2>1, SemaphoreCustomerGoes DEF Standing, Inside
  <2>6. /\ Standing(BCustomers, pc', {"sit", "request", "done"})
              = Standing(BCustomers, pc, {"sit", "request", "done"}) \cup {c}
        /\ Standing(BCustomers, pc', {"done"}) = Standing(BCustomers, pc, {"done"})
        /\ Standing(BCustomers, pc', {"leave"}) = Standing(BCustomers, pc, {"leave"})
        /\ pc'[Barber] = pc[Barber]
    <3>1. /\ pc'[Barber] = pc[Barber]
          /\ \A L : Standing(BCustomers, pc', L) =
               IF "sit" \in L THEN Standing(BCustomers, pc, L) \cup {c}
                             ELSE Standing(BCustomers, pc, L) \ {c}
      BY <1>0, <2>1, SemaphoreCustomerGoes
    <3>2. /\ c \notin Standing(BCustomers, pc, {"done"})
          /\ c \notin Standing(BCustomers, pc, {"leave"})
      BY <2>5 DEF Standing, Inside
    <3>3. /\ Standing(BCustomers, pc', {"sit", "request", "done"})
                = Standing(BCustomers, pc, {"sit", "request", "done"}) \cup {c}
          /\ Standing(BCustomers, pc', {"done"}) = Standing(BCustomers, pc, {"done"}) \ {c}
          /\ Standing(BCustomers, pc', {"leave"}) = Standing(BCustomers, pc, {"leave"}) \ {c}
      BY <3>1
    <3> QED
      BY <3>1, <3>2, <3>3
  <2>7. SemaphoreViews(Barbershops!waiting', Barbershops!in_chair', Barbershops!shorn',
                       pc', sem')
    BY <1>w, <2>4 DEF ChairBySemaphore
  <2>8. /\ Barbershops!in_chair' = Barbershops!in_chair
        /\ Barbershops!shorn' = Barbershops!shorn
    BY <1>v, <2>1, <2>6, <2>7 DEF SemaphoreViews
  <2>9. c \notin Barbershops!waiting \cup Barbershops!in_chair \cup Barbershops!shorn
    BY <1>0, <2>5, InsideCounted
  <2>10. Barbershops!waiting' = Barbershops!waiting \cup {c}
    BY <1>v, <2>6, <2>7, <2>8, <2>9 DEF SemaphoreViews
  <2>11. Enters(c, Barbershops!waiting, Barbershops!in_chair, Barbershops!shorn,
                 Barbershops!waiting', Barbershops!in_chair', Barbershops!shorn')
    BY <1>0, <2>1, <2>8, <2>9, <2>10, InsideCounted DEF Enters
  <2> QED
    BY <2>2, <2>4, <2>11 DEF Visited, Visits
<1>3. CASE Barbershops!WalkOut(c)
  <2>1. Barbershops!Goto(c, "start", "start") /\ UNCHANGED sem /\ UNCHANGED Barbershops!shopVars
    BY <1>3 DEF Barbershops!WalkOut, Barbershops!Move
  <2>2. pc' = pc
    BY <1>0, <2>1 DEF BarberTyped, Barbershops!Goto, Barbershops!At
  <2>3. BarberTyped' /\ ChairBySemaphore'
    BY <1>0, <2>1, <2>2 DEF BarberTyped, ChairBySemaphore, CustomersStand, BC, BarberIs,
       Barbershops!shopVars
  <2>4. SemaphoreViews(Barbershops!waiting', Barbershops!in_chair', Barbershops!shorn',
                       pc', sem')
    BY <1>w, <2>3 DEF ChairBySemaphore
  <2> QED
    BY <1>v, <2>1, <2>2, <2>3, <2>4 DEF Visited, Visits, SemaphoreViews
<1>4. CASE Barbershops!acquire(c, Chair, "sit", "request") /\ UNCHANGED Barbershops!shopVars
  <2>1. /\ Barbershops!Goto(c, "sit", "request") /\ sem[Chair] > 0
        /\ sem' = [sem EXCEPT ![Chair] = @ - 1]
        /\ UNCHANGED <<called, n_customers, queue, barber_chair_free>>
    BY <1>4 DEF Barbershops!acquire, Barbershops!shopVars
  <2>s. /\ sem' \in [BSems -> Nat] /\ sem'[Chair] = sem[Chair] - 1
        /\ R' = R /\ A' = A
        /\ \A s \in SemaphoreOthers : sem'[s] = sem[s]
    BY <1>0, <1>s, <2>1, BarbersApart DEF BarberTyped, BSems, Barbershops!binary, BCustomers,
       SemaphoreOthers, R, A
  <2>2. BarberTyped'
    <3>1. n_customers' = n_customers + Change(Inside, "sit", "request")
      BY <1>0, <2>1, SemaphoreCustomerGoes DEF Change, Inside
    <3> QED
      BY <1>0, <2>1, <2>s, <3>1, CustomerTyped, BarbersApart DEF BarberTyped, Inside
  <2>3. /\ BC("request")' = BC("request") + 1 /\ BC("done")' = BC("done")
        /\ BC("leave")' = BC("leave") /\ BC("stand")' = BC("stand")
        /\ BC("request") \in Nat /\ BC("done") \in Nat /\ BC("leave") \in Nat
        /\ BC("stand") \in Nat
    BY <1>0, <2>1, SemaphoreCustomerGoes DEF Change
  <2>4. ChairBySemaphore'
    BY <1>0, <1>q, <1>s, <2>1, <2>2, <2>3, <2>s, SemaphoreCustomerGoes
  <2>6. /\ Standing(BCustomers, pc', {"sit", "request", "done"})
              = Standing(BCustomers, pc, {"sit", "request", "done"})
        /\ Standing(BCustomers, pc', {"done"}) = Standing(BCustomers, pc, {"done"})
        /\ Standing(BCustomers, pc', {"leave"}) = Standing(BCustomers, pc, {"leave"})
        /\ pc'[Barber] = pc[Barber]
    <3>1. /\ pc'[Barber] = pc[Barber] /\ pc[c] = "sit"
          /\ \A L : Standing(BCustomers, pc', L) =
               IF "request" \in L THEN Standing(BCustomers, pc, L) \cup {c}
                                 ELSE Standing(BCustomers, pc, L) \ {c}
      BY <1>0, <2>1, SemaphoreCustomerGoes
    <3>2. /\ c \notin Standing(BCustomers, pc, {"done"})
          /\ c \notin Standing(BCustomers, pc, {"leave"})
          /\ c \in Standing(BCustomers, pc, {"sit", "request", "done"})
      BY <3>1 DEF Standing
    <3> QED
      BY <3>1, <3>2
  <2>7. SemaphoreViews(Barbershops!waiting', Barbershops!in_chair', Barbershops!shorn',
                       pc', sem')
    BY <1>w, <2>4 DEF ChairBySemaphore
  <2> QED
    BY <1>v, <2>2, <2>4, <2>6, <2>7, <2>s DEF Visited, Visits, SemaphoreViews, A
<1>5. CASE /\ Barbershops!release(c, Barbershops!haircut_request, 1, "request", "done")
           /\ UNCHANGED Barbershops!shopVars
  <2>1. /\ Barbershops!Goto(c, "request", "done")
        /\ sem' = [sem EXCEPT ![Barbershops!haircut_request] = @ + 1]
        /\ UNCHANGED <<called, n_customers, queue, barber_chair_free>>
    BY <1>5 DEF Barbershops!release, Barbershops!shopVars
  <2>s. /\ sem' \in [BSems -> Nat] /\ sem'[Chair] = sem[Chair]
        /\ R' = R + 1 /\ A' = A
        /\ \A s \in SemaphoreOthers : sem'[s] = sem[s]
    BY <1>0, <1>s, <2>1, BarbersApart DEF BarberTyped, BSems, Barbershops!binary, BCustomers,
       SemaphoreOthers, R, A
  <2>2. BarberTyped'
    <3>1. n_customers' = n_customers + Change(Inside, "request", "done")
      BY <1>0, <2>1, SemaphoreCustomerGoes DEF Change, Inside
    <3> QED
      BY <1>0, <2>1, <2>s, <3>1, CustomerTyped, BarbersApart DEF BarberTyped, Inside
  <2>3. /\ BC("request")' = BC("request") - 1 /\ BC("done")' = BC("done") + 1
        /\ BC("leave")' = BC("leave") /\ BC("stand")' = BC("stand")
        /\ BC("request") \in Nat /\ BC("done") \in Nat /\ BC("leave") \in Nat
        /\ BC("stand") \in Nat
    BY <1>0, <2>1, SemaphoreCustomerGoes DEF Change
  <2>4. ChairBySemaphore'
    BY <1>0, <1>q, <1>s, <2>1, <2>2, <2>3, <2>s, SemaphoreCustomerGoes
  <2>5. BC("request") # 0
    BY <1>0, <2>1, SemaphoreCustomerGoes DEF Standing
  <2>6. BC("done") = 0 /\ A = 0 /\ BarberIs("cut") = 0
    <3>0. /\ sem[Chair] \in Nat
          /\ sem[Chair] + BC("request") + BC("done") + BC("leave") + BC("stand") = 1
          /\ BC("request") \in Nat /\ BC("done") \in Nat /\ BC("leave") \in Nat
          /\ BC("stand") \in Nat
      BY <1>s, <2>3
    <3>1. BC("done") = 0
      BY <2>5, <3>0, OneOfFive
    <3>2. R + BarberIs("cut") + A = 0
      BY <1>s, <3>1
    <3> QED
      BY <1>s, <3>1, <3>2
  <2>7. /\ Standing(BCustomers, pc', {"sit", "request", "done"})
              = Standing(BCustomers, pc, {"sit", "request", "done"})
        /\ Standing(BCustomers, pc', {"leave"}) = Standing(BCustomers, pc, {"leave"})
        /\ pc'[Barber] = pc[Barber] /\ pc[Barber] # "cut"
    <3>1. /\ pc'[Barber] = pc[Barber] /\ pc[c] = "request"
          /\ \A L : Standing(BCustomers, pc', L) =
               IF "done" \in L THEN Standing(BCustomers, pc, L) \cup {c}
                              ELSE Standing(BCustomers, pc, L) \ {c}
      BY <1>0, <2>1, SemaphoreCustomerGoes
    <3>2. /\ c \notin Standing(BCustomers, pc, {"leave"})
          /\ c \in Standing(BCustomers, pc, {"sit", "request", "done"})
      BY <3>1 DEF Standing
    <3> QED
      BY <2>6, <3>1, <3>2 DEF BarberIs
  <2>8. SemaphoreViews(Barbershops!waiting', Barbershops!in_chair', Barbershops!shorn',
                       pc', sem')
    BY <1>w, <2>4 DEF ChairBySemaphore
  <2> QED
    BY <1>v, <2>2, <2>4, <2>6, <2>7, <2>8, <2>s DEF Visited, Visits, SemaphoreViews, A
<1>6. CASE /\ Barbershops!acquire(c, Barbershops!done_haircut, "done", "leave")
           /\ UNCHANGED Barbershops!shopVars
  <2>1. /\ Barbershops!Goto(c, "done", "leave") /\ sem[Barbershops!done_haircut] > 0
        /\ sem' = [sem EXCEPT ![Barbershops!done_haircut] = @ - 1]
        /\ UNCHANGED <<called, n_customers, queue, barber_chair_free>>
    BY <1>6 DEF Barbershops!acquire, Barbershops!shopVars
  <2>s. /\ sem' \in [BSems -> Nat] /\ sem'[Chair] = sem[Chair]
        /\ R' = R /\ A' = A - 1 /\ A > 0
        /\ \A s \in SemaphoreOthers : sem'[s] = sem[s]
    BY <1>0, <1>s, <2>1, BarbersApart DEF BarberTyped, BSems, Barbershops!binary, BCustomers,
       SemaphoreOthers, R, A
  <2>2. BarberTyped'
    <3>1. n_customers' = n_customers + Change(Inside, "done", "leave")
      BY <1>0, <2>1, SemaphoreCustomerGoes DEF Change, Inside
    <3> QED
      BY <1>0, <2>1, <2>s, <3>1, CustomerTyped, BarbersApart DEF BarberTyped, Inside
  <2>3. /\ BC("request")' = BC("request") /\ BC("done")' = BC("done") - 1
        /\ BC("leave")' = BC("leave") + 1 /\ BC("stand")' = BC("stand")
        /\ BC("request") \in Nat /\ BC("done") \in Nat /\ BC("leave") \in Nat
        /\ BC("stand") \in Nat
    BY <1>0, <2>1, SemaphoreCustomerGoes DEF Change
  <2>4. ChairBySemaphore'
    BY <1>0, <1>q, <1>s, <2>1, <2>2, <2>3, <2>s, SemaphoreCustomerGoes
  <2>5. BC("done") = 1 /\ A = 1 /\ BarberIs("cut") = 0
    <3>1. BC("done") \in {0, 1}
      BY <1>s, <2>3, OneOfFive
    <3>2. R + BarberIs("cut") + A = 1
      BY <1>s, <2>s, <3>1
    <3> QED
      BY <1>s, <2>s, <3>1, <3>2
  <2>6. Standing(BCustomers, pc, {"done"}) = {c}
    BY <1>0, <2>1, <2>5, SemaphoreCustomerGoes
  <2>7. /\ Standing(BCustomers, pc', {"sit", "request", "done"})
              = Standing(BCustomers, pc, {"sit", "request", "done"}) \ {c}
        /\ Standing(BCustomers, pc', {"leave"}) = Standing(BCustomers, pc, {"leave"}) \cup {c}
        /\ pc'[Barber] = pc[Barber] /\ pc[Barber] # "cut"
    BY <1>0, <2>1, <2>5, SemaphoreCustomerGoes DEF BarberIs
  <2>8. SemaphoreViews(Barbershops!waiting', Barbershops!in_chair', Barbershops!shorn',
                       pc', sem')
    BY <1>w, <2>4 DEF ChairBySemaphore
  <2> QED
    BY <1>v, <2>2, <2>4, <2>5, <2>6, <2>7, <2>8, <2>s DEF Visited, Visits, SemaphoreViews, A
<1>7. CASE Barbershops!LeaveShop(c, "stand")
  <2>1. /\ Barbershops!Goto(c, "leave", "stand") /\ n_customers' = n_customers - 1
        /\ UNCHANGED <<sem, barber_chair_free, queue, called>>
    BY <1>7 DEF Barbershops!LeaveShop, Barbershops!Move
  <2>2. BarberTyped'
    <3>1. n_customers' = n_customers + Change(Inside, "leave", "stand")
      BY <1>0, <2>1, SemaphoreCustomerGoes DEF Change, Inside
    <3> QED
      BY <1>0, <2>1, <3>1, CustomerTyped, BarbersApart DEF BarberTyped
  <2>3. /\ BC("request")' = BC("request") /\ BC("done")' = BC("done")
        /\ BC("leave")' = BC("leave") - 1 /\ BC("stand")' = BC("stand") + 1
        /\ BC("request") \in Nat /\ BC("done") \in Nat /\ BC("leave") \in Nat
        /\ BC("stand") \in Nat
    BY <1>0, <2>1, SemaphoreCustomerGoes DEF Change
  <2>4. ChairBySemaphore'
    BY <1>0, <1>q, <1>s, <2>1, <2>2, <2>3, SemaphoreCustomerGoes DEF R, A
  <2>5. BC("leave") # 0
    BY <1>0, <2>1, SemaphoreCustomerGoes DEF Standing
  <2>6. BC("done") = 0
    <3>0. /\ sem[Chair] \in Nat
          /\ sem[Chair] + BC("request") + BC("done") + BC("leave") + BC("stand") = 1
          /\ BC("request") \in Nat /\ BC("done") \in Nat /\ BC("leave") \in Nat
          /\ BC("stand") \in Nat
      BY <1>s, <2>3
    <3>1. BC("done") = 0
      BY <2>5, <3>0, OneOfFive
    <3>2. R + BarberIs("cut") + A = 0
      BY <1>s, <3>1
    <3> QED
      BY <1>s, <3>1, <3>2
  <2>7. /\ Standing(BCustomers, pc, {"done"}) = {}
        /\ Standing(BCustomers, pc', {"done"}) = {}
        /\ Standing(BCustomers, pc', {"sit", "request", "done"})
              = Standing(BCustomers, pc, {"sit", "request", "done"})
        /\ Standing(BCustomers, pc', {"leave"}) = Standing(BCustomers, pc, {"leave"}) \ {c}
        /\ c \in Standing(BCustomers, pc, {"leave"})
        /\ c \notin Standing(BCustomers, pc, {"sit", "request", "done"})
        /\ pc'[Barber] = pc[Barber]
    <3>1. /\ pc'[Barber] = pc[Barber] /\ pc[c] = "leave"
          /\ \A L : Standing(BCustomers, pc', L) =
               IF "stand" \in L THEN Standing(BCustomers, pc, L) \cup {c}
                               ELSE Standing(BCustomers, pc, L) \ {c}
          /\ Standing(BCustomers, pc, {"done"}) = {}
      BY <1>0, <2>1, <2>6, SemaphoreCustomerGoes
    <3>2. /\ c \in Standing(BCustomers, pc, {"leave"})
          /\ c \notin Standing(BCustomers, pc, {"sit", "request", "done"})
      BY <3>1 DEF Standing
    <3> QED
      BY <3>1, <3>2
  <2>8. SemaphoreViews(Barbershops!waiting', Barbershops!in_chair', Barbershops!shorn',
                       pc', sem')
    BY <1>w, <2>4 DEF ChairBySemaphore
  <2>9. Leaves(c, Barbershops!waiting, Barbershops!in_chair, Barbershops!shorn,
               Barbershops!waiting', Barbershops!in_chair', Barbershops!shorn')
    BY <1>v, <2>7, <2>8 DEF Leaves, SemaphoreViews
  <2> QED
    BY <2>2, <2>4, <2>9 DEF Visited, Visits
<1>8. CASE Barbershops!StandUp(c) /\ UNCHANGED Barbershops!shopVars
  <2>1. /\ Barbershops!Goto(c, "stand", "start")
        /\ sem' = [sem EXCEPT ![Chair] = @ + 1]
        /\ UNCHANGED <<called, n_customers, queue, barber_chair_free>>
    BY <1>8 DEF Barbershops!StandUp, Barbershops!release, Barbershops!shopVars, Chair
  <2>s. /\ sem' \in [BSems -> Nat] /\ sem'[Chair] = sem[Chair] + 1
        /\ R' = R /\ A' = A
        /\ \A s \in SemaphoreOthers : sem'[s] = sem[s]
    BY <1>0, <1>s, <2>1, BarbersApart DEF BarberTyped, BSems, Barbershops!binary, BCustomers,
       SemaphoreOthers, R, A
  <2>2. BarberTyped'
    <3>1. n_customers' = n_customers + Change(Inside, "stand", "start")
      BY <1>0, <2>1, SemaphoreCustomerGoes DEF Change, Inside
    <3> QED
      BY <1>0, <2>1, <2>s, <3>1, CustomerTyped, BarbersApart DEF BarberTyped, Inside
  <2>3. /\ BC("request")' = BC("request") /\ BC("done")' = BC("done")
        /\ BC("leave")' = BC("leave") /\ BC("stand")' = BC("stand") - 1
        /\ BC("request") \in Nat /\ BC("done") \in Nat /\ BC("leave") \in Nat
        /\ BC("stand") \in Nat
    BY <1>0, <2>1, SemaphoreCustomerGoes DEF Change
  <2>4. ChairBySemaphore'
    BY <1>0, <1>q, <1>s, <2>1, <2>2, <2>3, <2>s, SemaphoreCustomerGoes
  <2>5. /\ Standing(BCustomers, pc', {"sit", "request", "done"})
              = Standing(BCustomers, pc, {"sit", "request", "done"})
        /\ Standing(BCustomers, pc', {"done"}) = Standing(BCustomers, pc, {"done"})
        /\ Standing(BCustomers, pc', {"leave"}) = Standing(BCustomers, pc, {"leave"})
        /\ pc'[Barber] = pc[Barber]
    <3>1. /\ pc'[Barber] = pc[Barber] /\ pc[c] = "stand"
          /\ \A L : Standing(BCustomers, pc', L) =
               IF "start" \in L THEN Standing(BCustomers, pc, L) \cup {c}
                               ELSE Standing(BCustomers, pc, L) \ {c}
      BY <1>0, <2>1, SemaphoreCustomerGoes
    <3>2. /\ c \notin Standing(BCustomers, pc, {"done"})
          /\ c \notin Standing(BCustomers, pc, {"leave"})
          /\ c \notin Standing(BCustomers, pc, {"sit", "request", "done"})
      BY <3>1 DEF Standing
    <3> QED
      BY <3>1, <3>2
  <2>6. SemaphoreViews(Barbershops!waiting', Barbershops!in_chair', Barbershops!shorn',
                       pc', sem')
    BY <1>w, <2>4 DEF ChairBySemaphore
  <2> QED
    BY <1>v, <2>2, <2>4, <2>5, <2>6, <2>s DEF Visited, Visits, SemaphoreViews, A
<1> QED
  BY <1>2, <1>3, <1>4, <1>5, <1>6, <1>7, <1>8 DEF Barbershops!customer1, Chair

LEMMA SemaphoreBarberKeeps ==
  ASSUME BarberInv, program = "barbershop_1", program' = program, Barbershops!barber1
  PROVE  BarberTyped' /\ ChairBySemaphore' /\ Visited
<1> DEFINE R == sem[Barbershops!haircut_request]
           A == sem[Barbershops!done_haircut]
<1>0. BarberTyped /\ ChairBySemaphore
  BY DEF BarberInv
<1>v. SemaphoreViews(Barbershops!waiting, Barbershops!in_chair, Barbershops!shorn, pc, sem)
  BY <1>0, SemaphoreViewsHold DEF ChairBySemaphore
<1>s. /\ sem[Chair] \in Nat /\ R \in Nat /\ A \in Nat
      /\ BarberIs("cut") \in {0, 1} /\ pc[Barber] \in {"start", "cut"}
      /\ sem[Chair] + BC("request") + BC("done") + BC("leave") + BC("stand") = 1
      /\ R + BarberIs("cut") + A = BC("done")
      /\ BC("request") \in Nat /\ BC("done") \in Nat /\ BC("leave") \in Nat
      /\ BC("stand") \in Nat
  BY <1>0, BarberCounted DEF BarberTyped, BSems, ChairBySemaphore, BarberIs, BC
<1>t. BC("done") \in {0, 1}
  <2>1. /\ sem[Chair] \in Nat
        /\ sem[Chair] + BC("request") + BC("done") + BC("leave") + BC("stand") = 1
        /\ BC("request") \in Nat /\ BC("done") \in Nat /\ BC("leave") \in Nat
        /\ BC("stand") \in Nat
    BY <1>s
  <2> QED
    BY <2>1, OneOfFive
<1>1. ASSUME NEW from, NEW to, Barbershops!Goto(Barber, from, to), to \in {"start", "cut"}
      PROVE  /\ pc[Barber] = from /\ pc'[Barber] = to
             /\ pc' \in [Barbershops!ShopThreads ->
                           Inside \cup {"start", "stand", "pop", "call", "wait"}]
             /\ \A c \in BCustomers : pc'[c] = pc[c]
             /\ \A L : Standing(BCustomers, pc', L) = Standing(BCustomers, pc, L)
  <2>1. pc[Barber] = from /\ Moves(Barber, to, pc, pc')
    BY <1>0, <1>1, BarberGoes
  <2>2. \A c \in BCustomers : pc'[c] = pc[c]
    BY <1>0, <2>1, BarbersApart DEF BarberTyped, Moves
  <2>3. pc' \in [Barbershops!ShopThreads ->
                   Inside \cup {"start", "stand", "pop", "call", "wait"}]
    BY <1>0, <1>1, <2>1 DEF BarberTyped, Moves, Inside
  <2>4. pc'[Barber] = to
    BY <1>0, <2>1, BarbersApart DEF BarberTyped, Moves
  <2>5. \A L : Standing(BCustomers, pc', L) = Standing(BCustomers, pc, L)
    BY <2>2 DEF Standing
  <2> QED
    BY <2>1, <2>2, <2>3, <2>4, <2>5
<1>q. ASSUME \A L : Standing(BCustomers, pc', L) = Standing(BCustomers, pc, L),
             \A c \in BCustomers : pc'[c] = pc[c],
             pc' \in [Barbershops!ShopThreads ->
                        Inside \cup {"start", "stand", "pop", "call", "wait"}],
             pc'[Barber] \in {"start", "cut"}, UNCHANGED Barbershops!shopVars,
             sem' \in [BSems -> Nat], sem'[Chair] = sem[Chair],
             \A s \in SemaphoreOthers : sem'[s] = sem[s],
             R' + BarberIs("cut")' + A' = R + BarberIs("cut") + A
      PROVE  /\ BarberTyped' /\ ChairBySemaphore'
             /\ SemaphoreViews(Barbershops!waiting', Barbershops!in_chair',
                               Barbershops!shorn', pc', sem')
  <2>1. \A L : Count(BCustomers, pc', L) = Count(BCustomers, pc, L)
    BY <1>q DEF Count
  <2>2. BarberTyped'
    BY <1>0, <1>q, <2>1 DEF BarberTyped, Barbershops!shopVars
  <2>3. /\ BC("request")' = BC("request") /\ BC("done")' = BC("done")
        /\ BC("leave")' = BC("leave") /\ BC("stand")' = BC("stand")
    <3>1. /\ BC("request")' = Count(BCustomers, pc', {"request"})
          /\ BC("done")' = Count(BCustomers, pc', {"done"})
          /\ BC("leave")' = Count(BCustomers, pc', {"leave"})
          /\ BC("stand")' = Count(BCustomers, pc', {"stand"})
      BY DEF BC, Count, Standing, BCustomers, Barbershops!Customers
    <3> QED
      BY <2>1, <3>1 DEF BC
  <2>4. CustomersStand({"start", "sit", "request", "done", "leave", "stand"})'
    BY <1>0, <1>q DEF ChairBySemaphore, CustomersStand
  <2>5. ChairBySemaphore'
    BY <1>0, <1>q, <1>s, <2>3, <2>4 DEF ChairBySemaphore, SemaphoreOthers,
       Barbershops!binary, Barbershops!shopVars
  <2> QED
    BY <2>2, <2>4, <2>5, SemaphoreViewsHoldNext
<1>2. CASE Barbershops!acquire(Barber, Barbershops!haircut_request, "start", "cut")
  <2>1. /\ Barbershops!Goto(Barber, "start", "cut") /\ R > 0
        /\ sem' = [sem EXCEPT ![Barbershops!haircut_request] = @ - 1]
        /\ UNCHANGED Barbershops!shopVars
    BY <1>2 DEF Barbershops!acquire, Barbershops!barber1
  <2>2. /\ sem' \in [BSems -> Nat] /\ sem'[Chair] = sem[Chair]
        /\ R' = R - 1 /\ A' = A
        /\ \A s \in SemaphoreOthers : sem'[s] = sem[s]
    <3>1. sem \in [BSems -> Nat] /\ R \in Nat
      BY <1>0, <1>s DEF BarberTyped
    <3>2. /\ Barbershops!haircut_request \in BSems /\ Barbershops!done_haircut \in BSems
          /\ Chair \in BSems /\ SemaphoreOthers \subseteq BSems
          /\ Chair # Barbershops!haircut_request /\ Chair # Barbershops!done_haircut
          /\ Barbershops!haircut_request # Barbershops!done_haircut
          /\ Barbershops!haircut_request \notin SemaphoreOthers
          /\ Barbershops!done_haircut \notin SemaphoreOthers
      BY BarbersApart DEF BSems, SemaphoreOthers, Barbershops!binary, BCustomers, Chair
    <3> QED
      BY <2>1, <3>1, <3>2
  <2>3. BarberIs("cut") = 0 /\ BarberIs("cut")' = 1
    BY <1>1, <2>1 DEF BarberIs
  <2> HIDE DEF R, A
  <2>4. /\ BarberTyped' /\ ChairBySemaphore'
        /\ SemaphoreViews(Barbershops!waiting', Barbershops!in_chair',
                          Barbershops!shorn', pc', sem')
    BY <1>1, <1>q, <1>s, <2>1, <2>2, <2>3
  <2>5. BC("done") = 1 /\ A = 0
    BY <1>s, <1>t, <2>1, <2>3
  <2>6. PICK c : Standing(BCustomers, pc, {"done"}) = {c}
    <3>1. IsFiniteSet(Standing(BCustomers, pc, {"done"}))
      BY BarbersApart, FS_Subset DEF Standing
    <3> QED
      BY <2>5, <3>1, FS_Singleton DEF BC, Count
  <2>7. c \in BCustomers /\ pc[c] = "done"
    BY <2>6 DEF Standing
  <2>8. c \in Standing(BCustomers, pc, {"sit", "request", "done"})
        /\ c \notin Standing(BCustomers, pc, {"leave"})
    BY <2>7 DEF Standing
  <2>9. pc[Barber] = "start" /\ pc'[Barber] = "cut"
        /\ \A L : Standing(BCustomers, pc', L) = Standing(BCustomers, pc, L)
    BY <1>1, <2>1
  <2>10. ~(A > 0) /\ ~(A' > 0)
    BY <2>2, <2>5
  <2>11. /\ Barbershops!in_chair = {} /\ Barbershops!in_chair' = {c}
         /\ Barbershops!shorn = Standing(BCustomers, pc, {"leave"})
         /\ Barbershops!shorn' = Standing(BCustomers, pc, {"leave"})
    BY <1>v, <2>4, <2>6, <2>9, <2>10 DEF SemaphoreViews, A
  <2>12. /\ c \in Barbershops!waiting
         /\ Barbershops!waiting' = Barbershops!waiting \ {c}
    BY <1>v, <2>4, <2>8, <2>9, <2>11 DEF SemaphoreViews
  <2> QED
    BY <2>4, <2>7, <2>11, <2>12 DEF Visited, Visits, BeginsCut
<1>3. CASE Barbershops!release(Barber, Barbershops!done_haircut, 1, "cut", "start")
  <2>1. /\ Barbershops!Goto(Barber, "cut", "start")
        /\ sem' = [sem EXCEPT ![Barbershops!done_haircut] = @ + 1]
        /\ UNCHANGED Barbershops!shopVars
    BY <1>3 DEF Barbershops!release, Barbershops!barber1
  <2>2. /\ sem' \in [BSems -> Nat] /\ sem'[Chair] = sem[Chair]
        /\ R' = R /\ A' = A + 1
        /\ \A s \in SemaphoreOthers : sem'[s] = sem[s]
    <3>1. sem \in [BSems -> Nat] /\ R \in Nat
      BY <1>0, <1>s DEF BarberTyped
    <3>2. /\ Barbershops!haircut_request \in BSems /\ Barbershops!done_haircut \in BSems
          /\ Chair \in BSems /\ SemaphoreOthers \subseteq BSems
          /\ Chair # Barbershops!haircut_request /\ Chair # Barbershops!done_haircut
          /\ Barbershops!haircut_request # Barbershops!done_haircut
          /\ Barbershops!haircut_request \notin SemaphoreOthers
          /\ Barbershops!done_haircut \notin SemaphoreOthers
      BY BarbersApart DEF BSems, SemaphoreOthers, Barbershops!binary, BCustomers, Chair
    <3> QED
      BY <2>1, <3>1, <3>2
  <2>3. BarberIs("cut") = 1 /\ BarberIs("cut")' = 0
    BY <1>1, <2>1 DEF BarberIs
  <2> HIDE DEF R, A
  <2>4. /\ BarberTyped' /\ ChairBySemaphore'
        /\ SemaphoreViews(Barbershops!waiting', Barbershops!in_chair',
                          Barbershops!shorn', pc', sem')
    BY <1>1, <1>q, <1>s, <2>1, <2>2, <2>3
  <2>5. BC("done") = 1 /\ A = 0
    BY <1>s, <1>t, <2>1, <2>3
  <2>6. PICK c : Standing(BCustomers, pc, {"done"}) = {c}
    <3>1. IsFiniteSet(Standing(BCustomers, pc, {"done"}))
      BY BarbersApart, FS_Subset DEF Standing
    <3> QED
      BY <2>5, <3>1, FS_Singleton DEF BC, Count
  <2>7. c \in BCustomers /\ pc[c] = "done"
    BY <2>6 DEF Standing
  <2>8. c \notin Standing(BCustomers, pc, {"leave"})
    BY <2>7 DEF Standing
  <2>9. pc[Barber] = "cut" /\ pc'[Barber] = "start"
        /\ \A L : Standing(BCustomers, pc', L) = Standing(BCustomers, pc, L)
    BY <1>1, <2>1
  <2>10. ~(A > 0) /\ A' > 0
    BY <2>2, <2>5
  <2>11. /\ Barbershops!in_chair = {c} /\ Barbershops!in_chair' = {}
         /\ Barbershops!shorn = Standing(BCustomers, pc, {"leave"})
         /\ Barbershops!shorn' = Standing(BCustomers, pc, {"leave"}) \cup {c}
    BY <1>v, <2>4, <2>6, <2>9, <2>10 DEF SemaphoreViews, A
  <2>12. Barbershops!waiting' = Barbershops!waiting
    BY <1>v, <2>4, <2>9, <2>11 DEF SemaphoreViews
  <2> QED
    BY <2>4, <2>7, <2>11, <2>12 DEF Visited, Visits, EndsCut
<1> QED
  BY <1>2, <1>3 DEF Barbershops!barber1, Barber

QueueViews(w, i, s, f, m, q) ==
  /\ i = IF f[Barber] = "cut" THEN {q} ELSE {}
  /\ s = Standing(BCustomers, f, {"ack", "leave"}) \cup
           (IF f[Barber] = "wait" /\ m[Barbershops!customer_done] = 0
            THEN {q} \cap Standing(BCustomers, f, {"ready", "sit", "done"}) ELSE {})
  /\ w = Standing(BCustomers, f, {"sit", "ready", "done"}) \ (i \cup s)

LEMMA QueueViewsHold ==
  ASSUME program = "barbershop_2",
         CustomersStand({"start", "ready", "sit", "done", "ack", "leave"})
  PROVE  QueueViews(Barbershops!waiting, Barbershops!in_chair, Barbershops!shorn,
                    pc, sem, called)
<1>1. Barbershops!in_chair = IF pc[Barber] = "cut" THEN {called} ELSE {}
  BY DEF Barbershops!in_chair, Barber
<1>2. Barbershops!shorn = Standing(BCustomers, pc, {"ack", "leave"}) \cup
           (IF pc[Barber] = "wait" /\ sem[Barbershops!customer_done] = 0
            THEN {called} \cap Standing(BCustomers, pc, {"ready", "sit", "done"}) ELSE {})
  BY DEF Barbershops!shorn, Barbershops!CustomersAt, Standing, BCustomers, Barber
<1>3. Barbershops!waiting = Standing(BCustomers, pc, {"sit", "ready", "done"})
                              \ (Barbershops!in_chair \cup Barbershops!shorn)
  BY DEF Barbershops!waiting, Barbershops!CustomersAt, Standing, BCustomers, CustomersStand
<1> QED
  BY <1>1, <1>2, <1>3 DEF QueueViews

LEMMA QueueViewsHoldNext ==
  ASSUME program' = "barbershop_2",
         CustomersStand({"start", "ready", "sit", "done", "ack", "leave"})'
  PROVE  QueueViews(Barbershops!waiting', Barbershops!in_chair', Barbershops!shorn',
                    pc', sem', called')
<1>1. Barbershops!in_chair' = IF pc'[Barber] = "cut" THEN {called'} ELSE {}
  BY DEF Barbershops!in_chair, Barber
<1>2. Barbershops!shorn' = Standing(BCustomers, pc', {"ack", "leave"}) \cup
           (IF pc'[Barber] = "wait" /\ sem'[Barbershops!customer_done] = 0
            THEN {called'} \cap Standing(BCustomers, pc', {"ready", "sit", "done"}) ELSE {})
  BY DEF Barbershops!shorn, Barbershops!CustomersAt, Standing, BCustomers, Barber
<1>3. Barbershops!waiting' = Standing(BCustomers, pc', {"sit", "ready", "done"})
                              \ (Barbershops!in_chair' \cup Barbershops!shorn')
  BY DEF Barbershops!waiting, Barbershops!CustomersAt, Standing, BCustomers, CustomersStand
<1> QED
  BY <1>1, <1>2, <1>3 DEF QueueViews

(* What a customer's step of the third program does.                       *)
LEMMA QueueCustomerGoes ==
  ASSUME BarberTyped, ChairByQueue, NEW c \in BCustomers, NEW from, NEW to,
         Barbershops!Goto(c, from, to),
         to \in {"start", "ready", "sit", "done", "ack", "leave"}
  PROVE  /\ pc[c] = from /\ pc'[Barber] = pc[Barber]
         /\ BC("ready") \in Nat /\ n_customers \in Nat
         /\ BC("ready")' = BC("ready") + Change({"ready"}, from, to)
         /\ \A L : Standing(BCustomers, pc', L) =
              IF to \in L THEN Standing(BCustomers, pc, L) \cup {c}
                          ELSE Standing(BCustomers, pc, L) \ {c}
         /\ \A d \in BCustomers : pc'[d] = IF d = c THEN to ELSE pc[d]
         /\ CustomersStand({"start", "ready", "sit", "done", "ack", "leave"})'
<1>1. BC("ready")' = Count(BCustomers, pc', {"ready"})
  BY DEF BC, Count, Standing, BCustomers, Barbershops!Customers
<1>2. BCustomers \subseteq DOMAIN pc /\ c # Barber
  BY BarbersApart DEF BarberTyped
<1>3. pc[c] = from /\ Moves(c, to, pc, pc')
  BY CustomerGoes
<1>4. \A L : Standing(BCustomers, pc', L) =
              IF to \in L THEN Standing(BCustomers, pc, L) \cup {c}
                          ELSE Standing(BCustomers, pc, L) \ {c}
  BY <1>2, <1>3, StandingAfterMove
<1>5. \A d \in BCustomers : pc'[d] = IF d = c THEN to ELSE pc[d]
  BY <1>2, <1>3 DEF Moves
<1>6. CustomersStand({"start", "ready", "sit", "done", "ack", "leave"})'
  BY <1>5 DEF CustomersStand, ChairByQueue
<1>7. pc'[Barber] = pc[Barber]
  BY <1>2, <1>3, BarbersApart DEF Moves, BarberTyped
<1>8. n_customers \in Nat /\ BC("ready") \in Nat
  BY BarberCounted DEF BarberTyped, BC
<1>9. BC("ready")' = BC("ready") + Change({"ready"}, from, to)
  BY <1>1, CustomerGoes DEF BC
<1> QED
  BY <1>3, <1>4, <1>5, <1>6, <1>7, <1>8, <1>9

(* The semaphores are told apart.                                          *)
LEMMA QueueSemaphores ==
  ASSUME BarberTyped
  PROVE  /\ sem \in [BSems -> Nat] /\ BCustomers \subseteq BSems
         /\ Chair \in BSems /\ Barbershops!haircut_request \in BSems
         /\ Barbershops!done_haircut \in BSems /\ Barbershops!customer_ready \in BSems
         /\ Barbershops!barber_done \in BSems /\ Barbershops!customer_done \in BSems
  BY DEF BarberTyped, BSems

LEMMA QueueCustomerKeeps ==
  ASSUME BarberInv, program = "barbershop_2", program' = program,
         NEW c \in BCustomers, Barbershops!customer2(c)
  PROVE  BarberTyped' /\ ChairByQueue' /\ Visited
<1> DEFINE Ack == sem[Barbershops!customer_done]
<1>0. BarberTyped /\ ChairByQueue /\ InBarbershop
  BY DEF BarberInv, InBarbershop
<1>v. QueueViews(Barbershops!waiting, Barbershops!in_chair, Barbershops!shorn, pc, sem, called)
  BY <1>0, QueueViewsHold DEF ChairByQueue
<1>w. ASSUME CustomersStand({"start", "ready", "sit", "done", "ack", "leave"})'
      PROVE  QueueViews(Barbershops!waiting', Barbershops!in_chair', Barbershops!shorn',
                        pc', sem', called')
  BY <1>w, QueueViewsHoldNext
<1>p. QueueLine /\ QueueTokens /\ QueueCounted /\ QueueRest
      /\ pc[Barber] \in {"start", "pop", "call", "cut", "wait"}
  BY <1>0 DEF ChairByQueue
<1>q. ASSUME QueueLine', QueueTokens', QueueCounted', QueueRest',
             CustomersStand({"start", "ready", "sit", "done", "ack", "leave"})',
             pc'[Barber] = pc[Barber]
      PROVE  ChairByQueue'
  BY <1>p, <1>q DEF ChairByQueue
<1>s. /\ sem \in [BSems -> Nat] /\ BCustomers \subseteq BSems
      /\ Chair \in BSems /\ Barbershops!haircut_request \in BSems
      /\ Barbershops!done_haircut \in BSems /\ Barbershops!customer_ready \in BSems
      /\ Barbershops!barber_done \in BSems /\ Barbershops!customer_done \in BSems
      /\ queue \in Seq(BCustomers)
      /\ called \in Barbershops!ShopThreads /\ barber_chair_free \in BOOLEAN
  BY <1>0, QueueSemaphores DEF BarberTyped
<1>2. CASE Barbershops!Arrive(c, "ready")
  <2>1. /\ Barbershops!Goto(c, "start", "ready")
        /\ UNCHANGED <<sem, called, barber_chair_free>>
        /\ queue' = Append(queue, c)
        /\ n_customers' = n_customers + 1 /\ n_customers < N_CHAIRS
    BY <1>2, <1>0 DEF Barbershops!HasChair, Barbershops!Arrive, Barbershops!Move
  <2>2. /\ pc[c] = "start" /\ pc'[Barber] = pc[Barber]
        /\ \A d \in BCustomers : pc'[d] = IF d = c THEN "ready" ELSE pc[d]
        /\ CustomersStand({"start", "ready", "sit", "done", "ack", "leave"})'
        /\ BC("ready")' = BC("ready") + 1 /\ BC("ready") \in Nat
        /\ n_customers \in Nat
    BY <1>0, <2>1, QueueCustomerGoes DEF Change
  <2>3. BarberTyped'
    <3>1. n_customers' = n_customers + Change(Inside, "start", "ready")
      BY <2>1 DEF Change, Inside
    <3>2. queue' \in Seq(BCustomers)
      BY <1>s, <2>1
    <3> QED
      BY <1>0, <1>s, <2>1, <3>1, <3>2, CustomerTyped DEF Inside
  <2>4. c \notin Elements(queue) /\ ~(Attended /\ c = called)
    BY <1>p, <2>2 DEF QueueLine, InShop
  <2>5. Attended' <=> Attended
    BY <2>1, <2>2 DEF Attended
  <2>6. Elements(queue') = Elements(queue) \cup {c} /\ (Distinct(queue) => Distinct(queue'))
    BY <1>s, <2>1, <2>4, AppendElement
  <2>7. QueueLine'
    BY <1>p, <2>1, <2>2, <2>4, <2>5, <2>6 DEF QueueLine, InShop
  <2>8. QueueTokens'
    <3>1. pc[Barber] \in {"call", "cut"} => Attended
      BY DEF Attended
    <3>2. Attended => called \in BCustomers /\ pc'[called] = pc[called]
      BY <1>p, <2>2, <2>4 DEF QueueLine
    <3>3. \A d \in BCustomers : pc'[d] \in {"done", "ack"} => Attended /\ d = called
      BY <1>p, <2>2 DEF QueueTokens
    <3>4. \A d \in BCustomers :
            sem[d] = IF /\ Attended /\ pc[Barber] # "call" /\ d = called
                        /\ pc'[d] \in {"ready", "sit"} THEN 1 ELSE 0
      BY <1>p, <2>2, <2>4 DEF QueueTokens
    <3> QED
      BY <1>p, <2>1, <2>2, <2>5, <3>1, <3>2, <3>3, <3>4 DEF QueueTokens
  <2>9. QueueCounted'
    <3>1. Len(queue') = Len(queue) + 1 /\ Len(queue) \in Nat
      BY <1>s, <2>1
    <3>2. BarberIs("pop")' = BarberIs("pop") /\ BarberIs("pop") \in {0, 1}
      BY <2>2 DEF BarberIs
    <3>3. sem[Barbershops!customer_ready] \in Nat /\ sem' = sem
      BY <1>s, <2>1
    <3>4. sem[Barbershops!customer_ready] + BarberIs("pop") + BC("ready") = Len(queue)
      BY <1>p DEF QueueCounted
    <3> QED
      BY <2>2, <3>1, <3>2, <3>3, <3>4 DEF QueueCounted, Barbershops!customer_ready
  <2>10. QueueRest' /\ ChairByQueue'
    <3>1. QueueRest'
      BY <1>p, <2>1 DEF QueueRest
    <3> QED
      BY <1>q, <2>2, <2>7, <2>8, <2>9, <3>1
  <2>11. QueueViews(Barbershops!waiting', Barbershops!in_chair', Barbershops!shorn',
                    pc', sem', called')
    BY <1>w, <2>2
  <2>12. /\ Standing(BCustomers, pc', {"sit", "ready", "done"})
              = Standing(BCustomers, pc, {"sit", "ready", "done"}) \cup {c}
         /\ Standing(BCustomers, pc', {"ack", "leave"})
              = Standing(BCustomers, pc, {"ack", "leave"})
         /\ c \notin Standing(BCustomers, pc, Inside)
    BY <2>2 DEF Standing, Inside
  <2>13. c \notin Barbershops!waiting \cup Barbershops!in_chair \cup Barbershops!shorn
    BY <1>0, <2>12, InsideCounted
  <2>14. Barbershops!in_chair' = Barbershops!in_chair
    BY <1>v, <2>1, <2>2, <2>11 DEF QueueViews
  <2>15. Barbershops!shorn' = Barbershops!shorn
    <3>1. Attended => ({called} \cap Standing(BCustomers, pc', {"ready", "sit", "done"})
                         = {called} \cap Standing(BCustomers, pc, {"ready", "sit", "done"}))
      BY <2>2, <2>4 DEF Standing
    <3>2. pc[Barber] = "wait" /\ Ack = 0 => Attended
      BY DEF Attended
    <3> QED
      BY <1>v, <2>1, <2>2, <2>11, <2>12, <3>1, <3>2 DEF QueueViews
  <2>16. Barbershops!waiting' = Barbershops!waiting \cup {c}
    BY <1>v, <2>11, <2>12, <2>13, <2>14, <2>15 DEF QueueViews
  <2>17. Enters(c, Barbershops!waiting, Barbershops!in_chair, Barbershops!shorn,
                 Barbershops!waiting', Barbershops!in_chair', Barbershops!shorn')
    BY <1>0, <2>1, <2>13, <2>14, <2>15, <2>16, InsideCounted DEF Enters
  <2> QED
    BY <2>3, <2>10, <2>17 DEF Visited, Visits
<1>3. CASE Barbershops!WalkOut(c)
  <2>1. Barbershops!Goto(c, "start", "start") /\ UNCHANGED sem /\ UNCHANGED Barbershops!shopVars
    BY <1>3 DEF Barbershops!WalkOut, Barbershops!Move
  <2>2. pc' = pc
    BY <1>0, <2>1 DEF BarberTyped, Barbershops!Goto, Barbershops!At
  <2>3. BarberTyped' /\ ChairByQueue'
    BY <1>0, <2>1, <2>2 DEF BarberTyped, ChairByQueue, QueueLine, QueueTokens, QueueCounted,
       QueueRest, Attended, CustomersStand, BC, BarberIs, Barbershops!shopVars
  <2>4. QueueViews(Barbershops!waiting', Barbershops!in_chair', Barbershops!shorn',
                   pc', sem', called')
    BY <1>w, <2>3 DEF ChairByQueue
  <2>5. called' = called
    BY <2>1 DEF Barbershops!shopVars
  <2> QED
    BY <1>v, <2>1, <2>2, <2>3, <2>4, <2>5 DEF Visited, Visits, QueueViews
<1>4. CASE /\ Barbershops!release(c, Barbershops!customer_ready, 1, "ready", "sit")
           /\ UNCHANGED Barbershops!shopVars
  <2>1. /\ Barbershops!Goto(c, "ready", "sit")
        /\ sem' = [sem EXCEPT ![Barbershops!customer_ready] = @ + 1]
        /\ UNCHANGED <<called, n_customers, queue, barber_chair_free>>
    BY <1>4 DEF Barbershops!release, Barbershops!shopVars
  <2>2. /\ pc[c] = "ready" /\ pc'[Barber] = pc[Barber]
        /\ \A d \in BCustomers : pc'[d] = IF d = c THEN "sit" ELSE pc[d]
        /\ CustomersStand({"start", "ready", "sit", "done", "ack", "leave"})'
        /\ BC("ready")' = BC("ready") - 1 /\ BC("ready") \in Nat
        /\ n_customers \in Nat
    BY <1>0, <2>1, QueueCustomerGoes DEF Change
  <2>s. /\ sem' \in [BSems -> Nat]
        /\ \A s \in BSems : s # Barbershops!customer_ready => sem'[s] = sem[s]
        /\ sem'[Barbershops!customer_ready] = sem[Barbershops!customer_ready] + 1
        /\ sem[Barbershops!customer_ready] \in Nat
    BY <1>s, <2>1
  <2>t. /\ \A d \in BCustomers : sem'[d] = sem[d]
        /\ sem'[Barbershops!barber_done] = sem[Barbershops!barber_done]
        /\ sem'[Barbershops!customer_done] = sem[Barbershops!customer_done]
        /\ \A s \in {Chair, Barbershops!haircut_request, Barbershops!done_haircut} :
             sem'[s] = sem[s]
    BY <1>s, <2>s, BarbersApart
  <2>3. BarberTyped'
    <3>1. n_customers' = n_customers + Change(Inside, "ready", "sit")
      BY <2>1, <2>2 DEF Change, Inside
    <3> QED
      BY <1>0, <1>s, <2>1, <2>s, <3>1, CustomerTyped DEF Inside
  <2>5. Attended' <=> Attended
    BY <2>1, <2>2, <2>t DEF Attended
  <2>7. QueueLine'
    BY <1>p, <2>1, <2>2, <2>5 DEF QueueLine, InShop
  <2>8. QueueTokens'
    <3>1. pc[Barber] \in {"call", "cut"} => Attended
      BY DEF Attended
    <3>2. Attended => /\ called \in BCustomers
                      /\ pc'[called] = IF called = c THEN "sit" ELSE pc[called]
                      /\ (called = c => pc[called] = "ready")
      BY <1>p, <2>2 DEF QueueLine
    <3>3. \A d \in BCustomers : pc'[d] \in {"done", "ack"} => Attended /\ d = called
      BY <1>p, <2>2 DEF QueueTokens
    <3>4. \A d \in BCustomers :
            sem[d] = IF /\ Attended /\ pc[Barber] # "call" /\ d = called
                        /\ pc'[d] \in {"ready", "sit"} THEN 1 ELSE 0
      BY <1>p, <2>2 DEF QueueTokens
    <3> QED
      BY <1>p, <2>1, <2>2, <2>5, <2>t, <3>1, <3>2, <3>3, <3>4 DEF QueueTokens
  <2>9. QueueCounted'
    <3>2. BarberIs("pop")' = BarberIs("pop") /\ BarberIs("pop") \in {0, 1}
      BY <2>2 DEF BarberIs
    <3>4. sem[Barbershops!customer_ready] + BarberIs("pop") + BC("ready") = Len(queue)
      BY <1>p DEF QueueCounted
    <3> QED
      BY <2>1, <2>2, <2>s, <3>2, <3>4 DEF QueueCounted, Barbershops!customer_ready
  <2>10. QueueRest' /\ ChairByQueue'
    <3>1. QueueRest'
      BY <1>p, <2>1, <2>t DEF QueueRest
    <3> QED
      BY <1>q, <2>2, <2>7, <2>8, <2>9, <3>1
  <2>11. QueueViews(Barbershops!waiting', Barbershops!in_chair', Barbershops!shorn',
                    pc', sem', called')
    BY <1>w, <2>2
  <2>12. /\ Standing(BCustomers, pc', {"sit", "ready", "done"})
              = Standing(BCustomers, pc, {"sit", "ready", "done"})
         /\ Standing(BCustomers, pc', {"ready", "sit", "done"})
              = Standing(BCustomers, pc, {"ready", "sit", "done"})
         /\ Standing(BCustomers, pc', {"ack", "leave"})
              = Standing(BCustomers, pc, {"ack", "leave"})
    BY <2>2 DEF Standing
  <2>13. /\ Barbershops!in_chair' = Barbershops!in_chair
         /\ Barbershops!shorn' = Barbershops!shorn
    BY <1>v, <2>1, <2>2, <2>11, <2>12, <2>t DEF QueueViews
  <2>14. Barbershops!waiting' = Barbershops!waiting
    BY <1>v, <2>11, <2>12, <2>13 DEF QueueViews
  <2> QED
    BY <2>3, <2>10, <2>13, <2>14 DEF Visited, Visits
<1>5. CASE Barbershops!acquire(c, c, "sit", "done") /\ UNCHANGED Barbershops!shopVars
  <2>1. /\ Barbershops!Goto(c, "sit", "done") /\ sem[c] > 0
        /\ sem' = [sem EXCEPT ![c] = @ - 1]
        /\ UNCHANGED <<called, n_customers, queue, barber_chair_free>>
    BY <1>5 DEF Barbershops!acquire, Barbershops!shopVars
  <2>2. /\ pc[c] = "sit" /\ pc'[Barber] = pc[Barber]
        /\ \A d \in BCustomers : pc'[d] = IF d = c THEN "done" ELSE pc[d]
        /\ CustomersStand({"start", "ready", "sit", "done", "ack", "leave"})'
        /\ BC("ready")' = BC("ready") /\ BC("ready") \in Nat
        /\ n_customers \in Nat
    BY <1>0, <2>1, QueueCustomerGoes DEF Change
  <2>4. /\ Attended /\ pc[Barber] # "call" /\ c = called /\ sem[c] = 1
    BY <1>p, <2>1, <2>2 DEF QueueTokens
  <2>s. /\ sem' \in [BSems -> Nat]
        /\ \A s \in BSems : s # c => sem'[s] = sem[s]
        /\ sem'[c] = 0
    BY <1>s, <2>1, <2>4
  <2>t. /\ \A d \in BCustomers : sem'[d] = IF d = c THEN 0 ELSE sem[d]
        /\ sem'[Barbershops!barber_done] = sem[Barbershops!barber_done]
        /\ sem'[Barbershops!customer_done] = sem[Barbershops!customer_done]
        /\ sem'[Barbershops!customer_ready] = sem[Barbershops!customer_ready]
        /\ \A s \in {Chair, Barbershops!haircut_request, Barbershops!done_haircut} :
             sem'[s] = sem[s]
    BY <1>s, <2>s, BarbersApart
  <2>3. BarberTyped'
    <3>1. n_customers' = n_customers + Change(Inside, "sit", "done")
      BY <2>1, <2>2 DEF Change, Inside
    <3> QED
      BY <1>0, <1>s, <2>1, <2>s, <3>1, CustomerTyped DEF Inside
  <2>5. Attended' <=> Attended
    BY <2>1, <2>2, <2>t DEF Attended
  <2>7. QueueLine'
    BY <1>p, <2>1, <2>2, <2>5 DEF QueueLine, InShop
  <2>8. QueueTokens'
    <3>1. called' = c /\ pc'[c] = "done"
      BY <2>1, <2>2, <2>4
    <3>3. \A d \in BCustomers : pc'[d] \in {"done", "ack"} => Attended /\ d = called
      BY <1>p, <2>2, <2>4 DEF QueueTokens
    <3>4. \A d \in BCustomers :
            sem'[d] = IF /\ Attended /\ pc[Barber] # "call" /\ d = called
                         /\ pc'[d] \in {"ready", "sit"} THEN 1 ELSE 0
      BY <1>p, <2>2, <2>4, <2>t DEF QueueTokens
    <3>5. /\ sem[Barbershops!barber_done] = IF pc[Barber] = "wait" THEN 1 ELSE 0
          /\ sem[Barbershops!customer_done] \in {0, 1}
          /\ (sem[Barbershops!customer_done] = 1 => pc[Barber] = "wait")
      BY <1>p, <2>2, <2>4 DEF QueueTokens
    <3> QED
      BY <2>1, <2>2, <2>4, <2>5, <2>t, <3>1, <3>3, <3>4, <3>5 DEF QueueTokens,
         Barbershops!barber_done, Barbershops!customer_done
  <2>9. QueueCounted'
    <3>2. BarberIs("pop")' = BarberIs("pop") /\ BarberIs("pop") \in {0, 1}
      BY <2>2 DEF BarberIs
    <3>4. sem[Barbershops!customer_ready] + BarberIs("pop") + BC("ready") = Len(queue)
      BY <1>p DEF QueueCounted
    <3> QED
      BY <2>1, <2>2, <2>t, <3>2, <3>4 DEF QueueCounted, Barbershops!customer_ready
  <2>10. QueueRest' /\ ChairByQueue'
    <3>1. QueueRest'
      BY <1>p, <2>1, <2>t DEF QueueRest
    <3> QED
      BY <1>q, <2>2, <2>7, <2>8, <2>9, <3>1
  <2>11. QueueViews(Barbershops!waiting', Barbershops!in_chair', Barbershops!shorn',
                    pc', sem', called')
    BY <1>w, <2>2
  <2>12. /\ Standing(BCustomers, pc', {"sit", "ready", "done"})
              = Standing(BCustomers, pc, {"sit", "ready", "done"})
         /\ Standing(BCustomers, pc', {"ready", "sit", "done"})
              = Standing(BCustomers, pc, {"ready", "sit", "done"})
         /\ Standing(BCustomers, pc', {"ack", "leave"})
              = Standing(BCustomers, pc, {"ack", "leave"})
    BY <2>2 DEF Standing
  <2>13. /\ Barbershops!in_chair' = Barbershops!in_chair
         /\ Barbershops!shorn' = Barbershops!shorn
    BY <1>v, <2>1, <2>2, <2>11, <2>12, <2>t DEF QueueViews
  <2>14. Barbershops!waiting' = Barbershops!waiting
    BY <1>v, <2>11, <2>12, <2>13 DEF QueueViews
  <2> QED
    BY <2>3, <2>10, <2>13, <2>14 DEF Visited, Visits
<1>6. CASE /\ Barbershops!acquire(c, Barbershops!barber_done, "done", "ack")
           /\ UNCHANGED Barbershops!shopVars
  <2>1. /\ Barbershops!Goto(c, "done", "ack") /\ sem[Barbershops!barber_done] > 0
        /\ sem' = [sem EXCEPT ![Barbershops!barber_done] = @ - 1]
        /\ UNCHANGED <<called, n_customers, queue, barber_chair_free>>
    BY <1>6 DEF Barbershops!acquire, Barbershops!shopVars
  <2>2. /\ pc[c] = "done" /\ pc'[Barber] = pc[Barber]
        /\ \A d \in BCustomers : pc'[d] = IF d = c THEN "ack" ELSE pc[d]
        /\ CustomersStand({"start", "ready", "sit", "done", "ack", "leave"})'
        /\ BC("ready")' = BC("ready") /\ BC("ready") \in Nat
        /\ n_customers \in Nat
    BY <1>0, <2>1, QueueCustomerGoes DEF Change
  <2>4. /\ Attended /\ c = called /\ pc[Barber] = "wait" /\ sem[Barbershops!barber_done] = 1
        /\ sem[Barbershops!customer_done] = 0
    <3>1. Attended /\ c = called
      BY <1>p, <2>2 DEF QueueTokens
    <3>2. pc[Barber] = "wait" /\ sem[Barbershops!barber_done] = 1
      BY <1>p, <2>1 DEF QueueTokens
    <3> QED
      BY <3>1, <3>2 DEF Attended
  <2>s. /\ sem' \in [BSems -> Nat]
        /\ \A s \in BSems : s # Barbershops!barber_done => sem'[s] = sem[s]
        /\ sem'[Barbershops!barber_done] = 0
    BY <1>s, <2>1, <2>4
  <2>t. /\ \A d \in BCustomers : sem'[d] = sem[d]
        /\ sem'[Barbershops!customer_done] = sem[Barbershops!customer_done]
        /\ sem'[Barbershops!customer_ready] = sem[Barbershops!customer_ready]
        /\ \A s \in {Chair, Barbershops!haircut_request, Barbershops!done_haircut} :
             sem'[s] = sem[s]
    BY <1>s, <2>s, BarbersApart
  <2>3. BarberTyped'
    <3>1. n_customers' = n_customers + Change(Inside, "done", "ack")
      BY <2>1, <2>2 DEF Change, Inside
    <3> QED
      BY <1>0, <1>s, <2>1, <2>s, <3>1, CustomerTyped DEF Inside
  <2>5. Attended' <=> Attended
    BY <2>1, <2>2, <2>t DEF Attended
  <2>7. QueueLine'
    BY <1>p, <2>1, <2>2, <2>5 DEF QueueLine, InShop
  <2>8. QueueTokens'
    <3>1. called' = c /\ pc'[c] = "ack"
      BY <2>1, <2>2, <2>4
    <3>3. \A d \in BCustomers : pc'[d] \in {"done", "ack"} => Attended /\ d = called
      BY <1>p, <2>2, <2>4 DEF QueueTokens
    <3>4. \A d \in BCustomers :
            sem'[d] = IF /\ Attended /\ pc[Barber] # "call" /\ d = called
                         /\ pc'[d] \in {"ready", "sit"} THEN 1 ELSE 0
      BY <1>p, <2>2, <2>4, <2>t DEF QueueTokens
    <3> QED
      BY <2>1, <2>2, <2>4, <2>5, <2>s, <2>t, <3>1, <3>3, <3>4 DEF QueueTokens,
         Barbershops!barber_done, Barbershops!customer_done
  <2>9. QueueCounted'
    <3>2. BarberIs("pop")' = BarberIs("pop") /\ BarberIs("pop") \in {0, 1}
      BY <2>2 DEF BarberIs
    <3>4. sem[Barbershops!customer_ready] + BarberIs("pop") + BC("ready") = Len(queue)
      BY <1>p DEF QueueCounted
    <3> QED
      BY <2>1, <2>2, <2>t, <3>2, <3>4 DEF QueueCounted, Barbershops!customer_ready
  <2>10. QueueRest' /\ ChairByQueue'
    <3>1. QueueRest'
      BY <1>p, <2>1, <2>t DEF QueueRest
    <3> QED
      BY <1>q, <2>2, <2>7, <2>8, <2>9, <3>1
  <2>11. QueueViews(Barbershops!waiting', Barbershops!in_chair', Barbershops!shorn',
                    pc', sem', called')
    BY <1>w, <2>2
  <2>12. /\ c \in Standing(BCustomers, pc, {"ready", "sit", "done"})
         /\ Standing(BCustomers, pc', {"sit", "ready", "done"})
              = Standing(BCustomers, pc, {"sit", "ready", "done"}) \ {c}
         /\ c \notin Standing(BCustomers, pc', {"ready", "sit", "done"})
         /\ Standing(BCustomers, pc', {"ack", "leave"})
              = Standing(BCustomers, pc, {"ack", "leave"}) \cup {c}
    BY <2>2 DEF Standing
  <2>13. /\ Barbershops!shorn = Standing(BCustomers, pc, {"ack", "leave"}) \cup {c}
         /\ Barbershops!in_chair = {}
    BY <1>v, <2>4, <2>12 DEF QueueViews
  <2>14. /\ Barbershops!shorn' = Standing(BCustomers, pc', {"ack", "leave"})
         /\ Barbershops!in_chair' = {}
    BY <2>1, <2>2, <2>4, <2>11, <2>12 DEF QueueViews
  <2>15. Barbershops!waiting' = Barbershops!waiting
    BY <1>v, <2>11, <2>12, <2>13, <2>14 DEF QueueViews
  <2> QED
    BY <2>3, <2>10, <2>12, <2>13, <2>14, <2>15 DEF Visited, Visits
<1>7. CASE /\ Barbershops!release(c, Barbershops!customer_done, 1, "ack", "leave")
           /\ UNCHANGED Barbershops!shopVars
  <2>1. /\ Barbershops!Goto(c, "ack", "leave")
        /\ sem' = [sem EXCEPT ![Barbershops!customer_done] = @ + 1]
        /\ UNCHANGED <<called, n_customers, queue, barber_chair_free>>
    BY <1>7 DEF Barbershops!release, Barbershops!shopVars
  <2>2. /\ pc[c] = "ack" /\ pc'[Barber] = pc[Barber]
        /\ \A d \in BCustomers : pc'[d] = IF d = c THEN "leave" ELSE pc[d]
        /\ CustomersStand({"start", "ready", "sit", "done", "ack", "leave"})'
        /\ BC("ready")' = BC("ready") /\ BC("ready") \in Nat
        /\ n_customers \in Nat
    BY <1>0, <2>1, QueueCustomerGoes DEF Change
  <2>4. /\ Attended /\ c = called /\ pc[Barber] = "wait" /\ sem[Barbershops!barber_done] = 0
        /\ sem[Barbershops!customer_done] = 0 /\ sem[c] = 0
        /\ \A d \in BCustomers : sem[d] = 0
        /\ \A d \in BCustomers : pc'[d] \notin {"done", "ack"}
    <3>1. Attended /\ c = called
      BY <1>p, <2>2 DEF QueueTokens
    <3>2. pc[Barber] = "wait"
      BY <1>p, <2>2, <3>1 DEF QueueTokens, Attended
    <3>3. sem[Barbershops!customer_done] = 0
      BY <3>1, <3>2 DEF Attended
    <3>4. \A d \in BCustomers : sem[d] = 0 /\ pc'[d] \notin {"done", "ack"}
      BY <1>p, <2>2, <3>1 DEF QueueTokens
    <3>5. sem[Barbershops!barber_done] = 0
      BY <1>p, <2>2, <3>1 DEF QueueTokens
    <3> QED
      BY <3>1, <3>2, <3>3, <3>4, <3>5
  <2>s. /\ sem' \in [BSems -> Nat]
        /\ \A s \in BSems : s # Barbershops!customer_done => sem'[s] = sem[s]
        /\ sem'[Barbershops!customer_done] = 1
    BY <1>s, <2>1, <2>4
  <2>t. /\ \A d \in BCustomers : sem'[d] = 0
        /\ sem'[Barbershops!barber_done] = 0
        /\ sem'[Barbershops!customer_ready] = sem[Barbershops!customer_ready]
        /\ \A s \in {Chair, Barbershops!haircut_request, Barbershops!done_haircut} :
             sem'[s] = sem[s]
    BY <1>s, <2>4, <2>s, BarbersApart
  <2>3. BarberTyped'
    <3>1. n_customers' = n_customers + Change(Inside, "ack", "leave")
      BY <2>1, <2>2 DEF Change, Inside
    <3> QED
      BY <1>0, <1>s, <2>1, <2>s, <3>1, CustomerTyped DEF Inside
  <2>5. ~Attended'
    BY <2>2, <2>4, <2>s DEF Attended, Barbershops!customer_done
  <2>7. QueueLine'
    <3>1. c \notin Elements(queue)
      BY <1>p, <2>4 DEF QueueLine
    <3>2. \A d \in BCustomers : pc'[d] \in InShop <=> d \in Elements(queue)
      BY <1>p, <2>2, <2>4, <3>1 DEF QueueLine, InShop
    <3> QED
      BY <1>p, <2>1, <2>5, <3>2 DEF QueueLine, InShop
  <2>8. QueueTokens'
    BY <2>1, <2>2, <2>4, <2>5, <2>s, <2>t DEF QueueTokens,
       Barbershops!barber_done, Barbershops!customer_done
  <2>9. QueueCounted'
    <3>2. BarberIs("pop")' = BarberIs("pop") /\ BarberIs("pop") \in {0, 1}
      BY <2>2 DEF BarberIs
    <3>4. sem[Barbershops!customer_ready] + BarberIs("pop") + BC("ready") = Len(queue)
      BY <1>p DEF QueueCounted
    <3> QED
      BY <2>1, <2>2, <2>t, <3>2, <3>4 DEF QueueCounted, Barbershops!customer_ready
  <2>10. QueueRest' /\ ChairByQueue'
    <3>1. QueueRest'
      BY <1>p, <2>1, <2>t DEF QueueRest
    <3> QED
      BY <1>q, <2>2, <2>7, <2>8, <2>9, <3>1
  <2>11. QueueViews(Barbershops!waiting', Barbershops!in_chair', Barbershops!shorn',
                    pc', sem', called')
    BY <1>w, <2>2
  <2>12. /\ c \notin Standing(BCustomers, pc, {"ready", "sit", "done"})
         /\ Standing(BCustomers, pc', {"sit", "ready", "done"})
              = Standing(BCustomers, pc, {"sit", "ready", "done"})
         /\ Standing(BCustomers, pc', {"ack", "leave"})
              = Standing(BCustomers, pc, {"ack", "leave"})
    BY <2>2 DEF Standing
  <2>13. /\ Barbershops!shorn = Standing(BCustomers, pc, {"ack", "leave"})
         /\ Barbershops!in_chair = {}
    BY <1>v, <2>4, <2>12 DEF QueueViews
  <2>14. /\ Barbershops!shorn' = Standing(BCustomers, pc', {"ack", "leave"})
         /\ Barbershops!in_chair' = {}
    BY <2>2, <2>4, <2>11, <2>s DEF QueueViews
  <2>15. Barbershops!waiting' = Barbershops!waiting
    BY <1>v, <2>11, <2>12, <2>13, <2>14 DEF QueueViews
  <2> QED
    BY <2>3, <2>10, <2>12, <2>13, <2>14, <2>15 DEF Visited, Visits
<1>8. CASE Barbershops!LeaveShop(c, "start")
  <2>1. /\ Barbershops!Goto(c, "leave", "start") /\ n_customers' = n_customers - 1
        /\ UNCHANGED <<sem, barber_chair_free, queue, called>>
    BY <1>8 DEF Barbershops!LeaveShop, Barbershops!Move
  <2>2. /\ pc[c] = "leave" /\ pc'[Barber] = pc[Barber]
        /\ \A d \in BCustomers : pc'[d] = IF d = c THEN "start" ELSE pc[d]
        /\ CustomersStand({"start", "ready", "sit", "done", "ack", "leave"})'
        /\ BC("ready")' = BC("ready") /\ BC("ready") \in Nat
        /\ n_customers \in Nat
    BY <1>0, <2>1, QueueCustomerGoes DEF Change
  <2>3. BarberTyped'
    <3>1. n_customers' = n_customers + Change(Inside, "leave", "start")
      BY <2>1, <2>2 DEF Change, Inside
    <3> QED
      BY <1>0, <1>s, <2>1, <3>1, CustomerTyped
  <2>4. ~(Attended /\ c = called)
    BY <1>p, <2>2 DEF QueueLine, InShop
  <2>5. Attended' <=> Attended
    BY <2>1, <2>2 DEF Attended
  <2>7. QueueLine'
    BY <1>p, <2>1, <2>2, <2>5 DEF QueueLine, InShop
  <2>8. QueueTokens'
    <3>1. pc[Barber] \in {"call", "cut"} => Attended
      BY DEF Attended
    <3>2. Attended => called \in BCustomers /\ pc'[called] = pc[called]
      BY <1>p, <2>2, <2>4 DEF QueueLine
    <3>3. \A d \in BCustomers : pc'[d] \in {"done", "ack"} => Attended /\ d = called
      BY <1>p, <2>2 DEF QueueTokens
    <3>4. \A d \in BCustomers :
            sem[d] = IF /\ Attended /\ pc[Barber] # "call" /\ d = called
                        /\ pc'[d] \in {"ready", "sit"} THEN 1 ELSE 0
      BY <1>p, <2>2, <2>4 DEF QueueTokens
    <3> QED
      BY <1>p, <2>1, <2>2, <2>5, <3>1, <3>2, <3>3, <3>4 DEF QueueTokens
  <2>9. QueueCounted'
    <3>2. BarberIs("pop")' = BarberIs("pop") /\ BarberIs("pop") \in {0, 1}
      BY <2>2 DEF BarberIs
    <3>4. sem[Barbershops!customer_ready] + BarberIs("pop") + BC("ready") = Len(queue)
      BY <1>p DEF QueueCounted
    <3> QED
      BY <2>1, <2>2, <3>2, <3>4 DEF QueueCounted
  <2>10. QueueRest' /\ ChairByQueue'
    <3>1. QueueRest'
      BY <1>p, <2>1 DEF QueueRest
    <3> QED
      BY <1>q, <2>2, <2>7, <2>8, <2>9, <3>1
  <2>11. QueueViews(Barbershops!waiting', Barbershops!in_chair', Barbershops!shorn',
                    pc', sem', called')
    BY <1>w, <2>2
  <2>12. /\ c \notin Standing(BCustomers, pc, {"ready", "sit", "done"})
         /\ Standing(BCustomers, pc', {"sit", "ready", "done"})
              = Standing(BCustomers, pc, {"sit", "ready", "done"})
         /\ Standing(BCustomers, pc', {"ready", "sit", "done"})
              = Standing(BCustomers, pc, {"ready", "sit", "done"})
         /\ c \in Standing(BCustomers, pc, {"ack", "leave"})
         /\ Standing(BCustomers, pc', {"ack", "leave"})
              = Standing(BCustomers, pc, {"ack", "leave"}) \ {c}
         /\ c \notin Standing(BCustomers, pc, {"sit", "ready", "done"})
    BY <2>2 DEF Standing
  <2>13. /\ c \in Barbershops!shorn /\ Barbershops!shorn' = Barbershops!shorn \ {c}
         /\ Barbershops!in_chair' = Barbershops!in_chair
    BY <1>v, <2>1, <2>2, <2>11, <2>12 DEF QueueViews
  <2>14. Barbershops!waiting' = Barbershops!waiting
    BY <1>v, <2>11, <2>12, <2>13 DEF QueueViews
  <2> QED
    BY <2>3, <2>10, <2>13, <2>14 DEF Visited, Visits, Leaves
<1> QED
  BY <1>2, <1>3, <1>4, <1>5, <1>6, <1>7, <1>8 DEF Barbershops!customer2

(* What the barber's step of the third program does.                       *)
LEMMA QueueBarberGoes ==
  ASSUME BarberTyped, ChairByQueue, NEW from, NEW to, Barbershops!Goto(Barber, from, to),
         to \in {"start", "pop", "call", "cut", "wait"}
  PROVE  /\ pc[Barber] = from /\ pc'[Barber] = to
         /\ pc' \in [Barbershops!ShopThreads ->
                       Inside \cup {"start", "stand", "pop", "call", "wait"}]
         /\ \A c \in BCustomers : pc'[c] = pc[c]
         /\ \A L : /\ Standing(BCustomers, pc', L) = Standing(BCustomers, pc, L)
                   /\ Count(BCustomers, pc', L) = Count(BCustomers, pc, L)
         /\ CustomersStand({"start", "ready", "sit", "done", "ack", "leave"})'
         /\ BC("ready")' = BC("ready") /\ BC("ready") \in Nat
<1>1. pc[Barber] = from /\ Moves(Barber, to, pc, pc')
  BY BarberGoes
<1>2. \A c \in BCustomers : pc'[c] = pc[c]
  BY <1>1, BarbersApart DEF BarberTyped, Moves
<1>3. pc' \in [Barbershops!ShopThreads -> Inside \cup {"start", "stand", "pop", "call", "wait"}]
  BY <1>1 DEF BarberTyped, Moves, Inside
<1>4. pc'[Barber] = to
  BY <1>1, BarbersApart DEF BarberTyped, Moves
<1>5. \A L : /\ Standing(BCustomers, pc', L) = Standing(BCustomers, pc, L)
             /\ Count(BCustomers, pc', L) = Count(BCustomers, pc, L)
  BY <1>2 DEF Standing, Count
<1>6. CustomersStand({"start", "ready", "sit", "done", "ack", "leave"})'
  BY <1>2 DEF ChairByQueue, CustomersStand
<1>7. BC("ready")' = BC("ready") /\ BC("ready") \in Nat
  <2>1. BC("ready")' = Count(BCustomers, pc', {"ready"})
    BY DEF BC, Count, Standing, BCustomers, Barbershops!Customers
  <2> QED
    BY <1>5, <2>1, BarberCounted DEF BC
<1> QED
  BY <1>1, <1>2, <1>3, <1>4, <1>5, <1>6, <1>7

LEMMA QueueBarberKeeps ==
  ASSUME BarberInv, program = "barbershop_2", program' = program, Barbershops!barber2
  PROVE  BarberTyped' /\ ChairByQueue' /\ Visited
<1> DEFINE ViewsNext == QueueViews(Barbershops!waiting', Barbershops!in_chair',
                                   Barbershops!shorn', pc', sem', called')
<1>0. BarberTyped /\ ChairByQueue
  BY DEF BarberInv
<1>v. QueueViews(Barbershops!waiting, Barbershops!in_chair, Barbershops!shorn, pc, sem, called)
  BY <1>0, QueueViewsHold DEF ChairByQueue
<1>w. ASSUME CustomersStand({"start", "ready", "sit", "done", "ack", "leave"})'
      PROVE  ViewsNext
  BY <1>w, QueueViewsHoldNext
<1>p. QueueLine /\ QueueTokens /\ QueueCounted /\ QueueRest
  BY <1>0 DEF ChairByQueue
<1>q. ASSUME QueueLine', QueueTokens', QueueCounted', QueueRest',
             CustomersStand({"start", "ready", "sit", "done", "ack", "leave"})',
             pc'[Barber] \in {"start", "pop", "call", "cut", "wait"}
      PROVE  ChairByQueue'
  BY <1>q DEF ChairByQueue
<1>s. /\ sem \in [BSems -> Nat] /\ BCustomers \subseteq BSems
      /\ Chair \in BSems /\ Barbershops!haircut_request \in BSems
      /\ Barbershops!done_haircut \in BSems /\ Barbershops!customer_ready \in BSems
      /\ Barbershops!barber_done \in BSems /\ Barbershops!customer_done \in BSems
      /\ queue \in Seq(BCustomers)
      /\ called \in Barbershops!ShopThreads /\ barber_chair_free \in BOOLEAN
      /\ n_customers = Count(BCustomers, pc, Inside)
  BY <1>0, QueueSemaphores DEF BarberTyped
<1>t. ASSUME NEW from, NEW to, Barbershops!Goto(Barber, from, to),
             to \in {"start", "pop", "call", "cut", "wait"},
             n_customers' = n_customers, barber_chair_free' = barber_chair_free,
             sem' \in [BSems -> Nat], queue' \in Seq(BCustomers),
             called' \in Barbershops!ShopThreads
      PROVE  BarberTyped'
  <2>1. /\ pc' \in [Barbershops!ShopThreads ->
                       Inside \cup {"start", "stand", "pop", "call", "wait"}]
        /\ Count(BCustomers, pc', Inside) = Count(BCustomers, pc, Inside)
    BY <1>0, <1>t, QueueBarberGoes
  <2> QED
    BY <1>s, <1>t, <2>1 DEF BarberTyped
<1>c. /\ sem[Barbershops!customer_ready] + BarberIs("pop") + BC("ready") = Len(queue)
      /\ sem[Barbershops!customer_ready] \in Nat
  BY <1>p, <1>s DEF QueueCounted
<1>2. CASE Barbershops!NextCustomer
  <2>1. /\ Barbershops!Goto(Barber, "pop", "call") /\ UNCHANGED sem
        /\ called' = Head(queue) /\ queue' = Tail(queue)
        /\ UNCHANGED <<n_customers, barber_chair_free>>
    BY <1>2 DEF Barbershops!NextCustomer, Barbershops!Move, Barber
  <2>2. /\ pc[Barber] = "pop" /\ pc'[Barber] = "call"
        /\ \A d \in BCustomers : pc'[d] = pc[d]
        /\ \A L : Standing(BCustomers, pc', L) = Standing(BCustomers, pc, L)
        /\ CustomersStand({"start", "ready", "sit", "done", "ack", "leave"})'
        /\ BC("ready")' = BC("ready") /\ BC("ready") \in Nat
    BY <1>0, <2>1, QueueBarberGoes
  <2>3. ~Attended /\ Attended'
    BY <2>2 DEF Attended
  <2>4. queue # << >> /\ Len(queue) \in Nat
    <3>1. Len(queue) # 0
      BY <1>c, <2>2 DEF BarberIs
    <3> QED
      BY <1>s, <3>1
  <2>5. /\ Tail(queue) \in Seq(BCustomers) /\ Len(Tail(queue)) = Len(queue) - 1
        /\ Head(queue) \in Elements(queue)
        /\ Elements(Tail(queue)) = Elements(queue) \ {Head(queue)}
        /\ Distinct(Tail(queue))
    BY <1>p, <1>s, <2>4, TailElements DEF QueueLine
  <2>6. Head(queue) \in BCustomers
    BY <1>s, <2>5, ElementsIn
  <2>7. BarberTyped'
    BY <1>s, <1>t, <2>1, <2>5, <2>6, BarbersApart
  <2>8. QueueLine'
    <3>1. \A d \in BCustomers : pc[d] \in InShop <=> d \in Elements(queue)
      BY <1>p, <2>3 DEF QueueLine
    <3>2. Elements(queue)' = Elements(queue) \ {Head(queue)} /\ Distinct(queue)'
      BY <2>1, <2>5 DEF Elements, Distinct
    <3> QED
      BY <2>1, <2>2, <2>3, <2>5, <2>6, <3>1, <3>2 DEF QueueLine, InShop
  <2>9. QueueTokens'
    <3>1. \A d \in BCustomers : pc[d] \notin {"done", "ack"}
      BY <1>p, <2>3 DEF QueueTokens
    <3>2. \A d \in BCustomers : sem[d] = 0
      BY <1>p, <2>3 DEF QueueTokens
    <3>3. sem[Barbershops!barber_done] = 0 /\ sem[Barbershops!customer_done] = 0
      BY <1>p, <2>2, <2>3 DEF QueueTokens
    <3> QED
      BY <2>1, <2>2, <2>3, <2>6, <3>1, <3>2, <3>3 DEF QueueTokens,
         Barbershops!barber_done, Barbershops!customer_done
  <2>10. QueueCounted'
    <3>1. BarberIs("pop") = 1 /\ BarberIs("pop")' = 0
      BY <2>2 DEF BarberIs
    <3>2. Len(queue') = Len(queue) - 1
      BY <2>1, <2>5
    <3>3. sem' = sem
      BY <2>1
    <3> QED
      BY <1>c, <2>2, <2>4, <3>1, <3>2, <3>3 DEF QueueCounted, Barbershops!customer_ready
  <2>11. ChairByQueue'
    <3>1. QueueRest'
      BY <1>p, <2>1 DEF QueueRest
    <3> QED
      BY <1>q, <2>2, <2>8, <2>9, <2>10, <3>1
  <2>12. ViewsNext
    BY <1>w, <2>2
  <2>13. /\ Barbershops!in_chair' = Barbershops!in_chair
         /\ Barbershops!shorn' = Barbershops!shorn
    BY <1>v, <2>1, <2>2, <2>12 DEF QueueViews
  <2>14. Barbershops!waiting' = Barbershops!waiting
    BY <1>v, <2>2, <2>12, <2>13 DEF QueueViews
  <2> QED
    BY <2>7, <2>11, <2>13, <2>14 DEF Visited, Visits
<1>3. CASE /\ Barbershops!acquire(Barber, Barbershops!customer_ready, "start", "pop")
           /\ UNCHANGED Barbershops!shopVars
  <2>1. /\ Barbershops!Goto(Barber, "start", "pop")
        /\ sem[Barbershops!customer_ready] > 0
        /\ sem' = [sem EXCEPT ![Barbershops!customer_ready] = @ - 1]
        /\ UNCHANGED <<called, n_customers, queue, barber_chair_free>>
    BY <1>3 DEF Barbershops!acquire, Barbershops!shopVars
  <2>2. /\ pc[Barber] = "start" /\ pc'[Barber] = "pop"
        /\ \A d \in BCustomers : pc'[d] = pc[d]
        /\ \A L : Standing(BCustomers, pc', L) = Standing(BCustomers, pc, L)
        /\ CustomersStand({"start", "ready", "sit", "done", "ack", "leave"})'
        /\ BC("ready")' = BC("ready") /\ BC("ready") \in Nat
    BY <1>0, <2>1, QueueBarberGoes
  <2>s. /\ sem' \in [BSems -> Nat]
        /\ \A s \in BSems : s # Barbershops!customer_ready => sem'[s] = sem[s]
        /\ sem'[Barbershops!customer_ready] = sem[Barbershops!customer_ready] - 1
    BY <1>s, <2>1
  <2>t. /\ \A d \in BCustomers : sem'[d] = sem[d]
        /\ sem'[Barbershops!barber_done] = sem[Barbershops!barber_done]
        /\ sem'[Barbershops!customer_done] = sem[Barbershops!customer_done]
        /\ \A s \in {Chair, Barbershops!haircut_request, Barbershops!done_haircut} :
             sem'[s] = sem[s]
    BY <1>s, <2>s, BarbersApart
  <2>3. ~Attended /\ ~Attended'
    BY <2>2 DEF Attended
  <2>7. BarberTyped'
    BY <1>s, <1>t, <2>1, <2>s
  <2>8. QueueLine'
    BY <1>p, <2>1, <2>2, <2>3 DEF QueueLine, InShop
  <2>9. QueueTokens'
    BY <1>p, <2>1, <2>2, <2>3, <2>t DEF QueueTokens, Barbershops!barber_done,
       Barbershops!customer_done
  <2>10. QueueCounted'
    <3>1. BarberIs("pop") = 0 /\ BarberIs("pop")' = 1
      BY <2>2 DEF BarberIs
    <3> QED
      BY <1>c, <2>1, <2>2, <2>s, <3>1 DEF QueueCounted, Barbershops!customer_ready
  <2>11. ChairByQueue'
    <3>1. QueueRest'
      BY <1>p, <2>1, <2>t DEF QueueRest
    <3> QED
      BY <1>q, <2>2, <2>8, <2>9, <2>10, <3>1
  <2>12. ViewsNext
    BY <1>w, <2>2
  <2>13. /\ Barbershops!in_chair' = Barbershops!in_chair
         /\ Barbershops!shorn' = Barbershops!shorn
    BY <1>v, <2>1, <2>2, <2>12 DEF QueueViews
  <2>14. Barbershops!waiting' = Barbershops!waiting
    BY <1>v, <2>2, <2>12, <2>13 DEF QueueViews
  <2> QED
    BY <2>7, <2>11, <2>13, <2>14 DEF Visited, Visits
<1>4. CASE Barbershops!release(Barber, called, 1, "call", "cut") /\ UNCHANGED Barbershops!shopVars
  <2>1. /\ Barbershops!Goto(Barber, "call", "cut")
        /\ sem' = [sem EXCEPT ![called] = @ + 1]
        /\ UNCHANGED <<called, n_customers, queue, barber_chair_free>>
    BY <1>4 DEF Barbershops!release, Barbershops!shopVars
  <2>2. /\ pc[Barber] = "call" /\ pc'[Barber] = "cut"
        /\ \A d \in BCustomers : pc'[d] = pc[d]
        /\ \A L : Standing(BCustomers, pc', L) = Standing(BCustomers, pc, L)
        /\ CustomersStand({"start", "ready", "sit", "done", "ack", "leave"})'
        /\ BC("ready")' = BC("ready") /\ BC("ready") \in Nat
    BY <1>0, <2>1, QueueBarberGoes
  <2>3. Attended /\ Attended'
    BY <2>2 DEF Attended
  <2>4. /\ called \in BCustomers /\ pc[called] \in {"ready", "sit"}
        /\ sem[called] = 0
    <3>1. called \in BCustomers /\ pc[called] \in InShop
      BY <1>p, <2>3 DEF QueueLine
    <3> QED
      BY <1>p, <2>2, <3>1 DEF QueueTokens, InShop
  <2>s. /\ sem' \in [BSems -> Nat]
        /\ \A s \in BSems : s # called => sem'[s] = sem[s]
        /\ sem'[called] = 1
    BY <1>s, <2>1, <2>4
  <2>t. /\ \A d \in BCustomers : sem'[d] = IF d = called THEN 1 ELSE sem[d]
        /\ sem'[Barbershops!barber_done] = sem[Barbershops!barber_done]
        /\ sem'[Barbershops!customer_done] = sem[Barbershops!customer_done]
        /\ sem'[Barbershops!customer_ready] = sem[Barbershops!customer_ready]
        /\ \A s \in {Chair, Barbershops!haircut_request, Barbershops!done_haircut} :
             sem'[s] = sem[s]
    BY <1>s, <2>4, <2>s, BarbersApart
  <2>7. BarberTyped'
    BY <1>s, <1>t, <2>1, <2>s
  <2>8. QueueLine'
    BY <1>p, <2>1, <2>2, <2>3 DEF QueueLine, InShop
  <2>9. QueueTokens'
    <3>1. \A d \in BCustomers : pc'[d] \in {"done", "ack"} => d = called
      BY <1>p, <2>2 DEF QueueTokens
    <3>2. \A d \in BCustomers :
            sem'[d] = IF d = called /\ pc'[d] \in {"ready", "sit"} THEN 1 ELSE 0
      BY <1>p, <2>2, <2>4, <2>t DEF QueueTokens
    <3>3. sem[Barbershops!barber_done] = 0 /\ sem[Barbershops!customer_done] = 0
      BY <1>p, <2>2 DEF QueueTokens
    <3> QED
      BY <2>1, <2>2, <2>3, <2>4, <2>t, <3>1, <3>2, <3>3 DEF QueueTokens,
         Barbershops!barber_done, Barbershops!customer_done
  <2>10. QueueCounted'
    <3>1. BarberIs("pop") = 0 /\ BarberIs("pop")' = 0
      BY <2>2 DEF BarberIs
    <3> QED
      BY <1>c, <2>1, <2>2, <2>t, <3>1 DEF QueueCounted, Barbershops!customer_ready
  <2>11. ChairByQueue'
    <3>1. QueueRest'
      BY <1>p, <2>1, <2>t DEF QueueRest
    <3> QED
      BY <1>q, <2>2, <2>8, <2>9, <2>10, <3>1
  <2>12. ViewsNext
    BY <1>w, <2>2
  <2>13. /\ called \in Standing(BCustomers, pc, {"sit", "ready", "done"})
         /\ called \notin Standing(BCustomers, pc, {"ack", "leave"})
    BY <2>4 DEF Standing
  <2>14. /\ Barbershops!in_chair = {} /\ Barbershops!in_chair' = {called}
         /\ Barbershops!shorn = Standing(BCustomers, pc, {"ack", "leave"})
         /\ Barbershops!shorn' = Standing(BCustomers, pc, {"ack", "leave"})
    BY <1>v, <2>1, <2>2, <2>12 DEF QueueViews
  <2>15. called \in Barbershops!waiting /\ Barbershops!waiting' = Barbershops!waiting \ {called}
    BY <1>v, <2>2, <2>12, <2>13, <2>14 DEF QueueViews
  <2> QED
    BY <2>4, <2>7, <2>11, <2>14, <2>15 DEF Visited, Visits, BeginsCut
<1>5. CASE /\ Barbershops!release(Barber, Barbershops!barber_done, 1, "cut", "wait")
           /\ UNCHANGED Barbershops!shopVars
  <2>1. /\ Barbershops!Goto(Barber, "cut", "wait")
        /\ sem' = [sem EXCEPT ![Barbershops!barber_done] = @ + 1]
        /\ UNCHANGED <<called, n_customers, queue, barber_chair_free>>
    BY <1>5 DEF Barbershops!release, Barbershops!shopVars
  <2>2. /\ pc[Barber] = "cut" /\ pc'[Barber] = "wait"
        /\ \A d \in BCustomers : pc'[d] = pc[d]
        /\ \A L : Standing(BCustomers, pc', L) = Standing(BCustomers, pc, L)
        /\ CustomersStand({"start", "ready", "sit", "done", "ack", "leave"})'
        /\ BC("ready")' = BC("ready") /\ BC("ready") \in Nat
    BY <1>0, <2>1, QueueBarberGoes
  <2>3. Attended
    BY <2>2 DEF Attended
  <2>4. /\ called \in BCustomers /\ pc[called] \in {"ready", "sit", "done"}
        /\ sem[Barbershops!barber_done] = 0 /\ sem[Barbershops!customer_done] = 0
    <3>1. called \in BCustomers /\ pc[called] \in InShop
      BY <1>p, <2>3 DEF QueueLine
    <3> QED
      BY <1>p, <2>2, <3>1 DEF QueueTokens, InShop
  <2>s. /\ sem' \in [BSems -> Nat]
        /\ \A s \in BSems : s # Barbershops!barber_done => sem'[s] = sem[s]
        /\ sem'[Barbershops!barber_done] = 1
    BY <1>s, <2>1, <2>4
  <2>t. /\ \A d \in BCustomers : sem'[d] = sem[d]
        /\ sem'[Barbershops!customer_done] = 0
        /\ sem'[Barbershops!customer_ready] = sem[Barbershops!customer_ready]
        /\ \A s \in {Chair, Barbershops!haircut_request, Barbershops!done_haircut} :
             sem'[s] = sem[s]
    BY <1>s, <2>4, <2>s, BarbersApart
  <2>5. Attended'
    BY <2>2, <2>t DEF Attended, Barbershops!customer_done
  <2>7. BarberTyped'
    BY <1>s, <1>t, <2>1, <2>s
  <2>8. QueueLine'
    BY <1>p, <2>1, <2>2, <2>3, <2>5 DEF QueueLine, InShop
  <2>9. QueueTokens'
    <3>1. \A d \in BCustomers : pc'[d] \in {"done", "ack"} => d = called
      BY <1>p, <2>2 DEF QueueTokens
    <3>2. \A d \in BCustomers :
            sem'[d] = IF d = called /\ pc'[d] \in {"ready", "sit"} THEN 1 ELSE 0
      BY <1>p, <2>2, <2>3, <2>t DEF QueueTokens
    <3> QED
      BY <2>1, <2>2, <2>4, <2>5, <2>s, <2>t, <3>1, <3>2 DEF QueueTokens,
         Barbershops!barber_done, Barbershops!customer_done
  <2>10. QueueCounted'
    <3>1. BarberIs("pop") = 0 /\ BarberIs("pop")' = 0
      BY <2>2 DEF BarberIs
    <3> QED
      BY <1>c, <2>1, <2>2, <2>t, <3>1 DEF QueueCounted, Barbershops!customer_ready
  <2>11. ChairByQueue'
    <3>1. QueueRest'
      BY <1>p, <2>1, <2>t DEF QueueRest
    <3> QED
      BY <1>q, <2>2, <2>8, <2>9, <2>10, <3>1
  <2>12. ViewsNext
    BY <1>w, <2>2
  <2>13. called \in Standing(BCustomers, pc, {"ready", "sit", "done"})
    BY <2>4 DEF Standing
  <2>14. /\ Barbershops!in_chair = {called} /\ Barbershops!in_chair' = {}
         /\ Barbershops!shorn = Standing(BCustomers, pc, {"ack", "leave"})
         /\ Barbershops!shorn' = Standing(BCustomers, pc, {"ack", "leave"}) \cup {called}
    BY <1>v, <2>1, <2>2, <2>12, <2>13, <2>t DEF QueueViews
  <2>15. Barbershops!waiting' = Barbershops!waiting
    BY <1>v, <2>2, <2>12, <2>14 DEF QueueViews
  <2> QED
    BY <2>4, <2>7, <2>11, <2>14, <2>15 DEF Visited, Visits, EndsCut
<1>6. CASE Barbershops!AwaitCustomer /\ UNCHANGED Barbershops!shopVars
  <2>1. /\ Barbershops!Goto(Barber, "wait", "start")
        /\ sem[Barbershops!customer_done] > 0
        /\ sem' = [sem EXCEPT ![Barbershops!customer_done] = @ - 1]
        /\ UNCHANGED <<called, n_customers, queue, barber_chair_free>>
    BY <1>6 DEF Barbershops!AwaitCustomer, Barbershops!acquire, Barbershops!shopVars, Barber
  <2>2. /\ pc[Barber] = "wait" /\ pc'[Barber] = "start"
        /\ \A d \in BCustomers : pc'[d] = pc[d]
        /\ \A L : Standing(BCustomers, pc', L) = Standing(BCustomers, pc, L)
        /\ CustomersStand({"start", "ready", "sit", "done", "ack", "leave"})'
        /\ BC("ready")' = BC("ready") /\ BC("ready") \in Nat
    BY <1>0, <2>1, QueueBarberGoes
  <2>4. sem[Barbershops!customer_done] = 1
    BY <1>p, <2>1 DEF QueueTokens
  <2>3. ~Attended /\ ~Attended'
    BY <2>2, <2>4 DEF Attended
  <2>s. /\ sem' \in [BSems -> Nat]
        /\ \A s \in BSems : s # Barbershops!customer_done => sem'[s] = sem[s]
        /\ sem'[Barbershops!customer_done] = 0
    BY <1>s, <2>1, <2>4
  <2>t. /\ \A d \in BCustomers : sem'[d] = sem[d]
        /\ sem'[Barbershops!barber_done] = sem[Barbershops!barber_done]
        /\ sem'[Barbershops!customer_ready] = sem[Barbershops!customer_ready]
        /\ \A s \in {Chair, Barbershops!haircut_request, Barbershops!done_haircut} :
             sem'[s] = sem[s]
    BY <1>s, <2>s, BarbersApart
  <2>7. BarberTyped'
    BY <1>s, <1>t, <2>1, <2>s
  <2>8. QueueLine'
    BY <1>p, <2>1, <2>2, <2>3 DEF QueueLine, InShop
  <2>9. QueueTokens'
    BY <1>p, <2>1, <2>2, <2>3, <2>s, <2>t DEF QueueTokens, Barbershops!barber_done,
       Barbershops!customer_done
  <2>10. QueueCounted'
    <3>1. BarberIs("pop") = 0 /\ BarberIs("pop")' = 0
      BY <2>2 DEF BarberIs
    <3> QED
      BY <1>c, <2>1, <2>2, <2>t, <3>1 DEF QueueCounted, Barbershops!customer_ready
  <2>11. ChairByQueue'
    <3>1. QueueRest'
      BY <1>p, <2>1, <2>t DEF QueueRest
    <3> QED
      BY <1>q, <2>2, <2>8, <2>9, <2>10, <3>1
  <2>12. ViewsNext
    BY <1>w, <2>2
  <2>13. /\ Barbershops!in_chair' = Barbershops!in_chair
         /\ Barbershops!shorn' = Barbershops!shorn
    BY <1>v, <2>1, <2>2, <2>4, <2>12 DEF QueueViews
  <2>14. Barbershops!waiting' = Barbershops!waiting
    BY <1>v, <2>2, <2>12, <2>13 DEF QueueViews
  <2> QED
    BY <2>7, <2>11, <2>13, <2>14 DEF Visited, Visits
<1> QED
  BY <1>2, <1>3, <1>4, <1>5, <1>6 DEF Barbershops!barber2, Barber

LEMMA BarberKeeps ==
  ASSUME BarberInv, InBarbershop, BarberNext, program' = program
  PROVE  BarberInv' /\ Visited
<1>1. CASE program = "barbershop_0"
  BY <1>1, MutexKeeps
<1>2. PICK t \in Barbershops!ShopThreads : Barbershops!Step(t)
  BY DEF BarberNext
<1>3. CASE program = "barbershop_1"
  <2>1. IF t = Barber THEN Barbershops!barber1 ELSE Barbershops!customer1(t)
    BY <1>2, <1>3 DEF Barbershops!Step, Barber
  <2>2. BarberTyped' /\ ChairBySemaphore' /\ Visited
    BY <1>2, <1>3, <2>1, BarbersApart, SemaphoreBarberKeeps, SemaphoreCustomerKeeps
  <2> QED
    BY <1>3, <2>2 DEF BarberInv
<1>4. CASE program = "barbershop_2"
  <2>1. IF t = Barber THEN Barbershops!barber2 ELSE Barbershops!customer2(t)
    BY <1>2, <1>4 DEF Barbershops!Step, Barber
  <2>2. BarberTyped' /\ ChairByQueue' /\ Visited
    BY <1>2, <1>4, <2>1, BarbersApart, QueueBarberKeeps, QueueCustomerKeeps
  <2> QED
    BY <1>4, <2>2 DEF BarberInv
<1> QED
  BY <1>1, <1>3, <1>4 DEF InBarbershop

LEMMA BarberIdles ==
  ASSUME BarberInv, UNCHANGED allVars
  PROVE  BarberInv' /\ Visited
<1>1. UNCHANGED <<program, pc, sem, n_customers, queue, called, barber_chair_free>>
  BY DEF allVars, threadVars, shopVars, barbersOnly
<1>2. BarberInv'
  BY <1>1 DEF BarberInv, BarberTyped, ChairByMutex, ChairBySemaphore, ChairByQueue,
     CustomersStand, BarberIs, BC, Attended, QueueLine, QueueTokens, QueueCounted, QueueRest
<1>3. /\ Barbershops!in_chair' = Barbershops!in_chair
      /\ Barbershops!shorn' = Barbershops!shorn
  BY <1>1 DEF Barbershops!in_chair, Barbershops!shorn, Barbershops!CustomersAt
<1>4. Barbershops!waiting' = Barbershops!waiting
  BY <1>1, <1>3 DEF Barbershops!waiting, Barbershops!CustomersAt
<1> QED
  BY <1>2, <1>3, <1>4 DEF Visited, Visits

LEMMA BarberInvHolds == MCSpec => [](InBarbershop => BarberInv)
<1>1. MCInit => (InBarbershop => BarberInv)
  BY Starts, BarberStarts
<1>2. (InBarbershop => BarberInv) /\ [MCNext]_allVars => (InBarbershop => BarberInv)'
  <2> SUFFICES ASSUME InBarbershop => BarberInv, [MCNext]_allVars, InBarbershop'
               PROVE  BarberInv'
    OBVIOUS
  <2>1. program' = program /\ InBarbershop
    BY OneProgram DEF InBarbershop
  <2>2. UNCHANGED allVars \/ BarberNext
    BY <2>1, OneProgram DEF InPot, InSmokers, InPushers, InBoard, InBarbershop,
       InHilzer, InNorth
  <2> QED
    BY <2>1, <2>2, BarberKeeps, BarberIdles
<1> QED
  BY <1>1, <1>2, PTL DEF MCSpec

(* The three barbershops implement the shop of problems.md, for any number *)
(* of customers and chairs.                                                *)
THEOREM ShopRefined == MCSpec => RefinesShop
<1>1. MCInit => ShopOf!ShopInit
  <2> SUFFICES ASSUME MCInit, InBarbershop
               PROVE  /\ Barbershops!waiting = {} /\ Barbershops!in_chair = {}
                      /\ Barbershops!shorn = {}
    BY DEF ShopOf!ShopInit
  <2>1. BarberInv /\ n_customers = 0
    BY Starts, BarberStarts DEF Barbershops!Init, Barbershops!ShopIdle
  <2>2. Count(BCustomers, pc, Inside) = 0
    BY <2>1 DEF BarberInv, BarberTyped
  <2>3. \A c \in BCustomers : pc[c] \notin Inside
    BY <2>2, CountZero, BarbersApart
  <2>4. Standing(BCustomers, pc, Inside) = {}
    BY <2>3 DEF Standing
  <2> QED
    BY <2>1, <2>4, InsideCounted
<1>2. (InBarbershop => BarberInv) /\ [MCNext]_allVars => [ShopOf!ShopNext]_ShopOf!shopVars
  <2> SUFFICES ASSUME InBarbershop => BarberInv, [MCNext]_allVars
               PROVE  [ShopOf!ShopNext]_ShopOf!shopVars
    OBVIOUS
  <2>1. program' = program /\ (InBarbershop' <=> InBarbershop)
    BY OneProgram DEF InBarbershop
  <2>2. CASE ~InBarbershop
    BY <2>1, <2>2 DEF ShopOf!shopVars
  <2>3. CASE InBarbershop
    <3>1. UNCHANGED allVars \/ BarberNext
      BY <2>3, OneProgram DEF InPot, InSmokers, InPushers, InBoard, InBarbershop,
         InHilzer, InNorth
    <3>2. Visited
      BY <2>1, <2>3, <3>1, BarberKeeps, BarberIdles
    <3>3. CASE /\ Barbershops!in_chair' = Barbershops!in_chair
               /\ Barbershops!shorn' = Barbershops!shorn
               /\ Barbershops!waiting' = Barbershops!waiting
      BY <2>1, <2>3, <3>3 DEF ShopOf!shopVars
    <3>4. ASSUME NEW c \in BCustomers,
                 Enters(c, Barbershops!waiting, Barbershops!in_chair, Barbershops!shorn,
                        Barbershops!waiting', Barbershops!in_chair', Barbershops!shorn')
          PROVE  ShopOf!Enter(c)
      BY <2>1, <2>3, <3>4 DEF Enters, ShopOf!Enter, ShopOf!inside, ShopOf!Cardinality,
         Cardinality
    <3>5. ASSUME NEW c \in BCustomers,
                 BeginsCut(c, Barbershops!waiting, Barbershops!in_chair, Barbershops!shorn,
                           Barbershops!waiting', Barbershops!in_chair', Barbershops!shorn')
          PROVE  ShopOf!BeginCut(c)
      BY <2>1, <2>3, <3>5 DEF BeginsCut, ShopOf!BeginCut
    <3>6. ASSUME NEW c \in BCustomers,
                 EndsCut(c, Barbershops!waiting, Barbershops!in_chair, Barbershops!shorn,
                         Barbershops!waiting', Barbershops!in_chair', Barbershops!shorn')
          PROVE  ShopOf!EndCut(c)
      BY <2>1, <2>3, <3>6 DEF EndsCut, ShopOf!EndCut
    <3>7. ASSUME NEW c \in BCustomers,
                 Leaves(c, Barbershops!waiting, Barbershops!in_chair, Barbershops!shorn,
                        Barbershops!waiting', Barbershops!in_chair', Barbershops!shorn')
          PROVE  ShopOf!Leave(c)
      BY <2>1, <2>3, <3>7 DEF Leaves, ShopOf!Leave
    <3> QED
      BY <3>2, <3>3, <3>4, <3>5, <3>6, <3>7 DEF Visited, Visits, ShopOf!ShopNext, BCustomers
  <2> QED
    BY <2>2, <2>3
<1> QED
  BY <1>1, <1>2, BarberInvHolds, PTL DEF MCSpec, RefinesShop, ShopOf!ShopSpec

(* In the barbershops no binary semaphore is released above one.           *)
LEMMA BarberSemaphores ==
  ASSUME BarberInv, InBarbershop
  PROVE  /\ \A s \in Barbershops!binary : sem[s] <= 1
         /\ sem[Chair] = 1 => barber_chair_free
<1>1. BC("cut") \in Nat /\ BC("request") \in Nat /\ BC("done") \in Nat
      /\ BC("leave") \in Nat /\ BC("stand") \in Nat
  BY BarberCounted DEF BC
<1>2. /\ sem[Chair] \in Nat /\ sem[Barbershops!haircut_request] \in Nat
      /\ sem[Barbershops!done_haircut] \in Nat
  BY QueueSemaphores DEF BarberInv
<1>3. CASE program = "barbershop_0"
  <2>1. ChairByMutex
    BY <1>3 DEF BarberInv
  <2>2. sem[Chair] <= 1
    BY <1>1, <1>2, <2>1 DEF ChairByMutex
  <2> QED
    BY <2>1, <2>2 DEF ChairByMutex
<1>4. CASE program = "barbershop_1"
  <2>1. ChairBySemaphore
    BY <1>4 DEF BarberInv
  <2>2. sem[Chair] + BC("request") + BC("done") + BC("leave") + BC("stand") = 1
    BY <2>1 DEF ChairBySemaphore
  <2>3. sem[Chair] <= 1 /\ BC("done") \in {0, 1}
    BY <1>1, <1>2, <2>2
  <2>4. /\ sem[Barbershops!haircut_request] + BarberIs("cut")
             + sem[Barbershops!done_haircut] = BC("done")
        /\ BarberIs("cut") \in {0, 1}
    BY <2>1 DEF ChairBySemaphore, BarberIs
  <2>5. sem[Barbershops!haircut_request] <= 1 /\ sem[Barbershops!done_haircut] <= 1
    <3>1. ASSUME NEW a \in Nat, NEW b \in {0, 1}, NEW d \in Nat, NEW n \in {0, 1},
                 a + b + d = n
          PROVE  a <= 1 /\ d <= 1
      BY <3>1
    <3> QED
      BY <1>2, <2>3, <2>4, <3>1
  <2>6. \A s \in Barbershops!binary \ {Chair, Barbershops!haircut_request,
                                        Barbershops!done_haircut} : sem[s] = 0
    BY <2>1 DEF ChairBySemaphore
  <2> QED
    BY <2>1, <2>3, <2>5, <2>6 DEF ChairBySemaphore
<1>5. CASE program = "barbershop_2"
  <2>1. QueueTokens /\ QueueRest
    BY <1>5 DEF BarberInv, ChairByQueue
  <2>2. \A s \in BCustomers : sem[s] <= 1
    BY <2>1 DEF QueueTokens
  <2>3. sem[Barbershops!barber_done] <= 1 /\ sem[Barbershops!customer_done] <= 1
    BY <2>1 DEF QueueTokens
  <2>4. /\ sem[Chair] = 1 /\ barber_chair_free = TRUE
        /\ sem[Barbershops!haircut_request] = 0 /\ sem[Barbershops!done_haircut] = 0
    BY <2>1 DEF QueueRest
  <2> QED
    BY <2>2, <2>3, <2>4 DEF Barbershops!binary, Chair, BCustomers
<1> QED
  BY <1>3, <1>4, <1>5 DEF InBarbershop

-----------------------------------------------------------------------------
(* Hilzer's barbershop.  f stands for pc, m for sem, nx for next, p for    *)
(* sofa_queue, q for standing_queue and a for ahead.                       *)

HT == Hilzer!HilzerThreads
HB == Hilzer!BarberThreads
HU == Hilzer!UsherThreads
HC == Hilzer!CustomerThreads
St(c) == Hilzer!sofa_ticket(c)
Ct(c) == Hilzer!cut_ticket(c)

HNamed ==
  {Hilzer!global_mtx, Hilzer!sofa_mtx, Hilzer!register_mtx, Hilzer!has_space_on_sofa,
   Hilzer!customer_standing, Hilzer!customer_on_sofa, Hilzer!payment_ready,
   Hilzer!receipt_ready}
HSems == HNamed \cup Hilzer!Tickets

HAt ==
  {"left out", "start", "pop", "call", "meet", "met", "cut", "register", "receipt",
   "space", "standing", "sofa", "seated", "signal", "wait", "up", "ready", "in_chair",
   "pay", "paid", "leave"}

HTyped(f, m, nx, p, q, a) ==
  /\ f \in [HT -> HAt] /\ m \in [HSems -> Nat]
  /\ nx \in [HU \cup HB -> HT]
  /\ p \in Seq(HC) /\ q \in Seq(HC)
  /\ a \in [HC -> SUBSET HC]

(* A binary semaphore as a mutex: while it is free nobody of S is at L.    *)
Mutex(m, s, S, f, L) ==
  /\ m[s] \in {0, 1}
  /\ m[s] = 1 => \A t \in S : f[t] \notin L
  /\ \A t, u \in S : f[t] \in L /\ f[u] \in L => t = u

Calling == {"call", "meet", "met"}
Paying == {"pay", "paid", "receipt"}

HMutexes(f, m) ==
  /\ Mutex(m, Hilzer!global_mtx, HU, f, Calling)
  /\ Mutex(m, Hilzer!sofa_mtx, HB, f, Calling)
  /\ Mutex(m, Hilzer!register_mtx, HC, f, Paying)

(* A payment has one receipt.                                              *)
HRegister(f, m) ==
  Count(HC, f, {"paid"})
    = m[Hilzer!payment_ready] + Count(HB, f, {"receipt"}) + m[Hilzer!receipt_ready]

(* Customers that nobody has popped are in the standing queue.             *)
HStanding(f, m, q) ==
  m[Hilzer!customer_standing] + Count(HU, f, {"space", "pop"}) = Len(q)

(* The sofa ticket holds a token while an usher waits for it, except from  *)
(* the moment that the customer has taken the usher's to that at which it  *)
(* has sat down.                                                           *)
UsherMeets(c, f, nx) == \E u \in HU : f[u] = "meet" /\ nx[u] = c

SofaTickets(f, m, nx) ==
  \A c \in HC :
    m[St(c)] = IF f[c] \notin {"sofa", "seated"} /\ UsherMeets(c, f, nx) THEN 1 ELSE 0

HLine(f, m, nx, q) ==
  /\ Distinct(q)
  /\ \A c \in Elements(q) : f[c] = "standing"
  /\ \A u \in HU : f[u] = "call" => f[nx[u]] = "standing"
  /\ \A u \in HU : f[u] = "meet" => f[nx[u]] # "start"
  /\ \A u \in HU : f[u] \in {"call", "meet"} => nx[u] \in HC /\ nx[u] \notin Elements(q)
  /\ \A c \in HC : f[c] \in {"sofa", "seated"} => UsherMeets(c, f, nx)
  /\ SofaTickets(f, m, nx)

(* A place on the sofa is free, taken, or on its way from an usher to a    *)
(* customer; it is lost when the usher takes its own token.                *)
OnSofa == {"sofa", "seated", "signal", "wait", "up"}

HReserved(f, nx) == IF \E u \in HU : f[u] = "meet" /\ f[nx[u]] = "standing" THEN 1 ELSE 0

HPlaces(f, m, nx) ==
  m[Hilzer!has_space_on_sofa] + Count(HC, f, OnSofa) + Count(HU, f, {"pop", "call"})
    + HReserved(f, nx) <= SOFA_CAPACITY

(* The cut ticket holds a token from the moment that the barber has called *)
(* to that at which the customer gets up, and from that at which it sits   *)
(* in the chair to the next; not while the barber has taken it.            *)
Seated == {"seated", "signal", "wait"}
Expected == Seated \cup {"in_chair"}
InHand == {"call", "meet", "met", "cut"}
Keeping == {"call", "met", "cut"}

BarberHas(c, f, nx) == \E b \in HB : f[b] \in Keeping /\ nx[b] = c

CutTickets(f, m, nx, p) ==
  \A c \in HC :
    m[Ct(c)] = IF f[c] \in Expected /\ c \notin Elements(p) /\ ~BarberHas(c, f, nx)
               THEN 1 ELSE 0

HChair(f, m, nx, p) ==
  /\ Distinct(p)
  /\ \A c \in Elements(p) : f[c] \in Seated
  /\ \A b \in HB : f[b] \in InHand => nx[b] \in HC /\ nx[b] \notin Elements(p)
  /\ \A b \in HB : f[b] = "call" => f[nx[b]] \in Seated
  /\ \A b \in HB : f[b] \in {"met", "cut"} => f[nx[b]] \in Expected
  /\ \A b, d \in HB : f[b] \in InHand /\ f[d] \in InHand /\ nx[b] = nx[d] => b = d
  /\ CutTickets(f, m, nx, p)

(* Whoever has left the standing queue for the sofa is ahead of those who  *)
(* stand and behind those on the sofa.                                     *)
Ordered(s, a) == \A i, j \in 1..Len(s) : i < j => s[i] \in a[s[j]]

Calls(u, f, nx) == f[u] \in {"call", "meet"} /\ f[nx[u]] \in {"standing", "sofa"}

HOrder(f, nx, p, q, a) ==
  /\ Ordered(p, a) /\ Ordered(q, a)
  /\ \A c \in Elements(p), d \in Elements(q) : c \in a[d]
  /\ \A u \in HU : Calls(u, f, nx) =>
       /\ \A c \in Elements(p) : c \in a[nx[u]]
       /\ \A d \in Elements(q) : nx[u] \in a[d]

HInv(f, m, nx, p, q, a) ==
  /\ HTyped(f, m, nx, p, q, a)
  /\ HMutexes(f, m) /\ HRegister(f, m)
  /\ HStanding(f, m, q)
  /\ HLine(f, m, nx, q)
  /\ HPlaces(f, m, nx)
  /\ HChair(f, m, nx, p)
  /\ HOrder(f, nx, p, q, a)

HilzerInv == HInv(pc, sem, next, sofa_queue, standing_queue, ahead)

(* Each customer in the sofa's queue has a token of customer_on_sofa, is   *)
(* about to release it, or is the one a barber is about to pop.            *)
SofaCounted ==
  sem[Hilzer!customer_on_sofa] + Count(HC, pc, {"seated", "signal"})
    + Count(HB, pc, {"pop"}) = Len(sofa_queue)

LEMMA HilzerApart ==
  /\ IsFiniteSet(HB) /\ IsFiniteSet(HU) /\ IsFiniteSet(HC)
  /\ HT = HB \cup HU \cup HC
  /\ \A b \in HB : b \notin HU /\ b \notin HC
  /\ \A u \in HU : u \notin HC
  /\ \A c, d \in HC : /\ St(c) = St(d) => c = d
                      /\ Ct(c) = Ct(d) => c = d
                      /\ St(c) # Ct(d)
  /\ \A c \in HC : /\ St(c) \in HSems /\ St(c) \notin HNamed
                   /\ Ct(c) \in HSems /\ Ct(c) \notin HNamed
<1> USE DEF HB, HU, HC, HT, Hilzer!HilzerThreads, Hilzer!BarberThreads,
            Hilzer!UsherThreads, Hilzer!CustomerThreads
<1>1. IsFiniteSet(HB) /\ IsFiniteSet(HU) /\ IsFiniteSet(HC)
  BY Bounds, ThreadsAreFinite
<1>2. HT = HB \cup HU \cup HC
  OBVIOUS
<1>3. \A b \in HB : b \notin HU /\ b \notin HC
  OBVIOUS
<1>4. \A u \in HU : u \notin HC
  OBVIOUS
<1>5. ASSUME NEW c \in HC, NEW d \in HC
      PROVE  /\ St(c) = St(d) => c = d
             /\ Ct(c) = Ct(d) => c = d
             /\ St(c) # Ct(d)
  BY DEF St, Ct, Hilzer!sofa_ticket, Hilzer!cut_ticket
<1>6. ASSUME NEW c \in HC
      PROVE  St(c) \in Hilzer!Tickets /\ Ct(c) \in Hilzer!Tickets
  BY DEF St, Ct, Hilzer!sofa_ticket, Hilzer!cut_ticket, Hilzer!Tickets
<1>7. \A s \in Hilzer!Tickets : s \notin HNamed
  BY DEF Hilzer!Tickets, HNamed, Hilzer!global_mtx, Hilzer!sofa_mtx,
     Hilzer!register_mtx, Hilzer!has_space_on_sofa, Hilzer!customer_standing,
     Hilzer!customer_on_sofa, Hilzer!payment_ready, Hilzer!receipt_ready
<1> QED
  BY <1>1, <1>2, <1>3, <1>4, <1>5, <1>6, <1>7 DEF HSems

(* The named semaphores are eight.                                         *)
Named(n) == <<n, 0>>

LEMMA NamesApart ==
  \A n, k : Named(n) = Named(k) => n = k
  BY DEF Named

LEMMA HilzerNames ==
  /\ Hilzer!global_mtx = Named("global_mtx") /\ Hilzer!sofa_mtx = Named("sofa_mtx")
  /\ Hilzer!register_mtx = Named("register_mtx")
  /\ Hilzer!has_space_on_sofa = Named("has_space_on_sofa")
  /\ Hilzer!customer_standing = Named("customer_standing")
  /\ Hilzer!customer_on_sofa = Named("customer_on_sofa")
  /\ Hilzer!payment_ready = Named("payment_ready")
  /\ Hilzer!receipt_ready = Named("receipt_ready")
  BY DEF Named, Hilzer!global_mtx, Hilzer!sofa_mtx, Hilzer!register_mtx,
     Hilzer!has_space_on_sofa, Hilzer!customer_standing, Hilzer!customer_on_sofa,
     Hilzer!payment_ready, Hilzer!receipt_ready

LEMMA MutexKept ==
  ASSUME NEW m, NEW r, NEW s, NEW S, NEW f, NEW g, NEW L,
         Mutex(m, s, S, f, L), r[s] = m[s], \A t \in S : g[t] \in L <=> f[t] \in L
  PROVE  Mutex(r, s, S, g, L)
  BY DEF Mutex

LEMMA MutexTaken ==
  ASSUME NEW m, NEW r, NEW s, NEW S, NEW f, NEW g, NEW L, NEW t \in S,
         Mutex(m, s, S, f, L), m[s] > 0, r[s] = m[s] - 1,
         \A u \in S : u # t => g[u] = f[u]
  PROVE  Mutex(r, s, S, g, L)
<1>1. m[s] = 1 /\ r[s] = 0
  BY DEF Mutex
<1>2. \A u \in S : f[u] \notin L
  BY <1>1 DEF Mutex
<1> QED
  BY <1>1, <1>2 DEF Mutex

LEMMA MutexGiven ==
  ASSUME NEW m, NEW r, NEW s, NEW S, NEW f, NEW g, NEW L, NEW t \in S,
         Mutex(m, s, S, f, L), f[t] \in L, g[t] \notin L,
         r[s] = m[s] + 1 \/ r[s] = 1,
         \A u \in S : u # t => g[u] = f[u]
  PROVE  Mutex(r, s, S, g, L)
<1>1. m[s] = 0 /\ r[s] = 1
  BY DEF Mutex
<1>2. \A u \in S : g[u] \notin L
  BY DEF Mutex
<1> QED
  BY <1>1, <1>2 DEF Mutex

(* Thread t goes from one location to another; a token is taken or given.  *)
HGoes(t, from, to, f, g) == t \in HT /\ f[t] = from /\ Moves(t, to, f, g)
HTakes(s, m, r) == m[s] > 0 /\ \A x \in HSems : r[x] = IF x = s THEN m[x] - 1 ELSE m[x]
HGives(s, m, r) == \A x \in HSems : r[x] = IF x = s THEN m[x] + 1 ELSE m[x]

LEMMA HilzerGoesTo ==
  ASSUME NEW f \in [HT -> HAt], NEW g, NEW t, NEW from, NEW to \in HAt,
         HGoes(t, from, to, f, g)
  PROVE  /\ f[t] = from /\ g \in [HT -> HAt]
         /\ \A u \in HT : g[u] = IF u = t THEN to ELSE f[u]
         /\ \A L : /\ Count(HB, f, L) \in Nat /\ Count(HU, f, L) \in Nat
                   /\ Count(HC, f, L) \in Nat
                   /\ Count(HB, g, L) =
                        Count(HB, f, L) + (IF t \in HB THEN Change(L, from, to) ELSE 0)
                   /\ Count(HU, g, L) =
                        Count(HU, f, L) + (IF t \in HU THEN Change(L, from, to) ELSE 0)
                   /\ Count(HC, g, L) =
                        Count(HC, f, L) + (IF t \in HC THEN Change(L, from, to) ELSE 0)
<1>1. f[t] = from /\ g \in [HT -> HAt] /\ Moves(t, to, f, g)
      /\ \A u \in HT : g[u] = IF u = t THEN to ELSE f[u]
  BY DEF HGoes, Moves
<1>2. ASSUME NEW S, S \subseteq HT, IsFiniteSet(S), NEW L
      PROVE  /\ Count(S, f, L) \in Nat
             /\ Count(S, g, L) =
                  Count(S, f, L) + (IF t \in S THEN Change(L, from, to) ELSE 0)
  <2>1. Count(S, g, L) =
          Count(S, f, L) +
            (IF t \notin S \/ (f[t] \in L <=> to \in L) THEN 0
             ELSE IF to \in L THEN 1 ELSE -1)
    BY <1>1, <1>2, CountAfterMove
  <2>2. Count(S, f, L) \in Nat
    BY <1>2, CountIsNat
  <2> QED
    BY <1>1, <2>1, <2>2 DEF Change
<1>3. /\ HB \subseteq HT /\ HU \subseteq HT /\ HC \subseteq HT
      /\ IsFiniteSet(HB) /\ IsFiniteSet(HU) /\ IsFiniteSet(HC)
  BY HilzerApart
<1> QED
  BY <1>1, <1>2, <1>3

LEMMA LineKept ==
  ASSUME NEW f, NEW g, NEW m, NEW r, NEW nx, NEW ny, NEW q, q \in Seq(HC),
         HLine(f, m, nx, q),
         \A u \in HU : (g[u] = "call" <=> f[u] = "call") /\ (g[u] = "meet" <=> f[u] = "meet"),
         \A u \in HU : ny[u] = nx[u],
         \A c \in HC : \/ g[c] = f[c]
                       \/ {f[c], g[c]} \cap {"start", "standing", "sofa", "seated"} = {},
         \A c \in HC : r[St(c)] = m[St(c)]
  PROVE  HLine(g, r, ny, q)
<1>1. \A c \in HC : UsherMeets(c, g, ny) <=> UsherMeets(c, f, nx)
  BY DEF UsherMeets
<1>2. \A c \in HC : \A l \in {"start", "standing", "sofa", "seated"} : g[c] = l <=> f[c] = l
  OBVIOUS
<1>3. SofaTickets(g, r, ny)
  BY <1>1, <1>2 DEF HLine, SofaTickets
<1>4. \A c \in HC : g[c] \in {"sofa", "seated"} => UsherMeets(c, g, ny)
  BY <1>1, <1>2 DEF HLine
<1>5. Elements(q) \subseteq HC
  BY ElementsIn
<1>6. \A u \in HU : g[u] \in {"call", "meet"} => ny[u] \in HC /\ ny[u] \notin Elements(q)
  BY DEF HLine
<1>7. \A u \in HU : g[u] = "call" => g[ny[u]] = "standing"
  BY <1>2, <1>6 DEF HLine
<1>8. \A u \in HU : g[u] = "meet" => g[ny[u]] # "start"
  BY <1>2, <1>6 DEF HLine
<1>9. Distinct(q) /\ \A c \in Elements(q) : g[c] = "standing"
  BY <1>2, <1>5 DEF HLine
<1> QED
  BY <1>3, <1>4, <1>6, <1>7, <1>8, <1>9 DEF HLine

LEMMA ChairKept ==
  ASSUME NEW f, NEW g, NEW m, NEW r, NEW nx, NEW ny, NEW p, p \in Seq(HC),
         HChair(f, m, nx, p),
         \A b \in HB : g[b] = f[b] \/ {f[b], g[b]} \cap InHand = {},
         \A b \in HB : ny[b] = nx[b],
         \A c \in HC : (g[c] \in Seated <=> f[c] \in Seated)
                       /\ (g[c] \in Expected <=> f[c] \in Expected),
         \A c \in HC : r[Ct(c)] = m[Ct(c)]
  PROVE  HChair(g, r, ny, p)
<1>0. \A b \in HB : \A l \in InHand : g[b] = l <=> f[b] = l
  OBVIOUS
<1>1. \A b \in HB : /\ g[b] \in InHand <=> f[b] \in InHand
                    /\ g[b] \in Keeping <=> f[b] \in Keeping
                    /\ g[b] = "call" <=> f[b] = "call"
                    /\ g[b] \in {"met", "cut"} <=> f[b] \in {"met", "cut"}
  BY <1>0 DEF InHand, Keeping
<1>2. \A c \in HC : BarberHas(c, g, ny) <=> BarberHas(c, f, nx)
  BY <1>1 DEF BarberHas
<1>3. CutTickets(g, r, ny, p)
  BY <1>2 DEF HChair, CutTickets
<1>5. Elements(p) \subseteq HC
  BY ElementsIn
<1>6. \A b \in HB : g[b] \in InHand => ny[b] \in HC /\ ny[b] \notin Elements(p)
  BY <1>1 DEF HChair
<1>7. \A b \in HB : g[b] = "call" => g[ny[b]] \in Seated
  BY <1>1, <1>6 DEF HChair, InHand
<1>8. \A b \in HB : g[b] \in {"met", "cut"} => g[ny[b]] \in Expected
  BY <1>1, <1>6 DEF HChair, InHand
<1>9. Distinct(p) /\ \A c \in Elements(p) : g[c] \in Seated
  BY <1>5 DEF HChair
<1>10. \A b, d \in HB : g[b] \in InHand /\ g[d] \in InHand /\ ny[b] = ny[d] => b = d
  BY <1>1 DEF HChair
<1> QED
  BY <1>3, <1>6, <1>7, <1>8, <1>9, <1>10 DEF HChair

LEMMA OrderKept ==
  ASSUME NEW f, NEW g, NEW nx, NEW ny, NEW p, NEW q, NEW a,
         HOrder(f, nx, p, q, a),
         \A u \in HU : Calls(u, g, ny) => Calls(u, f, nx) /\ ny[u] = nx[u]
  PROVE  HOrder(g, ny, p, q, a)
  BY DEF HOrder

LEMMA ReservedIs ==
  \A f, nx : HReserved(f, nx) \in {0, 1}
  BY DEF HReserved

LEMMA ReservedKept ==
  ASSUME NEW f, NEW g, NEW nx, NEW ny,
         \A u \in HU : g[u] = "meet" /\ g[ny[u]] = "standing"
                         <=> f[u] = "meet" /\ f[nx[u]] = "standing"
  PROVE  HReserved(g, ny) = HReserved(f, nx)
  BY DEF HReserved

LEMMA TailOrdered ==
  ASSUME NEW s \in Seq(HC), s # << >>, NEW a, Ordered(s, a)
  PROVE  /\ Ordered(Tail(s), a) /\ Elements(Tail(s)) \subseteq Elements(s)
         /\ \A d \in Elements(Tail(s)) : Head(s) \in a[d]
<1> DEFINE t == Tail(s)
<1>1. /\ Len(t) = Len(s) - 1 /\ Len(s) \in Nat /\ Len(s) >= 1
      /\ \A i \in 1..Len(t) : t[i] = s[i + 1]
      /\ Head(s) = s[1]
  BY HeadTailProperties
<1> HIDE DEF t
<1>2. Ordered(t, a)
  BY <1>1 DEF Ordered
<1>3. ASSUME NEW d \in Elements(t) PROVE d \in Elements(s) /\ Head(s) \in a[d]
  <2>1. PICK i \in 1..Len(t) : d = s[i + 1]
    BY <1>1 DEF Elements
  <2>2. i + 1 \in 1..Len(s) /\ 1 \in 1..Len(s) /\ 1 < i + 1
    BY <1>1
  <2>3. s[1] \in a[s[i + 1]]
    BY <2>2 DEF Ordered
  <2> QED
    BY <1>1, <2>1, <2>2, <2>3 DEF Elements
<1> QED
  BY <1>2, <1>3 DEF t

LEMMA AppendOrdered ==
  ASSUME NEW s \in Seq(HC), NEW c \in HC, NEW a, Ordered(s, a),
         \A d \in Elements(s) : d \in a[c]
  PROVE  Ordered(Append(s, c), a)
<1> DEFINE t == Append(s, c)
<1>1. /\ Len(t) = Len(s) + 1 /\ Len(s) \in Nat
      /\ \A i \in 1..Len(t) : t[i] = IF i = Len(s) + 1 THEN c ELSE s[i]
  OBVIOUS
<1> HIDE DEF t
<1>2. ASSUME NEW i \in 1..Len(t), NEW j \in 1..Len(t), i < j PROVE t[i] \in a[t[j]]
  <2>1. i \in 1..Len(s) /\ t[i] = s[i] /\ s[i] \in Elements(s)
    BY <1>1, <1>2 DEF Elements
  <2>2. CASE j = Len(s) + 1
    BY <1>1, <2>1, <2>2
  <2>3. CASE j # Len(s) + 1
    <3>1. j \in 1..Len(s) /\ t[j] = s[j]
      BY <1>1, <2>3
    <3> QED
      BY <1>2, <2>1, <3>1 DEF Ordered
  <2> QED
    BY <2>2, <2>3
<1> QED
  BY <1>2 DEF Ordered, t

-----------------------------------------------------------------------------
(* What a thread's steps leave alone in Hilzer's shop.                     *)

BarberTouches(m, r, nx, ny, p, o) ==
  /\ r \in [HSems -> Nat] /\ ny \in [HU \cup HB -> HT]
  /\ \A u \in HU : ny[u] = nx[u]
  /\ o \in Seq(HC) /\ (o = p \/ (p # << >> /\ o = Tail(p)))
  /\ \A s \in {Hilzer!global_mtx, Hilzer!register_mtx, Hilzer!has_space_on_sofa,
               Hilzer!customer_standing} : r[s] = m[s]
  /\ \A c \in HC : r[St(c)] = m[St(c)]

LEMMA BarberLeaves ==
  ASSUME NEW f, NEW g, NEW m, NEW r, NEW nx, NEW ny, NEW p, NEW o, NEW q, NEW a,
         HInv(f, m, nx, p, q, a),
         NEW b \in HB, NEW from, NEW to \in HAt, HGoes(b, from, to, f, g),
         BarberTouches(m, r, nx, ny, p, o)
  PROVE  /\ HTyped(g, r, ny, o, q, a)
         /\ Mutex(r, Hilzer!global_mtx, HU, g, Calling)
         /\ Mutex(r, Hilzer!register_mtx, HC, g, Paying)
         /\ HStanding(g, r, q) /\ HLine(g, r, ny, q)
         /\ HPlaces(g, r, ny) /\ HOrder(g, ny, o, q, a)
<1> USE DEF BarberTouches
<1>1. f \in [HT -> HAt] /\ q \in Seq(HC) /\ p \in Seq(HC) /\ a \in [HC -> SUBSET HC]
  BY DEF HInv, HTyped
<1>2. /\ g \in [HT -> HAt] /\ \A u \in HT : g[u] = IF u = b THEN to ELSE f[u]
      /\ \A L : /\ Count(HU, g, L) = Count(HU, f, L)
                /\ Count(HC, g, L) = Count(HC, f, L)
  <2>1. b \notin HU /\ b \notin HC
    BY HilzerApart
  <2>2. ASSUME NEW L
        PROVE  Count(HU, g, L) = Count(HU, f, L) /\ Count(HC, g, L) = Count(HC, f, L)
    BY <1>1, <2>1, HilzerGoesTo
  <2>3. g \in [HT -> HAt] /\ \A u \in HT : g[u] = IF u = b THEN to ELSE f[u]
    BY <1>1 DEF HGoes, Moves
  <2> QED
    BY <2>2, <2>3
<1>3. \A t \in HU \cup HC : g[t] = f[t]
  BY <1>2, HilzerApart
<1>4. HTyped(g, r, ny, o, q, a)
  BY <1>1, <1>2 DEF HTyped
<1>5. /\ Mutex(r, Hilzer!global_mtx, HU, g, Calling)
      /\ Mutex(r, Hilzer!register_mtx, HC, g, Paying)
  BY <1>3, MutexKept DEF HInv, HMutexes
<1>6. HStanding(g, r, q)
  BY <1>2 DEF HInv, HStanding
<1>7. HLine(g, r, ny, q)
  BY <1>1, <1>3, LineKept DEF HInv
<1>8. \A u \in HU : g[u] \in {"call", "meet"} => nx[u] \in HC
  BY <1>3 DEF HInv, HLine
<1>9. HPlaces(g, r, ny)
  <2>1. HReserved(g, ny) = HReserved(f, nx)
    BY <1>3, <1>8, ReservedKept
  <2> QED
    BY <1>2, <2>1 DEF HInv, HPlaces
<1>10. HOrder(g, ny, o, q, a)
  <2>1. HOrder(g, ny, p, q, a)
    BY <1>3, <1>8, OrderKept DEF HInv, Calls
  <2>2. Elements(o) \subseteq Elements(p) /\ Ordered(o, a)
    BY <1>1, TailOrdered DEF HInv, HOrder
  <2> QED
    BY <2>1, <2>2 DEF HOrder
<1> QED
  BY <1>4, <1>5, <1>6, <1>7, <1>9, <1>10

UsherTouches(m, r, nx, ny, s) ==
  /\ r \in [HSems -> Nat] /\ ny \in [HU \cup HB -> HT]
  /\ \A b \in HB : ny[b] = nx[b]
  /\ s \in Seq(HC)
  /\ \A x \in {Hilzer!sofa_mtx, Hilzer!register_mtx, Hilzer!payment_ready,
               Hilzer!receipt_ready} : r[x] = m[x]
  /\ \A c \in HC : r[Ct(c)] = m[Ct(c)]

LEMMA UsherLeaves ==
  ASSUME NEW f, NEW g, NEW m, NEW r, NEW nx, NEW ny, NEW p, NEW q, NEW s, NEW a,
         HInv(f, m, nx, p, q, a),
         NEW u \in HU, NEW from, NEW to \in HAt, HGoes(u, from, to, f, g),
         UsherTouches(m, r, nx, ny, s)
  PROVE  /\ HTyped(g, r, ny, p, s, a)
         /\ Mutex(r, Hilzer!sofa_mtx, HB, g, Calling)
         /\ Mutex(r, Hilzer!register_mtx, HC, g, Paying)
         /\ HRegister(g, r) /\ HChair(g, r, ny, p)
<1> USE DEF UsherTouches
<1>1. f \in [HT -> HAt] /\ p \in Seq(HC) /\ a \in [HC -> SUBSET HC]
  BY DEF HInv, HTyped
<1>2. /\ g \in [HT -> HAt] /\ \A t \in HT : g[t] = IF t = u THEN to ELSE f[t]
      /\ \A L : /\ Count(HB, g, L) = Count(HB, f, L)
                /\ Count(HC, g, L) = Count(HC, f, L)
  <2>1. u \notin HB /\ u \notin HC
    BY HilzerApart
  <2>2. ASSUME NEW L
        PROVE  Count(HB, g, L) = Count(HB, f, L) /\ Count(HC, g, L) = Count(HC, f, L)
    BY <1>1, <2>1, HilzerGoesTo
  <2>3. g \in [HT -> HAt] /\ \A t \in HT : g[t] = IF t = u THEN to ELSE f[t]
    BY <1>1 DEF HGoes, Moves
  <2> QED
    BY <2>2, <2>3
<1>3. \A t \in HB \cup HC : g[t] = f[t]
  BY <1>2, HilzerApart
<1>4. HTyped(g, r, ny, p, s, a)
  BY <1>1, <1>2 DEF HTyped
<1>5. /\ Mutex(r, Hilzer!sofa_mtx, HB, g, Calling)
      /\ Mutex(r, Hilzer!register_mtx, HC, g, Paying)
  BY <1>3, MutexKept DEF HInv, HMutexes
<1>6. HRegister(g, r)
  BY <1>2 DEF HInv, HRegister
<1>7. HChair(f, m, nx, p) /\ \A b \in HB : ny[b] = nx[b]
  BY DEF HInv
<1>8. HChair(g, r, ny, p)
  <2>1. /\ \A b \in HB : g[b] = f[b] \/ {f[b], g[b]} \cap InHand = {}
        /\ \A c \in HC : (g[c] \in Seated <=> f[c] \in Seated)
                         /\ (g[c] \in Expected <=> f[c] \in Expected)
    BY <1>3
  <2> QED
    BY <1>1, <1>7, <2>1, ChairKept
<1> QED
  BY <1>4, <1>5, <1>6, <1>8

CustomerTouches(m, r) ==
  /\ r \in [HSems -> Nat]
  /\ \A s \in {Hilzer!global_mtx, Hilzer!sofa_mtx, Hilzer!customer_standing} :
       r[s] = m[s]

LEMMA CustomerLeaves ==
  ASSUME NEW f, NEW g, NEW m, NEW r, NEW nx, NEW p, NEW q, NEW a,
         HInv(f, m, nx, p, q, a),
         NEW c \in HC, NEW from, NEW to \in HAt, HGoes(c, from, to, f, g),
         to \in {"standing", "sofa"} => from \in {"standing", "sofa"},
         CustomerTouches(m, r)
  PROVE  /\ HTyped(g, r, nx, p, q, a)
         /\ Mutex(r, Hilzer!global_mtx, HU, g, Calling)
         /\ Mutex(r, Hilzer!sofa_mtx, HB, g, Calling)
         /\ HStanding(g, r, q) /\ HOrder(g, nx, p, q, a)
<1> USE DEF CustomerTouches
<1>1. /\ f \in [HT -> HAt] /\ q \in Seq(HC) /\ p \in Seq(HC) /\ a \in [HC -> SUBSET HC]
      /\ nx \in [HU \cup HB -> HT]
  BY DEF HInv, HTyped
<1>2. g \in [HT -> HAt] /\ \A t \in HT : g[t] = IF t = c THEN to ELSE f[t]
  BY <1>1 DEF HGoes, Moves
<1>3. c \notin HU /\ c \notin HB /\ f[c] = from
  BY HilzerApart DEF HGoes
<1>4. \A t \in HB \cup HU : g[t] = f[t]
  BY <1>2, <1>3, HilzerApart
<1>5. HTyped(g, r, nx, p, q, a)
  BY <1>1, <1>2 DEF HTyped
<1>6. /\ Mutex(r, Hilzer!global_mtx, HU, g, Calling)
      /\ Mutex(r, Hilzer!sofa_mtx, HB, g, Calling)
  BY <1>4, MutexKept DEF HInv, HMutexes
<1>7. HStanding(g, r, q)
  <2>1. Count(HU, g, {"space", "pop"}) = Count(HU, f, {"space", "pop"})
    BY <1>4, CountSame
  <2> QED
    BY <2>1 DEF HInv, HStanding
<1>8. HOrder(g, nx, p, q, a)
  <2>1. \A u \in HU : nx[u] \in HT
    BY <1>1
  <2>2. \A u \in HU : Calls(u, g, nx) => Calls(u, f, nx)
    BY <1>2, <1>3, <1>4, <2>1 DEF Calls
  <2> QED
    BY <2>2, OrderKept DEF HInv
<1> QED
  BY <1>5, <1>6, <1>7, <1>8

-----------------------------------------------------------------------------
(* The steps of a barber                                                   *)

LEMMA OtherNames ==
  /\ HNamed \subseteq HSems
  /\ \A s \in HNamed : \A c \in HC : s # St(c) /\ s # Ct(c)
  BY HilzerApart DEF HSems

LEMMA BarberCounts ==
  ASSUME NEW f \in [HT -> HAt], NEW g, NEW b \in HB, NEW from, NEW to \in HAt,
         HGoes(b, from, to, f, g)
  PROVE  \A L : /\ Count(HB, f, L) \in Nat
                /\ Count(HB, g, L) = Count(HB, f, L) + Change(L, from, to)
<1> SUFFICES ASSUME NEW L
             PROVE  /\ Count(HB, f, L) \in Nat
                    /\ Count(HB, g, L) = Count(HB, f, L) + Change(L, from, to)
  OBVIOUS
<1> QED
  BY HilzerGoesTo

LEMMA BarberWaitsKeep ==
  ASSUME NEW f, NEW g, NEW m, NEW r, NEW nx, NEW p, NEW q, NEW a,
         HInv(f, m, nx, p, q, a), NEW b \in HB, r \in [HSems -> Nat],
         \/ HGoes(b, "start", "pop", f, g) /\ HTakes(Hilzer!customer_on_sofa, m, r)
         \/ HGoes(b, "register", "receipt", f, g) /\ HTakes(Hilzer!payment_ready, m, r)
         \/ HGoes(b, "receipt", "start", f, g) /\ HGives(Hilzer!receipt_ready, m, r)
  PROVE  HInv(g, r, nx, p, q, a)
<1>0. /\ f \in [HT -> HAt] /\ p \in Seq(HC) /\ nx \in [HU \cup HB -> HT]
      /\ m \in [HSems -> Nat]
  BY DEF HInv, HTyped
<1>1. PICK from \in {"start", "register", "receipt"},
           to \in {"pop", "receipt", "start"} : HGoes(b, from, to, f, g)
  OBVIOUS
<1>2. to \in HAt
  BY DEF HAt
<1>3. \A s \in HSems \ {Hilzer!customer_on_sofa, Hilzer!payment_ready,
                        Hilzer!receipt_ready} : r[s] = m[s]
  BY DEF HTakes, HGives
<1>4. /\ r[Hilzer!global_mtx] = m[Hilzer!global_mtx]
      /\ r[Hilzer!sofa_mtx] = m[Hilzer!sofa_mtx]
      /\ r[Hilzer!register_mtx] = m[Hilzer!register_mtx]
      /\ r[Hilzer!has_space_on_sofa] = m[Hilzer!has_space_on_sofa]
      /\ r[Hilzer!customer_standing] = m[Hilzer!customer_standing]
  BY <1>3, HilzerNames, NamesApart, OtherNames DEF HNamed
<1>5. \A c \in HC : r[St(c)] = m[St(c)] /\ r[Ct(c)] = m[Ct(c)]
  BY <1>3, HilzerApart DEF HNamed
<1>6. /\ HTyped(g, r, nx, p, q, a)
      /\ Mutex(r, Hilzer!global_mtx, HU, g, Calling)
      /\ Mutex(r, Hilzer!register_mtx, HC, g, Paying)
      /\ HStanding(g, r, q) /\ HLine(g, r, nx, q)
      /\ HPlaces(g, r, nx) /\ HOrder(g, nx, p, q, a)
  <2>1. BarberTouches(m, r, nx, nx, p, p)
    BY <1>0, <1>4, <1>5 DEF BarberTouches
  <2> QED
    BY <1>1, <1>2, <2>1, BarberLeaves
<1>7. \A t \in HT : g[t] = IF t = b THEN to ELSE f[t]
  BY <1>0, <1>1, <1>2 DEF HGoes, Moves
<1>8. f[b] = from
  BY <1>1 DEF HGoes
<1>9. Mutex(r, Hilzer!sofa_mtx, HB, g, Calling)
  <2>1. \A t \in HB : g[t] \in Calling <=> f[t] \in Calling
    BY <1>7, <1>8, HilzerApart DEF Calling
  <2> QED
    BY <1>4, <2>1, MutexKept DEF HInv, HMutexes
<1>10. HChair(g, r, nx, p)
  <2>1. \A t \in HB : g[t] = f[t] \/ {f[t], g[t]} \cap InHand = {}
    BY <1>7, <1>8, HilzerApart DEF InHand
  <2>2. \A c \in HC : (g[c] \in Seated <=> f[c] \in Seated)
                      /\ (g[c] \in Expected <=> f[c] \in Expected)
    BY <1>7, HilzerApart
  <2>3. HChair(f, m, nx, p)
    BY DEF HInv
  <2> QED
    BY <1>0, <1>5, <2>1, <2>2, <2>3, ChairKept
<1>11. HRegister(g, r)
  <2>1. Count(HC, g, {"paid"}) = Count(HC, f, {"paid"})
    BY <1>7, HilzerApart, CountSame
  <2>2. /\ Count(HB, g, {"receipt"}) = Count(HB, f, {"receipt"}) + Change({"receipt"}, from, to)
        /\ Count(HB, f, {"receipt"}) \in Nat
    BY <1>0, <1>1, <1>2, BarberCounts
  <2>3. /\ Hilzer!payment_ready \in HSems /\ Hilzer!receipt_ready \in HSems
        /\ Hilzer!customer_on_sofa # Hilzer!payment_ready
        /\ Hilzer!customer_on_sofa # Hilzer!receipt_ready
        /\ Hilzer!receipt_ready # Hilzer!payment_ready
    BY HilzerNames, NamesApart DEF HNamed, HSems
  <2>4. /\ m[Hilzer!payment_ready] \in Nat /\ m[Hilzer!receipt_ready] \in Nat
        /\ Count(HC, f, {"paid"}) = m[Hilzer!payment_ready] + Count(HB, f, {"receipt"})
                                      + m[Hilzer!receipt_ready]
    BY <1>0, <2>3 DEF HInv, HRegister
  <2>5. CASE HGoes(b, "start", "pop", f, g) /\ HTakes(Hilzer!customer_on_sofa, m, r)
    <3>1. /\ r[Hilzer!payment_ready] = m[Hilzer!payment_ready]
          /\ r[Hilzer!receipt_ready] = m[Hilzer!receipt_ready]
      BY <2>3, <2>5 DEF HTakes
    <3>2. Count(HB, g, {"receipt"}) = Count(HB, f, {"receipt"})
      <4>1. "pop" \in HAt /\ Change({"receipt"}, "start", "pop") = 0
        BY DEF HAt, Change
      <4> QED
        BY <1>0, <2>5, <4>1, BarberCounts
    <3> QED
      BY <2>1, <2>4, <3>1, <3>2 DEF HRegister
  <2>6. CASE HGoes(b, "register", "receipt", f, g) /\ HTakes(Hilzer!payment_ready, m, r)
    <3>1. /\ r[Hilzer!payment_ready] = m[Hilzer!payment_ready] - 1
          /\ r[Hilzer!receipt_ready] = m[Hilzer!receipt_ready]
      BY <2>3, <2>6 DEF HTakes
    <3>2. Count(HB, g, {"receipt"}) = Count(HB, f, {"receipt"}) + 1
      <4>1. "receipt" \in HAt /\ Change({"receipt"}, "register", "receipt") = 1
        BY DEF HAt, Change
      <4> QED
        BY <1>0, <2>6, <4>1, BarberCounts
    <3> QED
      BY <2>1, <2>2, <2>4, <3>1, <3>2 DEF HRegister
  <2>7. CASE HGoes(b, "receipt", "start", f, g) /\ HGives(Hilzer!receipt_ready, m, r)
    <3>1. /\ r[Hilzer!payment_ready] = m[Hilzer!payment_ready]
          /\ r[Hilzer!receipt_ready] = m[Hilzer!receipt_ready] + 1
      BY <2>3, <2>7 DEF HGives
    <3>2. Count(HB, g, {"receipt"}) = Count(HB, f, {"receipt"}) - 1
      <4>1. "start" \in HAt /\ Change({"receipt"}, "receipt", "start") = -1
        BY DEF HAt, Change
      <4> QED
        BY <1>0, <2>7, <4>1, BarberCounts
    <3> QED
      BY <2>1, <2>2, <2>4, <3>1, <3>2 DEF HRegister
  <2> QED
    BY <2>5, <2>6, <2>7
<1> QED
  BY <1>6, <1>9, <1>10, <1>11 DEF HInv, HMutexes

LEMMA BarberServes ==
  ASSUME NEW f, NEW g, NEW m, NEW r, NEW nx, NEW ny, NEW p, NEW o, NEW q, NEW a,
         HInv(f, m, nx, p, q, a),
         NEW b \in HB, NEW from, NEW to \in HAt, HGoes(b, from, to, f, g),
         from # "receipt", to # "receipt",
         BarberTouches(m, r, nx, ny, p, o),
         \A s \in HNamed \ {Hilzer!sofa_mtx} : r[s] = m[s],
         Mutex(r, Hilzer!sofa_mtx, HB, g, Calling),
         HChair(g, r, ny, o)
  PROVE  HInv(g, r, ny, o, q, a)
<1>1. /\ r[Hilzer!payment_ready] = m[Hilzer!payment_ready]
      /\ r[Hilzer!receipt_ready] = m[Hilzer!receipt_ready]
  BY HilzerNames, NamesApart DEF HNamed
<1>2. /\ HTyped(g, r, ny, o, q, a)
      /\ Mutex(r, Hilzer!global_mtx, HU, g, Calling)
      /\ Mutex(r, Hilzer!register_mtx, HC, g, Paying)
      /\ HStanding(g, r, q) /\ HLine(g, r, ny, q)
      /\ HPlaces(g, r, ny) /\ HOrder(g, ny, o, q, a)
  BY BarberLeaves
<1>3. HRegister(g, r)
  <2>0. f \in [HT -> HAt]
    BY DEF HInv, HTyped
  <2>1. /\ \A t \in HT : g[t] = IF t = b THEN to ELSE f[t]
        /\ f[b] = from
    BY <2>0 DEF HGoes, Moves
  <2>2. Count(HC, g, {"paid"}) = Count(HC, f, {"paid"})
    BY <2>1, HilzerApart, CountSame
  <2>3. Count(HB, g, {"receipt"}) = Count(HB, f, {"receipt"})
    BY <2>1, HilzerApart, CountSame
  <2> QED
    BY <1>1, <2>2, <2>3 DEF HInv, HRegister
<1> QED
  BY <1>2, <1>3 DEF HInv, HMutexes

LEMMA ChairPops ==
  ASSUME NEW f, f \in [HT -> HAt], NEW g, NEW m, NEW r, NEW nx,
         nx \in [HU \cup HB -> HT], NEW p, p \in Seq(HC), p # << >>,
         HChair(f, m, nx, p), NEW b \in HB, HGoes(b, "pop", "call", f, g),
         \A c \in HC : r[Ct(c)] = m[Ct(c)]
  PROVE  HChair(g, r, [nx EXCEPT ![b] = Head(p)], Tail(p))
<1> DEFINE h == Head(p)
           o == Tail(p)
           ny == [nx EXCEPT ![b] = Head(p)]
<1>0. /\ \A t \in HB : g[t] = IF t = b THEN "call" ELSE f[t]
      /\ \A c \in HC : g[c] = f[c]
      /\ f[b] = "pop"
      /\ \A t \in HB : ny[t] = IF t = b THEN Head(p) ELSE nx[t]
  BY HilzerApart DEF HGoes, Moves
<1> USE <1>0
<1> HIDE DEF ny
<1>1. /\ Distinct(p) /\ Elements(p) \subseteq HC
      /\ \A c \in Elements(p) : f[c] \in Seated
      /\ \A d \in HB : f[d] \in InHand => nx[d] \in HC /\ nx[d] \notin Elements(p)
      /\ \A d \in HB : f[d] = "call" => f[nx[d]] \in Seated
      /\ \A d \in HB : f[d] \in {"met", "cut"} => f[nx[d]] \in Expected
      /\ \A d, e \in HB : f[d] \in InHand /\ f[e] \in InHand /\ nx[d] = nx[e] => d = e
      /\ CutTickets(f, m, nx, p)
  BY ElementsIn DEF HChair
<1>2. h \in Elements(p) /\ Elements(o) = Elements(p) \ {h} /\ Distinct(o)
  BY <1>1, TailElements
<1> HIDE DEF h, o
<1>3. /\ \A t \in HB : ny[t] = IF t = b THEN h ELSE nx[t]
      /\ h \in HC
  BY <1>1, <1>2 DEF h
<1>4. \A d \in HB : d # b => /\ g[d] \in InHand <=> f[d] \in InHand
                             /\ g[d] \in Keeping <=> f[d] \in Keeping
                             /\ g[d] = "call" <=> f[d] = "call"
                             /\ g[d] \in {"met", "cut"} <=> f[d] \in {"met", "cut"}
                             /\ ny[d] = nx[d]
  BY <1>3
<1>5. /\ g[b] = "call" /\ g[b] \in InHand /\ g[b] \in Keeping /\ g[b] \notin {"met", "cut"}
      /\ f[b] \notin InHand /\ f[b] \notin Keeping /\ ny[b] = h
  BY <1>3 DEF InHand, Keeping
<1>6. \A c \in HC : BarberHas(c, g, ny) <=> c = h \/ BarberHas(c, f, nx)
  BY <1>4, <1>5 DEF BarberHas
<1>7. \A d \in HB : g[d] \in InHand => ny[d] \in HC /\ ny[d] \notin Elements(o)
  BY <1>1, <1>2, <1>3, <1>4, <1>5
<1>8. \A d \in HB : g[d] = "call" => g[ny[d]] \in Seated
  BY <1>1, <1>2, <1>3, <1>4, <1>5, <1>7 DEF InHand
<1>9. \A d \in HB : g[d] \in {"met", "cut"} => g[ny[d]] \in Expected
  BY <1>1, <1>4, <1>5, <1>7 DEF InHand
<1>10. ASSUME NEW d \in HB, NEW e \in HB, g[d] \in InHand, g[e] \in InHand, ny[d] = ny[e]
       PROVE  d = e
  BY <1>1, <1>2, <1>4, <1>5, <1>10
<1>11. CutTickets(g, r, ny, o)
  <2> SUFFICES ASSUME NEW c \in HC
               PROVE  r[Ct(c)] = IF g[c] \in Expected /\ c \notin Elements(o)
                                    /\ ~BarberHas(c, g, ny) THEN 1 ELSE 0
    BY DEF CutTickets
  <2>1. r[Ct(c)] = IF f[c] \in Expected /\ c \notin Elements(p)
                      /\ ~BarberHas(c, f, nx) THEN 1 ELSE 0
    BY <1>1 DEF CutTickets
  <2> QED
    BY <1>2, <1>6, <2>1
<1> QED
  BY <1>1, <1>2, <1>7, <1>8, <1>9, <1>10, <1>11 DEF HChair, o, ny

(* A barber goes on with its customer: it releases the cut ticket, takes   *)
(* it or leaves it.                                                        *)
CutsOn(h, from, to, m, r) ==
  \/ from = "call" /\ to = "meet" /\ HGives(Ct(h), m, r)
  \/ from = "meet" /\ to = "met" /\ HTakes(Ct(h), m, r)
  \/ from = "met" /\ to = "cut" /\ HGives(Hilzer!sofa_mtx, m, r)
  \/ from = "cut" /\ to = "register" /\ HGives(Ct(h), m, r)

LEMMA ChairGoesOn ==
  ASSUME NEW f, f \in [HT -> HAt], NEW g, NEW m, m \in [HSems -> Nat], NEW r, NEW nx,
         NEW p, p \in Seq(HC),
         HChair(f, m, nx, p), NEW b \in HB, NEW from, NEW to,
         HGoes(b, from, to, f, g), CutsOn(nx[b], from, to, m, r)
  PROVE  HChair(g, r, nx, p)
<1> DEFINE h == nx[b]
<1>0. /\ \A t \in HB : g[t] = IF t = b THEN to ELSE f[t]
      /\ \A c \in HC : g[c] = f[c]
      /\ f[b] = from
  BY HilzerApart DEF HGoes, Moves
<1> USE <1>0 DEF CutsOn
<1>1. /\ Distinct(p) /\ Elements(p) \subseteq HC
      /\ \A c \in Elements(p) : f[c] \in Seated
      /\ \A d \in HB : f[d] \in InHand => nx[d] \in HC /\ nx[d] \notin Elements(p)
      /\ \A d \in HB : f[d] = "call" => f[nx[d]] \in Seated
      /\ \A d \in HB : f[d] \in {"met", "cut"} => f[nx[d]] \in Expected
      /\ \A d, e \in HB : f[d] \in InHand /\ f[e] \in InHand /\ nx[d] = nx[e] => d = e
      /\ CutTickets(f, m, nx, p)
  BY ElementsIn DEF HChair
<1>2. f[b] \in InHand /\ (g[b] \in InHand => f[b] \in InHand)
  BY DEF InHand
<1>3. h \in HC /\ h \notin Elements(p)
  BY <1>1, <1>2
<1>4. \A d \in HB : d # b => g[d] = f[d]
  OBVIOUS
<1>5. ASSUME NEW c \in HC, c # h
      PROVE  r[Ct(c)] = m[Ct(c)] /\ (BarberHas(c, g, nx) <=> BarberHas(c, f, nx))
  <2>1. r[Ct(c)] = m[Ct(c)]
    BY <1>3, <1>5, HilzerApart DEF HGives, HTakes, HNamed
  <2> QED
    BY <1>4, <1>5, <2>1 DEF BarberHas
<1>6. /\ BarberHas(h, f, nx) <=> f[b] \in Keeping
      /\ BarberHas(h, g, nx) <=> g[b] \in Keeping
  <2>1. \A d \in HB : d # b /\ f[d] \in InHand => nx[d] # h
    BY <1>1, <1>2
  <2>2. \A d \in HB : f[d] \in Keeping => f[d] \in InHand
    BY DEF Keeping, InHand
  <2> QED
    BY <1>4, <2>1, <2>2 DEF BarberHas
<1>7. m[Ct(h)] = IF f[h] \in Expected /\ f[b] \notin Keeping THEN 1 ELSE 0
  BY <1>1, <1>3, <1>6 DEF CutTickets
<1>8. Seated \subseteq Expected /\ Ct(h) \in HSems
  BY <1>3, HilzerApart DEF Expected
<1>13. /\ \A d \in HB : g[d] \in InHand => f[d] \in InHand
       /\ \A d \in HB : g[d] = "call" => f[d] = "call"
       /\ \A d \in HB : g[d] \in {"met", "cut"} => d = b \/ f[d] \in {"met", "cut"}
  BY <1>2, <1>4
<1>14. ASSUME f[h] \in Expected, CutTickets(g, r, nx, p) PROVE HChair(g, r, nx, p)
  <2>1. \A d \in HB : g[d] \in InHand => nx[d] \in HC /\ nx[d] \notin Elements(p)
    BY <1>1, <1>13
  <2>2. \A d \in HB : g[d] = "call" => g[nx[d]] \in Seated
    BY <1>1, <1>13, <2>1 DEF InHand
  <2>3. \A d \in HB : g[d] \in {"met", "cut"} => g[nx[d]] \in Expected
    BY <1>1, <1>3, <1>13, <1>14, <2>1 DEF InHand
  <2>4. \A d, e \in HB : g[d] \in InHand /\ g[e] \in InHand /\ nx[d] = nx[e] => d = e
    BY <1>1, <1>13
  <2>5. \A c \in Elements(p) : g[c] \in Seated
    BY <1>1
  <2> QED
    BY <1>1, <1>14, <2>1, <2>2, <2>3, <2>4, <2>5 DEF HChair
<1>9. CASE f[b] = "call" /\ to = "meet" /\ HGives(Ct(nx[b]), m, r)
  <2>1. g[b] = "meet" /\ f[b] \in Keeping /\ g[b] \notin Keeping
    BY <1>9 DEF Keeping
  <2>2. f[h] \in Expected
    BY <1>1, <1>8, <1>9
  <2>3. r[Ct(h)] = 1
    BY <1>7, <1>8, <1>9, <2>1 DEF HGives
  <2>4. CutTickets(g, r, nx, p)
    BY <1>1, <1>3, <1>5, <1>6, <2>1, <2>2, <2>3 DEF CutTickets
  <2> QED
    BY <2>2, <2>4, <1>14
<1>10. CASE f[b] = "meet" /\ to = "met" /\ HTakes(Ct(nx[b]), m, r)
  <2>1. g[b] = "met" /\ f[b] \notin Keeping /\ g[b] \in Keeping
    BY <1>10 DEF Keeping
  <2>2. f[h] \in Expected
    BY <1>7, <1>10 DEF HTakes
  <2>3. r[Ct(h)] = 0
    BY <1>7, <1>8, <1>10, <2>1, <2>2 DEF HTakes
  <2>4. CutTickets(g, r, nx, p)
    BY <1>1, <1>3, <1>5, <1>6, <2>1, <2>2, <2>3 DEF CutTickets
  <2> QED
    BY <2>2, <2>4, <1>14
<1>11. CASE f[b] = "met" /\ to = "cut" /\ HGives(Hilzer!sofa_mtx, m, r)
  <2>1. g[b] = "cut" /\ f[b] \in Keeping /\ g[b] \in Keeping
    BY <1>11 DEF Keeping
  <2>2. f[h] \in Expected
    BY <1>1, <1>11
  <2>3. r[Ct(h)] = m[Ct(h)]
    BY <1>3, <1>8, <1>11, HilzerApart DEF HGives, HNamed
  <2>4. CutTickets(g, r, nx, p)
    BY <1>1, <1>3, <1>5, <1>6, <1>11, <2>1, <2>2, <2>3 DEF CutTickets
  <2> QED
    BY <2>2, <2>4, <1>14
<1>12. CASE f[b] = "cut" /\ to = "register" /\ HGives(Ct(nx[b]), m, r)
  <2>1. g[b] = "register" /\ f[b] \in Keeping /\ g[b] \notin Keeping /\ g[b] \notin InHand
    BY <1>12 DEF Keeping, InHand
  <2>2. f[h] \in Expected
    BY <1>1, <1>12
  <2>3. r[Ct(h)] = 1
    BY <1>7, <1>8, <1>12, <2>1 DEF HGives
  <2>4. CutTickets(g, r, nx, p)
    BY <1>1, <1>3, <1>5, <1>6, <2>1, <2>2, <2>3 DEF CutTickets
  <2> QED
    BY <2>2, <2>4, <1>14
<1> QED
  BY <1>9, <1>10, <1>11, <1>12

LEMMA BarberPopsKeep ==
  ASSUME NEW f, NEW g, NEW m, NEW r, NEW nx, NEW ny, NEW p, NEW q, NEW a,
         HInv(f, m, nx, p, q, a), NEW b \in HB, r \in [HSems -> Nat], p # << >>,
         HGoes(b, "pop", "call", f, g), HTakes(Hilzer!sofa_mtx, m, r),
         ny = [nx EXCEPT ![b] = Head(p)]
  PROVE  HInv(g, r, ny, Tail(p), q, a)
<1>0. /\ f \in [HT -> HAt] /\ p \in Seq(HC) /\ nx \in [HU \cup HB -> HT]
      /\ HChair(f, m, nx, p)
  BY DEF HInv, HTyped
<1>1. /\ \A t \in HT : g[t] = IF t = b THEN "call" ELSE f[t]
      /\ f[b] = "pop" /\ "call" \in HAt
  BY <1>0 DEF HGoes, Moves, HAt
<1>2. /\ \A s \in HNamed \ {Hilzer!sofa_mtx} : r[s] = m[s]
      /\ \A c \in HC : r[St(c)] = m[St(c)] /\ r[Ct(c)] = m[Ct(c)]
      /\ r[Hilzer!sofa_mtx] = m[Hilzer!sofa_mtx] - 1 /\ m[Hilzer!sofa_mtx] > 0
  <2>1. Hilzer!sofa_mtx \in HNamed
    BY DEF HNamed
  <2> QED
    BY <2>1, OtherNames, HilzerApart DEF HTakes
<1>3. /\ Tail(p) \in Seq(HC) /\ Head(p) \in HC
  BY <1>0, TailElements, ElementsIn
<1>4. /\ ny \in [HU \cup HB -> HT]
      /\ \A t \in HU : ny[t] = nx[t]
      /\ \A t \in HB : ny[t] = IF t = b THEN Head(p) ELSE nx[t]
  <2>1. Head(p) \in HT /\ b \in HU \cup HB /\ b \notin HU
    BY <1>3, HilzerApart
  <2> QED
    BY <1>0, <2>1
<1>5. Mutex(r, Hilzer!sofa_mtx, HB, g, Calling)
  <2>1. \A t \in HB : t # b => g[t] = f[t]
    BY <1>1, HilzerApart
  <2> QED
    BY <1>2, <2>1, MutexTaken DEF HInv, HMutexes
<1>6. HChair(g, r, ny, Tail(p))
  <2>1. \A c \in HC : r[Ct(c)] = m[Ct(c)]
    BY <1>2
  <2> QED
    BY <1>0, <2>1, ChairPops
<1>7. BarberTouches(m, r, nx, ny, p, Tail(p))
  BY <1>2, <1>3, <1>4, HilzerNames, NamesApart DEF BarberTouches, HNamed
<1> QED
  BY <1>1, <1>2, <1>5, <1>6, <1>7, BarberServes

LEMMA BarberCutsKeep ==
  ASSUME NEW f, NEW g, NEW m, NEW r, NEW nx, NEW p, NEW q, NEW a,
         HInv(f, m, nx, p, q, a), NEW b \in HB, r \in [HSems -> Nat],
         NEW from, NEW to, HGoes(b, from, to, f, g),
         CutsOn(nx[b], from, to, m, r)
  PROVE  HInv(g, r, nx, p, q, a)
<1>0. /\ f \in [HT -> HAt] /\ p \in Seq(HC) /\ nx \in [HU \cup HB -> HT]
      /\ m \in [HSems -> Nat] /\ HChair(f, m, nx, p)
      /\ Mutex(m, Hilzer!sofa_mtx, HB, f, Calling)
  BY DEF HInv, HTyped, HMutexes
<1>1. /\ to \in HAt /\ from # "receipt" /\ to # "receipt" /\ from \in InHand
  BY DEF HAt, InHand, CutsOn
<1>2. /\ \A t \in HT : g[t] = IF t = b THEN to ELSE f[t]
      /\ f[b] = from
  BY <1>0, <1>1 DEF HGoes, Moves
<1>3. nx[b] \in HC
  BY <1>0, <1>1, <1>2 DEF HChair
<1>4. /\ \A t \in HB : g[t] = IF t = b THEN to ELSE f[t]
      /\ \A c \in HC : g[c] = f[c]
  BY <1>2, HilzerApart
<1>5. Hilzer!sofa_mtx \in HNamed
  BY DEF HNamed
<1>6. /\ \A s \in HNamed \ {Hilzer!sofa_mtx} : r[s] = m[s]
      /\ \A c \in HC : r[St(c)] = m[St(c)]
  <2>1. Ct(nx[b]) \notin HNamed /\ \A c \in HC : St(c) # Ct(nx[b])
    BY <1>3, HilzerApart
  <2> QED
    BY <1>5, <2>1, OtherNames, HilzerApart DEF HGives, HTakes, CutsOn
<1>7. BarberTouches(m, r, nx, nx, p, p)
  BY <1>0, <1>6, HilzerNames, NamesApart DEF BarberTouches, HNamed
<1>8. HChair(g, r, nx, p)
  BY <1>0, ChairGoesOn
<1>9. CASE from = "met" /\ to = "cut" /\ HGives(Hilzer!sofa_mtx, m, r)
  <2>3. Mutex(r, Hilzer!sofa_mtx, HB, g, Calling)
    <3>1. f[b] \in Calling /\ g[b] \notin Calling
      BY <1>2, <1>4, <1>9 DEF Calling
    <3>2. r[Hilzer!sofa_mtx] = m[Hilzer!sofa_mtx] + 1
      BY <1>5, <1>9, OtherNames DEF HGives
    <3>3. \A t \in HB : t # b => g[t] = f[t]
      BY <1>4
    <3> QED
      BY <1>0, <3>1, <3>2, <3>3, MutexGiven
  <2> QED
    BY <1>1, <1>6, <1>7, <1>8, <2>3, BarberServes
<1>10. CASE ~(from = "met" /\ to = "cut" /\ HGives(Hilzer!sofa_mtx, m, r))
  <2>3. Mutex(r, Hilzer!sofa_mtx, HB, g, Calling)
    <3>1. r[Hilzer!sofa_mtx] = m[Hilzer!sofa_mtx]
      <4>1. Ct(nx[b]) # Hilzer!sofa_mtx
        BY <1>3, <1>5, HilzerApart
      <4> QED
        BY <1>5, <1>10, <4>1, OtherNames DEF HGives, HTakes, CutsOn
    <3>2. CASE from = "cut"
      <4>1. \A t \in HB : g[t] \in Calling <=> f[t] \in Calling
        BY <1>2, <1>4, <1>10, <3>2 DEF Calling, CutsOn
      <4> QED
        BY <1>0, <3>1, <4>1, MutexKept
    <3>3. CASE from # "cut"
      <4>1. \A t \in HB : g[t] \in Calling <=> f[t] \in Calling
        BY <1>2, <1>4, <1>10, <3>3 DEF Calling, CutsOn
      <4> QED
        BY <1>0, <3>1, <4>1, MutexKept
    <3> QED
      BY <3>2, <3>3
  <2> QED
    BY <1>1, <1>6, <1>7, <1>8, <2>3, BarberServes
<1> QED
  BY <1>9, <1>10

(* What acquire and release do.                                            *)
LEMMA HilzerAcquires ==
  ASSUME HilzerInv, NEW t \in HT, NEW s \in HSems, NEW from, NEW to,
         Hilzer!acquire(t, s, from, to)
  PROVE  /\ HGoes(t, from, to, pc, pc') /\ HTakes(s, sem, sem')
         /\ sem' \in [HSems -> Nat]
<1>1. pc \in [HT -> HAt] /\ sem \in [HSems -> Nat]
  BY DEF HilzerInv, HInv, HTyped
<1>2. HGoes(t, from, to, pc, pc')
  BY <1>1 DEF Hilzer!acquire, Hilzer!Goto, Hilzer!At, HGoes, Moves
<1>3. sem[s] > 0 /\ sem' = [sem EXCEPT ![s] = @ - 1]
  BY DEF Hilzer!acquire
<1> QED
  BY <1>1, <1>2, <1>3 DEF HTakes

LEMMA HilzerReleases ==
  ASSUME HilzerInv, NEW t \in HT, NEW s \in HSems, NEW from, NEW to,
         Hilzer!release(t, s, 1, from, to)
  PROVE  /\ HGoes(t, from, to, pc, pc') /\ HGives(s, sem, sem')
         /\ sem' \in [HSems -> Nat]
<1>1. pc \in [HT -> HAt] /\ sem \in [HSems -> Nat]
  BY DEF HilzerInv, HInv, HTyped
<1>2. HGoes(t, from, to, pc, pc')
  BY <1>1 DEF Hilzer!release, Hilzer!Goto, Hilzer!At, HGoes, Moves
<1>3. sem' = [sem EXCEPT ![s] = @ + 1]
  BY DEF Hilzer!release
<1> QED
  BY <1>1, <1>2, <1>3 DEF HGives

(* The tokens of customer_on_sofa account for the sofa's queue.            *)
LEMMA SofaCounts ==
  ASSUME HilzerInv, SofaCounted, HilzerInv', NEW t \in HT, NEW from, NEW to \in HAt,
         HGoes(t, from, to, pc, pc'),
         sem'[Hilzer!customer_on_sofa] + Len(sofa_queue)
           + (IF t \in HC THEN Change({"seated", "signal"}, from, to) ELSE 0)
           + (IF t \in HB THEN Change({"pop"}, from, to) ELSE 0)
         = sem[Hilzer!customer_on_sofa] + Len(sofa_queue')
  PROVE  SofaCounted'
<1>1. /\ pc \in [HT -> HAt] /\ sem \in [HSems -> Nat] /\ sofa_queue \in Seq(HC)
      /\ sem' \in [HSems -> Nat] /\ sofa_queue' \in Seq(HC)
  BY DEF HilzerInv, HInv, HTyped
<1>2. ASSUME NEW L
      PROVE  /\ Count(HB, pc, L) \in Nat /\ Count(HC, pc, L) \in Nat
             /\ Count(HB, pc', L) =
                  Count(HB, pc, L) + (IF t \in HB THEN Change(L, from, to) ELSE 0)
             /\ Count(HC, pc', L) =
                  Count(HC, pc, L) + (IF t \in HC THEN Change(L, from, to) ELSE 0)
  <2>1. HGoes(t, from, to, pc, pc')
    OBVIOUS
  <2> QED
    BY ONLY <1>1, <2>1, to \in HAt, HilzerGoesTo
<1> DEFINE x == Count(HC, pc, {"seated", "signal"})
           y == Count(HB, pc, {"pop"})
           k == IF t \in HC THEN Change({"seated", "signal"}, from, to) ELSE 0
           l == IF t \in HB THEN Change({"pop"}, from, to) ELSE 0
           m == sem[Hilzer!customer_on_sofa]
           r == sem'[Hilzer!customer_on_sofa]
<1>3. /\ x \in Nat /\ y \in Nat
      /\ Count(HC, pc', {"seated", "signal"}) = x + k /\ Count(HB, pc', {"pop"}) = y + l
  BY ONLY <1>2
<1>4. k \in Int /\ l \in Int
  BY ONLY TRUE DEF Change
<1>5. m \in Nat /\ r \in Nat
  <2>1. Hilzer!customer_on_sofa \in HSems
    BY OtherNames DEF HNamed
  <2> QED
    BY ONLY <1>1, <2>1
<1>6. Len(sofa_queue) \in Nat /\ Len(sofa_queue') \in Nat
  BY ONLY <1>1
<1>7. r + Len(sofa_queue) + k + l = m + Len(sofa_queue') /\ m + x + y = Len(sofa_queue)
  BY DEF SofaCounted
<1>8. r + (x + k) + (y + l) = Len(sofa_queue')
  <2> HIDE DEF x, y, k, l, m, r
  <2> QED
    BY ONLY <1>3, <1>4, <1>5, <1>6, <1>7
<1> QED
  BY ONLY <1>3, <1>8 DEF SofaCounted

(* Steps that have to do with another semaphore, or none.                  *)
LEMMA SofaElsewhere ==
  ASSUME HilzerInv, SofaCounted, HilzerInv', NEW t \in HT, NEW from, NEW to \in HAt,
         HGoes(t, from, to, pc, pc'),
         sem'[Hilzer!customer_on_sofa] = sem[Hilzer!customer_on_sofa],
         sofa_queue' = sofa_queue,
         t \in HB => "pop" \notin {from, to},
         t \in HC => (from \in {"seated", "signal"} <=> to \in {"seated", "signal"})
  PROVE  SofaCounted'
<1>1. /\ t \in HB => Change({"pop"}, from, to) = 0
      /\ t \in HC => Change({"seated", "signal"}, from, to) = 0
  BY DEF Change
<1>2. sem[Hilzer!customer_on_sofa] \in Nat /\ Len(sofa_queue) \in Nat
  <2>1. sem \in [HSems -> Nat] /\ sofa_queue \in Seq(HC)
    BY DEF HilzerInv, HInv, HTyped
  <2> QED
    BY <2>1, OtherNames DEF HNamed
<1> QED
  BY <1>1, <1>2, SofaCounts

LEMMA SofaUntouched ==
  ASSUME HilzerInv, SofaCounted, HilzerInv', NEW t \in HT, NEW s, NEW from, NEW to \in HAt,
         s # Hilzer!customer_on_sofa,
         Hilzer!acquire(t, s, from, to) \/ Hilzer!release(t, s, 1, from, to),
         sofa_queue' = sofa_queue,
         t \in HB => "pop" \notin {from, to},
         t \in HC => (from \in {"seated", "signal"} <=> to \in {"seated", "signal"})
  PROVE  SofaCounted'
<1>1. pc \in [HT -> HAt] /\ sem \in [HSems -> Nat]
  BY DEF HilzerInv, HInv, HTyped
<1>2. HGoes(t, from, to, pc, pc')
  BY <1>1 DEF Hilzer!acquire, Hilzer!release, Hilzer!Goto, Hilzer!At, HGoes, Moves
<1>3. Hilzer!customer_on_sofa \in HSems
  BY OtherNames DEF HNamed
<1>4. sem'[Hilzer!customer_on_sofa] = sem[Hilzer!customer_on_sofa]
  BY <1>1, <1>3 DEF Hilzer!acquire, Hilzer!release
<1> QED
  BY <1>2, <1>4, SofaElsewhere

LEMMA NotOnSofa ==
  /\ \A c : /\ Hilzer!sofa_ticket(c) # Hilzer!customer_on_sofa
            /\ Hilzer!cut_ticket(c) # Hilzer!customer_on_sofa
  /\ \A s \in {Hilzer!global_mtx, Hilzer!sofa_mtx, Hilzer!register_mtx,
              Hilzer!has_space_on_sofa, Hilzer!customer_standing,
              Hilzer!payment_ready, Hilzer!receipt_ready} : s # Hilzer!customer_on_sofa
<1>1. \A c : /\ Hilzer!sofa_ticket(c) # Hilzer!customer_on_sofa
            /\ Hilzer!cut_ticket(c) # Hilzer!customer_on_sofa
  BY DEF Hilzer!sofa_ticket, Hilzer!cut_ticket, Hilzer!customer_on_sofa
<1> QED
  BY <1>1, HilzerNames, NamesApart

(* A barber that has acquired customer_on_sofa finds a customer to pop.    *)
LEMMA BarberFindsOne ==
  ASSUME HilzerInv, SofaCounted, NEW b \in HB, pc[b] = "pop"
  PROVE  sofa_queue # << >>
<1>1. Count(HB, pc, {"pop"}) >= 1 /\ Count(HB, pc, {"pop"}) \in Nat
  BY HilzerApart, CountPositive, CountIsNat
<1>2. Count(HC, pc, {"seated", "signal"}) \in Nat
  BY HilzerApart, CountIsNat
<1>3. sem[Hilzer!customer_on_sofa] \in Nat
  <2>1. sem \in [HSems -> Nat]
    BY DEF HilzerInv, HInv, HTyped
  <2> QED
    BY <2>1, OtherNames DEF HNamed
<1>4. Len(sofa_queue) # 0
  BY <1>1, <1>2, <1>3 DEF SofaCounted
<1> QED
  BY <1>4

LEMMA HilzerBarberKeeps ==
  ASSUME HilzerInv, SofaCounted, NEW b \in HB, Hilzer!barber(b)
  PROVE  HilzerInv'
<1> DEFINE Goal == HInv(pc', sem', next', sofa_queue', standing_queue', ahead')
<1>0. /\ HInv(pc, sem, next, sofa_queue, standing_queue, ahead) /\ b \in HT
      /\ HNamed \subseteq HSems
      /\ {Hilzer!sofa_mtx, Hilzer!customer_on_sofa, Hilzer!payment_ready,
          Hilzer!receipt_ready} \subseteq HNamed
  BY HilzerApart, OtherNames DEF HilzerInv, HNamed
<1>1. ASSUME Hilzer!acquire(b, Hilzer!sofa_mtx, "pop", "call"),
             next' = [next EXCEPT ![b] = Head(sofa_queue)],
             sofa_queue' = Tail(sofa_queue),
             UNCHANGED <<n_customers, standing_queue, ahead>>
      PROVE  Goal
  <2>1. /\ HGoes(b, "pop", "call", pc, pc') /\ HTakes(Hilzer!sofa_mtx, sem, sem')
        /\ sem' \in [HSems -> Nat]
    BY <1>0, <1>1, HilzerAcquires
  <2>2. HInv(pc', sem', next', Tail(sofa_queue), standing_queue, ahead)
    <3>1. sofa_queue # << >>
      BY <2>1, BarberFindsOne DEF HGoes
    <3> QED
      BY <1>0, <1>1, <2>1, <3>1, BarberPopsKeep
  <2> QED
    BY <1>1, <2>2
<1>2. ASSUME UNCHANGED Hilzer!hilzerVars,
             HInv(pc', sem', next, sofa_queue, standing_queue, ahead)
      PROVE  Goal
  BY <1>2 DEF Hilzer!hilzerVars
<1>3. ASSUME Hilzer!acquire(b, Hilzer!customer_on_sofa, "start", "pop")
      PROVE  HInv(pc', sem', next, sofa_queue, standing_queue, ahead)
  BY <1>0, <1>3, HilzerAcquires, BarberWaitsKeep
<1>4. ASSUME Hilzer!acquire(b, Hilzer!payment_ready, "register", "receipt")
      PROVE  HInv(pc', sem', next, sofa_queue, standing_queue, ahead)
  BY <1>0, <1>4, HilzerAcquires, BarberWaitsKeep
<1>5. ASSUME Hilzer!release(b, Hilzer!receipt_ready, 1, "receipt", "start")
      PROVE  HInv(pc', sem', next, sofa_queue, standing_queue, ahead)
  BY <1>0, <1>5, HilzerReleases, BarberWaitsKeep
<1>6. ASSUME Hilzer!release(b, Hilzer!sofa_mtx, 1, "met", "cut")
      PROVE  HInv(pc', sem', next, sofa_queue, standing_queue, ahead)
  BY <1>0, <1>6, HilzerReleases, BarberCutsKeep DEF CutsOn
<1>7. ASSUME pc[b] \in InHand
      PROVE  Ct(next[b]) \in HSems /\ Hilzer!cut_ticket(next[b]) = Ct(next[b])
  <2>1. next[b] \in HC
    BY <1>0, <1>7 DEF HInv, HChair
  <2> QED
    BY <2>1, HilzerApart DEF Ct
<1>8. ASSUME Hilzer!release(b, Hilzer!cut_ticket(next[b]), 1, "call", "meet")
      PROVE  HInv(pc', sem', next, sofa_queue, standing_queue, ahead)
  <2>1. pc[b] \in InHand
    BY <1>8 DEF Hilzer!release, Hilzer!Goto, Hilzer!At, InHand
  <2> QED
    BY <1>0, <1>7, <1>8, <2>1, HilzerReleases, BarberCutsKeep DEF CutsOn
<1>9. ASSUME Hilzer!acquire(b, Hilzer!cut_ticket(next[b]), "meet", "met")
      PROVE  HInv(pc', sem', next, sofa_queue, standing_queue, ahead)
  <2>1. pc[b] \in InHand
    BY <1>9 DEF Hilzer!acquire, Hilzer!Goto, Hilzer!At, InHand
  <2> QED
    BY <1>0, <1>7, <1>9, <2>1, HilzerAcquires, BarberCutsKeep DEF CutsOn
<1>10. ASSUME Hilzer!release(b, Hilzer!cut_ticket(next[b]), 1, "cut", "register")
       PROVE  HInv(pc', sem', next, sofa_queue, standing_queue, ahead)
  <2>1. pc[b] \in InHand
    BY <1>10 DEF Hilzer!release, Hilzer!Goto, Hilzer!At, InHand
  <2> QED
    BY <1>0, <1>7, <1>10, <2>1, HilzerReleases, BarberCutsKeep DEF CutsOn
<1>11. Goal
  BY <1>1, <1>2, <1>3, <1>4, <1>5, <1>6, <1>8, <1>9, <1>10 DEF Hilzer!barber
<1> QED
  BY <1>11 DEF HilzerInv

-----------------------------------------------------------------------------
(* The steps of an usher                                                   *)

LEMMA UsherCounts ==
  ASSUME NEW f, f \in [HT -> HAt], NEW g, NEW u \in HU, NEW from, NEW to \in HAt,
         HGoes(u, from, to, f, g)
  PROVE  \A L : /\ Count(HU, f, L) \in Nat /\ Count(HC, f, L) \in Nat
                /\ Count(HU, g, L) = Count(HU, f, L) + Change(L, from, to)
                /\ Count(HC, g, L) = Count(HC, f, L)
<1>1. u \notin HB /\ u \notin HC
  BY HilzerApart
<1>2. ASSUME NEW L
      PROVE  /\ Count(HU, f, L) \in Nat /\ Count(HC, f, L) \in Nat
             /\ Count(HU, g, L) = Count(HU, f, L) + Change(L, from, to)
             /\ Count(HC, g, L) = Count(HC, f, L)
  BY <1>1, HilzerGoesTo
<1> QED
  BY <1>2

LEMMA ReservedLess ==
  ASSUME NEW f, NEW g, NEW nx, NEW ny,
         \A u \in HU : g[u] = "meet" /\ g[ny[u]] = "standing"
                         => f[u] = "meet" /\ f[nx[u]] = "standing"
  PROVE  HReserved(g, ny) <= HReserved(f, nx)
  BY DEF HReserved

(* Nobody else calls or meets a customer in the meantime.                  *)
LEMMA UsherAlone ==
  ASSUME NEW f, NEW m, NEW nx, NEW p, NEW q, NEW a, HInv(f, m, nx, p, q, a),
         NEW u \in HU, f[u] \in Calling \/ m[Hilzer!global_mtx] > 0
  PROVE  \A t \in HU : t # u => f[t] \notin Calling
<1>1. Mutex(m, Hilzer!global_mtx, HU, f, Calling)
  BY DEF HInv, HMutexes
<1> QED
  BY <1>1 DEF Mutex

LEMMA LineCalls ==
  ASSUME NEW f, f \in [HT -> HAt], NEW g, NEW m, NEW r, NEW nx,
         nx \in [HU \cup HB -> HT], NEW q, q \in Seq(HC), q # << >>,
         HLine(f, m, nx, q), NEW u \in HU, HGoes(u, "pop", "call", f, g),
         \A t \in HU : f[t] \notin Calling,
         \A c \in HC : r[St(c)] = m[St(c)]
  PROVE  HLine(g, r, [nx EXCEPT ![u] = Head(q)], Tail(q))
<1> DEFINE h == Head(q)
           o == Tail(q)
           ny == [nx EXCEPT ![u] = Head(q)]
<1>0. "call" \in HAt
  BY DEF HAt
<1>1. /\ \A t \in HU : g[t] = IF t = u THEN "call" ELSE f[t]
      /\ \A c \in HC : g[c] = f[c]
      /\ ny[u] = h
  BY HilzerApart DEF HGoes, Moves
<1>2. /\ h \in Elements(q) /\ Elements(o) = Elements(q) \ {h} /\ Distinct(o)
      /\ Elements(q) \subseteq HC
  BY TailElements, ElementsIn DEF HLine
<1> HIDE DEF h, o, ny
<1>3. \A t \in HU : f[t] \notin {"call", "meet", "met"}
  BY DEF Calling
<1>4. \A c \in HC : ~UsherMeets(c, f, nx) /\ ~UsherMeets(c, g, ny)
  BY <1>1, <1>3 DEF UsherMeets
<1>5. SofaTickets(g, r, ny)
  BY <1>4 DEF SofaTickets, HLine
<1>6. \A c \in HC : g[c] \notin {"sofa", "seated"}
  BY <1>1, <1>4 DEF HLine
<1>7. \A c \in Elements(q) : g[c] = "standing"
  BY <1>1, <1>2 DEF HLine
<1>8. \A t \in HU : g[t] \in {"call", "meet"} => t = u /\ g[t] = "call"
  BY <1>1, <1>3
<1> QED
  BY <1>1, <1>2, <1>4, <1>5, <1>6, <1>7, <1>8 DEF HLine, o, ny

LEMMA LineMeets ==
  ASSUME NEW f, f \in [HT -> HAt], NEW g, NEW m, m \in [HSems -> Nat], NEW r, NEW nx,
         NEW q, q \in Seq(HC), HLine(f, m, nx, q), NEW u \in HU,
         \A t \in HU : t # u => f[t] \notin Calling,
         \/ HGoes(u, "call", "meet", f, g) /\ HGives(St(nx[u]), m, r)
         \/ HGoes(u, "meet", "met", f, g) /\ HTakes(St(nx[u]), m, r)
  PROVE  HLine(g, r, nx, q)
<1> DEFINE h == nx[u]
<1>0. /\ "meet" \in HAt /\ "met" \in HAt
      /\ \A t \in HU : t # u => f[t] \notin {"call", "meet", "met"}
  BY DEF HAt, Calling
<1>1. /\ f[u] \in {"call", "meet"}
      /\ \A t \in HU : t # u => g[t] = f[t]
      /\ \A c \in HC : g[c] = f[c]
  BY HilzerApart DEF HGoes, Moves
<1>2. h \in HC /\ h \notin Elements(q) /\ St(h) \in HSems
  BY <1>1, HilzerApart DEF HLine
<1>3. \A c \in HC : /\ UsherMeets(c, f, nx) <=> c = h /\ f[u] = "meet"
                    /\ UsherMeets(c, g, nx) <=> c = h /\ g[u] = "meet"
  BY <1>0, <1>1 DEF UsherMeets
<1>4. /\ Elements(q) \subseteq HC /\ Distinct(q)
      /\ \A c \in Elements(q) : g[c] = "standing"
  BY <1>1, ElementsIn DEF HLine
<1>5. m[St(h)] = IF f[h] \notin {"sofa", "seated"} /\ f[u] = "meet" THEN 1 ELSE 0
  BY <1>2, <1>3 DEF HLine, SofaTickets
<1>6. \A c \in HC : c # h => m[St(c)] = 0
  BY <1>3 DEF HLine, SofaTickets
<1>7. \A c \in HC : f[c] \in {"sofa", "seated"} => c = h /\ f[u] = "meet"
  BY <1>3 DEF HLine
<1>8. CASE HGoes(u, "call", "meet", f, g) /\ HGives(St(nx[u]), m, r)
  <2>1. f[u] = "call" /\ g[u] = "meet"
    BY <1>8, HilzerApart DEF HGoes, Moves
  <2>2. f[h] = "standing"
    BY <2>1 DEF HLine
  <2>3. r[St(h)] = 1 /\ \A c \in HC : c # h => r[St(c)] = 0
    BY <1>2, <1>5, <1>6, <1>8, <2>1, HilzerApart DEF HGives
  <2>4. SofaTickets(g, r, nx)
    BY <1>1, <1>2, <1>3, <2>1, <2>2, <2>3 DEF SofaTickets
  <2> QED
    BY <1>0, <1>1, <1>2, <1>3, <1>4, <1>7, <2>1, <2>2, <2>4 DEF HLine
<1>9. CASE HGoes(u, "meet", "met", f, g) /\ HTakes(St(nx[u]), m, r)
  <2>1. f[u] = "meet" /\ g[u] = "met"
    BY <1>9, HilzerApart DEF HGoes, Moves
  <2>2. f[h] \notin {"sofa", "seated"} /\ m[St(h)] = 1
    BY <1>5, <1>9 DEF HTakes
  <2>3. r[St(h)] = 0 /\ \A c \in HC : c # h => r[St(c)] = 0
    BY <1>2, <1>6, <1>9, <2>2, HilzerApart DEF HTakes
  <2>4. SofaTickets(g, r, nx)
    BY <1>1, <1>2, <1>3, <2>1, <2>3 DEF SofaTickets
  <2> QED
    BY <1>0, <1>1, <1>2, <1>3, <1>4, <1>7, <2>1, <2>2, <2>4 DEF HLine
<1> QED
  BY <1>8, <1>9

UsherSteps(h, from, to, m, r) ==
  \/ from = "start" /\ to = "space" /\ HTakes(Hilzer!customer_standing, m, r)
  \/ from = "space" /\ to = "pop" /\ HTakes(Hilzer!has_space_on_sofa, m, r)
  \/ from = "call" /\ to = "meet" /\ HGives(St(h), m, r)
  \/ from = "meet" /\ to = "met" /\ HTakes(St(h), m, r)
  \/ from = "met" /\ to = "start" /\ r = [m EXCEPT ![Hilzer!global_mtx] = 1]

LEMMA UsherServes ==
  ASSUME NEW f, NEW g, NEW m, NEW r, NEW nx, NEW p, NEW q, NEW a,
         HInv(f, m, nx, p, q, a), NEW u \in HU, r \in [HSems -> Nat],
         NEW from, NEW to, HGoes(u, from, to, f, g), UsherSteps(nx[u], from, to, m, r)
  PROVE  HInv(g, r, nx, p, q, a)
<1>0. /\ f \in [HT -> HAt] /\ q \in Seq(HC) /\ nx \in [HU \cup HB -> HT]
      /\ m \in [HSems -> Nat] /\ HLine(f, m, nx, q)
      /\ Mutex(m, Hilzer!global_mtx, HU, f, Calling)
  BY DEF HInv, HTyped, HMutexes
<1>1. to \in HAt
  BY DEF HAt, UsherSteps
<1>2. /\ f[u] = from
      /\ \A t \in HU : g[t] = IF t = u THEN to ELSE f[t]
      /\ \A t \in HB \cup HC : g[t] = f[t]
      /\ \A L : /\ Count(HU, f, L) \in Nat /\ Count(HC, f, L) \in Nat
                /\ Count(HU, g, L) = Count(HU, f, L) + Change(L, from, to)
                /\ Count(HC, g, L) = Count(HC, f, L)
  <2>1. /\ f[u] = from
        /\ \A t \in HU : g[t] = IF t = u THEN to ELSE f[t]
        /\ \A t \in HB \cup HC : g[t] = f[t]
    BY <1>0, HilzerApart DEF HGoes, Moves
  <2>2. \A L : /\ Count(HU, f, L) \in Nat /\ Count(HC, f, L) \in Nat
               /\ Count(HU, g, L) = Count(HU, f, L) + Change(L, from, to)
               /\ Count(HC, g, L) = Count(HC, f, L)
    <3>1. f \in [HT -> HAt] /\ to \in HAt
      BY <1>0, <1>1
    <3> QED
      BY <3>1, UsherCounts
  <2> QED
    BY <2>1, <2>2
<1>3. from \in {"call", "meet"} => nx[u] \in HC
  BY <1>0, <1>2 DEF HLine
<1>4. /\ Hilzer!global_mtx \in HNamed /\ Hilzer!customer_standing \in HNamed
      /\ Hilzer!has_space_on_sofa \in HNamed
      /\ Hilzer!global_mtx # Hilzer!customer_standing
      /\ Hilzer!global_mtx # Hilzer!has_space_on_sofa
      /\ Hilzer!customer_standing # Hilzer!has_space_on_sofa
      /\ \A x \in {Hilzer!sofa_mtx, Hilzer!register_mtx, Hilzer!payment_ready,
                   Hilzer!receipt_ready} :
           /\ x \in HNamed
           /\ x \notin {Hilzer!global_mtx, Hilzer!customer_standing, Hilzer!has_space_on_sofa}
  BY HilzerNames, NamesApart DEF HNamed
<1>5. /\ \A x \in HNamed \ {Hilzer!global_mtx, Hilzer!customer_standing,
                            Hilzer!has_space_on_sofa} : r[x] = m[x]
      /\ \A c \in HC : r[Ct(c)] = m[Ct(c)]
      /\ from \notin {"call", "meet"} => \A c \in HC : r[St(c)] = m[St(c)]
  <2>1. CASE from \in {"call", "meet"}
    <3>1. HGives(St(nx[u]), m, r) \/ HTakes(St(nx[u]), m, r)
      BY <2>1 DEF UsherSteps
    <3> QED
      BY <1>3, <2>1, <3>1, OtherNames, HilzerApart DEF HGives, HTakes
  <2>2. CASE from \notin {"call", "meet"}
    <3>1. \/ HTakes(Hilzer!customer_standing, m, r)
          \/ HTakes(Hilzer!has_space_on_sofa, m, r)
          \/ r = [m EXCEPT ![Hilzer!global_mtx] = 1]
      BY <2>2 DEF UsherSteps
    <3> QED
      BY <1>0, <1>4, <2>2, <3>1, OtherNames, HilzerApart DEF HTakes
  <2> QED
    BY <2>1, <2>2
<1>6. UsherTouches(m, r, nx, nx, q)
  BY <1>0, <1>4, <1>5 DEF UsherTouches
<1>7. /\ HTyped(g, r, nx, p, q, a)
      /\ Mutex(r, Hilzer!sofa_mtx, HB, g, Calling)
      /\ Mutex(r, Hilzer!register_mtx, HC, g, Paying)
      /\ HRegister(g, r) /\ HChair(g, r, nx, p)
  BY <1>1, <1>6, UsherLeaves
<1>8. HOrder(g, nx, p, q, a)
  <2>1. \A t \in HU : nx[t] \in HT
    BY <1>0
  <2>2. to \in {"call", "meet"} => from = "call" /\ nx[u] \in HC
    BY <1>3 DEF UsherSteps
  <2>3. \A t \in HU : g[t] \in {"call", "meet"} => f[t] \in {"call", "meet"} /\ nx[t] \in HC
    BY <1>0, <1>2, <2>2 DEF HLine
  <2>4. \A t \in HU : Calls(t, g, nx) => Calls(t, f, nx)
    BY <1>2, <2>3 DEF Calls
  <2>5. HOrder(f, nx, p, q, a)
    BY DEF HInv
  <2> QED
    BY <2>4, <2>5, OrderKept
<1>9. \A t \in HU : g[t] = "meet" => nx[t] \in HC
  BY <1>0, <1>2, <1>3 DEF HLine, UsherSteps
<1>10. /\ m[Hilzer!has_space_on_sofa] \in Nat /\ m[Hilzer!customer_standing] \in Nat
       /\ HReserved(f, nx) \in {0, 1} /\ HReserved(g, nx) \in {0, 1}
       /\ Count(HC, g, OnSofa) = Count(HC, f, OnSofa) /\ Count(HC, f, OnSofa) \in Nat
       /\ Count(HU, f, {"pop", "call"}) \in Nat /\ SOFA_CAPACITY \in Nat
       /\ m[Hilzer!has_space_on_sofa] + Count(HC, f, OnSofa)
            + Count(HU, f, {"pop", "call"}) + HReserved(f, nx) <= SOFA_CAPACITY
       /\ m[Hilzer!customer_standing] + Count(HU, f, {"space", "pop"}) = Len(q)
       /\ Count(HU, f, {"space", "pop"}) \in Nat
  BY <1>0, <1>2, <1>4, OtherNames, ReservedIs, Bounds DEF HInv, HPlaces, HStanding
<1>11. to # "meet" => HReserved(g, nx) <= HReserved(f, nx)
  <2>1. ASSUME to # "meet", NEW t \in HU, g[t] = "meet", g[nx[t]] = "standing"
        PROVE  f[t] = "meet" /\ f[nx[t]] = "standing"
    BY <1>2, <1>9, <2>1
  <2> QED
    BY <2>1, ReservedLess
<1>12. HPlaces(g, r, nx) /\ HStanding(g, r, q)
  <2> DEFINE w == m[Hilzer!has_space_on_sofa]
             x == r[Hilzer!has_space_on_sofa]
             y == Count(HU, f, {"pop", "call"})
             z == Count(HU, g, {"pop", "call"})
             k == Count(HU, f, {"space", "pop"})
             l == Count(HU, g, {"space", "pop"})
             v == m[Hilzer!customer_standing]
             s == r[Hilzer!customer_standing]
  <2>0. /\ z = y + Change({"pop", "call"}, from, to)
        /\ l = k + Change({"space", "pop"}, from, to)
        /\ w \in Nat /\ y \in Nat /\ k \in Nat /\ v \in Nat
    BY <1>2, <1>10
  <2> HIDE DEF w, x, y, z, k, l, v, s
  <2>1. x + z + HReserved(g, nx) <= w + y + HReserved(f, nx) /\ s + l = v + k
    <3>0. /\ HReserved(f, nx) \in Nat /\ HReserved(g, nx) \in Nat
          /\ HReserved(g, nx) <= HReserved(f, nx) + 1
      <4>1. HReserved(f, nx) \in {0, 1} /\ HReserved(g, nx) \in {0, 1}
        BY <1>10
      <4> QED
        BY <4>1
    <3>1. CASE from = "start" /\ to = "space" /\ HTakes(Hilzer!customer_standing, m, r)
      <4>1. x = w /\ s = v - 1
        BY <1>4, <3>1, OtherNames DEF HTakes, w, x, v, s
      <4>2. z = y /\ l = k + 1
        BY <2>0, <3>1 DEF Change
      <4>3. HReserved(g, nx) <= HReserved(f, nx)
        BY <1>11, <3>1
      <4> QED
        BY <2>0, <3>0, <4>1, <4>2, <4>3
    <3>2. CASE from = "space" /\ to = "pop" /\ HTakes(Hilzer!has_space_on_sofa, m, r)
      <4>1. x = w - 1 /\ s = v
        BY <1>4, <3>2, OtherNames DEF HTakes, w, x, v, s
      <4>2. z = y + 1 /\ l = k
        BY <2>0, <3>2 DEF Change
      <4>3. HReserved(g, nx) <= HReserved(f, nx)
        BY <1>11, <3>2
      <4> QED
        BY <2>0, <3>0, <4>1, <4>2, <4>3
    <3>3. CASE from = "call" /\ to = "meet" /\ HGives(St(nx[u]), m, r)
      <4>1. x = w /\ s = v
        BY <1>3, <1>4, <3>3, OtherNames DEF HGives, w, x, v, s
      <4>2. z = y - 1 /\ l = k
        BY <2>0, <3>3 DEF Change
      <4> QED
        BY <2>0, <3>0, <4>1, <4>2
    <3>4. CASE from = "meet" /\ to = "met" /\ HTakes(St(nx[u]), m, r)
      <4>1. x = w /\ s = v
        BY <1>3, <1>4, <3>4, OtherNames DEF HTakes, w, x, v, s
      <4>2. z = y /\ l = k
        BY <2>0, <3>4 DEF Change
      <4>3. HReserved(g, nx) <= HReserved(f, nx)
        BY <1>11, <3>4
      <4> QED
        BY <2>0, <3>0, <4>1, <4>2, <4>3
    <3>5. CASE from = "met" /\ to = "start" /\ r = [m EXCEPT ![Hilzer!global_mtx] = 1]
      <4>1. x = w /\ s = v
        BY <1>0, <1>4, <3>5, OtherNames DEF w, x, v, s
      <4>2. z = y /\ l = k
        BY <2>0, <3>5 DEF Change
      <4>3. HReserved(g, nx) <= HReserved(f, nx)
        BY <1>11, <3>5
      <4> QED
        BY <2>0, <3>0, <4>1, <4>2, <4>3
    <3> QED
      BY <3>1, <3>2, <3>3, <3>4, <3>5 DEF UsherSteps
  <2>2. x \in Nat /\ s \in Nat /\ z \in Nat /\ l \in Nat
    <3>1. x \in Nat /\ s \in Nat
      BY <1>4, OtherNames DEF x, s
    <3>2. z \in Nat /\ l \in Nat
      BY HilzerApart, CountIsNat DEF z, l
    <3> QED
      BY <3>1, <3>2
  <2>3. HStanding(g, r, q)
    BY <1>10, <2>1, <2>2 DEF HStanding, s, l, v, k
  <2>4. w + Count(HC, f, OnSofa) + y + HReserved(f, nx) <= SOFA_CAPACITY
    BY <1>10 DEF w, y
  <2>5. x + Count(HC, f, OnSofa) + z + HReserved(g, nx) <= SOFA_CAPACITY
    <3>1. ASSUME NEW w1 \in Nat, NEW y1 \in Nat, NEW h1 \in Nat, NEW x1 \in Nat,
                 NEW z1 \in Nat, NEW h2 \in Nat, NEW n1 \in Nat, NEW k1 \in Nat,
                 x1 + z1 + h2 <= w1 + y1 + h1, w1 + n1 + y1 + h1 <= k1
          PROVE  x1 + n1 + z1 + h2 <= k1
      BY <3>1
    <3>2. /\ HReserved(f, nx) \in Nat /\ HReserved(g, nx) \in Nat
          /\ Count(HC, f, OnSofa) \in Nat /\ SOFA_CAPACITY \in Nat
      BY <1>10
    <3>3. x + z + HReserved(g, nx) <= w + y + HReserved(f, nx)
      BY <2>1
    <3> QED
      BY <2>0, <2>2, <2>4, <3>1, <3>2, <3>3
  <2>6. HPlaces(g, r, nx)
    BY <1>10, <2>5 DEF HPlaces, x, z
  <2> QED
    BY <2>3, <2>6
<1>13. Mutex(r, Hilzer!global_mtx, HU, g, Calling)
  <2>0. \A t \in HU : t # u => g[t] = f[t]
    BY <1>2
  <2>1. CASE from = "met"
    <3>1. f[u] \in Calling /\ g[u] \notin Calling /\ r[Hilzer!global_mtx] = 1
      BY <1>0, <1>2, <1>4, <2>1, OtherNames DEF UsherSteps, Calling
    <3> QED
      BY <1>0, <2>0, <3>1, MutexGiven
  <2>2. CASE from # "met"
    <3>1. \A t \in HU : g[t] \in Calling <=> f[t] \in Calling
      BY <1>2, <2>2 DEF UsherSteps, Calling
    <3>2. r[Hilzer!global_mtx] = m[Hilzer!global_mtx]
      BY <1>3, <1>4, <2>2, OtherNames DEF UsherSteps, HTakes, HGives
    <3> QED
      BY <1>0, <3>1, <3>2, MutexKept
  <2> QED
    BY <2>1, <2>2
<1>14. HLine(g, r, nx, q)
  <2>1. CASE from \in {"call", "meet"}
    <3>1. \A t \in HU : t # u => f[t] \notin Calling
      <4>1. f[u] \in Calling
        BY <1>2, <2>1 DEF Calling
      <4> QED
        BY <4>1, UsherAlone
    <3>2. \/ HGoes(u, "call", "meet", f, g) /\ HGives(St(nx[u]), m, r)
          \/ HGoes(u, "meet", "met", f, g) /\ HTakes(St(nx[u]), m, r)
      BY <2>1 DEF UsherSteps
    <3> QED
      BY <1>0, <3>1, <3>2, LineMeets
  <2>2. CASE from \notin {"call", "meet"}
    <3>0. to \notin {"call", "meet"}
      BY <2>2 DEF UsherSteps
    <3>1. \A t \in HU : (g[t] = "call" <=> f[t] = "call") /\ (g[t] = "meet" <=> f[t] = "meet")
      BY <1>2, <2>2, <3>0
    <3>2. \A c \in HC : g[c] = f[c] /\ r[St(c)] = m[St(c)]
      BY <1>2, <1>5, <2>2
    <3> QED
      BY <1>0, <3>1, <3>2, LineKept
  <2> QED
    BY <2>1, <2>2
<1> QED
  BY <1>7, <1>8, <1>12, <1>13, <1>14 DEF HInv, HMutexes

LEMMA UsherPops ==
  ASSUME NEW f, NEW g, NEW m, NEW r, NEW nx, NEW ny, NEW p, NEW q, NEW a,
         HInv(f, m, nx, p, q, a), NEW u \in HU, HGoes(u, "pop", "call", f, g),
         m[Hilzer!global_mtx] > 0, r = [m EXCEPT ![Hilzer!global_mtx] = 0],
         ny = [nx EXCEPT ![u] = Head(q)]
  PROVE  HInv(g, r, ny, p, Tail(q), a)
<1>0. /\ f \in [HT -> HAt] /\ q \in Seq(HC) /\ nx \in [HU \cup HB -> HT]
      /\ m \in [HSems -> Nat] /\ HLine(f, m, nx, q)
      /\ Mutex(m, Hilzer!global_mtx, HU, f, Calling)
      /\ HOrder(f, nx, p, q, a)
  BY DEF HInv, HTyped, HMutexes
<1>1. "call" \in HAt /\ f[u] = "pop"
  BY DEF HAt, HGoes
<1>2. /\ \A t \in HU : g[t] = IF t = u THEN "call" ELSE f[t]
      /\ \A t \in HB \cup HC : g[t] = f[t]
  BY <1>0, HilzerApart DEF HGoes, Moves
<1>3. \A L : /\ Count(HU, f, L) \in Nat /\ Count(HC, f, L) \in Nat
             /\ Count(HU, g, L) = Count(HU, f, L) + Change(L, "pop", "call")
             /\ Count(HC, g, L) = Count(HC, f, L)
  BY <1>0, <1>1, UsherCounts
<1>4. \A t \in HU : f[t] \notin Calling
  BY <1>0 DEF Mutex
<1>5. /\ Hilzer!global_mtx \in HSems /\ r \in [HSems -> Nat]
      /\ \A x \in HSems : r[x] = IF x = Hilzer!global_mtx THEN 0 ELSE m[x]
  <2>1. Hilzer!global_mtx \in HSems
    BY OtherNames DEF HNamed
  <2> QED
    BY <1>0, <2>1
<1>6. q # << >>
  <2>1. Count(HU, f, {"space", "pop"}) >= 1
    BY <1>1, HilzerApart, CountPositive
  <2>2. m[Hilzer!customer_standing] \in Nat
    BY <1>0, OtherNames DEF HNamed
  <2>3. Count(HU, f, {"space", "pop"}) \in Nat
    BY <1>3
  <2>4. m[Hilzer!customer_standing] + Count(HU, f, {"space", "pop"}) = Len(q)
    BY DEF HInv, HStanding
  <2>5. Len(q) # 0
    BY <2>1, <2>2, <2>3, <2>4
  <2> QED
    BY <2>5
<1>7. /\ Head(q) \in HC /\ Head(q) \in Elements(q) /\ Tail(q) \in Seq(HC)
      /\ Len(Tail(q)) = Len(q) - 1 /\ Len(q) \in Nat
  BY <1>0, <1>6, TailElements, ElementsIn
<1>8. /\ ny \in [HU \cup HB -> HT] /\ ny[u] = Head(q)
      /\ \A t \in HB : ny[t] = nx[t]
  <2>1. Head(q) \in HT /\ u \in HU \cup HB /\ u \notin HB
    BY <1>7, HilzerApart
  <2> QED
    BY <1>0, <2>1
<1>9. /\ \A x \in HNamed : x # Hilzer!global_mtx => r[x] = m[x]
      /\ \A c \in HC : r[Ct(c)] = m[Ct(c)] /\ r[St(c)] = m[St(c)]
  <2>1. Hilzer!global_mtx \in HNamed
    BY DEF HNamed
  <2> QED
    BY <1>5, <2>1, OtherNames, HilzerApart
<1>10. UsherTouches(m, r, nx, ny, Tail(q))
  <2>1. \A x \in {Hilzer!sofa_mtx, Hilzer!register_mtx, Hilzer!payment_ready,
                  Hilzer!receipt_ready} : x \in HNamed /\ x # Hilzer!global_mtx
    BY HilzerNames, NamesApart DEF HNamed
  <2> QED
    BY <1>5, <1>7, <1>8, <1>9, <2>1 DEF UsherTouches
<1>11. /\ HTyped(g, r, ny, p, Tail(q), a)
       /\ Mutex(r, Hilzer!sofa_mtx, HB, g, Calling)
       /\ Mutex(r, Hilzer!register_mtx, HC, g, Paying)
       /\ HRegister(g, r) /\ HChair(g, r, ny, p)
  BY <1>1, <1>10, UsherLeaves
<1>12. Mutex(r, Hilzer!global_mtx, HU, g, Calling)
  <2>1. r[Hilzer!global_mtx] = m[Hilzer!global_mtx] - 1
    BY <1>0, <1>5 DEF Mutex
  <2>2. \A t \in HU : t # u => g[t] = f[t]
    BY <1>2
  <2> QED
    BY <1>0, <2>1, <2>2, MutexTaken
<1>13. /\ r[Hilzer!customer_standing] = m[Hilzer!customer_standing]
       /\ r[Hilzer!has_space_on_sofa] = m[Hilzer!has_space_on_sofa]
       /\ m[Hilzer!customer_standing] \in Nat /\ m[Hilzer!has_space_on_sofa] \in Nat
  <2>1. /\ Hilzer!customer_standing \in HNamed /\ Hilzer!has_space_on_sofa \in HNamed
        /\ Hilzer!customer_standing # Hilzer!global_mtx
        /\ Hilzer!has_space_on_sofa # Hilzer!global_mtx
    BY HilzerNames, NamesApart DEF HNamed
  <2> QED
    BY <1>0, <1>9, <2>1, OtherNames
<1>14. HStanding(g, r, Tail(q))
  <2>1. Change({"space", "pop"}, "pop", "call") = -1
    BY DEF Change
  <2>2. /\ Count(HU, g, {"space", "pop"}) = Count(HU, f, {"space", "pop"}) - 1
        /\ Count(HU, f, {"space", "pop"}) \in Nat
    BY <1>3, <2>1
  <2>3. m[Hilzer!customer_standing] + Count(HU, f, {"space", "pop"}) = Len(q)
    BY DEF HInv, HStanding
  <2> QED
    BY <1>7, <1>13, <2>2, <2>3 DEF HStanding
<1>15. HLine(g, r, ny, Tail(q))
  BY <1>0, <1>4, <1>6, <1>9, LineCalls
<1>16. HPlaces(g, r, ny)
  <2>1. Change({"pop", "call"}, "pop", "call") = 0
    BY DEF Change
  <2>2. /\ Count(HU, g, {"pop", "call"}) = Count(HU, f, {"pop", "call"})
        /\ Count(HC, g, OnSofa) = Count(HC, f, OnSofa)
        /\ Count(HU, f, {"pop", "call"}) \in Nat /\ Count(HC, f, OnSofa) \in Nat
    BY <1>3, <2>1
  <2>3. \A t \in HU : g[t] # "meet"
    BY <1>2, <1>4 DEF Calling
  <2>4. HReserved(g, ny) = 0 /\ HReserved(f, nx) \in {0, 1}
    BY <2>3, ReservedIs DEF HReserved
  <2>5. m[Hilzer!has_space_on_sofa] + Count(HC, f, OnSofa)
          + Count(HU, f, {"pop", "call"}) + HReserved(f, nx) <= SOFA_CAPACITY
    BY DEF HInv, HPlaces
  <2>6. r[Hilzer!has_space_on_sofa] + Count(HC, g, OnSofa)
          + Count(HU, g, {"pop", "call"}) + HReserved(g, ny) <= SOFA_CAPACITY
    BY <1>13, <2>2, <2>4, <2>5, Bounds
  <2> QED
    BY <2>6 DEF HPlaces
<1>17. HOrder(g, ny, p, Tail(q), a)
  <2>1. /\ Ordered(Tail(q), a) /\ Elements(Tail(q)) \subseteq Elements(q)
        /\ \A d \in Elements(Tail(q)) : Head(q) \in a[d]
    BY <1>0, <1>6, TailOrdered DEF HOrder
  <2>2. \A t \in HU : Calls(t, g, ny) => ny[t] = Head(q)
    BY <1>2, <1>4, <1>8 DEF Calls, Calling
  <2>3. \A c \in Elements(p) : c \in a[Head(q)]
    BY <1>0, <1>7 DEF HOrder
  <2> QED
    BY <1>0, <2>1, <2>2, <2>3 DEF HOrder
<1> QED
  BY <1>11, <1>12, <1>14, <1>15, <1>16, <1>17 DEF HInv, HMutexes

LEMMA HilzerUsherKeeps ==
  ASSUME HilzerInv, NEW u \in HU, Hilzer!usher(u)
  PROVE  HilzerInv'
<1> DEFINE Goal == HInv(pc', sem', next', sofa_queue', standing_queue', ahead')
<1>0. /\ HInv(pc, sem, next, sofa_queue, standing_queue, ahead) /\ u \in HT
      /\ HNamed \subseteq HSems
      /\ {Hilzer!customer_standing, Hilzer!has_space_on_sofa, Hilzer!global_mtx}
           \subseteq HNamed
      /\ pc \in [HT -> HAt] /\ sem \in [HSems -> Nat]
  BY HilzerApart, OtherNames DEF HilzerInv, HNamed, HInv, HTyped
<1>1. ASSUME Hilzer!PopStanding(u) PROVE Goal
  <2>1. HGoes(u, "pop", "call", pc, pc')
    BY <1>0, <1>1 DEF Hilzer!PopStanding, Hilzer!NextStanding, Hilzer!Goto, Hilzer!At,
       HGoes, Moves
  <2>2. /\ sem[Hilzer!global_mtx] > 0 /\ sem' = [sem EXCEPT ![Hilzer!global_mtx] = 0]
        /\ next' = [next EXCEPT ![u] = Head(standing_queue)]
        /\ standing_queue' = Tail(standing_queue)
        /\ sofa_queue' = sofa_queue /\ ahead' = ahead
    BY <1>1 DEF Hilzer!PopStanding, Hilzer!NextStanding, Hilzer!Free
  <2>3. HInv(pc', sem', next', sofa_queue, Tail(standing_queue), ahead)
    BY <1>0, <2>1, <2>2, UsherPops
  <2> QED
    BY <2>2, <2>3
<1>2. ASSUME UNCHANGED Hilzer!hilzerVars,
             HInv(pc', sem', next, sofa_queue, standing_queue, ahead)
      PROVE  Goal
  BY <1>2 DEF Hilzer!hilzerVars
<1>3. ASSUME Hilzer!acquire(u, Hilzer!customer_standing, "start", "space")
      PROVE  HInv(pc', sem', next, sofa_queue, standing_queue, ahead)
  BY <1>0, <1>3, HilzerAcquires, UsherServes DEF UsherSteps
<1>4. ASSUME Hilzer!acquire(u, Hilzer!has_space_on_sofa, "space", "pop")
      PROVE  HInv(pc', sem', next, sofa_queue, standing_queue, ahead)
  BY <1>0, <1>4, HilzerAcquires, UsherServes DEF UsherSteps
<1>5. ASSUME pc[u] \in {"call", "meet"}
      PROVE  St(next[u]) \in HSems /\ Hilzer!sofa_ticket(next[u]) = St(next[u])
  <2>1. next[u] \in HC
    BY <1>0, <1>5 DEF HInv, HLine
  <2> QED
    BY <2>1, HilzerApart DEF St
<1>6. ASSUME Hilzer!release(u, Hilzer!sofa_ticket(next[u]), 1, "call", "meet")
      PROVE  HInv(pc', sem', next, sofa_queue, standing_queue, ahead)
  <2>1. pc[u] \in {"call", "meet"}
    BY <1>6 DEF Hilzer!release, Hilzer!Goto, Hilzer!At
  <2> QED
    BY <1>0, <1>5, <1>6, <2>1, HilzerReleases, UsherServes DEF UsherSteps
<1>7. ASSUME Hilzer!acquire(u, Hilzer!sofa_ticket(next[u]), "meet", "met")
      PROVE  HInv(pc', sem', next, sofa_queue, standing_queue, ahead)
  <2>1. pc[u] \in {"call", "meet"}
    BY <1>7 DEF Hilzer!acquire, Hilzer!Goto, Hilzer!At
  <2> QED
    BY <1>0, <1>5, <1>7, <2>1, HilzerAcquires, UsherServes DEF UsherSteps
<1>8. ASSUME Hilzer!Goto(u, "met", "start"), sem' = [sem EXCEPT ![Hilzer!global_mtx] = 1]
      PROVE  HInv(pc', sem', next, sofa_queue, standing_queue, ahead)
  <2>1. HGoes(u, "met", "start", pc, pc') /\ sem' \in [HSems -> Nat]
    BY <1>0, <1>8 DEF Hilzer!Goto, Hilzer!At, HGoes, Moves
  <2> QED
    BY <1>0, <1>8, <2>1, UsherServes DEF UsherSteps
<1>9. Goal
  BY <1>1, <1>2, <1>3, <1>4, <1>6, <1>7, <1>8 DEF Hilzer!usher, Hilzer!TakeSofaPlace
<1> QED
  BY <1>9 DEF HilzerInv

-----------------------------------------------------------------------------
(* The steps of a customer                                                 *)

LEMMA CustomerCounts ==
  ASSUME NEW f, f \in [HT -> HAt], NEW g, NEW c \in HC, NEW from, NEW to \in HAt,
         HGoes(c, from, to, f, g)
  PROVE  \A L : /\ Count(HU, f, L) \in Nat /\ Count(HC, f, L) \in Nat
                /\ Count(HB, f, L) \in Nat
                /\ Count(HC, g, L) = Count(HC, f, L) + Change(L, from, to)
                /\ Count(HU, g, L) = Count(HU, f, L)
                /\ Count(HB, g, L) = Count(HB, f, L)
<1>1. c \notin HB /\ c \notin HU
  BY HilzerApart
<1>2. ASSUME NEW L
      PROVE  /\ Count(HU, f, L) \in Nat /\ Count(HC, f, L) \in Nat
             /\ Count(HB, f, L) \in Nat
             /\ Count(HC, g, L) = Count(HC, f, L) + Change(L, from, to)
             /\ Count(HU, g, L) = Count(HU, f, L)
             /\ Count(HB, g, L) = Count(HB, f, L)
  BY <1>1, HilzerGoesTo
<1> QED
  BY <1>2

LEMMA LineSits ==
  ASSUME NEW f, f \in [HT -> HAt], NEW g, NEW m, m \in [HSems -> Nat], NEW r, NEW nx,
         NEW q, q \in Seq(HC), HLine(f, m, nx, q), NEW c \in HC,
         \A t, u \in HU : f[t] \in Calling /\ f[u] \in Calling => t = u,
         \/ HGoes(c, "standing", "sofa", f, g) /\ HTakes(St(c), m, r)
         \/ HGoes(c, "seated", "signal", f, g) /\ HGives(St(c), m, r)
  PROVE  HLine(g, r, nx, q) /\ UsherMeets(c, f, nx)
<1>1. /\ \A t \in HU : g[t] = f[t]
      /\ \A d \in HC : d # c => g[d] = f[d]
      /\ \/ f[c] = "standing" /\ g[c] = "sofa" /\ HTakes(St(c), m, r)
         \/ f[c] = "seated" /\ g[c] = "signal" /\ HGives(St(c), m, r)
  BY HilzerApart DEF HGoes, Moves
<1>2. \A d \in HC : UsherMeets(d, g, nx) <=> UsherMeets(d, f, nx)
  BY <1>1 DEF UsherMeets
<1>3. UsherMeets(c, f, nx)
  <2>1. CASE f[c] = "seated"
    BY <2>1 DEF HLine
  <2>2. CASE HTakes(St(c), m, r)
    <3>1. m[St(c)] > 0
      BY <2>2 DEF HTakes
    <3> QED
      BY <3>1 DEF HLine, SofaTickets
  <2> QED
    BY <1>1, <2>1, <2>2
<1>4. PICK u \in HU : f[u] = "meet" /\ nx[u] = c
  BY <1>3 DEF UsherMeets
<1>5. \A t \in HU : f[t] \in {"call", "meet", "met"} => t = u
  BY <1>4 DEF Calling
<1>6. c \notin Elements(q) /\ Elements(q) \subseteq HC
  BY <1>4, ElementsIn DEF HLine
<1>7. \A d \in Elements(q) : g[d] = "standing"
  BY <1>1, <1>6 DEF HLine
<1>8. \A d \in HC : d # c => r[St(d)] = m[St(d)]
  BY <1>1, HilzerApart DEF HTakes, HGives
<1>9. SofaTickets(g, r, nx)
  <2>1. r[St(c)] = IF g[c] \notin {"sofa", "seated"} THEN 1 ELSE 0
    <3>1. m[St(c)] = IF f[c] \notin {"sofa", "seated"} THEN 1 ELSE 0
      BY <1>3 DEF HLine, SofaTickets
    <3>2. St(c) \in HSems
      BY HilzerApart
    <3> QED
      BY <1>1, <3>1, <3>2 DEF HTakes, HGives
  <2>2. ASSUME NEW d \in HC, d # c
        PROVE  r[St(d)] = IF g[d] \notin {"sofa", "seated"} /\ UsherMeets(d, g, nx)
                          THEN 1 ELSE 0
    BY <1>1, <1>2, <1>8, <2>2 DEF HLine, SofaTickets
  <2> QED
    BY <1>2, <1>3, <2>1, <2>2 DEF SofaTickets
<1>10. \A d \in HC : g[d] \in {"sofa", "seated"} => UsherMeets(d, g, nx)
  BY <1>1, <1>2, <1>3 DEF HLine
<1>11. \A t \in HU : g[t] \in {"call", "meet"} => t = u /\ g[t] = "meet"
  BY <1>1, <1>4, <1>5
<1>12. g[nx[u]] # "start"
  BY <1>1, <1>4
<1>13. Distinct(q)
  BY DEF HLine
<1> QED
  BY <1>3, <1>4, <1>6, <1>7, <1>9, <1>10, <1>11, <1>12, <1>13 DEF HLine

LEMMA ChairSits ==
  ASSUME NEW f, f \in [HT -> HAt], NEW g, NEW m, m \in [HSems -> Nat], NEW r, NEW nx,
         NEW p, p \in Seq(HC), HChair(f, m, nx, p), NEW c \in HC,
         \/ HGoes(c, "wait", "up", f, g) /\ HTakes(Ct(c), m, r)
         \/ HGoes(c, "ready", "in_chair", f, g) /\ HGives(Ct(c), m, r)
         \/ HGoes(c, "in_chair", "cut", f, g) /\ HTakes(Ct(c), m, r)
  PROVE  HChair(g, r, nx, p)
<1>1. /\ \A t \in HB : g[t] = f[t]
      /\ \A d \in HC : d # c => g[d] = f[d]
      /\ \/ f[c] = "wait" /\ g[c] = "up" /\ HTakes(Ct(c), m, r)
         \/ f[c] = "ready" /\ g[c] = "in_chair" /\ HGives(Ct(c), m, r)
         \/ f[c] = "in_chair" /\ g[c] = "cut" /\ HTakes(Ct(c), m, r)
  BY HilzerApart DEF HGoes, Moves
<1>2. \A d \in HC : BarberHas(d, g, nx) <=> BarberHas(d, f, nx)
  BY <1>1 DEF BarberHas
<1>3. /\ m[Ct(c)] = IF f[c] \in Expected /\ c \notin Elements(p) /\ ~BarberHas(c, f, nx)
                    THEN 1 ELSE 0
      /\ Ct(c) \in HSems
  BY HilzerApart DEF HChair, CutTickets
<1>4. c \notin Elements(p) /\ ~BarberHas(c, f, nx)
  <2>1. CASE HTakes(Ct(c), m, r)
    <3>1. m[Ct(c)] > 0
      BY <2>1 DEF HTakes
    <3> QED
      BY <1>3, <3>1
  <2>2. CASE f[c] = "ready"
    <3>1. f[c] \notin Seated /\ f[c] \notin Expected
      BY <2>2 DEF Seated, Expected
    <3>2. ASSUME NEW b \in HB, f[b] \in Keeping, nx[b] = c PROVE FALSE
      BY <3>1, <3>2 DEF HChair, Keeping, Expected
    <3> QED
      BY <3>1, <3>2 DEF HChair, BarberHas
  <2> QED
    BY <1>1, <2>1, <2>2
<1>5. \A b \in HB : g[b] \in {"call", "met", "cut"} => nx[b] \in HC /\ nx[b] # c
  BY <1>1, <1>4 DEF HChair, BarberHas, InHand, Keeping
<1>6. \A b \in HB : g[b] = "call" => g[nx[b]] \in Seated
  BY <1>1, <1>5 DEF HChair
<1>7. \A b \in HB : g[b] \in {"met", "cut"} => g[nx[b]] \in Expected
  BY <1>1, <1>5 DEF HChair
<1>8. /\ \A b \in HB : g[b] \in InHand => nx[b] \in HC /\ nx[b] \notin Elements(p)
      /\ \A b, d \in HB : g[b] \in InHand /\ g[d] \in InHand /\ nx[b] = nx[d] => b = d
      /\ Distinct(p)
  BY <1>1 DEF HChair
<1>9. \A d \in Elements(p) : g[d] \in Seated
  <2>1. Elements(p) \subseteq HC
    BY ElementsIn
  <2> QED
    BY <1>1, <1>4, <2>1 DEF HChair
<1>10. CutTickets(g, r, nx, p)
  <2>1. r[Ct(c)] = IF g[c] \in Expected THEN 1 ELSE 0
    BY <1>1, <1>3, <1>4 DEF HTakes, HGives, Expected, Seated
  <2>2. ASSUME NEW d \in HC, d # c
        PROVE  r[Ct(d)] = IF g[d] \in Expected /\ d \notin Elements(p)
                             /\ ~BarberHas(d, g, nx) THEN 1 ELSE 0
    <3>1. r[Ct(d)] = m[Ct(d)]
      BY <1>1, <2>2, HilzerApart DEF HTakes, HGives
    <3> QED
      BY <1>1, <1>2, <2>2, <3>1 DEF HChair, CutTickets
  <2> QED
    BY <1>2, <1>4, <2>1, <2>2 DEF CutTickets
<1> QED
  BY <1>6, <1>7, <1>8, <1>9, <1>10 DEF HChair

SameTickets(m, r) == \A c \in HC : r[St(c)] = m[St(c)] /\ r[Ct(c)] = m[Ct(c)]

(* A customer that goes neither to the sofa nor to the chair.              *)
LEMMA CustomerPasses ==
  ASSUME NEW f, NEW g, NEW m, NEW r, NEW nx, NEW p, NEW q, NEW a,
         HInv(f, m, nx, p, q, a), NEW c \in HC, NEW from, NEW to \in HAt,
         HGoes(c, from, to, f, g), SameTickets(m, r),
         {from, to} \cap {"start", "standing", "sofa", "seated"} = {},
         from \in Seated <=> to \in Seated, from \in Expected <=> to \in Expected
  PROVE  /\ HLine(g, r, nx, q) /\ HChair(g, r, nx, p)
         /\ HReserved(g, nx) = HReserved(f, nx)
<1>0. /\ f \in [HT -> HAt] /\ q \in Seq(HC) /\ p \in Seq(HC)
      /\ HLine(f, m, nx, q) /\ HChair(f, m, nx, p)
  BY DEF HInv, HTyped
<1>1. /\ f[c] = from /\ g[c] = to
      /\ \A d \in HC : d # c => g[d] = f[d]
      /\ \A t \in HB \cup HU : g[t] = f[t]
  BY <1>0, HilzerApart DEF HGoes, Moves
<1>2. \A d \in HC : \/ g[d] = f[d]
                    \/ {f[d], g[d]} \cap {"start", "standing", "sofa", "seated"} = {}
  BY <1>1
<1>3. \A d \in HC : r[St(d)] = m[St(d)] /\ r[Ct(d)] = m[Ct(d)]
  BY DEF SameTickets
<1>4. HLine(g, r, nx, q)
  BY <1>0, <1>1, <1>2, <1>3, LineKept
<1>5. HChair(g, r, nx, p)
  <2>1. \A d \in HC : /\ g[d] \in Seated <=> f[d] \in Seated
                      /\ g[d] \in Expected <=> f[d] \in Expected
    BY <1>1
  <2>2. \A b \in HB : g[b] = f[b] \/ {f[b], g[b]} \cap InHand = {}
    BY <1>1
  <2> QED
    BY <1>0, <1>3, <2>1, <2>2, ChairKept
<1>6. HReserved(g, nx) = HReserved(f, nx)
  <2>1. \A u \in HU : f[u] = "meet" => nx[u] \in HC
    BY <1>0 DEF HLine
  <2>2. \A u \in HU : g[u] = "meet" /\ g[nx[u]] = "standing"
                        <=> f[u] = "meet" /\ f[nx[u]] = "standing"
    BY <1>1, <2>1
  <2> QED
    BY <2>2, ReservedKept
<1> QED
  BY <1>4, <1>5, <1>6

(* A step with no effect on the register.                                  *)
LEMMA RegisterKept ==
  ASSUME NEW f, NEW g, NEW m, NEW r, NEW nx, NEW p, NEW q, NEW a,
         HInv(f, m, nx, p, q, a), NEW c \in HC, NEW from, NEW to \in HAt,
         HGoes(c, from, to, f, g), {from, to} \cap Paying = {},
         \A s \in {Hilzer!register_mtx, Hilzer!payment_ready, Hilzer!receipt_ready} :
           r[s] = m[s]
  PROVE  HRegister(g, r) /\ Mutex(r, Hilzer!register_mtx, HC, g, Paying)
<1>0. f \in [HT -> HAt] /\ Mutex(m, Hilzer!register_mtx, HC, f, Paying) /\ HRegister(f, m)
  BY DEF HInv, HTyped, HMutexes
<1>1. /\ f[c] = from /\ g[c] = to
      /\ \A d \in HC : d # c => g[d] = f[d]
      /\ \A t \in HB \cup HU : g[t] = f[t]
  BY <1>0, HilzerApart DEF HGoes, Moves
<1>2. \A d \in HC : g[d] \in Paying <=> f[d] \in Paying
  BY <1>1
<1>3. \A d \in HC : g[d] \in {"paid"} <=> f[d] \in {"paid"}
  BY <1>1 DEF Paying
<1>4. /\ Count(HC, g, {"paid"}) = Count(HC, f, {"paid"})
      /\ Count(HB, g, {"receipt"}) = Count(HB, f, {"receipt"})
  BY <1>1, <1>3, CountSame
<1>5. Mutex(r, Hilzer!register_mtx, HC, g, Paying)
  BY <1>0, <1>2, MutexKept
<1> QED
  BY <1>0, <1>4, <1>5 DEF HRegister

LEMMA CustomerSignals ==
  ASSUME NEW f, NEW g, NEW m, NEW r, NEW nx, NEW p, NEW q, NEW a,
         HInv(f, m, nx, p, q, a), NEW c \in HC, r \in [HSems -> Nat],
         \/ HGoes(c, "signal", "wait", f, g) /\ HGives(Hilzer!customer_on_sofa, m, r)
         \/ HGoes(c, "up", "ready", f, g) /\ HGives(Hilzer!has_space_on_sofa, m, r)
  PROVE  HInv(g, r, nx, p, q, a)
<1>0. f \in [HT -> HAt] /\ m \in [HSems -> Nat]
  BY DEF HInv, HTyped
<1>1. PICK from \in {"signal", "up"}, to \in {"wait", "ready"} :
        /\ HGoes(c, from, to, f, g)
        /\ \/ from = "signal" /\ to = "wait" /\ HGives(Hilzer!customer_on_sofa, m, r)
           \/ from = "up" /\ to = "ready" /\ HGives(Hilzer!has_space_on_sofa, m, r)
  OBVIOUS
<1>2. /\ to \in HAt /\ to \notin {"standing", "sofa"}
      /\ {from, to} \cap {"start", "standing", "sofa", "seated"} = {}
      /\ from \in Seated <=> to \in Seated
      /\ from \in Expected <=> to \in Expected
      /\ {from, to} \cap Paying = {}
  BY <1>1 DEF HAt, Seated, Expected, Paying
<1>3. \A s \in HSems \ {Hilzer!customer_on_sofa, Hilzer!has_space_on_sofa} : r[s] = m[s]
  BY <1>1 DEF HGives
<1>4. /\ \A s \in {Hilzer!register_mtx, Hilzer!payment_ready, Hilzer!receipt_ready,
                   Hilzer!global_mtx, Hilzer!sofa_mtx, Hilzer!customer_standing} :
           s \in HSems \ {Hilzer!customer_on_sofa, Hilzer!has_space_on_sofa}
      /\ {Hilzer!customer_on_sofa, Hilzer!has_space_on_sofa} \subseteq HNamed
      /\ Hilzer!customer_on_sofa # Hilzer!has_space_on_sofa
  BY HilzerNames, NamesApart DEF HNamed, HSems
<1>5. SameTickets(m, r)
  BY <1>3, <1>4, HilzerApart DEF SameTickets
<1>6. CustomerTouches(m, r)
  BY <1>3, <1>4 DEF CustomerTouches
<1>7. /\ HTyped(g, r, nx, p, q, a)
      /\ Mutex(r, Hilzer!global_mtx, HU, g, Calling)
      /\ Mutex(r, Hilzer!sofa_mtx, HB, g, Calling)
      /\ HStanding(g, r, q) /\ HOrder(g, nx, p, q, a)
  BY <1>1, <1>2, <1>6, CustomerLeaves
<1>8. /\ HLine(g, r, nx, q) /\ HChair(g, r, nx, p)
      /\ HReserved(g, nx) = HReserved(f, nx)
  BY <1>1, <1>2, <1>5, CustomerPasses
<1>9. HRegister(g, r) /\ Mutex(r, Hilzer!register_mtx, HC, g, Paying)
  <2>1. \A s \in {Hilzer!register_mtx, Hilzer!payment_ready, Hilzer!receipt_ready} :
          r[s] = m[s]
    BY <1>3, <1>4
  <2> QED
    BY <1>1, <1>2, <2>1, RegisterKept
<1>10. HPlaces(g, r, nx)
  <2> DEFINE w == m[Hilzer!has_space_on_sofa]
             x == r[Hilzer!has_space_on_sofa]
             y == Count(HC, f, OnSofa)
             z == Count(HC, g, OnSofa)
             k == Count(HU, f, {"pop", "call"})
             h == HReserved(f, nx)
  <2>0. /\ y \in Nat /\ k \in Nat /\ Count(HU, g, {"pop", "call"}) = k
        /\ z = y + Change(OnSofa, from, to)
    BY <1>0, <1>1, <1>2, CustomerCounts
  <2>1. w \in Nat /\ h \in Nat /\ SOFA_CAPACITY \in Nat
    BY <1>0, <1>4, OtherNames, ReservedIs, Bounds
  <2>2. w + y + k + h <= SOFA_CAPACITY
    BY DEF HInv, HPlaces
  <2>3. x + z = w + y
    <3>1. CASE from = "signal"
      <4>1. x = w
        BY <1>1, <1>4, <3>1, OtherNames DEF HGives
      <4>2. Change(OnSofa, from, to) = 0
        BY <1>1, <3>1 DEF Change, OnSofa
      <4> QED
        BY <2>0, <4>1, <4>2
    <3>2. CASE from = "up"
      <4>1. x = w + 1
        BY <1>1, <1>4, <3>2, OtherNames DEF HGives
      <4>2. Change(OnSofa, from, to) = -1
        BY <1>1, <3>2 DEF Change, OnSofa
      <4> HIDE DEF w, x, y, z
      <4> QED
        BY <2>0, <2>1, <4>1, <4>2
    <3> QED
      BY <3>1, <3>2
  <2>4. x + z + k + h <= SOFA_CAPACITY
    <3> HIDE DEF w, x, y, z, k, h
    <3> QED
      BY <2>2, <2>3
  <2> QED
    BY <1>8, <2>0, <2>4 DEF HPlaces
<1> QED
  BY <1>7, <1>8, <1>9, <1>10 DEF HInv, HMutexes

CustomerPay(from, to, m, r) ==
  \/ from = "cut" /\ to = "pay" /\ HTakes(Hilzer!register_mtx, m, r)
  \/ from = "pay" /\ to = "paid" /\ HGives(Hilzer!payment_ready, m, r)
  \/ from = "paid" /\ to = "receipt" /\ HTakes(Hilzer!receipt_ready, m, r)
  \/ from = "receipt" /\ to = "leave" /\ HGives(Hilzer!register_mtx, m, r)

LEMMA CustomerPays ==
  ASSUME NEW f, NEW g, NEW m, NEW r, NEW nx, NEW p, NEW q, NEW a,
         HInv(f, m, nx, p, q, a), NEW c \in HC, r \in [HSems -> Nat],
         NEW from, NEW to, HGoes(c, from, to, f, g), CustomerPay(from, to, m, r)
  PROVE  HInv(g, r, nx, p, q, a)
<1>0. /\ f \in [HT -> HAt] /\ m \in [HSems -> Nat]
      /\ Mutex(m, Hilzer!register_mtx, HC, f, Paying) /\ HRegister(f, m)
  BY DEF HInv, HTyped, HMutexes
<1>1. from \in {"cut", "pay", "paid", "receipt"} /\ to \in {"pay", "paid", "receipt", "leave"}
  BY DEF CustomerPay
<1>2. to \in HAt
  BY <1>1 DEF HAt
<1>3. /\ from \notin Seated /\ to \notin Seated /\ from \notin Expected /\ to \notin Expected
      /\ from \notin OnSofa /\ to \notin OnSofa
      /\ to \notin {"standing", "sofa"}
      /\ {from, to} \cap {"start", "standing", "sofa", "seated"} = {}
  BY <1>1 DEF Seated, Expected, OnSofa
<1>4. \A s \in HSems \ {Hilzer!register_mtx, Hilzer!payment_ready, Hilzer!receipt_ready} :
        r[s] = m[s]
  BY DEF HGives, HTakes, CustomerPay
<1>5. /\ {Hilzer!register_mtx, Hilzer!payment_ready, Hilzer!receipt_ready} \subseteq HNamed
      /\ \A s \in {Hilzer!global_mtx, Hilzer!sofa_mtx, Hilzer!customer_standing,
                   Hilzer!has_space_on_sofa} :
           s \in HSems \ {Hilzer!register_mtx, Hilzer!payment_ready, Hilzer!receipt_ready}
      /\ Hilzer!register_mtx # Hilzer!payment_ready
      /\ Hilzer!register_mtx # Hilzer!receipt_ready
      /\ Hilzer!payment_ready # Hilzer!receipt_ready
  BY HilzerNames, NamesApart DEF HNamed, HSems
<1>6. SameTickets(m, r)
  BY <1>4, <1>5, HilzerApart DEF SameTickets
<1>7. CustomerTouches(m, r)
  BY <1>4, <1>5 DEF CustomerTouches
<1>8. /\ HTyped(g, r, nx, p, q, a)
      /\ Mutex(r, Hilzer!global_mtx, HU, g, Calling)
      /\ Mutex(r, Hilzer!sofa_mtx, HB, g, Calling)
      /\ HStanding(g, r, q) /\ HOrder(g, nx, p, q, a)
  BY <1>2, <1>3, <1>7, CustomerLeaves
<1>9. /\ HLine(g, r, nx, q) /\ HChair(g, r, nx, p)
      /\ HReserved(g, nx) = HReserved(f, nx)
  BY <1>2, <1>3, <1>6, CustomerPasses
<1>10. \A L : /\ Count(HU, f, L) \in Nat /\ Count(HC, f, L) \in Nat
              /\ Count(HB, f, L) \in Nat
              /\ Count(HC, g, L) = Count(HC, f, L) + Change(L, from, to)
              /\ Count(HU, g, L) = Count(HU, f, L)
              /\ Count(HB, g, L) = Count(HB, f, L)
  <2>1. f \in [HT -> HAt] /\ c \in HC /\ HGoes(c, from, to, f, g)
    BY <1>0
  <2> QED
    BY ONLY <1>2, <2>1, CustomerCounts
<1>11. HPlaces(g, r, nx)
  <2>1. Count(HC, g, OnSofa) = Count(HC, f, OnSofa)
    <3>1. Change(OnSofa, from, to) = 0
      BY <1>3 DEF Change
    <3> QED
      BY <1>10, <3>1
  <2>2. r[Hilzer!has_space_on_sofa] = m[Hilzer!has_space_on_sofa]
    BY <1>4, <1>5
  <2> QED
    BY <1>9, <1>10, <2>1, <2>2 DEF HInv, HPlaces
<1>12. /\ f[c] = from /\ g[c] = to
       /\ \A d \in HC : d # c => g[d] = f[d]
  BY <1>0, HilzerApart DEF HGoes, Moves
<1>13. Mutex(r, Hilzer!register_mtx, HC, g, Paying)
  <2>1. CASE from = "cut"
    <3>1. m[Hilzer!register_mtx] > 0 /\ r[Hilzer!register_mtx] = m[Hilzer!register_mtx] - 1
      BY <1>5, <2>1, OtherNames DEF CustomerPay, HTakes
    <3> QED
      BY <1>0, <1>12, <3>1, MutexTaken
  <2>2. CASE from = "receipt"
    <3>1. r[Hilzer!register_mtx] = m[Hilzer!register_mtx] + 1 /\ to = "leave"
      BY <1>5, <2>2, OtherNames DEF CustomerPay, HGives
    <3>2. f[c] \in Paying /\ g[c] \notin Paying
      BY <1>12, <2>2, <3>1 DEF Paying
    <3> QED
      BY <1>0, <1>12, <3>1, <3>2, MutexGiven
  <2>3. CASE from \in {"pay", "paid"}
    <3>1. r[Hilzer!register_mtx] = m[Hilzer!register_mtx] /\ to \in {"paid", "receipt"}
      BY <1>5, <2>3, OtherNames DEF CustomerPay, HGives, HTakes
    <3>2. \A d \in HC : g[d] \in Paying <=> f[d] \in Paying
      BY <1>12, <2>3, <3>1 DEF Paying
    <3> QED
      BY <1>0, <3>1, <3>2, MutexKept
  <2> QED
    BY <1>1, <2>1, <2>2, <2>3
<1>14. HRegister(g, r)
  <2> DEFINE v == m[Hilzer!payment_ready]
             w == m[Hilzer!receipt_ready]
             x == r[Hilzer!payment_ready]
             y == r[Hilzer!receipt_ready]
             k == Count(HC, f, {"paid"})
             l == Count(HC, g, {"paid"})
             n == Count(HB, f, {"receipt"})
  <2>1. /\ k \in Nat /\ n \in Nat /\ l = k + Change({"paid"}, from, to)
        /\ Count(HB, g, {"receipt"}) = n
    BY <1>10
  <2>2. v \in Nat /\ w \in Nat
    BY <1>0, <1>5, OtherNames
  <2>3. k = v + n + w
    BY <1>0 DEF HRegister
  <2>4. /\ from \in {"cut", "receipt"} => x = v /\ y = w
        /\ from = "pay" => x = v + 1 /\ y = w
        /\ from = "paid" => x = v /\ y = w - 1
    BY <1>5, OtherNames DEF CustomerPay, HTakes, HGives
  <2>5. /\ from \in {"cut", "receipt"} => Change({"paid"}, from, to) = 0
        /\ from = "pay" => Change({"paid"}, from, to) = 1
        /\ from = "paid" => Change({"paid"}, from, to) = -1
    BY DEF CustomerPay, Change
  <2> HIDE DEF v, w, x, y, k, l, n
  <2>6. l = x + n + y
    BY <1>1, <2>1, <2>2, <2>3, <2>4, <2>5
  <2> QED
    BY <2>1, <2>6 DEF HRegister, x, y, l
<1> QED
  BY <1>8, <1>9, <1>11, <1>13, <1>14 DEF HInv, HMutexes

CustomerTicket(c, from, to, m, r) ==
  \/ from = "standing" /\ to = "sofa" /\ HTakes(St(c), m, r)
  \/ from = "seated" /\ to = "signal" /\ HGives(St(c), m, r)
  \/ from = "wait" /\ to = "up" /\ HTakes(Ct(c), m, r)
  \/ from = "ready" /\ to = "in_chair" /\ HGives(Ct(c), m, r)
  \/ from = "in_chair" /\ to = "cut" /\ HTakes(Ct(c), m, r)

LEMMA CustomerSits ==
  ASSUME NEW f, NEW g, NEW m, NEW r, NEW nx, NEW p, NEW q, NEW a,
         HInv(f, m, nx, p, q, a), NEW c \in HC, r \in [HSems -> Nat],
         NEW from, NEW to, HGoes(c, from, to, f, g), CustomerTicket(c, from, to, m, r)
  PROVE  HInv(g, r, nx, p, q, a)
<1>0. /\ f \in [HT -> HAt] /\ q \in Seq(HC) /\ p \in Seq(HC)
      /\ m \in [HSems -> Nat] /\ HLine(f, m, nx, q) /\ HChair(f, m, nx, p)
      /\ Mutex(m, Hilzer!global_mtx, HU, f, Calling)
  BY DEF HInv, HTyped, HMutexes
<1>1. /\ from \in {"standing", "seated", "wait", "ready", "in_chair"}
      /\ to \in {"sofa", "signal", "up", "in_chair", "cut"}
  BY DEF CustomerTicket
<1>2. to \in HAt
  BY <1>1 DEF HAt
<1>3. /\ to \in {"standing", "sofa"} => from \in {"standing", "sofa"}
      /\ {from, to} \cap Paying = {}
  BY DEF CustomerTicket, Paying
<1>4. \A s \in HNamed : r[s] = m[s]
  BY OtherNames, HilzerApart DEF CustomerTicket, HTakes, HGives
<1>5. CustomerTouches(m, r)
  BY <1>4 DEF CustomerTouches, HNamed
<1>6. /\ HTyped(g, r, nx, p, q, a)
      /\ Mutex(r, Hilzer!global_mtx, HU, g, Calling)
      /\ Mutex(r, Hilzer!sofa_mtx, HB, g, Calling)
      /\ HStanding(g, r, q) /\ HOrder(g, nx, p, q, a)
  BY <1>2, <1>3, <1>5, CustomerLeaves
<1>7. HRegister(g, r) /\ Mutex(r, Hilzer!register_mtx, HC, g, Paying)
  <2>1. \A s \in {Hilzer!register_mtx, Hilzer!payment_ready, Hilzer!receipt_ready} :
          r[s] = m[s]
    BY <1>4 DEF HNamed
  <2> QED
    BY <1>2, <1>3, <2>1, RegisterKept
<1>8. /\ f[c] = from /\ g[c] = to
      /\ \A d \in HC : d # c => g[d] = f[d]
      /\ \A t \in HB \cup HU : g[t] = f[t]
  BY <1>0, HilzerApart DEF HGoes, Moves
<1>9. \A t, u \in HU : f[t] \in Calling /\ f[u] \in Calling => t = u
  BY <1>0 DEF Mutex
<1>10. \A L : /\ Count(HU, f, L) \in Nat /\ Count(HC, f, L) \in Nat
              /\ Count(HB, f, L) \in Nat
              /\ Count(HC, g, L) = Count(HC, f, L) + Change(L, from, to)
              /\ Count(HU, g, L) = Count(HU, f, L)
              /\ Count(HB, g, L) = Count(HB, f, L)
  <2>1. f \in [HT -> HAt] /\ c \in HC /\ HGoes(c, from, to, f, g)
    BY <1>0
  <2> QED
    BY ONLY <1>2, <2>1, CustomerCounts
<1>11. CASE from \in {"standing", "seated"}
  <2>1. \/ HGoes(c, "standing", "sofa", f, g) /\ HTakes(St(c), m, r)
        \/ HGoes(c, "seated", "signal", f, g) /\ HGives(St(c), m, r)
    BY <1>11 DEF CustomerTicket
  <2>2. HLine(g, r, nx, q) /\ UsherMeets(c, f, nx)
    BY <1>0, <1>9, <2>1, LineSits
  <2>3. HChair(g, r, nx, p)
    <3>1. \A d \in HC : r[Ct(d)] = m[Ct(d)]
      BY <2>1, HilzerApart DEF HTakes, HGives
    <3>2. /\ from \in Seated <=> to \in Seated
          /\ from \in Expected <=> to \in Expected
      BY <1>11 DEF CustomerTicket, Seated, Expected
    <3>3. \A d \in HC : /\ g[d] \in Seated <=> f[d] \in Seated
                        /\ g[d] \in Expected <=> f[d] \in Expected
      BY <1>8, <3>2
    <3>4. \A b \in HB : g[b] = f[b] \/ {f[b], g[b]} \cap InHand = {}
      BY <1>8
    <3> QED
      BY <1>0, <3>1, <3>3, <3>4, ChairKept
  <2>4. /\ Count(HC, g, OnSofa) = Count(HC, f, OnSofa) + Change(OnSofa, from, to)
        /\ Count(HU, g, {"pop", "call"}) = Count(HU, f, {"pop", "call"})
        /\ Count(HC, f, OnSofa) \in Nat /\ Count(HU, f, {"pop", "call"}) \in Nat
    BY <1>10
  <2>5. Change(OnSofa, from, to) + HReserved(g, nx) = HReserved(f, nx)
    <3>1. PICK u \in HU : f[u] = "meet" /\ nx[u] = c
      BY <2>2 DEF UsherMeets
    <3>2. \A t \in HU : f[t] = "meet" => t = u
      BY <1>9, <3>1 DEF Calling
    <3>3. CASE from = "standing"
      <4>1. Change(OnSofa, from, to) = 1 /\ to = "sofa"
        BY <1>11, <3>3 DEF CustomerTicket, Change, OnSofa
      <4>2. HReserved(f, nx) = 1
        BY <1>8, <3>1, <3>3 DEF HReserved
      <4>3. HReserved(g, nx) = 0
        BY <1>8, <3>1, <3>2, <4>1 DEF HReserved
      <4> QED
        BY <4>1, <4>2, <4>3
    <3>4. CASE from = "seated"
      <4>1. Change(OnSofa, from, to) = 0 /\ to = "signal"
        BY <1>11, <3>4 DEF CustomerTicket, Change, OnSofa
      <4>2. HReserved(f, nx) = 0
        BY <1>8, <3>1, <3>2, <3>4 DEF HReserved
      <4>3. HReserved(g, nx) = 0
        BY <1>8, <3>1, <3>2, <4>1 DEF HReserved
      <4> QED
        BY <4>1, <4>2, <4>3
    <3> QED
      BY <1>11, <3>3, <3>4
  <2>6. HPlaces(g, r, nx)
    <3>1. r[Hilzer!has_space_on_sofa] = m[Hilzer!has_space_on_sofa]
          /\ m[Hilzer!has_space_on_sofa] \in Nat
      BY <1>0, <1>4, OtherNames DEF HNamed
    <3>2. /\ HReserved(g, nx) \in {0, 1} /\ HReserved(f, nx) \in {0, 1}
          /\ SOFA_CAPACITY \in Nat
      BY ReservedIs, Bounds
    <3>3. Change(OnSofa, from, to) \in {-1, 0, 1}
      BY DEF Change
    <3>4. m[Hilzer!has_space_on_sofa] + Count(HC, f, OnSofa)
            + Count(HU, f, {"pop", "call"}) + HReserved(f, nx) <= SOFA_CAPACITY
      BY DEF HInv, HPlaces
    <3>5. r[Hilzer!has_space_on_sofa] + Count(HC, g, OnSofa)
            + Count(HU, g, {"pop", "call"}) + HReserved(g, nx) <= SOFA_CAPACITY
      BY <2>4, <2>5, <3>1, <3>2, <3>3, <3>4
    <3> QED
      BY <3>5 DEF HPlaces
  <2> QED
    BY <1>6, <1>7, <2>2, <2>3, <2>6 DEF HInv, HMutexes
<1>12. CASE from \in {"wait", "ready", "in_chair"}
  <2>1. \/ HGoes(c, "wait", "up", f, g) /\ HTakes(Ct(c), m, r)
        \/ HGoes(c, "ready", "in_chair", f, g) /\ HGives(Ct(c), m, r)
        \/ HGoes(c, "in_chair", "cut", f, g) /\ HTakes(Ct(c), m, r)
    BY <1>12 DEF CustomerTicket
  <2>2. HChair(g, r, nx, p)
    BY <1>0, <2>1, ChairSits
  <2>3. HLine(g, r, nx, q)
    <3>1. \A d \in HC : r[St(d)] = m[St(d)]
      BY <2>1, HilzerApart DEF HTakes, HGives
    <3>2. {from, to} \cap {"start", "standing", "sofa", "seated"} = {}
      BY <1>12 DEF CustomerTicket
    <3>3. \A d \in HC : \/ g[d] = f[d]
                        \/ {f[d], g[d]} \cap {"start", "standing", "sofa", "seated"} = {}
      BY <1>8, <3>2
    <3>4. \A u \in HU : (g[u] = "call" <=> f[u] = "call") /\ (g[u] = "meet" <=> f[u] = "meet")
      BY <1>8
    <3> QED
      BY <1>0, <3>1, <3>3, <3>4, LineKept
  <2>4. HPlaces(g, r, nx)
    <3>1. Change(OnSofa, from, to) = 0
      BY <1>12 DEF CustomerTicket, Change, OnSofa
    <3>2. /\ Count(HC, g, OnSofa) = Count(HC, f, OnSofa)
          /\ Count(HU, g, {"pop", "call"}) = Count(HU, f, {"pop", "call"})
      BY <1>10, <3>1
    <3>3. HReserved(g, nx) = HReserved(f, nx)
      <4>1. \A u \in HU : f[u] = "meet" => nx[u] \in HC
        BY <1>0 DEF HLine
      <4>2. from # "standing" /\ to # "standing"
        BY <1>1, <1>12
      <4>3. \A u \in HU : g[u] = "meet" /\ g[nx[u]] = "standing"
                            <=> f[u] = "meet" /\ f[nx[u]] = "standing"
        BY <1>8, <4>1, <4>2
      <4> QED
        BY <4>3, ReservedKept
    <3>4. r[Hilzer!has_space_on_sofa] = m[Hilzer!has_space_on_sofa]
      BY <1>4 DEF HNamed
    <3> QED
      BY <3>2, <3>3, <3>4 DEF HInv, HPlaces
  <2> QED
    BY <1>6, <1>7, <2>2, <2>3, <2>4 DEF HInv, HMutexes
<1> QED
  BY <1>1, <1>11, <1>12

(* A customer at the door: it finds global_mtx free, so that no usher has  *)
(* anybody in hand.                                                        *)
AtDoor(from, to) == (from = "start" /\ to = "standing") \/ (from = "leave" /\ to = "start")

DoorTouches(m, r) ==
  /\ m[Hilzer!global_mtx] > 0
  /\ \A s \in HSems \ {Hilzer!customer_standing} : r[s] = m[s]

LEMMA StandingGrows ==
  ASSUME NEW f, NEW g, NEW m, NEW r, NEW q, NEW o, HStanding(f, m, q),
         Count(HU, f, {"space", "pop"}) \in Nat,
         Count(HU, g, {"space", "pop"}) = Count(HU, f, {"space", "pop"}),
         m[Hilzer!customer_standing] \in Nat,
         r[Hilzer!customer_standing] = m[Hilzer!customer_standing] + 1,
         Len(o) = Len(q) + 1
  PROVE  HStanding(g, r, o)
  BY DEF HStanding

LEMMA CustomerAtDoor ==
  ASSUME NEW f, NEW g, NEW m, NEW r, NEW nx, NEW p, NEW q, NEW a,
         HInv(f, m, nx, p, q, a), NEW c \in HC, r \in [HSems -> Nat],
         NEW from, NEW to, HGoes(c, from, to, f, g), AtDoor(from, to),
         DoorTouches(m, r)
  PROVE  /\ g \in [HT -> HAt] /\ g[c] = to /\ f[c] = from
         /\ \A d \in HC : d # c => g[d] = f[d]
         /\ c \notin Elements(p) /\ c \notin Elements(q)
         /\ Elements(p) \subseteq HC /\ Elements(q) \subseteq HC
         /\ \A u \in HU : g[u] \notin Calling
         /\ HMutexes(g, r) /\ HRegister(g, r) /\ HPlaces(g, r, nx) /\ HChair(g, r, nx, p)
         /\ \A d \in HC : ~UsherMeets(d, g, nx) /\ g[d] \notin {"sofa", "seated"}
         /\ SofaTickets(g, r, nx)
<1>0. /\ f \in [HT -> HAt] /\ q \in Seq(HC) /\ p \in Seq(HC)
      /\ m \in [HSems -> Nat] /\ HLine(f, m, nx, q) /\ HChair(f, m, nx, p)
      /\ Mutex(m, Hilzer!global_mtx, HU, f, Calling)
      /\ Mutex(m, Hilzer!sofa_mtx, HB, f, Calling)
  BY DEF HInv, HTyped, HMutexes
<1>1. /\ to \in HAt /\ {from, to} \cap Paying = {}
      /\ from \in {"start", "leave"} /\ to \in {"start", "standing"}
  BY DEF AtDoor, HAt, Paying
<1>2. /\ f[c] = from /\ g[c] = to
      /\ \A d \in HC : d # c => g[d] = f[d]
      /\ \A t \in HB \cup HU : g[t] = f[t]
  BY <1>0, HilzerApart DEF HGoes, Moves
<1>3. g \in [HT -> HAt]
  BY <1>0, <1>1 DEF HGoes, Moves
<1>4. \A u \in HU : f[u] \notin Calling
  BY <1>0 DEF Mutex, DoorTouches
<1>5. \A u \in HU : f[u] \notin {"call", "meet"}
  BY <1>4 DEF Calling
<1>6. /\ \A s \in {Hilzer!register_mtx, Hilzer!payment_ready, Hilzer!receipt_ready,
                   Hilzer!global_mtx, Hilzer!sofa_mtx, Hilzer!has_space_on_sofa} :
           s \in HSems \ {Hilzer!customer_standing}
      /\ Hilzer!customer_standing \in HNamed
  BY HilzerNames, NamesApart DEF HNamed, HSems
<1>7. \A d \in HC : r[St(d)] = m[St(d)] /\ r[Ct(d)] = m[Ct(d)]
  BY <1>6, HilzerApart DEF DoorTouches
<1>8. Elements(p) \subseteq HC /\ Elements(q) \subseteq HC
  BY <1>0, ElementsIn
<1>9. c \notin Elements(p) /\ c \notin Elements(q)
  BY <1>0, <1>1, <1>2 DEF HLine, HChair, Seated
<1>10. HMutexes(g, r) /\ HRegister(g, r)
  <2>1. \A s \in {Hilzer!register_mtx, Hilzer!payment_ready, Hilzer!receipt_ready} :
          r[s] = m[s]
    BY <1>6 DEF DoorTouches
  <2>2. HRegister(g, r) /\ Mutex(r, Hilzer!register_mtx, HC, g, Paying)
    BY <1>1, <2>1, RegisterKept
  <2>3. /\ r[Hilzer!global_mtx] = m[Hilzer!global_mtx]
        /\ r[Hilzer!sofa_mtx] = m[Hilzer!sofa_mtx]
    BY <1>6 DEF DoorTouches
  <2>4. /\ Mutex(r, Hilzer!global_mtx, HU, g, Calling)
        /\ Mutex(r, Hilzer!sofa_mtx, HB, g, Calling)
    <3>1. /\ \A u \in HU : g[u] \in Calling <=> f[u] \in Calling
          /\ \A b \in HB : g[b] \in Calling <=> f[b] \in Calling
      BY <1>2
    <3>2. Mutex(r, Hilzer!global_mtx, HU, g, Calling)
      BY <1>0, <2>3, <3>1, MutexKept
    <3>3. Mutex(r, Hilzer!sofa_mtx, HB, g, Calling)
      BY <1>0, <2>3, <3>1, MutexKept
    <3> QED
      BY <3>2, <3>3
  <2> QED
    BY <2>2, <2>4 DEF HMutexes
<1>11. \A d \in HC : ~UsherMeets(d, g, nx) /\ ~UsherMeets(d, f, nx)
  BY <1>2, <1>5 DEF UsherMeets
<1>12. \A d \in HC : g[d] \notin {"sofa", "seated"}
  BY <1>0, <1>1, <1>2, <1>11 DEF HLine
<1>13. SofaTickets(g, r, nx)
  BY <1>0, <1>7, <1>11 DEF SofaTickets, HLine
<1>14. HChair(g, r, nx, p)
  <2>1. \A d \in HC : /\ g[d] \in Seated <=> f[d] \in Seated
                      /\ g[d] \in Expected <=> f[d] \in Expected
    BY <1>1, <1>2 DEF Seated, Expected
  <2>2. \A b \in HB : g[b] = f[b] \/ {f[b], g[b]} \cap InHand = {}
    BY <1>2
  <2> QED
    BY <1>0, <1>7, <2>1, <2>2, ChairKept
<1>15. \A L : /\ Count(HU, f, L) \in Nat /\ Count(HC, f, L) \in Nat
              /\ Count(HB, f, L) \in Nat
              /\ Count(HC, g, L) = Count(HC, f, L) + Change(L, from, to)
              /\ Count(HU, g, L) = Count(HU, f, L)
              /\ Count(HB, g, L) = Count(HB, f, L)
  <2>1. f \in [HT -> HAt] /\ to \in HAt
    BY <1>0, <1>1
  <2> QED
    BY <2>1, CustomerCounts
<1>16. HPlaces(g, r, nx)
  <2>1. Change(OnSofa, from, to) = 0
    BY <1>1 DEF Change, OnSofa
  <2>2. Count(HC, g, OnSofa) = Count(HC, f, OnSofa)
    BY <1>15, <2>1
  <2>3. HReserved(g, nx) = HReserved(f, nx)
    BY <1>2, <1>5 DEF HReserved
  <2>4. r[Hilzer!has_space_on_sofa] = m[Hilzer!has_space_on_sofa]
    BY <1>6 DEF DoorTouches
  <2> QED
    BY <1>15, <2>2, <2>3, <2>4 DEF HInv, HPlaces
<1> QED
  BY <1>2, <1>3, <1>4, <1>8, <1>9, <1>10, <1>11, <1>12, <1>13, <1>14, <1>16

LEMMA CustomerEnters ==
  ASSUME NEW f, NEW g, NEW m, NEW r, NEW nx, NEW p, NEW q, NEW a,
         HInv(f, m, nx, p, q, a), NEW c \in HC, r \in [HSems -> Nat],
         HGoes(c, "start", "standing", f, g), m[Hilzer!global_mtx] > 0,
         HGives(Hilzer!customer_standing, m, r)
  PROVE  HInv(g, r, nx, p, Append(q, c),
              [a EXCEPT ![c] = {d \in HC : f[d] # "start"}])
<1> DEFINE o == Append(q, c)
           b == [a EXCEPT ![c] = {d \in HC : f[d] # "start"}]
<1>0. /\ f \in [HT -> HAt] /\ q \in Seq(HC) /\ p \in Seq(HC)
      /\ m \in [HSems -> Nat] /\ nx \in [HU \cup HB -> HT] /\ a \in [HC -> SUBSET HC]
      /\ HLine(f, m, nx, q) /\ HChair(f, m, nx, p) /\ HStanding(f, m, q)
      /\ HOrder(f, nx, p, q, a)
  BY DEF HInv, HTyped
<1>1. DoorTouches(m, r)
  BY DEF HGives, DoorTouches
<1>2. AtDoor("start", "standing")
  BY DEF AtDoor
<1>3. /\ g \in [HT -> HAt] /\ g[c] = "standing" /\ f[c] = "start"
      /\ \A d \in HC : d # c => g[d] = f[d]
      /\ c \notin Elements(p) /\ c \notin Elements(q)
      /\ Elements(p) \subseteq HC /\ Elements(q) \subseteq HC
      /\ \A u \in HU : g[u] \notin Calling
      /\ HMutexes(g, r) /\ HRegister(g, r) /\ HPlaces(g, r, nx) /\ HChair(g, r, nx, p)
      /\ \A d \in HC : ~UsherMeets(d, g, nx) /\ g[d] \notin {"sofa", "seated"}
      /\ SofaTickets(g, r, nx)
  BY <1>1, <1>2, CustomerAtDoor
<1>4. \A u \in HU : g[u] \notin {"call", "meet"}
  BY <1>3 DEF Calling
<1>5. /\ o \in Seq(HC) /\ Len(o) = Len(q) + 1 /\ Len(q) \in Nat
      /\ Elements(o) = Elements(q) \cup {c} /\ Distinct(o)
  BY <1>0, <1>3, AppendElement DEF HLine
<1>6. /\ b \in [HC -> SUBSET HC] /\ b[c] = {d \in HC : f[d] # "start"}
      /\ \A d \in HC : d # c => b[d] = a[d]
  BY <1>0
<1>7. Ordered(o, b)
  <2>1. Ordered(q, b)
    BY <1>0, <1>3, <1>6 DEF HOrder, Ordered, Elements
  <2>2. \A d \in Elements(q) : d \in b[c]
    BY <1>0, <1>3, <1>6 DEF HLine
  <2> QED
    BY <1>0, <2>1, <2>2, AppendOrdered
<1> HIDE DEF o, b
<1>8. HTyped(g, r, nx, p, o, b)
  BY <1>0, <1>3, <1>5, <1>6 DEF HTyped
<1>9. HStanding(g, r, o)
  <2>1. Count(HU, g, {"space", "pop"}) = Count(HU, f, {"space", "pop"})
        /\ Count(HU, f, {"space", "pop"}) \in Nat
    <3>1. "standing" \in HAt
      BY DEF HAt
    <3>2. \A L : /\ Count(HU, f, L) \in Nat /\ Count(HC, f, L) \in Nat
                 /\ Count(HB, f, L) \in Nat
                 /\ Count(HC, g, L) = Count(HC, f, L) + Change(L, "start", "standing")
                 /\ Count(HU, g, L) = Count(HU, f, L)
                 /\ Count(HB, g, L) = Count(HB, f, L)
      <4>1. f \in [HT -> HAt]
        BY <1>0
      <4> QED
        BY <3>1, <4>1, CustomerCounts
    <3> QED
      BY <3>2
  <2>2. r[Hilzer!customer_standing] = m[Hilzer!customer_standing] + 1
        /\ m[Hilzer!customer_standing] \in Nat
    BY <1>0, OtherNames DEF HGives, HNamed
  <2>3. Len(o) = Len(q) + 1
    BY <1>5
  <2>4. HStanding(f, m, q)
    BY <1>0
  <2> QED
    BY <2>1, <2>2, <2>3, <2>4, StandingGrows
<1>10. HLine(g, r, nx, o)
  <2>1. \A d \in Elements(o) : g[d] = "standing"
    BY <1>0, <1>3, <1>5 DEF HLine
  <2> QED
    BY <1>3, <1>4, <1>5, <2>1 DEF HLine
<1>11. HOrder(g, nx, p, o, b)
  <2>1. Ordered(p, b)
    BY <1>0, <1>3, <1>6 DEF HOrder, Ordered, Elements
  <2>2. \A d \in Elements(p), e \in Elements(q) : d \in b[e]
    BY <1>0, <1>3, <1>6 DEF HOrder
  <2>3. \A d \in Elements(p) : d \in b[c]
    BY <1>0, <1>3, <1>6 DEF HChair, Seated
  <2> QED
    BY <1>4, <1>5, <1>7, <2>1, <2>2, <2>3 DEF HOrder, Calls
<1> QED
  BY <1>3, <1>8, <1>9, <1>10, <1>11 DEF HInv, o, b

LEMMA CustomerLeavesShop ==
  ASSUME NEW f, NEW g, NEW m, NEW nx, NEW p, NEW q, NEW a,
         HInv(f, m, nx, p, q, a), NEW c \in HC,
         HGoes(c, "leave", "start", f, g), m[Hilzer!global_mtx] > 0
  PROVE  HInv(g, m, nx, p, q, [d \in HC |-> IF d = c THEN {} ELSE a[d] \ {c}])
<1> DEFINE b == [d \in HC |-> IF d = c THEN {} ELSE a[d] \ {c}]
<1>0. /\ f \in [HT -> HAt] /\ q \in Seq(HC) /\ p \in Seq(HC)
      /\ m \in [HSems -> Nat] /\ nx \in [HU \cup HB -> HT] /\ a \in [HC -> SUBSET HC]
      /\ HLine(f, m, nx, q) /\ HChair(f, m, nx, p) /\ HStanding(f, m, q)
      /\ HOrder(f, nx, p, q, a)
  BY DEF HInv, HTyped
<1>1. AtDoor("leave", "start") /\ DoorTouches(m, m)
  BY DEF AtDoor, DoorTouches
<1>2. /\ g \in [HT -> HAt] /\ g[c] = "start" /\ f[c] = "leave"
      /\ \A d \in HC : d # c => g[d] = f[d]
      /\ c \notin Elements(p) /\ c \notin Elements(q)
      /\ Elements(p) \subseteq HC /\ Elements(q) \subseteq HC
      /\ \A u \in HU : g[u] \notin Calling
      /\ HMutexes(g, m) /\ HRegister(g, m) /\ HPlaces(g, m, nx) /\ HChair(g, m, nx, p)
      /\ \A d \in HC : ~UsherMeets(d, g, nx) /\ g[d] \notin {"sofa", "seated"}
      /\ SofaTickets(g, m, nx)
  BY <1>0, <1>1, CustomerAtDoor
<1>3. \A u \in HU : g[u] \notin {"call", "meet"}
  BY <1>2 DEF Calling
<1>4. /\ b \in [HC -> SUBSET HC]
      /\ \A d, e \in HC : d # c /\ e # c /\ d \in a[e] => d \in b[e]
  BY <1>0
<1> HIDE DEF b
<1>5. HTyped(g, m, nx, p, q, b)
  BY <1>0, <1>2, <1>4 DEF HTyped
<1>6. HStanding(g, m, q)
  <2>1. "start" \in HAt
    BY DEF HAt
  <2>2. \A L : /\ Count(HU, f, L) \in Nat /\ Count(HC, f, L) \in Nat
               /\ Count(HB, f, L) \in Nat
               /\ Count(HC, g, L) = Count(HC, f, L) + Change(L, "leave", "start")
               /\ Count(HU, g, L) = Count(HU, f, L)
               /\ Count(HB, g, L) = Count(HB, f, L)
    <3>1. f \in [HT -> HAt]
      BY <1>0
    <3> QED
      BY <2>1, <3>1, CustomerCounts
  <2> QED
    BY <1>0, <2>2 DEF HStanding
<1>7. HLine(g, m, nx, q)
  <2>1. \A d \in Elements(q) : g[d] = "standing"
    BY <1>0, <1>2 DEF HLine
  <2>2. Distinct(q)
    BY <1>0 DEF HLine
  <2> QED
    BY <1>2, <1>3, <2>1, <2>2 DEF HLine
<1>8. HOrder(g, nx, p, q, b)
  <2>1. Ordered(p, b) /\ Ordered(q, b)
    BY <1>0, <1>2, <1>4 DEF HOrder, Ordered, Elements
  <2>2. \A d \in Elements(p), e \in Elements(q) : d \in b[e]
    BY <1>0, <1>2, <1>4 DEF HOrder
  <2> QED
    BY <1>3, <2>1, <2>2 DEF HOrder, Calls
<1> QED
  BY <1>2, <1>5, <1>6, <1>7, <1>8 DEF HInv, b

(* A customer that its usher has called sits down on the sofa, behind those *)
(* who came before it and ahead of those who stand.                        *)
LEMMA CustomerSitsDown ==
  ASSUME NEW f, NEW g, NEW m, NEW nx, NEW p, NEW q, NEW a,
         HInv(f, m, nx, p, q, a), NEW c \in HC,
         HGoes(c, "sofa", "seated", f, g), m[Hilzer!sofa_mtx] > 0
  PROVE  HInv(g, m, nx, Append(p, c), q, a)
<1> DEFINE o == Append(p, c)
<1>0. /\ f \in [HT -> HAt] /\ q \in Seq(HC) /\ p \in Seq(HC)
      /\ m \in [HSems -> Nat] /\ nx \in [HU \cup HB -> HT] /\ a \in [HC -> SUBSET HC]
      /\ HLine(f, m, nx, q) /\ HChair(f, m, nx, p) /\ HStanding(f, m, q)
      /\ HOrder(f, nx, p, q, a)
      /\ Mutex(m, Hilzer!global_mtx, HU, f, Calling)
      /\ Mutex(m, Hilzer!sofa_mtx, HB, f, Calling)
  BY DEF HInv, HTyped, HMutexes
<1>1. /\ "seated" \in HAt /\ {"sofa", "seated"} \cap Paying = {}
      /\ "sofa" \in OnSofa /\ "seated" \in OnSofa
      /\ "sofa" \notin Seated /\ "seated" \in Seated
      /\ "sofa" \notin Expected /\ "seated" \in Expected
  BY DEF HAt, Paying, OnSofa, Seated, Expected
<1>2. /\ f[c] = "sofa" /\ g[c] = "seated"
      /\ \A d \in HC : d # c => g[d] = f[d]
      /\ \A t \in HB \cup HU : g[t] = f[t]
  BY <1>0, HilzerApart DEF HGoes, Moves
<1>3. g \in [HT -> HAt]
  BY <1>0, <1>1 DEF HGoes, Moves
<1>4. \A b \in HB : f[b] \notin Calling
  BY <1>0 DEF Mutex
<1>5. PICK u \in HU : f[u] = "meet" /\ nx[u] = c
  BY <1>0, <1>2 DEF HLine, UsherMeets
<1>6. \A t \in HU : f[t] \in {"call", "meet"} => t = u
  BY <1>0, <1>5 DEF Mutex, Calling
<1>7. Elements(p) \subseteq HC /\ Elements(q) \subseteq HC
  BY <1>0, ElementsIn
<1>8. c \notin Elements(p) /\ c \notin Elements(q)
  BY <1>0, <1>1, <1>2 DEF HLine, HChair
<1>9. o \in Seq(HC) /\ Elements(o) = Elements(p) \cup {c} /\ Distinct(o)
  BY <1>0, <1>8, AppendElement DEF HChair
<1>10. Calls(u, f, nx)
  BY <1>2, <1>5 DEF Calls
<1>11. /\ \A d \in Elements(p) : d \in a[c]
       /\ \A e \in Elements(q) : c \in a[e]
  BY <1>0, <1>5, <1>10 DEF HOrder
<1>12. Ordered(o, a)
  BY <1>0, <1>11, AppendOrdered DEF HOrder
<1> HIDE DEF o
<1>13. HTyped(g, m, nx, o, q, a)
  BY <1>0, <1>3, <1>9 DEF HTyped
<1>14. HRegister(g, m) /\ HMutexes(g, m)
  <2>1. HRegister(g, m) /\ Mutex(m, Hilzer!register_mtx, HC, g, Paying)
    BY <1>1, RegisterKept
  <2>2. /\ \A t \in HU : g[t] \in Calling <=> f[t] \in Calling
        /\ \A b \in HB : g[b] \in Calling <=> f[b] \in Calling
    BY <1>2
  <2>3. Mutex(m, Hilzer!global_mtx, HU, g, Calling)
    BY <1>0, <2>2, MutexKept
  <2>4. Mutex(m, Hilzer!sofa_mtx, HB, g, Calling)
    BY <1>0, <2>2, MutexKept
  <2> QED
    BY <2>1, <2>3, <2>4 DEF HMutexes
<1>15. \A L : /\ Count(HU, f, L) \in Nat /\ Count(HC, f, L) \in Nat
              /\ Count(HB, f, L) \in Nat
              /\ Count(HC, g, L) = Count(HC, f, L) + Change(L, "sofa", "seated")
              /\ Count(HU, g, L) = Count(HU, f, L)
              /\ Count(HB, g, L) = Count(HB, f, L)
  <2>1. f \in [HT -> HAt] /\ "seated" \in HAt
    BY <1>0, <1>1
  <2> QED
    BY <2>1, CustomerCounts
<1>16. HStanding(g, m, q)
  BY <1>0, <1>15 DEF HStanding
<1>17. HLine(g, m, nx, q)
  <2>1. \A d \in HC : UsherMeets(d, g, nx) <=> UsherMeets(d, f, nx)
    BY <1>2 DEF UsherMeets
  <2>2. \A d \in HC : g[d] \in {"sofa", "seated"} <=> f[d] \in {"sofa", "seated"}
    BY <1>2
  <2>3. SofaTickets(g, m, nx)
    BY <1>0, <2>1, <2>2 DEF HLine, SofaTickets
  <2>4. \A d \in Elements(q) : g[d] = "standing"
    BY <1>0, <1>2, <1>7, <1>8 DEF HLine
  <2>5. \A d \in HC : g[d] \in {"sofa", "seated"} => UsherMeets(d, g, nx)
    BY <1>0, <2>1, <2>2 DEF HLine
  <2>6. \A t \in HU : g[t] \in {"call", "meet"} => t = u /\ g[t] = "meet"
    BY <1>2, <1>5, <1>6
  <2>7. g[nx[u]] # "start" /\ nx[u] \in HC /\ nx[u] \notin Elements(q)
    BY <1>2, <1>5, <1>8
  <2>8. Distinct(q)
    BY <1>0 DEF HLine
  <2> QED
    BY <2>3, <2>4, <2>5, <2>6, <2>7, <2>8 DEF HLine
<1>18. HPlaces(g, m, nx)
  <2>1. Change(OnSofa, "sofa", "seated") = 0
    BY <1>1 DEF Change
  <2>2. Count(HC, g, OnSofa) = Count(HC, f, OnSofa)
    BY <1>15, <2>1
  <2>3. \A t \in HU : g[t] = "meet" /\ g[nx[t]] = "standing"
                        <=> f[t] = "meet" /\ f[nx[t]] = "standing"
    BY <1>2, <1>5, <1>6
  <2>4. HReserved(g, nx) = HReserved(f, nx)
    BY <2>3, ReservedKept
  <2>5. Count(HU, g, {"pop", "call"}) = Count(HU, f, {"pop", "call"})
    BY <1>15
  <2> QED
    BY <2>2, <2>4, <2>5 DEF HInv, HPlaces
<1>19. HChair(g, m, nx, o)
  <2>1. \A b \in HB : g[b] \in InHand => g[b] = "cut" /\ f[b] = "cut"
    BY <1>2, <1>4 DEF Calling, InHand
  <2>2. \A b \in HB : g[b] = "cut" => /\ nx[b] \in HC \ {c} /\ nx[b] \notin Elements(p)
                                      /\ f[nx[b]] \in Expected
    BY <1>0, <1>1, <1>2 DEF HChair, InHand
  <2>3. \A b \in HB : g[b] = "cut" => nx[b] \in HC /\ nx[b] \notin Elements(o)
                                      /\ g[nx[b]] \in Expected
    BY <1>2, <1>9, <2>2
  <2>4. \A d \in Elements(o) : g[d] \in Seated
    BY <1>0, <1>1, <1>2, <1>7, <1>8, <1>9 DEF HChair
  <2>5. \A b, d \in HB : g[b] \in InHand /\ g[d] \in InHand /\ nx[b] = nx[d] => b = d
    BY <1>0, <1>2 DEF HChair
  <2>6. \A d \in HC : BarberHas(d, g, nx) <=> BarberHas(d, f, nx)
    BY <1>2 DEF BarberHas
  <2>7. CutTickets(g, m, nx, o)
    <3>1. m[Ct(c)] = 0
      BY <1>0, <1>1, <1>2 DEF HChair, CutTickets
    <3>2. ASSUME NEW d \in HC, d # c
          PROVE  m[Ct(d)] = IF g[d] \in Expected /\ d \notin Elements(o)
                               /\ ~BarberHas(d, g, nx) THEN 1 ELSE 0
      BY <1>0, <1>2, <1>9, <2>6, <3>2 DEF HChair, CutTickets
    <3> QED
      BY <1>9, <3>1, <3>2 DEF CutTickets
  <2>8. \A b \in HB : g[b] # "call" /\ g[b] # "met"
    BY <2>1 DEF InHand
  <2> QED
    BY <1>9, <2>1, <2>3, <2>4, <2>5, <2>7, <2>8 DEF HChair
<1>20. HOrder(g, nx, o, q, a)
  <2>1. \A t \in HU : ~Calls(t, g, nx)
    BY <1>2, <1>5, <1>6 DEF Calls
  <2>2. \A d \in Elements(o), e \in Elements(q) : d \in a[e]
    BY <1>0, <1>9, <1>11 DEF HOrder
  <2>3. Ordered(q, a)
    BY <1>0 DEF HOrder
  <2> QED
    BY <1>12, <2>1, <2>2, <2>3 DEF HOrder
<1> QED
  BY <1>13, <1>14, <1>16, <1>17, <1>18, <1>19, <1>20 DEF HInv, o

LEMMA HilzerCustomerKeeps ==
  ASSUME HilzerInv, NEW c \in HC, Hilzer!customer(c)
  PROVE  HilzerInv'
<1> DEFINE Goal == HInv(pc', sem', next', sofa_queue', standing_queue', ahead')
           Rest == HInv(pc', sem', next, sofa_queue, standing_queue, ahead)
<1>0. /\ HInv(pc, sem, next, sofa_queue, standing_queue, ahead) /\ c \in HT
      /\ HNamed \subseteq HSems /\ St(c) \in HSems /\ Ct(c) \in HSems
      /\ pc \in [HT -> HAt] /\ sem \in [HSems -> Nat]
  BY HilzerApart, OtherNames DEF HilzerInv, HInv, HTyped
<1>1. /\ Hilzer!customer_standing \in HSems /\ Hilzer!customer_on_sofa \in HSems
      /\ Hilzer!has_space_on_sofa \in HSems /\ Hilzer!register_mtx \in HSems
      /\ Hilzer!payment_ready \in HSems /\ Hilzer!receipt_ready \in HSems
      /\ Hilzer!sofa_ticket(c) = St(c) /\ Hilzer!cut_ticket(c) = Ct(c)
  BY <1>0 DEF HNamed, St, Ct
<1>2. ASSUME Hilzer!EnterShop(c) PROVE Goal
  <2>1. /\ HGoes(c, "start", "standing", pc, pc')
        /\ HGives(Hilzer!customer_standing, sem, sem') /\ sem' \in [HSems -> Nat]
    BY <1>0, <1>1, <1>2, HilzerReleases DEF Hilzer!EnterShop
  <2>2. /\ sem[Hilzer!global_mtx] > 0 /\ next' = next /\ sofa_queue' = sofa_queue
        /\ standing_queue' = Append(standing_queue, c)
        /\ ahead' = [ahead EXCEPT ![c] = {d \in HC : pc[d] # "start"}]
    BY <1>2 DEF Hilzer!EnterShop, Hilzer!Free, HC
  <2>3. HInv(pc', sem', next, sofa_queue, Append(standing_queue, c),
             [ahead EXCEPT ![c] = {d \in HC : pc[d] # "start"}])
    BY <1>0, <2>1, <2>2, CustomerEnters
  <2> QED
    BY <2>2, <2>3
<1>3. ASSUME Hilzer!Balk(c) PROVE Goal
  <2>1. pc' = pc
    BY <1>0, <1>3 DEF Hilzer!Balk, Hilzer!Move, Hilzer!Goto, Hilzer!At
  <2> QED
    BY <1>0, <1>3, <2>1 DEF Hilzer!Balk, Hilzer!Move, Hilzer!hilzerVars
<1>4. ASSUME Hilzer!SitOnSofa(c) PROVE Goal
  <2>1. HGoes(c, "sofa", "seated", pc, pc')
    BY <1>0, <1>4 DEF Hilzer!SitOnSofa, Hilzer!Move, Hilzer!Goto, Hilzer!At, HGoes, Moves
  <2>2. /\ sem[Hilzer!sofa_mtx] > 0 /\ sem' = sem /\ next' = next
        /\ sofa_queue' = Append(sofa_queue, c) /\ standing_queue' = standing_queue
        /\ ahead' = ahead
    BY <1>4 DEF Hilzer!SitOnSofa, Hilzer!Free, Hilzer!Move
  <2>3. HInv(pc', sem, next, Append(sofa_queue, c), standing_queue, ahead)
    BY <1>0, <2>1, <2>2, CustomerSitsDown
  <2> QED
    BY <2>2, <2>3
<1>5. ASSUME Hilzer!LeaveShop(c) PROVE Goal
  <2>1. HGoes(c, "leave", "start", pc, pc')
    BY <1>0, <1>5 DEF Hilzer!LeaveShop, Hilzer!Move, Hilzer!Goto, Hilzer!At, HGoes, Moves
  <2>2. /\ sem[Hilzer!global_mtx] > 0 /\ sem' = sem /\ next' = next
        /\ sofa_queue' = sofa_queue /\ standing_queue' = standing_queue
        /\ ahead' = [d \in HC |-> IF d = c THEN {} ELSE ahead[d] \ {c}]
    BY <1>5 DEF Hilzer!LeaveShop, Hilzer!Free, Hilzer!Move, HC
  <2>3. HInv(pc', sem, next, sofa_queue, standing_queue,
             [d \in HC |-> IF d = c THEN {} ELSE ahead[d] \ {c}])
    BY <1>0, <2>1, <2>2, CustomerLeavesShop
  <2> QED
    BY <2>2, <2>3
<1>6. ASSUME UNCHANGED Hilzer!hilzerVars, Rest PROVE Goal
  BY <1>6 DEF Hilzer!hilzerVars
<1>7. ASSUME NEW s \in HSems, NEW from, NEW to, Hilzer!acquire(c, s, from, to),
             CustomerTicket(c, from, to, sem, sem') \/ CustomerPay(from, to, sem, sem')
      PROVE  Rest
  <2>1. HGoes(c, from, to, pc, pc') /\ sem' \in [HSems -> Nat]
    BY <1>0, <1>7, HilzerAcquires
  <2> QED
    BY <1>0, <1>7, <2>1, CustomerSits, CustomerPays
<1>8. ASSUME NEW s \in HSems, NEW from, NEW to, Hilzer!release(c, s, 1, from, to),
             CustomerTicket(c, from, to, sem, sem') \/ CustomerPay(from, to, sem, sem')
      PROVE  Rest
  <2>1. HGoes(c, from, to, pc, pc') /\ sem' \in [HSems -> Nat]
    BY <1>0, <1>8, HilzerReleases
  <2> QED
    BY <1>0, <1>8, <2>1, CustomerSits, CustomerPays
<1>9. ASSUME Hilzer!acquire(c, Hilzer!sofa_ticket(c), "standing", "sofa") PROVE Rest
  <2>1. HTakes(St(c), sem, sem')
    BY <1>0, <1>1, <1>9, HilzerAcquires
  <2>2. CustomerTicket(c, "standing", "sofa", sem, sem')
    BY <2>1 DEF CustomerTicket
  <2> QED
    BY <1>0, <1>1, <1>7, <1>9, <2>2
<1>10. ASSUME Hilzer!release(c, Hilzer!sofa_ticket(c), 1, "seated", "signal") PROVE Rest
  <2>1. HGives(St(c), sem, sem')
    BY <1>0, <1>1, <1>10, HilzerReleases
  <2>2. CustomerTicket(c, "seated", "signal", sem, sem')
    BY <2>1 DEF CustomerTicket
  <2> QED
    BY <1>0, <1>1, <1>8, <1>10, <2>2
<1>11. ASSUME Hilzer!acquire(c, Hilzer!cut_ticket(c), "wait", "up") PROVE Rest
  <2>1. HTakes(Ct(c), sem, sem')
    BY <1>0, <1>1, <1>11, HilzerAcquires
  <2>2. CustomerTicket(c, "wait", "up", sem, sem')
    BY <2>1 DEF CustomerTicket
  <2> QED
    BY <1>0, <1>1, <1>7, <1>11, <2>2
<1>12. ASSUME Hilzer!release(c, Hilzer!cut_ticket(c), 1, "ready", "in_chair") PROVE Rest
  <2>1. HGives(Ct(c), sem, sem')
    BY <1>0, <1>1, <1>12, HilzerReleases
  <2>2. CustomerTicket(c, "ready", "in_chair", sem, sem')
    BY <2>1 DEF CustomerTicket
  <2> QED
    BY <1>0, <1>1, <1>8, <1>12, <2>2
<1>13. ASSUME Hilzer!acquire(c, Hilzer!cut_ticket(c), "in_chair", "cut") PROVE Rest
  <2>1. HTakes(Ct(c), sem, sem')
    BY <1>0, <1>1, <1>13, HilzerAcquires
  <2>2. CustomerTicket(c, "in_chair", "cut", sem, sem')
    BY <2>1 DEF CustomerTicket
  <2> QED
    BY <1>0, <1>1, <1>7, <1>13, <2>2
<1>14. ASSUME Hilzer!acquire(c, Hilzer!register_mtx, "cut", "pay") PROVE Rest
  <2>1. HTakes(Hilzer!register_mtx, sem, sem')
    BY <1>0, <1>1, <1>14, HilzerAcquires
  <2>2. CustomerPay("cut", "pay", sem, sem')
    BY <2>1 DEF CustomerPay
  <2> QED
    BY <1>0, <1>1, <1>7, <1>14, <2>2
<1>15. ASSUME Hilzer!release(c, Hilzer!payment_ready, 1, "pay", "paid") PROVE Rest
  <2>1. HGives(Hilzer!payment_ready, sem, sem')
    BY <1>0, <1>1, <1>15, HilzerReleases
  <2>2. CustomerPay("pay", "paid", sem, sem')
    BY <2>1 DEF CustomerPay
  <2> QED
    BY <1>0, <1>1, <1>8, <1>15, <2>2
<1>16. ASSUME Hilzer!acquire(c, Hilzer!receipt_ready, "paid", "receipt") PROVE Rest
  <2>1. HTakes(Hilzer!receipt_ready, sem, sem')
    BY <1>0, <1>1, <1>16, HilzerAcquires
  <2>2. CustomerPay("paid", "receipt", sem, sem')
    BY <2>1 DEF CustomerPay
  <2> QED
    BY <1>0, <1>1, <1>7, <1>16, <2>2
<1>17. ASSUME Hilzer!release(c, Hilzer!register_mtx, 1, "receipt", "leave") PROVE Rest
  <2>1. HGives(Hilzer!register_mtx, sem, sem')
    BY <1>0, <1>1, <1>17, HilzerReleases
  <2>2. CustomerPay("receipt", "leave", sem, sem')
    BY <2>1 DEF CustomerPay
  <2> QED
    BY <1>0, <1>1, <1>8, <1>17, <2>2
<1>18. ASSUME \/ Hilzer!release(c, Hilzer!customer_on_sofa, 1, "signal", "wait")
              \/ Hilzer!release(c, Hilzer!has_space_on_sofa, 1, "up", "ready")
       PROVE  Rest
  <2>1. \/ HGoes(c, "signal", "wait", pc, pc') /\ HGives(Hilzer!customer_on_sofa, sem, sem')
        \/ HGoes(c, "up", "ready", pc, pc') /\ HGives(Hilzer!has_space_on_sofa, sem, sem')
    BY <1>0, <1>1, <1>18, HilzerReleases
  <2>2. sem' \in [HSems -> Nat]
    BY <1>0, <1>1, <1>18, HilzerReleases
  <2> QED
    BY <1>0, <2>1, <2>2, CustomerSignals
<1>19. Goal
  <2> HIDE DEF Goal, Rest
  <2>1. ASSUME Hilzer!Pay(c) PROVE Rest
    BY <1>14, <1>15, <1>16, <1>17, <2>1 DEF Hilzer!Pay, Hilzer!TakeRegister
  <2> QED
    BY <1>2, <1>3, <1>4, <1>5, <1>6, <1>9, <1>10, <1>11, <1>12, <1>13, <1>18, <2>1
       DEF Hilzer!customer, Hilzer!LeaveSofa
<1> QED
  BY <1>19 DEF HilzerInv

-----------------------------------------------------------------------------
(* Every step keeps SofaCounted.                                           *)

LEMMA BarberKeepsSofa ==
  ASSUME HilzerInv, SofaCounted, HilzerInv', NEW b \in HB, Hilzer!barber(b)
  PROVE  SofaCounted'
<1>0. /\ b \in HT /\ b \notin HC
      /\ sem \in [HSems -> Nat] /\ sofa_queue \in Seq(HC)
      /\ Hilzer!customer_on_sofa \in HSems /\ Hilzer!sofa_mtx \in HSems
      /\ Len(sofa_queue) \in Nat
  <2>1. sem \in [HSems -> Nat] /\ sofa_queue \in Seq(HC)
    BY DEF HilzerInv, HInv, HTyped
  <2>2. Len(sofa_queue) \in Nat
    BY ONLY <2>1
  <2>3. Hilzer!customer_on_sofa \in HSems /\ Hilzer!sofa_mtx \in HSems
    BY ONLY OtherNames DEF HNamed
  <2> QED
    BY <2>1, <2>2, <2>3, HilzerApart
<1>1. ASSUME Hilzer!acquire(b, Hilzer!customer_on_sofa, "start", "pop"),
             sofa_queue' = sofa_queue
      PROVE  SofaCounted'
  <2>1. /\ HGoes(b, "start", "pop", pc, pc') /\ "pop" \in HAt
        /\ sem'[Hilzer!customer_on_sofa] = sem[Hilzer!customer_on_sofa] - 1
    BY <1>0, <1>1, HilzerAcquires DEF HTakes, HAt
  <2>2. Change({"pop"}, "start", "pop") = 1
    BY DEF Change
  <2> QED
    BY <1>0, <1>1, <2>1, <2>2, SofaCounts
<1>2. ASSUME Hilzer!acquire(b, Hilzer!sofa_mtx, "pop", "call"),
             sofa_queue' = Tail(sofa_queue)
      PROVE  SofaCounted'
  <2>1. /\ HGoes(b, "pop", "call", pc, pc') /\ "call" \in HAt
        /\ sem'[Hilzer!customer_on_sofa] = sem[Hilzer!customer_on_sofa]
    BY <1>0, <1>2, HilzerAcquires, NotOnSofa DEF HTakes, HAt
  <2>2. Change({"pop"}, "pop", "call") = -1
    BY DEF Change
  <2>3. Len(sofa_queue') = Len(sofa_queue) - 1
    BY <1>0, <1>2, <2>1, BarberFindsOne, TailElements DEF HGoes
  <2> QED
    BY <1>0, <2>1, <2>2, <2>3, SofaCounts
<1>3. ASSUME NEW s, NEW from, NEW to \in HAt, s # Hilzer!customer_on_sofa,
             Hilzer!acquire(b, s, from, to) \/ Hilzer!release(b, s, 1, from, to),
             UNCHANGED Hilzer!hilzerVars, "pop" \notin {from, to}
      PROVE  SofaCounted'
  BY <1>0, <1>3, SofaUntouched DEF Hilzer!hilzerVars
<1>4. {"start", "call", "meet", "met", "cut", "register", "receipt"} \subseteq HAt
  BY DEF HAt
<1>5. ASSUME UNCHANGED Hilzer!hilzerVars PROVE sofa_queue' = sofa_queue
  BY <1>5 DEF Hilzer!hilzerVars
<1> QED
  BY <1>1, <1>2, <1>3, <1>4, <1>5, NotOnSofa DEF Hilzer!barber

LEMMA UsherKeepsSofa ==
  ASSUME HilzerInv, SofaCounted, HilzerInv', NEW u \in HU, Hilzer!usher(u)
  PROVE  SofaCounted'
<1>0. /\ u \in HT /\ u \notin HC /\ u \notin HB
      /\ pc \in [HT -> HAt] /\ sem \in [HSems -> Nat]
      /\ Hilzer!customer_on_sofa \in HSems
      /\ {"start", "space", "pop", "call", "meet", "met"} \subseteq HAt
  BY HilzerApart, OtherNames DEF HilzerInv, HInv, HTyped, HNamed, HAt
<1>1. ASSUME NEW s, NEW from, NEW to \in HAt, s # Hilzer!customer_on_sofa,
             Hilzer!acquire(u, s, from, to) \/ Hilzer!release(u, s, 1, from, to),
             UNCHANGED Hilzer!hilzerVars
      PROVE  SofaCounted'
  BY <1>0, <1>1, SofaUntouched DEF Hilzer!hilzerVars
<1>2. ASSUME NEW from, NEW to \in HAt, NEW n, Hilzer!Goto(u, from, to),
             sem' = [sem EXCEPT ![Hilzer!global_mtx] = n], sofa_queue' = sofa_queue
      PROVE  SofaCounted'
  <2>1. HGoes(u, from, to, pc, pc')
    BY <1>0, <1>2 DEF Hilzer!Goto, Hilzer!At, HGoes, Moves
  <2>2. sem'[Hilzer!customer_on_sofa] = sem[Hilzer!customer_on_sofa]
    BY <1>0, <1>2, NotOnSofa
  <2> QED
    BY <1>0, <1>2, <2>1, <2>2, SofaElsewhere
<1>3. ASSUME Hilzer!PopStanding(u) PROVE SofaCounted'
  BY <1>0, <1>2, <1>3 DEF Hilzer!PopStanding, Hilzer!NextStanding
<1>4. ASSUME UNCHANGED Hilzer!hilzerVars PROVE sofa_queue' = sofa_queue
  BY <1>4 DEF Hilzer!hilzerVars
<1> QED
  BY <1>0, <1>1, <1>2, <1>3, <1>4, NotOnSofa DEF Hilzer!usher, Hilzer!TakeSofaPlace

LEMMA CustomerKeepsSofa ==
  ASSUME HilzerInv, SofaCounted, HilzerInv', NEW c \in HC, Hilzer!customer(c)
  PROVE  SofaCounted'
<1>0. /\ c \in HT /\ c \notin HB
      /\ pc \in [HT -> HAt] /\ sem \in [HSems -> Nat] /\ sofa_queue \in Seq(HC)
      /\ Hilzer!customer_on_sofa \in HSems /\ Len(sofa_queue) \in Nat
  <2>1. pc \in [HT -> HAt] /\ sem \in [HSems -> Nat] /\ sofa_queue \in Seq(HC)
    BY DEF HilzerInv, HInv, HTyped
  <2>2. Len(sofa_queue) \in Nat
    BY ONLY <2>1
  <2>3. Hilzer!customer_on_sofa \in HSems
    BY ONLY OtherNames DEF HNamed
  <2> QED
    BY <2>1, <2>2, <2>3, HilzerApart
<1>1. ASSUME NEW s, NEW from, NEW to \in HAt, s # Hilzer!customer_on_sofa,
             Hilzer!acquire(c, s, from, to) \/ Hilzer!release(c, s, 1, from, to),
             sofa_queue' = sofa_queue,
             from \in {"seated", "signal"} <=> to \in {"seated", "signal"}
      PROVE  SofaCounted'
  BY <1>0, <1>1, SofaUntouched
<1>2. ASSUME NEW from, NEW to \in HAt, Hilzer!Move(c, from, to), sofa_queue' = sofa_queue,
             from \in {"seated", "signal"} <=> to \in {"seated", "signal"}
      PROVE  SofaCounted'
  <2>1. HGoes(c, from, to, pc, pc') /\ sem' = sem
    BY <1>0, <1>2 DEF Hilzer!Move, Hilzer!Goto, Hilzer!At, HGoes, Moves
  <2> QED
    BY <1>0, <1>2, <2>1, SofaElsewhere
<1>3. /\ {"start", "standing", "sofa", "seated", "signal", "wait", "up", "ready",
          "in_chair", "cut"} \subseteq HAt
      /\ {"pay", "paid", "receipt", "leave"} \subseteq HAt
  BY DEF HAt
<1>4. ASSUME Hilzer!SitOnSofa(c) PROVE SofaCounted'
  <2>1. HGoes(c, "sofa", "seated", pc, pc') /\ sem' = sem
    BY <1>0, <1>4 DEF Hilzer!SitOnSofa, Hilzer!Move, Hilzer!Goto, Hilzer!At, HGoes, Moves
  <2>2. Len(sofa_queue') = Len(sofa_queue) + 1
    BY <1>0, <1>4 DEF Hilzer!SitOnSofa
  <2>3. Change({"seated", "signal"}, "sofa", "seated") = 1
    BY DEF Change
  <2>4. sem[Hilzer!customer_on_sofa] \in Nat
    BY <1>0
  <2> QED
    BY <1>0, <1>3, <2>1, <2>2, <2>3, <2>4, SofaCounts
<1>5. ASSUME Hilzer!release(c, Hilzer!customer_on_sofa, 1, "signal", "wait"),
             sofa_queue' = sofa_queue
      PROVE  SofaCounted'
  <2>1. /\ HGoes(c, "signal", "wait", pc, pc')
        /\ sem'[Hilzer!customer_on_sofa] = sem[Hilzer!customer_on_sofa] + 1
    BY <1>0, <1>5, HilzerReleases DEF HGives
  <2>2. Change({"seated", "signal"}, "signal", "wait") = -1
    BY DEF Change
  <2>3. sem[Hilzer!customer_on_sofa] \in Nat
    BY <1>0
  <2> QED
    BY <1>0, <1>3, <1>5, <2>1, <2>2, <2>3, SofaCounts
<1>6. ASSUME Hilzer!EnterShop(c) PROVE SofaCounted'
  BY <1>1, <1>3, <1>6, NotOnSofa DEF Hilzer!EnterShop
<1>7. ASSUME Hilzer!Balk(c) \/ Hilzer!LeaveShop(c) PROVE SofaCounted'
  BY <1>2, <1>3, <1>7 DEF Hilzer!Balk, Hilzer!LeaveShop, Hilzer!hilzerVars
<1>8. ASSUME Hilzer!Pay(c), sofa_queue' = sofa_queue PROVE SofaCounted'
  BY <1>1, <1>3, <1>8, NotOnSofa DEF Hilzer!Pay, Hilzer!TakeRegister
<1>9. ASSUME UNCHANGED Hilzer!hilzerVars PROVE sofa_queue' = sofa_queue
  BY <1>9 DEF Hilzer!hilzerVars
<1>10. ASSUME sofa_queue' = sofa_queue,
              \/ Hilzer!acquire(c, Hilzer!sofa_ticket(c), "standing", "sofa")
              \/ Hilzer!release(c, Hilzer!sofa_ticket(c), 1, "seated", "signal")
              \/ Hilzer!acquire(c, Hilzer!cut_ticket(c), "wait", "up")
              \/ Hilzer!LeaveSofa(c)
              \/ Hilzer!release(c, Hilzer!cut_ticket(c), 1, "ready", "in_chair")
              \/ Hilzer!acquire(c, Hilzer!cut_ticket(c), "in_chair", "cut")
       PROVE  SofaCounted'
  BY <1>1, <1>3, <1>10, NotOnSofa DEF Hilzer!LeaveSofa
<1> QED
  BY <1>4, <1>5, <1>6, <1>7, <1>8, <1>9, <1>10 DEF Hilzer!customer

LEMMA HilzerStarts == Hilzer!Init => HilzerInv /\ SofaCounted
<1> SUFFICES ASSUME Hilzer!Init PROVE HilzerInv /\ SofaCounted
  OBVIOUS
<1>1. /\ pc \in [HT -> HAt] /\ \A t \in HT : pc[t] \in {"left out", "start"}
  BY DEF Hilzer!Init, HT, HAt
<1>2. /\ standing_queue = << >> /\ sofa_queue = << >>
      /\ next = [t \in HU \cup HB |-> t] /\ ahead = [c \in HC |-> {}]
  BY DEF Hilzer!Init, Hilzer!HilzerIdle, HU, HB, HC
<1>3. HSems = Hilzer!binary \cup {Hilzer!has_space_on_sofa, Hilzer!customer_standing,
                                  Hilzer!customer_on_sofa}
  BY DEF HSems, HNamed, Hilzer!binary
<1>4. sem = [s \in HSems |->
               CASE s \in {Hilzer!global_mtx, Hilzer!sofa_mtx, Hilzer!register_mtx} -> 1
                 [] s = Hilzer!has_space_on_sofa -> SOFA_CAPACITY [] OTHER -> 0]
  BY <1>3 DEF Hilzer!Init
<1>5. /\ sem \in [HSems -> Nat]
      /\ sem[Hilzer!global_mtx] = 1 /\ sem[Hilzer!sofa_mtx] = 1
      /\ sem[Hilzer!register_mtx] = 1
      /\ sem[Hilzer!payment_ready] = 0 /\ sem[Hilzer!receipt_ready] = 0
      /\ sem[Hilzer!customer_standing] = 0
      /\ sem[Hilzer!has_space_on_sofa] = SOFA_CAPACITY
      /\ \A c \in HC : sem[St(c)] = 0 /\ sem[Ct(c)] = 0
  <2>1. SOFA_CAPACITY \in Nat
    BY Bounds
  <2>2. sem \in [HSems -> Nat]
    BY <1>4, <2>1
  <2>3. \A c \in HC : sem[St(c)] = 0 /\ sem[Ct(c)] = 0
    BY <1>4, HilzerApart DEF HNamed
  <2> QED
    BY <1>4, <2>2, <2>3, HilzerNames, NamesApart DEF HSems, HNamed
<1>6. HB \subseteq HT /\ HU \subseteq HT /\ HC \subseteq HT
  BY HilzerApart
<1>7. /\ Count(HC, pc, {"paid"}) = 0 /\ Count(HB, pc, {"receipt"}) = 0
      /\ Count(HU, pc, {"space", "pop"}) = 0
      /\ Count(HC, pc, OnSofa) = 0 /\ Count(HU, pc, {"pop", "call"}) = 0
  <2>1. /\ \A c \in HC : pc[c] \notin {"paid"} /\ pc[c] \notin OnSofa
        /\ \A b \in HB : pc[b] \notin {"receipt"}
        /\ \A u \in HU : pc[u] \notin {"space", "pop"} /\ pc[u] \notin {"pop", "call"}
    BY <1>1, <1>6 DEF OnSofa
  <2>2. IsFiniteSet(HB) /\ IsFiniteSet(HU) /\ IsFiniteSet(HC)
    BY HilzerApart
  <2> QED
    BY <2>1, <2>2, CountZero
<1>8. /\ Elements(standing_queue) = {} /\ Elements(sofa_queue) = {}
      /\ Distinct(standing_queue) /\ Distinct(sofa_queue)
      /\ Len(standing_queue) = 0
      /\ standing_queue \in Seq(HC) /\ sofa_queue \in Seq(HC)
  BY <1>2 DEF Elements, Distinct
<1>9. HTyped(pc, sem, next, sofa_queue, standing_queue, ahead)
  BY <1>1, <1>2, <1>5, <1>6, <1>8 DEF HTyped
<1>10. HMutexes(pc, sem)
  BY <1>1, <1>5, <1>6 DEF HMutexes, Mutex, Calling, Paying
<1>11. HRegister(pc, sem)
  BY <1>5, <1>7 DEF HRegister
<1>12. HStanding(pc, sem, standing_queue)
  BY <1>5, <1>7, <1>8 DEF HStanding
<1>13. \A c \in HC : ~UsherMeets(c, pc, next)
  BY <1>1, <1>6 DEF UsherMeets
<1>14. HLine(pc, sem, next, standing_queue)
  <2>1. \A u \in HU : pc[u] \notin {"call", "meet"}
    BY <1>1, <1>6
  <2>2. \A c \in HC : pc[c] \notin {"sofa", "seated"}
    BY <1>1, <1>6
  <2> QED
    BY <1>5, <1>8, <1>13, <2>1, <2>2 DEF HLine, SofaTickets
<1>15. HPlaces(pc, sem, next)
  <2>1. /\ Count(HC, pc, OnSofa) = 0 /\ Count(HU, pc, {"pop", "call"}) = 0
    BY <1>7
  <2>2. HReserved(pc, next) = 0
    BY <1>1, <1>6 DEF HReserved
  <2>3. SOFA_CAPACITY \in Nat
    BY Bounds
  <2> QED
    BY <1>5, <2>1, <2>2, <2>3 DEF HPlaces
<1>16. HChair(pc, sem, next, sofa_queue)
  <2>1. \A b \in HB : pc[b] \notin InHand /\ pc[b] \notin {"call", "met", "cut"}
    BY <1>1, <1>6 DEF InHand
  <2>2. \A c \in HC : pc[c] \notin Expected
    BY <1>1, <1>6 DEF Expected, Seated
  <2> QED
    BY <1>5, <1>8, <2>1, <2>2 DEF HChair, CutTickets
<1>17. HOrder(pc, next, sofa_queue, standing_queue, ahead)
  <2>1. \A u \in HU : ~Calls(u, pc, next)
    BY <1>1, <1>6 DEF Calls
  <2> QED
    BY <1>2, <1>8, <2>1 DEF HOrder, Ordered
<1>18. SofaCounted
  <2>1. sem[Hilzer!customer_on_sofa] = 0
    BY <1>4, HilzerNames, NamesApart DEF HSems, HNamed
  <2>2. Count(HC, pc, {"seated", "signal"}) = 0 /\ Count(HB, pc, {"pop"}) = 0
    BY <1>1, <1>6, HilzerApart, CountZero
  <2> QED
    BY <1>2, <2>1, <2>2 DEF SofaCounted
<1> QED
  BY <1>9, <1>10, <1>11, <1>12, <1>14, <1>15, <1>16, <1>17, <1>18 DEF HilzerInv, HInv

LEMMA HilzerIdles ==
  ASSUME HilzerInv, SofaCounted, UNCHANGED allVars
  PROVE  HilzerInv' /\ SofaCounted'
<1>1. /\ pc' = pc /\ sem' = sem /\ next' = next /\ sofa_queue' = sofa_queue
      /\ standing_queue' = standing_queue /\ ahead' = ahead
  BY DEF allVars, threadVars, shopVars, hilzerOnly
<1> QED
  BY <1>1 DEF HilzerInv, SofaCounted

LEMMA HilzerInvHolds == MCSpec => [](InHilzer => HilzerInv)
<1> DEFINE Both == HilzerInv /\ SofaCounted
<1>1. MCInit => (InHilzer => Both)
  BY Starts, HilzerStarts
<1>2. (InHilzer => Both) /\ [MCNext]_allVars => (InHilzer => Both)'
  <2> SUFFICES ASSUME InHilzer => Both, [MCNext]_allVars, InHilzer'
               PROVE  Both'
    OBVIOUS
  <2>1. program' = program /\ InHilzer
    BY OneProgram DEF InHilzer
  <2>2. UNCHANGED allVars \/ HilzerNext
    BY <2>1, OneProgram DEF InPot, InSmokers, InPushers, InBoard, InBarbershop,
       InHilzer, InNorth
  <2>3. ASSUME NEW t \in HT, Hilzer!Step(t) PROVE HilzerInv'
    BY <2>1, <2>3, HilzerBarberKeeps, HilzerUsherKeeps, HilzerCustomerKeeps
       DEF Hilzer!Step, HB, HU, HC
  <2>4. ASSUME NEW t \in HT, Hilzer!Step(t) PROVE SofaCounted'
    BY <2>1, <2>3, <2>4, BarberKeepsSofa, UsherKeepsSofa, CustomerKeepsSofa
       DEF Hilzer!Step, HB, HU, HC
  <2> QED
    BY <2>1, <2>2, <2>3, <2>4, HilzerIdles DEF HilzerNext, HT
<1>3. (InHilzer => Both) => (InHilzer => HilzerInv)
  OBVIOUS
<1> QED
  BY <1>1, <1>2, <1>3, PTL DEF MCSpec

LEMMA CountAtMostOne ==
  ASSUME NEW S, IsFiniteSet(S), NEW f, NEW L,
         \A t, u \in S : f[t] \in L /\ f[u] \in L => t = u
  PROVE  Count(S, f, L) <= 1
<1>1. CASE \A t \in S : f[t] \notin L
  BY <1>1, CountZero
<1>2. CASE \E t \in S : f[t] \in L
  <2>1. PICK t \in S : f[t] \in L
    BY <1>2
  <2>2. Standing(S, f, L) = {t}
    BY <2>1 DEF Standing
  <2>3. Cardinality({t}) = 1
    BY FS_Singleton
  <2>4. Count(S, f, L) = 1
    BY <2>2, <2>3 DEF Count
  <2> QED
    BY <2>4
<1> QED
  BY <1>1, <1>2

(* At most one payment is on its way: who pays holds the register.         *)
LEMMA OnePayment ==
  ASSUME HilzerInv
  PROVE  /\ Count(HC, pc, {"paid"}) <= 1
         /\ sem[Hilzer!payment_ready] <= 1 /\ sem[Hilzer!receipt_ready] <= 1
<1>0. /\ HInv(pc, sem, next, sofa_queue, standing_queue, ahead)
      /\ sem \in [HSems -> Nat] /\ HRegister(pc, sem)
      /\ Mutex(sem, Hilzer!register_mtx, HC, pc, Paying)
  BY DEF HilzerInv, HInv, HTyped, HMutexes
<1>1. /\ sem[Hilzer!payment_ready] \in Nat /\ sem[Hilzer!receipt_ready] \in Nat
      /\ Count(HB, pc, {"receipt"}) \in Nat /\ Count(HC, pc, {"paid"}) \in Nat
  <2>1. Hilzer!payment_ready \in HSems /\ Hilzer!receipt_ready \in HSems
    BY OtherNames DEF HNamed
  <2> QED
    BY <1>0, <2>1, HilzerApart, CountIsNat
<1>2. Count(HC, pc, {"paid"}) <= 1
  <2>1. \A c, d \in HC : pc[c] \in {"paid"} /\ pc[d] \in {"paid"} => c = d
    BY <1>0 DEF Mutex, Paying
  <2> QED
    BY <2>1, HilzerApart, CountAtMostOne
<1> QED
  BY <1>0, <1>1, <1>2 DEF HRegister

(* No binary semaphore of the barbershops or of Hilzer's is released above *)
(* one, whoever releases and acquires it, for any number of threads; in    *)
(* barbershop_0 the chair is free whenever its semaphore is.               *)
THEOREM BinarySemaphoresHold == MCSpec => []BinarySemaphores
<1>1. (InBarbershop => BarberInv) /\ (InHilzer => HilzerInv) => BinarySemaphores
  <2> SUFFICES ASSUME InBarbershop => BarberInv, InHilzer => HilzerInv
               PROVE  BinarySemaphores
    OBVIOUS
  <2>1. ASSUME InBarbershop
        PROVE  /\ \A s \in Barbershops!binary : sem[s] <= 1
               /\ sem[Barbershops!barber_chair] = 1 => barber_chair_free
    BY <2>1, BarberSemaphores DEF Chair
  <2>2. ASSUME InHilzer, NEW s \in Hilzer!binary PROVE sem[s] <= 1
    <3>1. /\ HilzerInv /\ HMutexes(pc, sem) /\ SofaTickets(pc, sem, next)
          /\ CutTickets(pc, sem, next, sofa_queue)
      BY <2>2 DEF HilzerInv, HInv, HLine, HChair
    <3>2. CASE s \in {Hilzer!global_mtx, Hilzer!sofa_mtx, Hilzer!register_mtx}
      <4>1. sem[s] \in {0, 1}
        BY <3>1, <3>2 DEF HMutexes, Mutex
      <4> QED
        BY <4>1
    <3>3. CASE s \in {Hilzer!payment_ready, Hilzer!receipt_ready}
      BY <3>1, <3>3, OnePayment
    <3>4. CASE s \in Hilzer!Tickets
      <4>1. PICK c \in HC : s = St(c) \/ s = Ct(c)
        <5>1. PICK n \in 1..NCustomers : s = <<"sofa_ticket", n>> \/ s = <<"cut_ticket", n>>
          BY <3>4 DEF Hilzer!Tickets
        <5>2. <<"customer", n>> \in HC
          BY DEF HC, Hilzer!CustomerThreads
        <5> QED
          BY <5>1, <5>2 DEF St, Ct, Hilzer!sofa_ticket, Hilzer!cut_ticket
      <4>2. sem[s] \in {0, 1}
        BY <3>1, <4>1 DEF SofaTickets, CutTickets
      <4> QED
        BY <4>2
    <3> QED
      BY <2>2, <3>2, <3>3, <3>4 DEF Hilzer!binary
  <2> QED
    BY <2>1, <2>2 DEF BinarySemaphores
<1> QED
  BY <1>1, BarberInvHolds, HilzerInvHolds, PTL

(* Hilzer's sofa never holds more than its capacity, and at the register a *)
(* payment is taken by one barber, whose receipt goes to the customer who  *)
(* pays.                                                                   *)
THEOREM SofaAndRegisterHolds == MCSpec => []SofaAndRegister
<1>1. (InHilzer => HilzerInv) => SofaAndRegister
  <2> SUFFICES ASSUME HilzerInv PROVE Hilzer!SofaAndRegister
    BY DEF SofaAndRegister
  <2>1. /\ HPlaces(pc, sem, next) /\ HRegister(pc, sem) /\ sem \in [HSems -> Nat]
    BY DEF HilzerInv, HInv, HTyped
  <2>2. /\ Cardinality(Hilzer!AtLocs(HC, OnSofa)) = Count(HC, pc, OnSofa)
        /\ Cardinality(Hilzer!AtLocs(HC, {"paid"})) = Count(HC, pc, {"paid"})
        /\ Cardinality(Hilzer!AtLocs(HB, {"receipt"})) = Count(HB, pc, {"receipt"})
    BY DEF Hilzer!AtLocs, Count, Standing
  <2>3. Count(HC, pc, OnSofa) <= SOFA_CAPACITY
    <3>1. /\ Count(HC, pc, OnSofa) \in Nat /\ Count(HU, pc, {"pop", "call"}) \in Nat
          /\ HReserved(pc, next) \in Nat /\ SOFA_CAPACITY \in Nat
      BY HilzerApart, CountIsNat, ReservedIs, Bounds
    <3>2. sem[Hilzer!has_space_on_sofa] \in Nat
      BY <2>1, OtherNames DEF HNamed
    <3> QED
      BY <2>1, <3>1, <3>2 DEF HPlaces
  <2>4. Count(HC, pc, {"paid"}) <= 1
    BY OnePayment
  <2> QED
    BY <2>1, <2>2, <2>3, <2>4 DEF Hilzer!SofaAndRegister, HRegister, OnSofa, HC, HB,
       Hilzer!Cardinality, Cardinality
<1> QED
  BY <1>1, HilzerInvHolds, PTL

(* Those on Hilzer's sofa and then those who stand are in the order of     *)
(* their arrival, whichever usher seats them and whatever token it takes.  *)
THEOREM InOrderHolds == MCSpec => []InOrder
<1>1. (InHilzer => HilzerInv) => InOrder
  <2> SUFFICES ASSUME HilzerInv PROVE Hilzer!InOrder
    BY DEF InOrder
  <2> DEFINE line == sofa_queue \o standing_queue
             x == Len(sofa_queue)
             y == Len(standing_queue)
  <2>1. /\ HOrder(pc, next, sofa_queue, standing_queue, ahead)
        /\ sofa_queue \in Seq(HC) /\ standing_queue \in Seq(HC)
    BY DEF HilzerInv, HInv, HTyped
  <2>2. /\ x \in Nat /\ y \in Nat /\ Len(line) = x + y
        /\ \A i \in 1..(x + y) :
             line[i] = IF i <= x THEN sofa_queue[i] ELSE standing_queue[i - x]
    BY <2>1
  <2> HIDE DEF line, x, y
  <2>3. ASSUME NEW i \in 1..Len(line), NEW j \in 1..Len(line), i < j
        PROVE  line[i] \in ahead[line[j]]
    <3>1. CASE j <= x
      <4>1. /\ i \in 1..x /\ j \in 1..x
            /\ line[i] = sofa_queue[i] /\ line[j] = sofa_queue[j]
        BY <2>2, <2>3, <3>1
      <4> QED
        BY <2>1, <2>3, <4>1 DEF HOrder, Ordered, x
    <3>2. CASE i > x
      <4>1. /\ i - x \in 1..y /\ j - x \in 1..y /\ i - x < j - x
            /\ line[i] = standing_queue[i - x] /\ line[j] = standing_queue[j - x]
        BY <2>2, <2>3, <3>2
      <4> QED
        BY <2>1, <4>1 DEF HOrder, Ordered, y
    <3>3. CASE i <= x /\ j > x
      <4>1. /\ i \in 1..x /\ j - x \in 1..y
            /\ line[i] = sofa_queue[i] /\ line[j] = standing_queue[j - x]
        BY <2>2, <2>3, <3>3
      <4>2. line[i] \in Elements(sofa_queue) /\ line[j] \in Elements(standing_queue)
        BY <4>1 DEF Elements, x, y
      <4> QED
        BY <2>1, <4>2 DEF HOrder
    <3> QED
      BY <2>2, <3>1, <3>2, <3>3
  <2> QED
    BY <2>3 DEF Hilzer!InOrder, line
<1> QED
  BY <1>1, HilzerInvHolds, PTL

-----------------------------------------------------------------------------
(* Santa's elves and deer.  f stands for pc, m for sem, z for asleep.      *)

NE == North!ElfThreads
ND == North!DeerThreads
NT == North!NorthThreads

NSems == {"deers_helped", "elves_helped", "elf_help_req", "elf_sync", "elf_leave_sync",
          "deer_sync"}

(* Where a thread is: at a location, or asleep at a barrier.               *)
Whereabouts(f, z) ==
  [t \in NT |-> IF t \in z["elf_sync"] THEN "elf_sync"
                ELSE IF t \in z["elf_leave_sync"] THEN "elf_leave_sync"
                ELSE IF t \in z["deer_sync"] THEN "deer_sync" ELSE f[t]]

NorthTyped(f, m, z) ==
  /\ f \in [NT -> {"start", "sync", "helped", "leave", "release"}]
  /\ m \in [NSems -> Nat]
  /\ z \in [{"santa_wake", "elf_sync", "elf_leave_sync", "deer_sync"} -> SUBSET NT]
  /\ z["santa_wake"] \subseteq {North!santa}
  /\ \A e \in z["elf_sync"] : e \in NE /\ f[e] = "helped"
  /\ \A e \in z["elf_leave_sync"] : e \in NE /\ f[e] = "release"
  /\ \A d \in z["deer_sync"] : d \in ND /\ f[d] = "helped"
  /\ \A d \in ND : f[d] \in {"start", "helped"}
  /\ f[North!santa] = "start"

(* The tokens that let elves in, and those inside; the arrivals that each  *)
(* barrier awaits; the help that is pending, and those who wait for it.    *)
(* While there are some, the group has not left and nobody else is inside. *)
ElvesAdd(q, y, z, t, er, a, b, h, l, k, r) ==
  /\ q + a + b + h + l + k + r = Group
  /\ y + b = Group /\ y >= 1
  /\ z + k = Group /\ z >= 1
  /\ h = t + (IF er THEN Group ELSE 0)
  /\ h > 0 => h + l + k = Group

Num(S, w, l) == Count(S, w, {l})

Elf(w, l) == Num(NE, w, l)

ElvesCounted(w, m, er) ==
  ElvesAdd(m["elf_help_req"], m["elf_sync"], m["elf_leave_sync"], m["elves_helped"], er,
           Elf(w, "sync"), Elf(w, "elf_sync"), Elf(w, "helped"), Elf(w, "leave"),
           Elf(w, "elf_leave_sync"), Elf(w, "release"))

DeerAdd(y, t, dr, s, b, h) ==
  /\ y + b = Deer /\ y >= 1
  /\ s + b + h = Deer
  /\ h = t + (IF dr THEN Deer ELSE 0)

OneDeer(w, l) == Num(ND, w, l)

DeerCounted(w, m, dr) ==
  DeerAdd(m["deer_sync"], m["deers_helped"], dr, OneDeer(w, "start"),
          OneDeer(w, "deer_sync"), OneDeer(w, "helped"))

NInv(f, m, z, er, dr) ==
  /\ NorthTyped(f, m, z) /\ er \in BOOLEAN /\ dr \in BOOLEAN
  /\ ElvesCounted(Whereabouts(f, z), m, er)
  /\ DeerCounted(Whereabouts(f, z), m, dr)

NorthInv == NInv(pc, sem, asleep, elves_ready, deer_ready)

LEMMA NorthApart ==
  /\ IsFiniteSet(NE) /\ IsFiniteSet(ND) /\ Cardinality(ND) = Deer
  /\ NT = {North!santa} \cup ND \cup NE
  /\ \A e \in NE : e \notin ND /\ e # North!santa
  /\ \A d \in ND : d # North!santa
<1> USE DEF NE, ND, NT, North!ElfThreads, North!DeerThreads, North!NorthThreads, North!santa
<1>1. IsFiniteSet(NE) /\ IsFiniteSet(ND) /\ Cardinality(ND) = Deer
  BY Bounds, ThreadsAreFinite
<1>2. NT = {North!santa} \cup ND \cup NE
  OBVIOUS
<1>3. \A e \in NE : e \notin ND /\ e # North!santa
  OBVIOUS
<1>4. \A d \in ND : d # North!santa
  OBVIOUS
<1> QED
  BY <1>1, <1>2, <1>3, <1>4

(* A barrier opens: those who slept at a are at b.                         *)
Opened(S, a, b, w, x) ==
  IsFiniteSet(S) /\ a # b /\ \A t \in S : x[t] = IF w[t] = a THEN b ELSE w[t]

LEMMA CountOpened ==
  ASSUME NEW S, NEW w, NEW x, NEW a, NEW b, Opened(S, a, b, w, x)
  PROVE  /\ Num(S, x, b) = Num(S, w, a) + Num(S, w, b) /\ Num(S, x, a) = 0
         /\ \A l : l # a /\ l # b => Num(S, x, l) = Num(S, w, l)
<1>0. IsFiniteSet(S) /\ a # b /\ \A t \in S : x[t] = IF w[t] = a THEN b ELSE w[t]
  BY DEF Opened
<1>1. /\ Standing(S, x, {b}) = Standing(S, w, {a}) \cup Standing(S, w, {b})
      /\ Standing(S, w, {a}) \cap Standing(S, w, {b}) = {}
  BY <1>0 DEF Standing
<1>2. IsFiniteSet(Standing(S, w, {a})) /\ IsFiniteSet(Standing(S, w, {b}))
  BY <1>0, FS_Subset DEF Standing
<1>3. /\ Count(S, w, {a}) \in Nat /\ Count(S, w, {b}) \in Nat
      /\ Cardinality(Standing(S, w, {a}) \cap Standing(S, w, {b})) = 0
  BY <1>0, <1>1, CountIsNat, FS_EmptySet
<1>4. Count(S, x, {b}) = Count(S, w, {a}) + Count(S, w, {b})
        - Cardinality(Standing(S, w, {a}) \cap Standing(S, w, {b}))
  BY <1>1, <1>2, FS_Union DEF Count
<1>5. Count(S, x, {b}) = Count(S, w, {a}) + Count(S, w, {b})
  BY <1>3, <1>4
<1>6. Count(S, x, {a}) = 0
  BY <1>0, CountZero
<1>7. ASSUME NEW l, l # a, l # b PROVE Num(S, x, l) = Num(S, w, l)
  <2>1. \A t \in S : w[t] \in {l} <=> x[t] \in {l}
    BY <1>0, <1>7
  <2> QED
    BY <2>1, CountSame DEF Num
<1> QED
  BY <1>5, <1>6, <1>7 DEF Num

ElfMoves(e, from, to, w, x) ==
  /\ DOMAIN w = NT /\ e \in NE /\ w[e] = from /\ Moves(e, to, w, x)

DeerMoves(d, from, to, w, x) ==
  /\ DOMAIN w = NT /\ d \in ND /\ w[d] = from /\ Moves(d, to, w, x)

LEMMA ElfCounts ==
  ASSUME NEW w, NEW x, NEW e, NEW from, NEW to, ElfMoves(e, from, to, w, x)
  PROVE  /\ DOMAIN x = NT /\ Elf(w, from) >= 1
         /\ \A l : /\ Elf(w, l) \in Nat /\ Elf(x, l) \in Nat
                   /\ Elf(x, l) = Elf(w, l) + Change({l}, from, to)
                   /\ OneDeer(x, l) = OneDeer(w, l)
<1>0. DOMAIN w = NT /\ e \in NE /\ w[e] = from /\ Moves(e, to, w, x)
  BY DEF ElfMoves
<1>1. NE \subseteq DOMAIN w /\ IsFiniteSet(NE) /\ DOMAIN x = NT /\ IsFiniteSet(ND)
  BY <1>0, NorthApart DEF Moves
<1>2. \A d \in ND : x[d] = w[d]
  BY <1>0, NorthApart DEF Moves
<1>3. ASSUME NEW l
      PROVE  /\ Elf(w, l) \in Nat /\ Elf(x, l) \in Nat
             /\ Elf(x, l) = Elf(w, l) + Change({l}, from, to)
             /\ OneDeer(x, l) = OneDeer(w, l)
  <2>1. Elf(x, l) = Elf(w, l) + (IF e \notin NE \/ (w[e] \in {l} <=> to \in {l}) THEN 0
                                 ELSE IF to \in {l} THEN 1 ELSE -1)
    BY <1>0, <1>1, CountAfterMove DEF Elf, Num
  <2>2. Elf(w, l) \in Nat /\ Elf(x, l) \in Nat
    BY <1>1, CountIsNat DEF Elf, Num
  <2>3. OneDeer(x, l) = OneDeer(w, l)
    BY <1>2, CountSame DEF OneDeer, Num
  <2> QED
    BY <1>0, <2>1, <2>2, <2>3 DEF Change
<1>4. Elf(w, from) >= 1
  BY <1>0, <1>1, CountPositive DEF Elf, Num
<1> QED
  BY <1>1, <1>3, <1>4

LEMMA DeerCounts ==
  ASSUME NEW w, NEW x, NEW d, NEW from, NEW to, DeerMoves(d, from, to, w, x)
  PROVE  /\ DOMAIN x = NT /\ OneDeer(w, from) >= 1
         /\ \A l : /\ OneDeer(w, l) \in Nat /\ OneDeer(x, l) \in Nat
                   /\ OneDeer(x, l) = OneDeer(w, l) + Change({l}, from, to)
                   /\ Elf(x, l) = Elf(w, l)
<1>0. DOMAIN w = NT /\ d \in ND /\ w[d] = from /\ Moves(d, to, w, x)
  BY DEF DeerMoves
<1>1. ND \subseteq DOMAIN w /\ IsFiniteSet(ND) /\ DOMAIN x = NT /\ IsFiniteSet(NE)
  BY <1>0, NorthApart DEF Moves
<1>2. \A e \in NE : x[e] = w[e]
  BY <1>0, NorthApart DEF Moves
<1>3. ASSUME NEW l
      PROVE  /\ OneDeer(w, l) \in Nat /\ OneDeer(x, l) \in Nat
             /\ OneDeer(x, l) = OneDeer(w, l) + Change({l}, from, to)
             /\ Elf(x, l) = Elf(w, l)
  <2>1. OneDeer(x, l) = OneDeer(w, l)
          + (IF d \notin ND \/ (w[d] \in {l} <=> to \in {l}) THEN 0
             ELSE IF to \in {l} THEN 1 ELSE -1)
    BY <1>0, <1>1, CountAfterMove DEF OneDeer, Num
  <2>2. OneDeer(w, l) \in Nat /\ OneDeer(x, l) \in Nat
    BY <1>1, CountIsNat DEF OneDeer, Num
  <2>3. Elf(x, l) = Elf(w, l)
    BY <1>2, CountSame DEF Elf, Num
  <2> QED
    BY <1>0, <2>1, <2>2, <2>3 DEF Change
<1>4. OneDeer(w, from) >= 1
  BY <1>0, <1>1, CountPositive DEF OneDeer, Num
<1> QED
  BY <1>1, <1>3, <1>4

(* An elf goes on, alone.                                                  *)
ElfGoes(from, to, m, r) ==
  \/ from = "start" /\ to = "sync" /\ m["elf_help_req"] > 0
     /\ r = [m EXCEPT !["elf_help_req"] = @ - 1]
  \/ from = "sync" /\ to = "elf_sync" /\ m["elf_sync"] # 1
     /\ r = [m EXCEPT !["elf_sync"] = @ - 1]
  \/ from = "helped" /\ to = "leave" /\ m["elves_helped"] > 0
     /\ r = [m EXCEPT !["elves_helped"] = @ - 1]
  \/ from = "leave" /\ to = "elf_leave_sync" /\ m["elf_leave_sync"] # 1
     /\ r = [m EXCEPT !["elf_leave_sync"] = @ - 1]
  \/ from = "release" /\ to = "start" /\ r = [m EXCEPT !["elf_help_req"] = @ + 1]

NorthCounted(w, m, er, dr) ==
  /\ DOMAIN w = NT /\ m \in [NSems -> Nat] /\ er \in BOOLEAN /\ dr \in BOOLEAN
  /\ ElvesCounted(w, m, er) /\ DeerCounted(w, m, dr)

LEMMA NorthNumbers ==
  ASSUME NEW m \in [NSems -> Nat]
  PROVE  /\ m["elf_help_req"] \in Nat /\ m["elf_sync"] \in Nat
         /\ m["elf_leave_sync"] \in Nat /\ m["elves_helped"] \in Nat
         /\ m["deer_sync"] \in Nat /\ m["deers_helped"] \in Nat
  BY DEF NSems

LEMMA ElvesGo ==
  ASSUME NEW w, NEW x, NEW m, NEW r, NEW er, NEW dr, NorthCounted(w, m, er, dr),
         NEW e, NEW from, NEW to, ElfMoves(e, from, to, w, x), ElfGoes(from, to, m, r)
  PROVE  NorthCounted(x, r, er, dr)
<1>0. /\ m \in [NSems -> Nat] /\ er \in BOOLEAN /\ dr \in BOOLEAN
      /\ ElvesCounted(w, m, er) /\ DeerCounted(w, m, dr)
  BY DEF NorthCounted
<1>1. /\ DOMAIN x = NT /\ Elf(w, from) >= 1
      /\ \A l : /\ Elf(w, l) \in Nat /\ Elf(x, l) \in Nat
                /\ Elf(x, l) = Elf(w, l) + Change({l}, from, to)
                /\ OneDeer(x, l) = OneDeer(w, l)
  BY ElfCounts
<1>2. /\ Elf(w, "sync") \in Nat /\ Elf(w, "elf_sync") \in Nat /\ Elf(w, "helped") \in Nat
      /\ Elf(w, "leave") \in Nat /\ Elf(w, "elf_leave_sync") \in Nat
      /\ Elf(w, "release") \in Nat
  BY <1>1
<1>3. Group \in Nat \ {0}
  BY Bounds
<1>4. r["deer_sync"] = m["deer_sync"] /\ r["deers_helped"] = m["deers_helped"]
  BY <1>0 DEF ElfGoes, NSems
<1>5. DeerCounted(x, r, dr)
  BY <1>0, <1>1, <1>4 DEF DeerCounted
<1>6. /\ m["elf_help_req"] \in Nat /\ m["elf_sync"] \in Nat
      /\ m["elf_leave_sync"] \in Nat /\ m["elves_helped"] \in Nat
  BY <1>0, NorthNumbers
<1>7. ElvesAdd(m["elf_help_req"], m["elf_sync"], m["elf_leave_sync"], m["elves_helped"],
               er, Elf(w, "sync"), Elf(w, "elf_sync"), Elf(w, "helped"),
               Elf(w, "leave"), Elf(w, "elf_leave_sync"), Elf(w, "release"))
  BY <1>0 DEF ElvesCounted
<1> DEFINE Kept == ElvesAdd(r["elf_help_req"], r["elf_sync"], r["elf_leave_sync"],
                     r["elves_helped"], er, Elf(x, "sync"), Elf(x, "elf_sync"),
                     Elf(x, "helped"), Elf(x, "leave"), Elf(x, "elf_leave_sync"),
                     Elf(x, "release"))
<1>8. r \in [NSems -> Nat] /\ Kept
  <2>1. CASE from = "start"
    <3>1. to = "sync" /\ m["elf_help_req"] > 0 /\ r = [m EXCEPT !["elf_help_req"] = @ - 1]
      BY <2>1 DEF ElfGoes
    <3>2. /\ r["elf_help_req"] = m["elf_help_req"] - 1 /\ r["elf_sync"] = m["elf_sync"]
          /\ r["elf_leave_sync"] = m["elf_leave_sync"]
          /\ r["elves_helped"] = m["elves_helped"]
      BY <1>0, <3>1 DEF NSems
    <3>3. /\ Elf(x, "sync") = Elf(w, "sync") + 1 /\ Elf(x, "elf_sync") = Elf(w, "elf_sync")
          /\ Elf(x, "helped") = Elf(w, "helped") /\ Elf(x, "leave") = Elf(w, "leave")
          /\ Elf(x, "elf_leave_sync") = Elf(w, "elf_leave_sync")
          /\ Elf(x, "release") = Elf(w, "release")
      BY <1>1, <2>1, <3>1 DEF Change
    <3>4. r \in [NSems -> Nat]
      BY <1>0, <1>6, <3>1 DEF NSems
    <3> HIDE DEF Elf
    <3> QED
      BY <1>2, <1>3, <1>6, <1>7, <3>1, <3>2, <3>3, <3>4 DEF ElvesAdd
  <2>2. CASE from = "sync"
    <3>1. to = "elf_sync" /\ m["elf_sync"] # 1 /\ r = [m EXCEPT !["elf_sync"] = @ - 1]
      BY <2>2 DEF ElfGoes
    <3>2. /\ r["elf_help_req"] = m["elf_help_req"] /\ r["elf_sync"] = m["elf_sync"] - 1
          /\ r["elf_leave_sync"] = m["elf_leave_sync"]
          /\ r["elves_helped"] = m["elves_helped"]
      BY <1>0, <3>1 DEF NSems
    <3>3. /\ Elf(x, "sync") = Elf(w, "sync") - 1
          /\ Elf(x, "elf_sync") = Elf(w, "elf_sync") + 1
          /\ Elf(x, "helped") = Elf(w, "helped") /\ Elf(x, "leave") = Elf(w, "leave")
          /\ Elf(x, "elf_leave_sync") = Elf(w, "elf_leave_sync")
          /\ Elf(x, "release") = Elf(w, "release") /\ Elf(w, "sync") >= 1
      BY <1>1, <2>2, <3>1 DEF Change
    <3>4. m["elf_sync"] >= 1
      BY <1>7 DEF ElvesAdd
    <3>5. r \in [NSems -> Nat]
      BY <1>0, <1>6, <3>1, <3>4 DEF NSems
    <3> HIDE DEF Elf
    <3> QED
      BY <1>2, <1>3, <1>6, <1>7, <3>1, <3>2, <3>3, <3>5 DEF ElvesAdd
  <2>3. CASE from = "helped"
    <3>1. to = "leave" /\ m["elves_helped"] > 0 /\ r = [m EXCEPT !["elves_helped"] = @ - 1]
      BY <2>3 DEF ElfGoes
    <3>2. /\ r["elf_help_req"] = m["elf_help_req"] /\ r["elf_sync"] = m["elf_sync"]
          /\ r["elf_leave_sync"] = m["elf_leave_sync"]
          /\ r["elves_helped"] = m["elves_helped"] - 1
      BY <1>0, <3>1 DEF NSems
    <3>3. /\ Elf(x, "sync") = Elf(w, "sync") /\ Elf(x, "elf_sync") = Elf(w, "elf_sync")
          /\ Elf(x, "helped") = Elf(w, "helped") - 1
          /\ Elf(x, "leave") = Elf(w, "leave") + 1
          /\ Elf(x, "elf_leave_sync") = Elf(w, "elf_leave_sync")
          /\ Elf(x, "release") = Elf(w, "release") /\ Elf(w, "helped") >= 1
      BY <1>1, <2>3, <3>1 DEF Change
    <3>4. r \in [NSems -> Nat]
      BY <1>0, <1>6, <3>1 DEF NSems
    <3> HIDE DEF Elf
    <3> QED
      BY <1>2, <1>3, <1>6, <1>7, <3>1, <3>2, <3>3, <3>4 DEF ElvesAdd
  <2>4. CASE from = "leave"
    <3>1. to = "elf_leave_sync" /\ m["elf_leave_sync"] # 1
          /\ r = [m EXCEPT !["elf_leave_sync"] = @ - 1]
      BY <2>4 DEF ElfGoes
    <3>2. /\ r["elf_help_req"] = m["elf_help_req"] /\ r["elf_sync"] = m["elf_sync"]
          /\ r["elf_leave_sync"] = m["elf_leave_sync"] - 1
          /\ r["elves_helped"] = m["elves_helped"]
      BY <1>0, <3>1 DEF NSems
    <3>3. /\ Elf(x, "sync") = Elf(w, "sync") /\ Elf(x, "elf_sync") = Elf(w, "elf_sync")
          /\ Elf(x, "helped") = Elf(w, "helped")
          /\ Elf(x, "leave") = Elf(w, "leave") - 1
          /\ Elf(x, "elf_leave_sync") = Elf(w, "elf_leave_sync") + 1
          /\ Elf(x, "release") = Elf(w, "release") /\ Elf(w, "leave") >= 1
      BY <1>1, <2>4, <3>1 DEF Change
    <3>4. m["elf_leave_sync"] >= 1
      BY <1>7 DEF ElvesAdd
    <3>5. r \in [NSems -> Nat]
      BY <1>0, <1>6, <3>1, <3>4 DEF NSems
    <3> HIDE DEF Elf
    <3> QED
      BY <1>2, <1>3, <1>6, <1>7, <3>1, <3>2, <3>3, <3>5 DEF ElvesAdd
  <2>5. CASE from = "release"
    <3>1. to = "start" /\ r = [m EXCEPT !["elf_help_req"] = @ + 1]
      BY <2>5 DEF ElfGoes
    <3>2. /\ r["elf_help_req"] = m["elf_help_req"] + 1 /\ r["elf_sync"] = m["elf_sync"]
          /\ r["elf_leave_sync"] = m["elf_leave_sync"]
          /\ r["elves_helped"] = m["elves_helped"]
      BY <1>0, <3>1 DEF NSems
    <3>3. /\ Elf(x, "sync") = Elf(w, "sync") /\ Elf(x, "elf_sync") = Elf(w, "elf_sync")
          /\ Elf(x, "helped") = Elf(w, "helped") /\ Elf(x, "leave") = Elf(w, "leave")
          /\ Elf(x, "elf_leave_sync") = Elf(w, "elf_leave_sync")
          /\ Elf(x, "release") = Elf(w, "release") - 1 /\ Elf(w, "release") >= 1
      BY <1>1, <2>5, <3>1 DEF Change
    <3>4. r \in [NSems -> Nat]
      BY <1>0, <1>6, <3>1 DEF NSems
    <3> HIDE DEF Elf
    <3> QED
      BY <1>2, <1>3, <1>6, <1>7, <3>1, <3>2, <3>3, <3>4 DEF ElvesAdd
  <2> QED
    BY <2>1, <2>2, <2>3, <2>4, <2>5 DEF ElfGoes
<1> HIDE DEF Kept
<1> QED
  BY <1>0, <1>1, <1>5, <1>8 DEF NorthCounted, ElvesCounted, Kept

(* A barrier opens: those of S who slept at a stand at b.                  *)
Opens(S, a, b, v, x) ==
  /\ DOMAIN v = NT /\ DOMAIN x = NT /\ a # b
  /\ \A t \in S : x[t] = IF v[t] = a THEN b ELSE v[t]
  /\ \A t \in NT \ S : x[t] = v[t]

LEMMA ElvesOpen ==
  ASSUME NEW v, NEW x, NEW a, NEW b, Opens(NE, a, b, v, x)
  PROVE  /\ Elf(x, b) = Elf(v, a) + Elf(v, b) /\ Elf(x, a) = 0
         /\ \A l : l # a /\ l # b => Elf(x, l) = Elf(v, l)
         /\ \A l : OneDeer(x, l) = OneDeer(v, l)
<1>1. Opened(NE, a, b, v, x) /\ \A t \in ND : x[t] = v[t]
  BY NorthApart DEF Opens, Opened
<1>2. /\ Elf(x, b) = Elf(v, a) + Elf(v, b) /\ Elf(x, a) = 0
      /\ \A l : l # a /\ l # b => Elf(x, l) = Elf(v, l)
  BY <1>1, CountOpened DEF Elf
<1>3. ASSUME NEW l PROVE OneDeer(x, l) = OneDeer(v, l)
  BY <1>1, CountSame DEF OneDeer, Num
<1> QED
  BY <1>2, <1>3

LEMMA DeerOpen ==
  ASSUME NEW v, NEW x, NEW a, NEW b, Opens(ND, a, b, v, x)
  PROVE  /\ OneDeer(x, b) = OneDeer(v, a) + OneDeer(v, b) /\ OneDeer(x, a) = 0
         /\ \A l : l # a /\ l # b => OneDeer(x, l) = OneDeer(v, l)
         /\ \A l : Elf(x, l) = Elf(v, l)
<1>1. Opened(ND, a, b, v, x) /\ \A t \in NE : x[t] = v[t]
  BY NorthApart DEF Opens, Opened
<1>2. /\ OneDeer(x, b) = OneDeer(v, a) + OneDeer(v, b) /\ OneDeer(x, a) = 0
      /\ \A l : l # a /\ l # b => OneDeer(x, l) = OneDeer(v, l)
  BY <1>1, CountOpened DEF OneDeer
<1>3. ASSUME NEW l PROVE Elf(x, l) = Elf(v, l)
  BY <1>1, CountSame DEF Elf, Num
<1> QED
  BY <1>2, <1>3

(* The group is complete: nobody else is inside, and help is on its way.   *)
LEMMA ElvesMeet ==
  ASSUME NEW w, NEW v, NEW x, NEW m, NEW r, NEW er, NEW dr, NorthCounted(w, m, er, dr),
         NEW e, ElfMoves(e, "sync", "helped", w, v),
         Opens(NE, "elf_sync", "helped", v, x), m["elf_sync"] = 1,
         r = [m EXCEPT !["elf_sync"] = Group]
  PROVE  NorthCounted(x, r, TRUE, dr)
<1>0. /\ m \in [NSems -> Nat] /\ er \in BOOLEAN /\ dr \in BOOLEAN
      /\ ElvesCounted(w, m, er) /\ DeerCounted(w, m, dr) /\ Group \in Nat \ {0}
  BY Bounds DEF NorthCounted
<1>1. /\ Elf(w, "sync") >= 1
      /\ \A l : /\ Elf(w, l) \in Nat /\ Elf(v, l) \in Nat
                /\ Elf(v, l) = Elf(w, l) + Change({l}, "sync", "helped")
                /\ OneDeer(v, l) = OneDeer(w, l)
  BY ElfCounts
<1>2. /\ Elf(x, "helped") = Elf(v, "elf_sync") + Elf(v, "helped") /\ Elf(x, "elf_sync") = 0
      /\ \A l : l # "elf_sync" /\ l # "helped" => Elf(x, l) = Elf(v, l)
      /\ \A l : OneDeer(x, l) = OneDeer(v, l)
  BY ElvesOpen
<1>3. /\ Elf(w, "sync") \in Nat /\ Elf(w, "elf_sync") \in Nat /\ Elf(w, "helped") \in Nat
      /\ Elf(w, "leave") \in Nat /\ Elf(w, "elf_leave_sync") \in Nat
      /\ Elf(w, "release") \in Nat
  BY <1>1
<1>4. /\ Elf(x, "sync") = Elf(w, "sync") - 1 /\ Elf(x, "elf_sync") = 0
      /\ Elf(x, "helped") = Elf(w, "elf_sync") + Elf(w, "helped") + 1
      /\ Elf(x, "leave") = Elf(w, "leave") /\ Elf(x, "release") = Elf(w, "release")
      /\ Elf(x, "elf_leave_sync") = Elf(w, "elf_leave_sync")
  <2>1. /\ Elf(v, "sync") = Elf(w, "sync") - 1 /\ Elf(v, "elf_sync") = Elf(w, "elf_sync")
        /\ Elf(v, "helped") = Elf(w, "helped") + 1 /\ Elf(v, "leave") = Elf(w, "leave")
        /\ Elf(v, "release") = Elf(w, "release")
        /\ Elf(v, "elf_leave_sync") = Elf(w, "elf_leave_sync")
    BY <1>1, <1>3 DEF Change
  <2> HIDE DEF Elf
  <2> QED
    BY <1>2, <1>3, <2>1
<1>5. /\ r \in [NSems -> Nat] /\ r["elf_help_req"] = m["elf_help_req"]
      /\ r["elf_sync"] = Group /\ r["elf_leave_sync"] = m["elf_leave_sync"]
      /\ r["elves_helped"] = m["elves_helped"] /\ r["deer_sync"] = m["deer_sync"]
      /\ r["deers_helped"] = m["deers_helped"]
  BY <1>0 DEF NSems
<1>6. /\ m["elf_help_req"] \in Nat /\ m["elf_sync"] \in Nat
      /\ m["elf_leave_sync"] \in Nat /\ m["elves_helped"] \in Nat
  BY <1>0, NorthNumbers
<1>7. DeerCounted(x, r, dr)
  BY <1>0, <1>1, <1>2, <1>5 DEF DeerCounted
<1>8. ElvesAdd(m["elf_help_req"], m["elf_sync"], m["elf_leave_sync"], m["elves_helped"],
               er, Elf(w, "sync"), Elf(w, "elf_sync"), Elf(w, "helped"),
               Elf(w, "leave"), Elf(w, "elf_leave_sync"), Elf(w, "release"))
  BY <1>0 DEF ElvesCounted
<1>9. ElvesAdd(r["elf_help_req"], r["elf_sync"], r["elf_leave_sync"], r["elves_helped"],
               TRUE, Elf(x, "sync"), Elf(x, "elf_sync"), Elf(x, "helped"),
               Elf(x, "leave"), Elf(x, "elf_leave_sync"), Elf(x, "release"))
  <2> HIDE DEF Elf
  <2> QED
    BY <1>0, <1>1, <1>3, <1>4, <1>5, <1>6, <1>8 DEF ElvesAdd
<1>10. ElvesCounted(x, r, TRUE) /\ DOMAIN x = NT
  BY <1>9 DEF ElvesCounted, Opens
<1> QED
  BY <1>0, <1>5, <1>7, <1>10 DEF NorthCounted

(* The whole group has been helped, and leaves.                            *)
LEMMA ElvesPart ==
  ASSUME NEW w, NEW v, NEW x, NEW m, NEW r, NEW er, NEW dr, NorthCounted(w, m, er, dr),
         NEW e, ElfMoves(e, "leave", "release", w, v),
         Opens(NE, "elf_leave_sync", "release", v, x), m["elf_leave_sync"] = 1,
         r = [m EXCEPT !["elf_leave_sync"] = Group]
  PROVE  NorthCounted(x, r, er, dr)
<1>0. /\ m \in [NSems -> Nat] /\ er \in BOOLEAN /\ dr \in BOOLEAN
      /\ ElvesCounted(w, m, er) /\ DeerCounted(w, m, dr) /\ Group \in Nat \ {0}
  BY Bounds DEF NorthCounted
<1>1. /\ Elf(w, "leave") >= 1
      /\ \A l : /\ Elf(w, l) \in Nat /\ Elf(v, l) \in Nat
                /\ Elf(v, l) = Elf(w, l) + Change({l}, "leave", "release")
                /\ OneDeer(v, l) = OneDeer(w, l)
  BY ElfCounts
<1>2. /\ Elf(x, "release") = Elf(v, "elf_leave_sync") + Elf(v, "release")
      /\ Elf(x, "elf_leave_sync") = 0
      /\ \A l : l # "elf_leave_sync" /\ l # "release" => Elf(x, l) = Elf(v, l)
      /\ \A l : OneDeer(x, l) = OneDeer(v, l)
  BY ElvesOpen
<1>3. /\ Elf(w, "sync") \in Nat /\ Elf(w, "elf_sync") \in Nat /\ Elf(w, "helped") \in Nat
      /\ Elf(w, "leave") \in Nat /\ Elf(w, "elf_leave_sync") \in Nat
      /\ Elf(w, "release") \in Nat
  BY <1>1
<1>4. /\ Elf(x, "sync") = Elf(w, "sync") /\ Elf(x, "elf_sync") = Elf(w, "elf_sync")
      /\ Elf(x, "helped") = Elf(w, "helped") /\ Elf(x, "leave") = Elf(w, "leave") - 1
      /\ Elf(x, "release") = Elf(w, "elf_leave_sync") + Elf(w, "release") + 1
      /\ Elf(x, "elf_leave_sync") = 0
  <2>1. /\ Elf(v, "sync") = Elf(w, "sync") /\ Elf(v, "elf_sync") = Elf(w, "elf_sync")
        /\ Elf(v, "helped") = Elf(w, "helped") /\ Elf(v, "leave") = Elf(w, "leave") - 1
        /\ Elf(v, "release") = Elf(w, "release") + 1
        /\ Elf(v, "elf_leave_sync") = Elf(w, "elf_leave_sync")
    BY <1>1, <1>3 DEF Change
  <2> HIDE DEF Elf
  <2> QED
    BY <1>2, <1>3, <2>1
<1>5. /\ r \in [NSems -> Nat] /\ r["elf_help_req"] = m["elf_help_req"]
      /\ r["elf_sync"] = m["elf_sync"] /\ r["elf_leave_sync"] = Group
      /\ r["elves_helped"] = m["elves_helped"] /\ r["deer_sync"] = m["deer_sync"]
      /\ r["deers_helped"] = m["deers_helped"]
  BY <1>0 DEF NSems
<1>6. /\ m["elf_help_req"] \in Nat /\ m["elf_sync"] \in Nat
      /\ m["elf_leave_sync"] \in Nat /\ m["elves_helped"] \in Nat
  BY <1>0, NorthNumbers
<1>7. DeerCounted(x, r, dr)
  BY <1>0, <1>1, <1>2, <1>5 DEF DeerCounted
<1>8. ElvesAdd(m["elf_help_req"], m["elf_sync"], m["elf_leave_sync"], m["elves_helped"],
               er, Elf(w, "sync"), Elf(w, "elf_sync"), Elf(w, "helped"),
               Elf(w, "leave"), Elf(w, "elf_leave_sync"), Elf(w, "release"))
  BY <1>0 DEF ElvesCounted
<1>9. ElvesAdd(r["elf_help_req"], r["elf_sync"], r["elf_leave_sync"], r["elves_helped"],
               er, Elf(x, "sync"), Elf(x, "elf_sync"), Elf(x, "helped"),
               Elf(x, "leave"), Elf(x, "elf_leave_sync"), Elf(x, "release"))
  <2> HIDE DEF Elf
  <2> QED
    BY <1>0, <1>1, <1>3, <1>4, <1>5, <1>6, <1>8 DEF ElvesAdd
<1>10. ElvesCounted(x, r, er) /\ DOMAIN x = NT
  BY <1>9 DEF ElvesCounted, Opens
<1> QED
  BY <1>0, <1>5, <1>7, <1>10 DEF NorthCounted

(* A deer goes to sleep at its barrier, or on holiday again.               *)
DeerGoes(from, to, m, r) ==
  \/ from = "start" /\ to = "deer_sync" /\ m["deer_sync"] # 1
     /\ r = [m EXCEPT !["deer_sync"] = @ - 1]
  \/ from = "helped" /\ to = "start" /\ m["deers_helped"] > 0
     /\ r = [m EXCEPT !["deers_helped"] = @ - 1]

LEMMA DeerGo ==
  ASSUME NEW w, NEW x, NEW m, NEW r, NEW er, NEW dr, NorthCounted(w, m, er, dr),
         NEW d, NEW from, NEW to, DeerMoves(d, from, to, w, x), DeerGoes(from, to, m, r)
  PROVE  NorthCounted(x, r, er, dr)
<1>0. /\ m \in [NSems -> Nat] /\ er \in BOOLEAN /\ dr \in BOOLEAN
      /\ ElvesCounted(w, m, er) /\ DeerCounted(w, m, dr) /\ Deer \in Nat \ {0}
  BY Bounds DEF NorthCounted
<1>1. /\ DOMAIN x = NT /\ OneDeer(w, from) >= 1
      /\ \A l : /\ OneDeer(w, l) \in Nat /\ OneDeer(x, l) \in Nat
                /\ OneDeer(x, l) = OneDeer(w, l) + Change({l}, from, to)
                /\ Elf(x, l) = Elf(w, l)
  BY DeerCounts
<1>2. /\ OneDeer(w, "start") \in Nat /\ OneDeer(w, "deer_sync") \in Nat
      /\ OneDeer(w, "helped") \in Nat
  BY <1>1
<1>3. m["deer_sync"] \in Nat /\ m["deers_helped"] \in Nat
  BY <1>0, NorthNumbers
<1>4. DeerAdd(m["deer_sync"], m["deers_helped"], dr, OneDeer(w, "start"),
              OneDeer(w, "deer_sync"), OneDeer(w, "helped"))
  BY <1>0 DEF DeerCounted
<1>5. /\ r \in [NSems -> Nat] /\ r["elf_help_req"] = m["elf_help_req"]
      /\ r["elf_sync"] = m["elf_sync"] /\ r["elf_leave_sync"] = m["elf_leave_sync"]
      /\ r["elves_helped"] = m["elves_helped"]
  <2>1. m["deer_sync"] >= 1
    BY <1>4 DEF DeerAdd
  <2> QED
    BY <1>0, <1>3, <2>1 DEF DeerGoes, NSems
<1>6. ElvesCounted(x, r, er)
  BY <1>0, <1>1, <1>5 DEF ElvesCounted
<1>7. DeerAdd(r["deer_sync"], r["deers_helped"], dr, OneDeer(x, "start"),
              OneDeer(x, "deer_sync"), OneDeer(x, "helped"))
  <2>1. CASE from = "start"
    <3>1. /\ r["deer_sync"] = m["deer_sync"] - 1 /\ r["deers_helped"] = m["deers_helped"]
          /\ to = "deer_sync" /\ m["deer_sync"] # 1
      BY <1>0, <2>1 DEF DeerGoes, NSems
    <3>2. /\ OneDeer(x, "start") = OneDeer(w, "start") - 1
          /\ OneDeer(x, "deer_sync") = OneDeer(w, "deer_sync") + 1
          /\ OneDeer(x, "helped") = OneDeer(w, "helped")
      BY <1>1, <1>2, <2>1, <3>1 DEF Change
    <3> HIDE DEF OneDeer
    <3> QED
      BY <1>0, <1>2, <1>3, <1>4, <3>1, <3>2 DEF DeerAdd
  <2>2. CASE from = "helped"
    <3>1. /\ r["deer_sync"] = m["deer_sync"] /\ r["deers_helped"] = m["deers_helped"] - 1
          /\ to = "start"
      BY <1>0, <2>2 DEF DeerGoes, NSems
    <3>2. /\ OneDeer(x, "start") = OneDeer(w, "start") + 1
          /\ OneDeer(x, "deer_sync") = OneDeer(w, "deer_sync")
          /\ OneDeer(x, "helped") = OneDeer(w, "helped") - 1
      BY <1>1, <1>2, <2>2, <3>1 DEF Change
    <3> HIDE DEF OneDeer
    <3> QED
      BY <1>0, <1>2, <1>3, <1>4, <3>1, <3>2 DEF DeerAdd
  <2> QED
    BY <2>1, <2>2 DEF DeerGoes
<1>8. DeerCounted(x, r, dr)
  BY <1>7 DEF DeerCounted
<1> QED
  BY <1>0, <1>1, <1>5, <1>6, <1>8 DEF NorthCounted

(* The deer are complete: none of them is still waiting for help.          *)
LEMMA DeerMeet ==
  ASSUME NEW w, NEW v, NEW x, NEW m, NEW r, NEW er, NEW dr, NorthCounted(w, m, er, dr),
         NEW d, DeerMoves(d, "start", "helped", w, v),
         Opens(ND, "deer_sync", "helped", v, x), m["deer_sync"] = 1,
         r = [m EXCEPT !["deer_sync"] = Deer]
  PROVE  NorthCounted(x, r, er, TRUE)
<1>0. /\ m \in [NSems -> Nat] /\ er \in BOOLEAN /\ dr \in BOOLEAN
      /\ ElvesCounted(w, m, er) /\ DeerCounted(w, m, dr) /\ Deer \in Nat \ {0}
  BY Bounds DEF NorthCounted
<1>1. /\ OneDeer(w, "start") >= 1
      /\ \A l : /\ OneDeer(w, l) \in Nat /\ OneDeer(v, l) \in Nat
                /\ OneDeer(v, l) = OneDeer(w, l) + Change({l}, "start", "helped")
                /\ Elf(v, l) = Elf(w, l)
  BY DeerCounts
<1>2. /\ OneDeer(x, "helped") = OneDeer(v, "deer_sync") + OneDeer(v, "helped")
      /\ OneDeer(x, "deer_sync") = 0
      /\ \A l : l # "deer_sync" /\ l # "helped" => OneDeer(x, l) = OneDeer(v, l)
      /\ \A l : Elf(x, l) = Elf(v, l)
  BY DeerOpen
<1>3. /\ OneDeer(w, "start") \in Nat /\ OneDeer(w, "deer_sync") \in Nat
      /\ OneDeer(w, "helped") \in Nat
  BY <1>1
<1>4. /\ OneDeer(x, "start") = OneDeer(w, "start") - 1 /\ OneDeer(x, "deer_sync") = 0
      /\ OneDeer(x, "helped") = OneDeer(w, "deer_sync") + OneDeer(w, "helped") + 1
  <2>1. /\ OneDeer(v, "start") = OneDeer(w, "start") - 1
        /\ OneDeer(v, "deer_sync") = OneDeer(w, "deer_sync")
        /\ OneDeer(v, "helped") = OneDeer(w, "helped") + 1
    BY <1>1, <1>3 DEF Change
  <2> HIDE DEF OneDeer
  <2> QED
    BY <1>2, <1>3, <2>1
<1>5. /\ r \in [NSems -> Nat] /\ r["elf_help_req"] = m["elf_help_req"]
      /\ r["elf_sync"] = m["elf_sync"] /\ r["elf_leave_sync"] = m["elf_leave_sync"]
      /\ r["elves_helped"] = m["elves_helped"] /\ r["deer_sync"] = Deer
      /\ r["deers_helped"] = m["deers_helped"]
  BY <1>0 DEF NSems
<1>6. m["deer_sync"] \in Nat /\ m["deers_helped"] \in Nat
  BY <1>0, NorthNumbers
<1>7. ElvesCounted(x, r, er)
  BY <1>0, <1>1, <1>2, <1>5 DEF ElvesCounted
<1>8. DeerAdd(m["deer_sync"], m["deers_helped"], dr, OneDeer(w, "start"),
              OneDeer(w, "deer_sync"), OneDeer(w, "helped"))
  BY <1>0 DEF DeerCounted
<1>9. DeerAdd(r["deer_sync"], r["deers_helped"], TRUE, OneDeer(x, "start"),
              OneDeer(x, "deer_sync"), OneDeer(x, "helped"))
  <2> HIDE DEF OneDeer
  <2> QED
    BY <1>0, <1>1, <1>3, <1>4, <1>5, <1>6, <1>8 DEF DeerAdd
<1>10. DeerCounted(x, r, TRUE) /\ DOMAIN x = NT
  BY <1>9 DEF DeerCounted, Opens
<1> QED
  BY <1>0, <1>5, <1>7, <1>10 DEF NorthCounted

(* Santa helps those who wait, once.                                       *)
LEMMA SantaHelps ==
  ASSUME NEW w, NEW m, NEW r, NEW er, NEW dr, NorthCounted(w, m, er, dr)
  PROVE  /\ er /\ r = [m EXCEPT !["elves_helped"] = @ + Group]
              => NorthCounted(w, r, FALSE, dr)
         /\ dr /\ r = [m EXCEPT !["deers_helped"] = @ + Deer]
              => NorthCounted(w, r, er, FALSE)
<1>0. /\ m \in [NSems -> Nat] /\ er \in BOOLEAN /\ dr \in BOOLEAN /\ DOMAIN w = NT
      /\ ElvesCounted(w, m, er) /\ DeerCounted(w, m, dr)
      /\ Deer \in Nat \ {0} /\ Group \in Nat \ {0}
  BY Bounds DEF NorthCounted
<1>1. /\ m["elf_help_req"] \in Nat /\ m["elf_sync"] \in Nat
      /\ m["elf_leave_sync"] \in Nat /\ m["elves_helped"] \in Nat
      /\ m["deer_sync"] \in Nat /\ m["deers_helped"] \in Nat
  BY <1>0, NorthNumbers
<1>2. ASSUME er, r = [m EXCEPT !["elves_helped"] = @ + Group]
      PROVE  NorthCounted(w, r, FALSE, dr)
  <2>1. /\ r \in [NSems -> Nat] /\ r["elf_help_req"] = m["elf_help_req"]
        /\ r["elf_sync"] = m["elf_sync"] /\ r["elf_leave_sync"] = m["elf_leave_sync"]
        /\ r["elves_helped"] = m["elves_helped"] + Group /\ r["deer_sync"] = m["deer_sync"]
        /\ r["deers_helped"] = m["deers_helped"]
    BY <1>0, <1>1, <1>2 DEF NSems
  <2>2. ElvesCounted(w, r, FALSE)
    <3> HIDE DEF Elf
    <3> QED
      BY <1>0, <1>1, <1>2, <2>1 DEF ElvesCounted, ElvesAdd
  <2>3. DeerCounted(w, r, dr)
    BY <1>0, <2>1 DEF DeerCounted
  <2> QED
    BY <1>0, <2>1, <2>2, <2>3 DEF NorthCounted
<1>3. ASSUME dr, r = [m EXCEPT !["deers_helped"] = @ + Deer]
      PROVE  NorthCounted(w, r, er, FALSE)
  <2>1. /\ r \in [NSems -> Nat] /\ r["elf_help_req"] = m["elf_help_req"]
        /\ r["elf_sync"] = m["elf_sync"] /\ r["elf_leave_sync"] = m["elf_leave_sync"]
        /\ r["elves_helped"] = m["elves_helped"] /\ r["deer_sync"] = m["deer_sync"]
        /\ r["deers_helped"] = m["deers_helped"] + Deer
    BY <1>0, <1>1, <1>3 DEF NSems
  <2>2. ElvesCounted(w, r, er)
    BY <1>0, <2>1 DEF ElvesCounted
  <2>3. DeerCounted(w, r, FALSE)
    <3> HIDE DEF OneDeer
    <3> QED
      BY <1>0, <1>1, <1>3, <2>1 DEF DeerCounted, DeerAdd
  <2> QED
    BY <1>0, <2>1, <2>2, <2>3 DEF NorthCounted
<1> QED
  BY <1>2, <1>3

-----------------------------------------------------------------------------
(* What the steps of the elves, the deer and Santa do to where they are    *)

NBarriers == {"elf_sync", "elf_leave_sync", "deer_sync"}

(* Whoever takes a step sleeps at no barrier, and goes to g[t] or to sleep *)
(* at a barrier; or it opens one.                                          *)
NGoes(f, z, t, to, g) ==
  /\ t \in NT /\ \A b \in NBarriers : t \notin z[b]
  /\ DOMAIN f = NT /\ g = [f EXCEPT ![t] = to]

LEMMA WhereGoes ==
  ASSUME NEW f, NEW z, NEW t, NEW to, NEW g, NGoes(f, z, t, to, g)
  PROVE  /\ DOMAIN Whereabouts(f, z) = NT /\ Whereabouts(f, z)[t] = f[t]
         /\ Moves(t, to, Whereabouts(f, z), Whereabouts(g, z))
  BY DEF NGoes, Whereabouts, Moves, NBarriers

LEMMA WhereNaps ==
  ASSUME NEW f, NEW z, NEW t, NEW to, NEW g, NGoes(f, z, t, to, g), NEW b \in NBarriers,
         z \in [{"santa_wake"} \cup NBarriers -> SUBSET NT]
  PROVE  Moves(t, b, Whereabouts(f, z), Whereabouts(g, [z EXCEPT ![b] = @ \cup {t}]))
<1> DEFINE y == [z EXCEPT ![b] = @ \cup {t}]
<1>1. /\ t \in y[b] /\ \A c \in NBarriers : c # b => y[c] = z[c]
      /\ \A u : u # t => \A c \in NBarriers : u \in y[c] <=> u \in z[c]
      /\ \A c \in NBarriers : c # b => t \notin y[c]
  BY DEF NGoes, NBarriers
<1> HIDE DEF y
<1>2. Moves(t, b, Whereabouts(f, z), Whereabouts(g, y))
  BY <1>1 DEF NGoes, Whereabouts, Moves, NBarriers
<1> QED
  BY <1>2 DEF y

(* S are the threads that meet at b, and those who sleep there are to go   *)
(* where the last one goes.                                                *)
NMeet(f, z, y, t, b, to, S) ==
  /\ b \in NBarriers /\ b # to /\ t \in S /\ S \subseteq NT
  /\ \A c \in NBarriers : y[c] = IF c = b THEN {} ELSE z[c]
  /\ \A u \in NT : f[u] \notin NBarriers
  /\ \A u \in z[b] : u \in S /\ f[u] = to
  /\ \A u \in z[b] : \A c \in NBarriers : u \in z[c] => c = b

LEMMA WhereOpens ==
  ASSUME NEW f, NEW z, NEW t, NEW to, NEW g, NGoes(f, z, t, to, g), NEW b, NEW y, NEW S,
         NMeet(f, z, y, t, b, to, S)
  PROVE  /\ Moves(t, to, Whereabouts(f, z), [Whereabouts(f, z) EXCEPT ![t] = to])
         /\ Opens(S, b, to, [Whereabouts(f, z) EXCEPT ![t] = to], Whereabouts(g, y))
<1>0. /\ b \in NBarriers /\ b # to /\ t \in S /\ S \subseteq NT
      /\ \A c \in NBarriers : y[c] = IF c = b THEN {} ELSE z[c]
      /\ \A u \in NT : f[u] \notin NBarriers
      /\ \A u \in z[b] : u \in S /\ f[u] = to
      /\ \A u \in z[b] : \A c \in NBarriers : u \in z[c] => c = b
  BY DEF NMeet
<1> DEFINE w == Whereabouts(f, z)
           v == [w EXCEPT ![t] = to]
           x == Whereabouts(g, y)
<1>1. DOMAIN w = NT /\ DOMAIN v = NT /\ DOMAIN x = NT /\ t \in NT
  BY DEF NGoes, Whereabouts
<1>2. Moves(t, to, w, v)
  BY <1>1 DEF Moves
<1>3. /\ v[t] = to /\ x[t] = to
      /\ \A u \in NT : u # t => v[u] = w[u] /\ x[u] = Whereabouts(f, y)[u]
  BY <1>0, <1>1 DEF NGoes, Whereabouts, NBarriers
<1>4. ASSUME NEW u \in NT, u \in z[b] PROVE w[u] = b /\ Whereabouts(f, y)[u] = to
  BY <1>0, <1>4 DEF Whereabouts, NBarriers
<1>5. ASSUME NEW u \in NT, u \notin z[b]
      PROVE  w[u] # b /\ Whereabouts(f, y)[u] = w[u]
  BY <1>0, <1>5 DEF Whereabouts, NBarriers
<1>6. \A u \in NT : u # t /\ u \in z[b] => v[u] = b /\ x[u] = to
  BY <1>3, <1>4
<1>7. \A u \in NT : u # t /\ u \notin z[b] => v[u] = w[u] /\ w[u] # b /\ x[u] = w[u]
  BY <1>3, <1>5
<1>8. b # to /\ t \in S /\ S \subseteq NT /\ \A u \in z[b] : u \in S
  BY <1>0
<1> HIDE DEF w, v, x
<1>9. Opens(S, b, to, v, x)
  BY <1>1, <1>3, <1>6, <1>7, <1>8 DEF Opens
<1> QED
  BY <1>2, <1>9 DEF w, v, x

NAt == {"start", "sync", "helped", "leave", "release"}

LEMMA NorthInvIs ==
  ASSUME NEW f, NEW m, NEW z, NEW er, NEW dr
  PROVE  NInv(f, m, z, er, dr) <=>
           NorthTyped(f, m, z) /\ NorthCounted(Whereabouts(f, z), m, er, dr)
<1>1. DOMAIN Whereabouts(f, z) = NT
  BY DEF Whereabouts
<1> QED
  BY <1>1 DEF NInv, NorthTyped, NorthCounted

LEMMA NorthGoto ==
  ASSUME NEW t \in NT, NEW from, NEW to, North!Goto(t, from, to),
         NorthTyped(pc, sem, asleep)
  PROVE  NGoes(pc, asleep, t, to, pc') /\ pc[t] = from
  BY DEF North!Goto, North!At, North!Awake, NorthTyped, NGoes, NBarriers

(* Who may go where, and sleep at which barrier.                           *)
NMay(t, to) == (t \in NE /\ to \in NAt) \/ (t \in ND /\ to \in {"start", "helped"})

NSleeps(t, b, to) ==
  \/ t \in NE /\ b = "elf_sync" /\ to = "helped"
  \/ t \in NE /\ b = "elf_leave_sync" /\ to = "release"
  \/ t \in ND /\ b = "deer_sync" /\ to = "helped"

LEMMA NorthTypedGoes ==
  ASSUME NEW f, NEW m, NEW z, NorthTyped(f, m, z), NEW r \in [NSems -> Nat],
         NEW t, NEW to, NEW g, NGoes(f, z, t, to, g), NMay(t, to)
  PROVE  NorthTyped(g, r, z)
<1>1. t # North!santa /\ (t \in ND => to \in {"start", "helped"}) /\ to \in NAt /\ t \in NT
  BY NorthApart DEF NMay, NAt, NGoes
<1> QED
  BY <1>1 DEF NorthTyped, NGoes, NBarriers, NAt

LEMMA NorthTypedNaps ==
  ASSUME NEW f, NEW m, NEW z, NorthTyped(f, m, z), NEW r \in [NSems -> Nat],
         NEW t, NEW to, NEW g, NGoes(f, z, t, to, g), NEW b, NSleeps(t, b, to)
  PROVE  NorthTyped(g, r, [z EXCEPT ![b] = @ \cup {t}])
<1>1. NMay(t, to) /\ b \in NBarriers
  BY DEF NMay, NAt, NSleeps, NBarriers
<1>2. NorthTyped(g, r, z) /\ t \in NT /\ g[t] = to
  BY <1>1, NorthTypedGoes DEF NGoes
<1> QED
  BY <1>1, <1>2 DEF NorthTyped, NBarriers, NSleeps

LEMMA NorthTypedOpens ==
  ASSUME NEW f, NEW m, NEW z, NorthTyped(f, m, z), NEW r \in [NSems -> Nat],
         NEW t, NEW to, NEW g, NGoes(f, z, t, to, g), NMay(t, to),
         NEW y \in [{"santa_wake"} \cup NBarriers -> SUBSET NT],
         \A c \in {"santa_wake"} \cup NBarriers : y[c] = {} \/ y[c] = z[c]
  PROVE  NorthTyped(g, r, y)
<1>1. NorthTyped(g, r, z)
  BY NorthTypedGoes
<1> QED
  BY <1>1 DEF NorthTyped, NBarriers

(* The premises of WhereOpens, at the barrier of the elves or of the deer. *)
LEMMA WhereMeets ==
  ASSUME NEW f, NEW m, NEW z, NorthTyped(f, m, z), NEW t, NEW to, NEW g,
         NGoes(f, z, t, to, g), NEW b, NSleeps(t, b, to), NEW y,
         \A c \in NBarriers : y[c] = IF c = b THEN {} ELSE z[c],
         NEW S, S = IF b = "deer_sync" THEN ND ELSE NE
  PROVE  /\ Moves(t, to, Whereabouts(f, z), [Whereabouts(f, z) EXCEPT ![t] = to])
         /\ Opens(S, b, to, [Whereabouts(f, z) EXCEPT ![t] = to], Whereabouts(g, y))
<1>1. b \in NBarriers /\ b # to /\ t \in S /\ S \subseteq NT
  BY NorthApart DEF NSleeps, NBarriers
<1>2. \A u \in NT : f[u] \notin NBarriers
  BY DEF NorthTyped, NBarriers
<1>3. \A u \in z[b] : u \in S /\ f[u] = to
  BY DEF NorthTyped, NSleeps
<1>4. \A u \in z[b] : \A c \in NBarriers : u \in z[c] => c = b
  <2> SUFFICES ASSUME NEW u \in z[b], NEW c \in NBarriers, u \in z[c] PROVE c = b
    OBVIOUS
  <2>1. b \in {"elf_sync", "elf_leave_sync"} => u \in NE /\ u \notin ND
    BY NorthApart DEF NorthTyped
  <2>2. b = "deer_sync" => u \in ND /\ u \notin NE
    BY NorthApart DEF NorthTyped
  <2>3. /\ c = "elf_sync" => u \in NE /\ f[u] = "helped"
        /\ c = "elf_leave_sync" => u \in NE /\ f[u] = "release"
        /\ c = "deer_sync" => u \in ND
    BY DEF NorthTyped
  <2>4. /\ b = "elf_sync" => f[u] = "helped"
        /\ b = "elf_leave_sync" => f[u] = "release"
    BY DEF NorthTyped
  <2> QED
    BY <1>1, <2>1, <2>2, <2>3, <2>4 DEF NBarriers
<1>5. NMeet(f, z, y, t, b, to, S)
  BY <1>1, <1>2, <1>3, <1>4 DEF NMeet
<1> QED
  BY <1>5, WhereOpens

LEMMA ElfKeeps ==
  ASSUME NorthInv, NEW e \in NE, North!elf(e)
  PROVE  NorthInv'
<1> DEFINE w == Whereabouts(pc, asleep)
           x == Whereabouts(pc', asleep')
<1>0. /\ NorthTyped(pc, sem, asleep) /\ NorthCounted(w, sem, elves_ready, deer_ready)
      /\ e \in NT /\ sem \in [NSems -> Nat] /\ Group \in Nat \ {0}
      /\ asleep \in [{"santa_wake"} \cup NBarriers -> SUBSET NT] /\ DOMAIN w = NT
  BY NorthInvIs, NorthApart, Bounds DEF NorthInv, NorthTyped, NBarriers, Whereabouts
<1> SUFFICES /\ NorthTyped(pc', sem', asleep')
             /\ NorthCounted(x, sem', elves_ready', deer_ready')
  BY NorthInvIs DEF NorthInv
<1> HIDE DEF w, x
<1>1. ASSUME NEW from, NEW to, North!Goto(e, from, to), ElfGoes(from, to, sem, sem'),
             to \in NAt, UNCHANGED <<asleep, elves_ready, deer_ready>>
      PROVE  /\ NorthTyped(pc', sem', asleep')
             /\ NorthCounted(x, sem', elves_ready', deer_ready')
  <2>1. NGoes(pc, asleep, e, to, pc') /\ pc[e] = from
    BY <1>0, <1>1, NorthGoto
  <2>2. ElfMoves(e, from, to, w, x)
    BY <1>0, <1>1, <2>1, WhereGoes DEF ElfMoves, w, x
  <2>3. NorthCounted(x, sem', elves_ready, deer_ready)
    BY <1>0, <1>1, <2>2, ElvesGo
  <2>4. sem' \in [NSems -> Nat] /\ NMay(e, to)
    BY <1>1, <2>3 DEF NorthCounted, NMay
  <2>5. NorthTyped(pc', sem', asleep)
    BY <1>0, <2>1, <2>4, NorthTypedGoes
  <2> QED
    BY <1>1, <2>3, <2>5
<1>2. ASSUME NEW from, NEW to, NEW b, North!Goto(e, from, to), ElfGoes(from, b, sem, sem'),
             asleep' = [asleep EXCEPT ![b] = @ \cup {e}], NSleeps(e, b, to),
             UNCHANGED <<elves_ready, deer_ready>>
      PROVE  /\ NorthTyped(pc', sem', asleep')
             /\ NorthCounted(x, sem', elves_ready', deer_ready')
  <2>1. NGoes(pc, asleep, e, to, pc') /\ pc[e] = from
    BY <1>0, <1>2, NorthGoto
  <2>2. b \in NBarriers
    BY <1>2 DEF NSleeps, NBarriers
  <2>3. ElfMoves(e, from, b, w, x)
    BY <1>0, <1>2, <2>1, <2>2, WhereGoes, WhereNaps DEF ElfMoves, w, x
  <2>4. NorthCounted(x, sem', elves_ready, deer_ready)
    BY <1>0, <1>2, <2>3, ElvesGo
  <2>5. sem' \in [NSems -> Nat]
    BY <2>4 DEF NorthCounted
  <2>6. NorthTyped(pc', sem', asleep')
    BY <1>0, <1>2, <2>1, <2>5, NorthTypedNaps
  <2> QED
    BY <1>2, <2>4, <2>6
<1>3. ASSUME NEW from, NEW to, NEW b, North!Goto(e, from, to), NSleeps(e, b, to),
             sem[b] = 1, sem' = [sem EXCEPT ![b] = Group],
             asleep' \in {[asleep EXCEPT ![b] = {}],
                          [asleep EXCEPT ![b] = {}, !["santa_wake"] = {}]},
             \/ from = "sync" /\ to = "helped" /\ b = "elf_sync"
                /\ elves_ready' = TRUE /\ UNCHANGED deer_ready
             \/ from = "leave" /\ to = "release" /\ b = "elf_leave_sync"
                /\ UNCHANGED <<elves_ready, deer_ready>>
      PROVE  /\ NorthTyped(pc', sem', asleep')
             /\ NorthCounted(x, sem', elves_ready', deer_ready')
  <2>1. NGoes(pc, asleep, e, to, pc') /\ pc[e] = from
    BY <1>0, <1>3, NorthGoto
  <2>2. /\ asleep' \in [{"santa_wake"} \cup NBarriers -> SUBSET NT]
        /\ \A c \in {"santa_wake"} \cup NBarriers : asleep'[c] = {} \/ asleep'[c] = asleep[c]
        /\ \A c \in NBarriers : asleep'[c] = IF c = b THEN {} ELSE asleep[c]
        /\ b \in {"elf_sync", "elf_leave_sync"}
    BY <1>0, <1>3 DEF NBarriers
  <2> DEFINE v == [w EXCEPT ![e] = to]
  <2>3. w[e] = from /\ Moves(e, to, w, v) /\ Opens(NE, b, to, v, x)
    <3>1. NE = IF b = "deer_sync" THEN ND ELSE NE
      BY <2>2
    <3>2. /\ Moves(e, to, Whereabouts(pc, asleep), [Whereabouts(pc, asleep) EXCEPT ![e] = to])
          /\ Opens(NE, b, to, [Whereabouts(pc, asleep) EXCEPT ![e] = to],
                   Whereabouts(pc', asleep'))
      BY <1>0, <1>3, <2>1, <2>2, <3>1, WhereMeets
    <3> QED
      BY <2>1, <3>2, WhereGoes DEF w, x
  <2>4. ElfMoves(e, from, to, w, v)
    BY <1>0, <2>3 DEF ElfMoves
  <2> HIDE DEF v
  <2>5. NorthCounted(x, sem', elves_ready', deer_ready')
    <3>1. CASE from = "sync"
      <4>1. /\ ElfMoves(e, "sync", "helped", w, v) /\ Opens(NE, "elf_sync", "helped", v, x)
            /\ sem["elf_sync"] = 1 /\ sem' = [sem EXCEPT !["elf_sync"] = Group]
            /\ elves_ready' = TRUE /\ deer_ready' = deer_ready
        BY <1>3, <2>3, <2>4, <3>1
      <4> QED
        BY <1>0, <4>1, ElvesMeet
    <3>2. CASE from = "leave"
      <4>1. /\ ElfMoves(e, "leave", "release", w, v)
            /\ Opens(NE, "elf_leave_sync", "release", v, x)
            /\ sem["elf_leave_sync"] = 1
            /\ sem' = [sem EXCEPT !["elf_leave_sync"] = Group]
            /\ elves_ready' = elves_ready /\ deer_ready' = deer_ready
        BY <1>3, <2>3, <2>4, <3>2
      <4> QED
        BY <1>0, <4>1, ElvesPart
    <3> QED
      BY <1>3, <3>1, <3>2
  <2>6. sem' \in [NSems -> Nat] /\ NMay(e, to)
    BY <1>3, <2>5 DEF NorthCounted, NMay, NAt
  <2>7. NorthTyped(pc', sem', asleep')
    BY <1>0, <2>1, <2>2, <2>6, NorthTypedOpens
  <2> QED
    BY <2>5, <2>7
<1>4. CASE North!LastOfAll(e, "elf_sync", Group, "sync", "helped")
           /\ elves_ready' = TRUE /\ UNCHANGED deer_ready
  <2>1. /\ North!Goto(e, "sync", "helped") /\ sem["elf_sync"] = 1
        /\ sem' = [sem EXCEPT !["elf_sync"] = Group]
        /\ asleep' = [asleep EXCEPT !["elf_sync"] = {}, !["santa_wake"] = {}]
        /\ NSleeps(e, "elf_sync", "helped")
    BY <1>4 DEF North!LastOfAll, North!CompletesPhase, NSleeps
  <2> QED
    BY <1>3, <1>4, <2>1
<1>5. CASE North!acquire(e, "elf_help_req", "start", "sync") /\ UNCHANGED North!northVars
  <2>1. /\ North!Goto(e, "start", "sync") /\ ElfGoes("start", "sync", sem, sem')
        /\ "sync" \in NAt /\ UNCHANGED <<asleep, elves_ready, deer_ready>>
    BY <1>5 DEF North!acquire, North!northVars, ElfGoes, NAt
  <2> QED
    BY <1>1, <2>1
<1>6. CASE North!OneOfMany(e, "elf_sync", "sync", "helped") /\ UNCHANGED North!northVars
  <2>1. /\ North!Goto(e, "sync", "helped") /\ ElfGoes("sync", "elf_sync", sem, sem')
        /\ asleep' = [asleep EXCEPT !["elf_sync"] = @ \cup {e}]
        /\ NSleeps(e, "elf_sync", "helped") /\ UNCHANGED <<elves_ready, deer_ready>>
    BY <1>6 DEF North!OneOfMany, North!CompletesPhase, North!AwaitPhase, North!northVars,
       ElfGoes, NSleeps
  <2> QED
    BY <1>2, <2>1
<1>7. CASE North!acquire(e, "elves_helped", "helped", "leave") /\ UNCHANGED North!northVars
  <2>1. /\ North!Goto(e, "helped", "leave") /\ ElfGoes("helped", "leave", sem, sem')
        /\ "leave" \in NAt /\ UNCHANGED <<asleep, elves_ready, deer_ready>>
    BY <1>7 DEF North!acquire, North!northVars, ElfGoes, NAt
  <2> QED
    BY <1>1, <2>1
<1>8. CASE North!LeaveTogether(e) /\ UNCHANGED North!northVars
  <2>1. North!Goto(e, "leave", "release") /\ UNCHANGED <<elves_ready, deer_ready>>
        /\ NSleeps(e, "elf_leave_sync", "release")
    BY <1>8 DEF North!LeaveTogether, North!arrive_and_wait, North!northVars, NSleeps
  <2>2. CASE sem["elf_leave_sync"] = 1
    <3>1. /\ sem' = [sem EXCEPT !["elf_leave_sync"] = Group]
          /\ asleep' = [asleep EXCEPT !["elf_leave_sync"] = {}]
      BY <1>8, <2>2 DEF North!LeaveTogether, North!arrive_and_wait, North!CompletesPhase,
         North!OpenPhase, North!WakeAll
    <3> QED
      BY <1>3, <2>1, <2>2, <3>1
  <2>3. CASE sem["elf_leave_sync"] # 1
    <3>1. /\ ElfGoes("leave", "elf_leave_sync", sem, sem')
          /\ asleep' = [asleep EXCEPT !["elf_leave_sync"] = @ \cup {e}]
      BY <1>8, <2>3 DEF North!LeaveTogether, North!arrive_and_wait, North!CompletesPhase,
         North!AwaitPhase, ElfGoes
    <3> QED
      BY <1>2, <2>1, <3>1
  <2> QED
    BY <2>2, <2>3
<1>9. CASE North!release(e, "elf_help_req", 1, "release", "start")
           /\ UNCHANGED North!northVars
  <2>1. /\ North!Goto(e, "release", "start") /\ ElfGoes("release", "start", sem, sem')
        /\ "start" \in NAt /\ UNCHANGED <<asleep, elves_ready, deer_ready>>
    BY <1>9 DEF North!release, North!northVars, ElfGoes, NAt
  <2> QED
    BY <1>1, <2>1
<1> QED
  BY <1>4, <1>5, <1>6, <1>7, <1>8, <1>9 DEF North!elf

LEMMA DeerKeeps ==
  ASSUME NorthInv, NEW d \in ND, North!deer(d)
  PROVE  NorthInv'
<1> DEFINE w == Whereabouts(pc, asleep)
           x == Whereabouts(pc', asleep')
           v == [w EXCEPT ![d] = "helped"]
<1>0. /\ NorthTyped(pc, sem, asleep) /\ NorthCounted(w, sem, elves_ready, deer_ready)
      /\ d \in NT /\ sem \in [NSems -> Nat] /\ Deer \in Nat \ {0}
      /\ asleep \in [{"santa_wake"} \cup NBarriers -> SUBSET NT] /\ DOMAIN w = NT
  BY NorthInvIs, NorthApart, Bounds DEF NorthInv, NorthTyped, NBarriers, Whereabouts
<1> SUFFICES /\ NorthTyped(pc', sem', asleep')
             /\ NorthCounted(x, sem', elves_ready', deer_ready')
  BY NorthInvIs DEF NorthInv
<1> HIDE DEF w, x, v
<1>1. CASE North!LastOfAll(d, "deer_sync", Deer, "start", "helped")
           /\ deer_ready' = TRUE /\ UNCHANGED elves_ready
  <2>1. /\ North!Goto(d, "start", "helped") /\ sem["deer_sync"] = 1
        /\ sem' = [sem EXCEPT !["deer_sync"] = Deer]
        /\ asleep' = [asleep EXCEPT !["deer_sync"] = {}, !["santa_wake"] = {}]
        /\ NSleeps(d, "deer_sync", "helped")
    BY <1>1 DEF North!LastOfAll, North!CompletesPhase, NSleeps
  <2>2. NGoes(pc, asleep, d, "helped", pc') /\ pc[d] = "start"
    BY <1>0, <2>1, NorthGoto
  <2>3. /\ asleep' \in [{"santa_wake"} \cup NBarriers -> SUBSET NT]
        /\ \A c \in {"santa_wake"} \cup NBarriers : asleep'[c] = {} \/ asleep'[c] = asleep[c]
        /\ \A c \in NBarriers : asleep'[c] = IF c = "deer_sync" THEN {} ELSE asleep[c]
    BY <1>0, <2>1 DEF NBarriers
  <2>4. w[d] = "start" /\ Moves(d, "helped", w, v) /\ Opens(ND, "deer_sync", "helped", v, x)
    <3>1. ND = IF "deer_sync" = "deer_sync" THEN ND ELSE NE
      OBVIOUS
    <3>2. /\ Moves(d, "helped", Whereabouts(pc, asleep),
                   [Whereabouts(pc, asleep) EXCEPT ![d] = "helped"])
          /\ Opens(ND, "deer_sync", "helped",
                   [Whereabouts(pc, asleep) EXCEPT ![d] = "helped"],
                   Whereabouts(pc', asleep'))
      BY <1>0, <2>1, <2>2, <2>3, <3>1, WhereMeets
    <3> QED
      BY <2>2, <3>2, WhereGoes DEF w, x, v
  <2>5. DeerMoves(d, "start", "helped", w, v)
    BY <1>0, <2>4 DEF DeerMoves
  <2>6. NorthCounted(x, sem', elves_ready, TRUE)
    BY <1>0, <2>1, <2>4, <2>5, DeerMeet
  <2>7. sem' \in [NSems -> Nat] /\ NMay(d, "helped")
    BY <2>6 DEF NorthCounted, NMay
  <2>8. NorthTyped(pc', sem', asleep')
    BY <1>0, <2>2, <2>3, <2>7, NorthTypedOpens
  <2> QED
    BY <1>1, <2>6, <2>8
<1>2. CASE North!OneOfMany(d, "deer_sync", "start", "helped") /\ UNCHANGED North!northVars
  <2>1. /\ North!Goto(d, "start", "helped") /\ DeerGoes("start", "deer_sync", sem, sem')
        /\ asleep' = [asleep EXCEPT !["deer_sync"] = @ \cup {d}]
        /\ NSleeps(d, "deer_sync", "helped") /\ UNCHANGED <<elves_ready, deer_ready>>
        /\ "deer_sync" \in NBarriers
    BY <1>2 DEF North!OneOfMany, North!CompletesPhase, North!AwaitPhase, North!northVars,
       DeerGoes, NSleeps, NBarriers
  <2>2. NGoes(pc, asleep, d, "helped", pc') /\ pc[d] = "start"
    BY <1>0, <2>1, NorthGoto
  <2>3. DeerMoves(d, "start", "deer_sync", w, x)
    BY <1>0, <2>1, <2>2, WhereGoes, WhereNaps DEF DeerMoves, w, x
  <2>4. NorthCounted(x, sem', elves_ready, deer_ready)
    BY <1>0, <2>1, <2>3, DeerGo
  <2>5. sem' \in [NSems -> Nat]
    BY <2>4 DEF NorthCounted
  <2>6. NorthTyped(pc', sem', asleep')
    BY <1>0, <2>1, <2>2, <2>5, NorthTypedNaps
  <2> QED
    BY <2>1, <2>4, <2>6
<1>3. CASE North!acquire(d, "deers_helped", "helped", "start") /\ UNCHANGED North!northVars
  <2>1. /\ North!Goto(d, "helped", "start") /\ DeerGoes("helped", "start", sem, sem')
        /\ UNCHANGED <<asleep, elves_ready, deer_ready>>
    BY <1>3 DEF North!acquire, North!northVars, DeerGoes
  <2>2. NGoes(pc, asleep, d, "start", pc') /\ pc[d] = "helped"
    BY <1>0, <2>1, NorthGoto
  <2>3. DeerMoves(d, "helped", "start", w, x)
    BY <1>0, <2>1, <2>2, WhereGoes DEF DeerMoves, w, x
  <2>4. NorthCounted(x, sem', elves_ready, deer_ready)
    BY <1>0, <2>1, <2>3, DeerGo
  <2>5. sem' \in [NSems -> Nat] /\ NMay(d, "start")
    BY <2>4 DEF NorthCounted, NMay
  <2>6. NorthTyped(pc', sem', asleep)
    BY <1>0, <2>2, <2>5, NorthTypedGoes
  <2> QED
    BY <2>1, <2>4, <2>6
<1> QED
  BY <1>1, <1>2, <1>3 DEF North!deer

(* Santa sleeps and wakes, which moves nobody else.                        *)
LEMMA SantaStirs ==
  ASSUME NorthInv, NEW X \in SUBSET {North!santa},
         asleep' = [asleep EXCEPT !["santa_wake"] = X],
         UNCHANGED <<pc, sem, elves_ready, deer_ready>>
  PROVE  NorthInv'
<1>1. /\ NorthTyped(pc, sem, asleep)
      /\ NorthCounted(Whereabouts(pc, asleep), sem, elves_ready, deer_ready)
  BY NorthInvIs DEF NorthInv
<1>2. NorthTyped(pc, sem, asleep')
  BY <1>1, NorthApart DEF NorthTyped
<1>3. Whereabouts(pc, asleep') = Whereabouts(pc, asleep)
  BY <1>1 DEF Whereabouts, NorthTyped
<1> QED
  BY <1>1, <1>2, <1>3, NorthInvIs DEF NorthInv

LEMMA SantaKeeps ==
  ASSUME NorthInv, North!santa_loop
  PROVE  NorthInv'
<1> DEFINE w == Whereabouts(pc, asleep)
<1>0. /\ NorthTyped(pc, sem, asleep) /\ NorthCounted(w, sem, elves_ready, deer_ready)
      /\ North!santa \in NT
  BY NorthInvIs, NorthApart DEF NorthInv
<1>1. ASSUME North!Goto(North!santa, "start", "start"), UNCHANGED asleep,
             NorthCounted(w, sem', elves_ready', deer_ready')
      PROVE  NorthInv'
  <2>1. pc' = pc
    BY <1>0, <1>1 DEF North!Goto, North!At, NorthTyped
  <2>2. NorthTyped(pc, sem', asleep)
    BY <1>0, <1>1 DEF NorthTyped, NorthCounted
  <2> QED
    BY <1>1, <2>1, <2>2, NorthInvIs DEF NorthInv
<1> HIDE DEF w
<1>2. CASE North!HelpDeer
  <2>1. /\ North!Goto(North!santa, "start", "start") /\ UNCHANGED asleep /\ deer_ready
        /\ sem' = [sem EXCEPT !["deers_helped"] = @ + Deer]
        /\ deer_ready' = FALSE /\ elves_ready' = elves_ready
    BY <1>2 DEF North!HelpDeer, North!release
  <2>2. NorthCounted(w, sem', elves_ready, FALSE)
    BY <1>0, <2>1, SantaHelps
  <2> QED
    BY <1>1, <2>1, <2>2
<1>3. CASE North!HelpElves
  <2>1. /\ North!Goto(North!santa, "start", "start") /\ UNCHANGED asleep /\ elves_ready
        /\ sem' = [sem EXCEPT !["elves_helped"] = @ + Group]
        /\ elves_ready' = FALSE /\ deer_ready' = deer_ready
    BY <1>3 DEF North!HelpElves, North!release
  <2>2. NorthCounted(w, sem', FALSE, deer_ready)
    BY <1>0, <2>1, SantaHelps
  <2> QED
    BY <1>1, <2>1, <2>2
<1>4. CASE North!Sleep(North!santa, "start", "santa_wake") /\ UNCHANGED North!northVars
  <2>1. asleep["santa_wake"] \cup {North!santa} \in SUBSET {North!santa}
    BY <1>0 DEF NorthTyped
  <2>2. /\ asleep' = [asleep EXCEPT !["santa_wake"] = asleep["santa_wake"] \cup {North!santa}]
        /\ UNCHANGED <<pc, sem, elves_ready, deer_ready>>
    BY <1>4 DEF North!Sleep, North!northVars
  <2> QED
    BY <2>1, <2>2, SantaStirs
<1> QED
  BY <1>2, <1>3, <1>4 DEF North!santa_loop

LEMMA SantaWakes ==
  ASSUME NorthInv, North!Spurious
  PROVE  NorthInv'
<1>1. asleep["santa_wake"] \ {North!santa} \in SUBSET {North!santa}
  BY NorthInvIs DEF NorthInv, NorthTyped
<1>2. /\ asleep' = [asleep EXCEPT !["santa_wake"] = asleep["santa_wake"] \ {North!santa}]
      /\ UNCHANGED <<pc, sem, elves_ready, deer_ready>>
  BY DEF North!Spurious, North!WakesSpuriously, North!northVars
<1> QED
  BY <1>1, <1>2, SantaStirs

LEMMA NorthStarts == North!Init => NorthInv
<1> SUFFICES ASSUME North!Init PROVE NorthInv
  OBVIOUS
<1> DEFINE w == Whereabouts(pc, asleep)
<1>1. /\ pc = [t \in NT |-> "start"]
      /\ asleep = [c \in {"santa_wake", "elf_sync", "elf_leave_sync", "deer_sync"} |-> {}]
      /\ elves_ready = FALSE /\ deer_ready = FALSE
  BY DEF North!Init, North!NorthIdle, NT
<1>2. /\ sem \in [NSems -> Nat] /\ sem["deers_helped"] = 0 /\ sem["elves_helped"] = 0
      /\ sem["elf_help_req"] = Group /\ sem["elf_sync"] = Group
      /\ sem["elf_leave_sync"] = Group /\ sem["deer_sync"] = Deer
  BY Bounds DEF North!Init, NSems
<1>3. NorthTyped(pc, sem, asleep)
  BY <1>1, <1>2, NorthApart DEF NorthTyped
<1>4. w = [t \in NT |-> "start"]
  BY <1>1 DEF Whereabouts
<1> HIDE DEF w
<1>5. /\ Elf(w, "sync") = 0 /\ Elf(w, "elf_sync") = 0 /\ Elf(w, "helped") = 0
      /\ Elf(w, "leave") = 0 /\ Elf(w, "elf_leave_sync") = 0 /\ Elf(w, "release") = 0
  <2>1. IsFiniteSet(NE) /\ \A t \in NE : w[t] = "start"
    BY <1>4, NorthApart
  <2>2. ASSUME NEW l, l # "start" PROVE Elf(w, l) = 0
    BY <2>1, <2>2, CountZero DEF Elf, Num
  <2> QED
    BY <2>2
<1>6. OneDeer(w, "deer_sync") = 0 /\ OneDeer(w, "helped") = 0 /\ OneDeer(w, "start") = Deer
  <2>1. IsFiniteSet(ND) /\ \A t \in ND : w[t] = "start"
    BY <1>4, NorthApart
  <2>2. ASSUME NEW l, l # "start" PROVE OneDeer(w, l) = 0
    BY <2>1, <2>2, CountZero DEF OneDeer, Num
  <2>3. Standing(ND, w, {"start"}) = ND
    BY <2>1 DEF Standing
  <2> QED
    BY <2>2, <2>3, NorthApart DEF OneDeer, Num, Count
<1>7. ElvesCounted(w, sem, FALSE) /\ DeerCounted(w, sem, FALSE)
  <2> HIDE DEF Elf, OneDeer
  <2> QED
    BY <1>2, <1>5, <1>6, Bounds DEF ElvesCounted, ElvesAdd, DeerCounted, DeerAdd
<1>8. NInv(pc, sem, asleep, FALSE, FALSE)
  BY <1>3, <1>7 DEF NInv, w
<1> QED
  BY <1>1, <1>8 DEF NorthInv

(* Who waits for Santa: those who stand at "helped" and sleep nowhere.     *)
LEMMA HelpedAre ==
  ASSUME NorthTyped(pc, sem, asleep)
  PROVE  /\ Cardinality(North!Helped(NE)) = Elf(Whereabouts(pc, asleep), "helped")
         /\ Cardinality(North!Helped(ND)) = OneDeer(Whereabouts(pc, asleep), "helped")
<1> DEFINE w == Whereabouts(pc, asleep)
<1>1. ASSUME NEW t \in NE \cup ND
      PROVE  w[t] = "helped" <=> pc[t] = "helped" /\ North!Awake(t)
  <2>1. t \in NT /\ t # North!santa
    BY NorthApart
  <2>2. /\ DOMAIN asleep = {"santa_wake", "elf_sync", "elf_leave_sync", "deer_sync"}
        /\ t \notin asleep["santa_wake"]
    BY <2>1 DEF NorthTyped
  <2>3. North!Awake(t) <=> \A b \in NBarriers : t \notin asleep[b]
    BY <2>2 DEF North!Awake, NBarriers
  <2> QED
    BY <2>1, <2>3 DEF Whereabouts, NBarriers
<1> HIDE DEF w
<1>2. /\ North!Helped(NE) = Standing(NE, w, {"helped"})
      /\ North!Helped(ND) = Standing(ND, w, {"helped"})
  BY <1>1 DEF North!Helped, Standing
<1> QED
  BY <1>2 DEF Elf, OneDeer, Num, Count, w

LEMMA NorthTogether ==
  ASSUME NorthInv
  PROVE  North!GroupsStayTogether
<1> DEFINE w == Whereabouts(pc, asleep)
<1>0. /\ NorthTyped(pc, sem, asleep) /\ NorthCounted(w, sem, elves_ready, deer_ready)
      /\ sem \in [NSems -> Nat] /\ Group \in Nat \ {0} /\ Deer \in Nat \ {0}
      /\ elves_ready \in BOOLEAN /\ deer_ready \in BOOLEAN
  BY NorthInvIs, Bounds DEF NorthInv, NorthCounted
<1>1. /\ Cardinality(North!Helped(NE)) = Elf(w, "helped")
      /\ Cardinality(North!Helped(ND)) = OneDeer(w, "helped")
  BY <1>0, HelpedAre
<1> HIDE DEF w
<1>2. /\ sem["elf_help_req"] \in Nat /\ sem["elf_sync"] \in Nat
      /\ sem["elf_leave_sync"] \in Nat /\ sem["elves_helped"] \in Nat
      /\ sem["deer_sync"] \in Nat /\ sem["deers_helped"] \in Nat
  BY <1>0, NorthNumbers
<1>3. /\ Elf(w, "sync") \in Nat /\ Elf(w, "elf_sync") \in Nat /\ Elf(w, "helped") \in Nat
      /\ Elf(w, "leave") \in Nat /\ Elf(w, "elf_leave_sync") \in Nat
      /\ Elf(w, "release") \in Nat /\ OneDeer(w, "start") \in Nat
      /\ OneDeer(w, "deer_sync") \in Nat /\ OneDeer(w, "helped") \in Nat
  BY NorthApart, CountIsNat DEF Elf, OneDeer, Num
<1>4. /\ ElvesAdd(sem["elf_help_req"], sem["elf_sync"], sem["elf_leave_sync"],
                  sem["elves_helped"], elves_ready, Elf(w, "sync"), Elf(w, "elf_sync"),
                  Elf(w, "helped"), Elf(w, "leave"), Elf(w, "elf_leave_sync"),
                  Elf(w, "release"))
      /\ DeerAdd(sem["deer_sync"], sem["deers_helped"], deer_ready, OneDeer(w, "start"),
                 OneDeer(w, "deer_sync"), OneDeer(w, "helped"))
  BY <1>0 DEF NorthCounted, ElvesCounted, DeerCounted
<1>5. /\ sem["elves_helped"] <= Elf(w, "helped") /\ sem["deers_helped"] <= OneDeer(w, "helped")
      /\ elves_ready => sem["elves_helped"] = 0
      /\ deer_ready => sem["deers_helped"] = 0
      /\ elves_ready \/ sem["elves_helped"] > 0
           => Elf(w, "sync") = 0 /\ Elf(w, "elf_sync") = 0
  <2> HIDE DEF Elf, OneDeer
  <2>1. /\ sem["elves_helped"] <= Elf(w, "helped")
        /\ elves_ready => sem["elves_helped"] = 0
        /\ elves_ready \/ sem["elves_helped"] > 0 => Elf(w, "helped") > 0
    <3>1. /\ Elf(w, "helped") = sem["elves_helped"] + (IF elves_ready THEN Group ELSE 0)
          /\ Elf(w, "helped") <= Group
      BY <1>0, <1>2, <1>3, <1>4 DEF ElvesAdd
    <3>2. CASE elves_ready
      BY <1>0, <1>2, <1>3, <3>1, <3>2
    <3>3. CASE ~elves_ready
      BY <1>2, <1>3, <3>1, <3>3
    <3> QED
      BY <3>2, <3>3
  <2>2. Elf(w, "helped") > 0 => Elf(w, "sync") = 0 /\ Elf(w, "elf_sync") = 0
    <3>1. ASSUME NEW q \in Nat, NEW a \in Nat, NEW b \in Nat, NEW h \in Nat,
                 NEW l \in Nat, NEW k \in Nat, NEW r \in Nat,
                 q + a + b + h + l + k + r = Group, h > 0 => h + l + k = Group, h > 0
          PROVE  a = 0 /\ b = 0
      BY <1>0, <3>1
    <3> QED
      BY <1>2, <1>3, <1>4, <3>1 DEF ElvesAdd
  <2>3. /\ sem["deers_helped"] <= OneDeer(w, "helped")
        /\ deer_ready => sem["deers_helped"] = 0
    <3>1. /\ OneDeer(w, "helped") = sem["deers_helped"] + (IF deer_ready THEN Deer ELSE 0)
          /\ OneDeer(w, "helped") <= Deer
      BY <1>0, <1>2, <1>3, <1>4 DEF DeerAdd
    <3>2. CASE deer_ready
      BY <1>0, <1>2, <1>3, <3>1, <3>2
    <3>3. CASE ~deer_ready
      BY <1>2, <1>3, <3>1, <3>3
    <3> QED
      BY <3>2, <3>3
  <2> QED
    BY <2>1, <2>2, <2>3
<1>6. ASSUME elves_ready \/ sem["elves_helped"] > 0, NEW e \in NE
      PROVE  pc[e] # "sync" /\ e \notin asleep["elf_sync"]
  <2>1. w[e] # "sync" /\ w[e] # "elf_sync"
    <3>1. w[e] \notin {"sync"} /\ w[e] \notin {"elf_sync"}
      BY <1>5, <1>6, NorthApart, CountZero DEF Elf, Num
    <3> QED
      BY <3>1
  <2>2. e \in NT /\ e \notin ND
    BY NorthApart
  <2>3. /\ e \in asleep["elf_sync"] => w[e] = "elf_sync"
        /\ pc[e] = "sync" => w[e] = "sync"
    BY <1>0, <2>2 DEF w, Whereabouts, NorthTyped
  <2> QED
    BY <2>1, <2>3
<1>7. North!ElfThreads = NE /\ North!DeerThreads = ND
  BY DEF NE, ND
<1> QED
  BY <1>1, <1>5, <1>6, <1>7 DEF North!GroupsStayTogether, North!Cardinality, Cardinality

LEMMA NorthInvHolds == MCSpec => [](InNorth => NorthInv)
<1>1. MCInit => (InNorth => NorthInv)
  BY Starts, NorthStarts
<1>2. (InNorth => NorthInv) /\ [MCNext]_allVars => (InNorth => NorthInv)'
  <2> SUFFICES ASSUME InNorth => NorthInv, [MCNext]_allVars, InNorth'
               PROVE  NorthInv'
    OBVIOUS
  <2>1. program' = program /\ InNorth
    BY OneProgram DEF InNorth
  <2>2. UNCHANGED allVars \/ NorthNext
    BY <2>1, OneProgram DEF InPot, InSmokers, InPushers, InBoard, InBarbershop,
       InHilzer, InNorth
  <2>3. CASE UNCHANGED allVars
    <3>1. /\ pc' = pc /\ sem' = sem /\ asleep' = asleep
          /\ elves_ready' = elves_ready /\ deer_ready' = deer_ready
      BY <2>3 DEF allVars, threadVars, shopVars, northVars
    <3> QED
      BY <2>1, <3>1 DEF NorthInv
  <2>4. ASSUME NEW t \in NT, North!Step(t) PROVE NorthInv'
    BY <2>1, <2>4, ElfKeeps, DeerKeeps, SantaKeeps DEF North!Step, NE, ND
  <2> QED
    BY <2>1, <2>2, <2>3, <2>4, SantaWakes DEF NorthNext, NT
<1> QED
  BY <1>1, <1>2, PTL DEF MCSpec

(* No elf of another group is at the barrier, and Santa's releases are for *)
(* those who wait, from the moment a group is complete until the last of   *)
(* it has been helped; the deer's help is for the deer that wait.          *)
THEOREM GroupsStayTogetherHolds == MCSpec => []GroupsStayTogether
<1>1. (InNorth => NorthInv) => GroupsStayTogether
  BY NorthTogether DEF GroupsStayTogether
<1> QED
  BY <1>1, NorthInvHolds, PTL
=============================================================================
