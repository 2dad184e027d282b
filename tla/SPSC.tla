-------------------------------- MODULE SPSC --------------------------------
(***************************************************************************)
(* The single-producer single-consumer ring of 5_spsc_atomics.cpp and      *)
(* 6_spsc_atomic_wait.cpp in cpp/problems/3_sushi_chefs: the state, main's *)
(* two counting loops, what both programs promise, and the first program,  *)
(* whose threads spin on try_push and try_pop (SpinNext).  One slot always *)
(* stays empty, so N slots hold N - 1 elements.                            *)
(*                                                                         *)
(* Memory order.  Each thread owns one index and reads the other's.  An    *)
(* acquire load may return an older value of the other's index, but never  *)
(* one older than the thread has already seen: it returns any value on the *)
(* arc from the thread's last loaded value to the current one.  The        *)
(* acquire/release pairs order the array accesses with the indices.        *)
(***************************************************************************)
EXTENDS Naturals

CONSTANTS
  N,           \* slots of the ring
  Total        \* elements that main sends through the queue (20)

Nothing == Total      \* an element that is never sent

VARIABLES
  array_, head_, tail_,
  ppc,         \* where the producer stands
  pi,          \* its loop counter, which is also the element it pushes
  phead,       \* the newest value of head_ it has seen
  cpc,         \* where the consumer stands
  ci,          \* its loop counter
  ctail,       \* the newest value of tail_ it has seen
  elem         \* what it has moved out of the array

vars == <<array_, head_, tail_, ppc, pi, phead, cpc, ci, ctail, elem>>

pvars == <<ppc, pi, phead>>
cvars == <<cpc, ci, ctail, elem>>

Slots == 0..(N - 1)

(* The types: each index stays inside the array at every step.             *)
RingTypeOK(producerLocations, consumerLocations) ==
  /\ array_ \in [Slots -> 0..Total]
  /\ head_ \in Slots
  /\ tail_ \in Slots
  /\ ppc \in producerLocations
  /\ pi \in 0..Total
  /\ phead \in Slots
  /\ cpc \in consumerLocations
  /\ ci \in 0..Total
  /\ ctail \in Slots
  /\ elem \in 0..Total

Init ==
  /\ array_ = [s \in Slots |-> Nothing]
  /\ head_ = 0 /\ tail_ = 0
  /\ ppc = "loop" /\ pi = 0 /\ phead = 0
  /\ cpc = "loop" /\ ci = 0 /\ ctail = 0 /\ elem = Nothing

NextIndex(i) == (i + 1) % N

(* The values an index has taken from the one last seen to the current.    *)
Arc(seen, current) ==
  {(seen + k) % N : k \in 0..((current + N - seen) % N)}

ProducerGoes(from, to) == ppc = from /\ ppc' = to
ConsumerGoes(from, to) == cpc = from /\ cpc' = to

-----------------------------------------------------------------------------
(* What the two programs share of their loops, push and pop                *)

PushCall ==
  /\ pi < Total
  /\ ProducerGoes("loop", "load")
  /\ UNCHANGED <<array_, head_, tail_, pi, phead, cvars>>

(* Both loads of push: tail_ is the producer's own index.                  *)
LoadHead(h) ==
  /\ ProducerGoes("load", "loaded")
  /\ phead' = h
  /\ UNCHANGED <<array_, head_, tail_, pi, cvars>>

FullNeverWrapping == tail_ + 1 = phead    \* faulty: no modulus in next_tail

Full == NextIndex(tail_) = phead

Write ==
  /\ ProducerGoes("write", "publish")
  /\ array_' = [array_ EXCEPT ![tail_] = pi]
  /\ UNCHANGED <<head_, tail_, pi, phead, cvars>>

ProducerEnds ==
  /\ ~(pi < Total)
  /\ ProducerGoes("loop", "done")
  /\ UNCHANGED <<array_, head_, tail_, pi, phead, cvars>>

PopCall ==
  /\ ci < Total
  /\ ConsumerGoes("loop", "load")
  /\ UNCHANGED <<array_, head_, tail_, ci, ctail, elem, pvars>>

(* Both loads of pop: head_ is the consumer's own index.                   *)
LoadTail(t) ==
  /\ ConsumerGoes("load", "loaded")
  /\ ctail' = t
  /\ UNCHANGED <<array_, head_, tail_, ci, elem, pvars>>

Empty == head_ = ctail

Read ==
  /\ ConsumerGoes("read", "publish")
  /\ elem' = array_[head_]
  /\ UNCHANGED <<array_, head_, tail_, ci, ctail, pvars>>

ConsumerEnds ==
  /\ ~(ci < Total)
  /\ ConsumerGoes("loop", "done")
  /\ UNCHANGED <<array_, head_, tail_, ci, ctail, elem, pvars>>

Joined ==                 \* main has joined both threads
  /\ ppc = "done" /\ cpc = "done"
  /\ UNCHANGED vars

(* The types, and the ranges of the indices of the spinning program.       *)
SpinTypeOK ==
  RingTypeOK(
    {"loop", "load", "loaded", "yield", "write", "publish", "pushed", "done"},
    {"loop", "load", "loaded", "yield", "read", "publish", "popped", "done"})

-----------------------------------------------------------------------------
(* The producer's loop and try_push                                        *)

Refused ==                \* return false; the thread yields
  /\ Full
  /\ ProducerGoes("loaded", "yield")
  /\ UNCHANGED <<array_, head_, tail_, pi, phead, cvars>>

PushAgain ==
  /\ ProducerGoes("yield", "load")
  /\ UNCHANGED <<array_, head_, tail_, pi, phead, cvars>>

HasPlace ==
  /\ ~Full
  /\ ProducerGoes("loaded", "write")
  /\ UNCHANGED <<array_, head_, tail_, pi, phead, cvars>>

StoreTail ==              \* the release store; return true
  /\ ProducerGoes("publish", "pushed")
  /\ tail_' = NextIndex(tail_)
  /\ UNCHANGED <<array_, head_, pi, phead, cvars>>

Pushed ==                 \* ++i
  /\ ProducerGoes("pushed", "loop")
  /\ pi' = pi + 1
  /\ UNCHANGED <<array_, head_, tail_, phead, cvars>>

-----------------------------------------------------------------------------
(* The consumer's loop and try_pop                                         *)

RefusedPop ==             \* return nullopt; the thread yields
  /\ Empty
  /\ ConsumerGoes("loaded", "yield")
  /\ UNCHANGED <<array_, head_, tail_, ci, ctail, elem, pvars>>

PopAgain ==
  /\ ConsumerGoes("yield", "load")
  /\ UNCHANGED <<array_, head_, tail_, ci, ctail, elem, pvars>>

HasElement ==
  /\ ~Empty
  /\ ConsumerGoes("loaded", "read")
  /\ UNCHANGED <<array_, head_, tail_, ci, ctail, elem, pvars>>

StoreHead ==              \* the release store; return ret
  /\ ConsumerGoes("publish", "popped")
  /\ head_' = NextIndex(head_)
  /\ UNCHANGED <<array_, tail_, ci, ctail, elem, pvars>>

Popped ==                 \* ++i
  /\ ConsumerGoes("popped", "loop")
  /\ ci' = ci + 1
  /\ elem' = Nothing
  /\ UNCHANGED <<array_, head_, tail_, ctail, pvars>>

-----------------------------------------------------------------------------

SpinProducer ==
  \/ PushCall \/ Refused \/ PushAgain \/ HasPlace \/ Write \/ StoreTail
  \/ Pushed \/ ProducerEnds
  \/ \E h \in Arc(phead, head_) : LoadHead(h)

SpinConsumer ==
  \/ PopCall \/ RefusedPop \/ PopAgain \/ HasElement \/ Read \/ StoreHead
  \/ Popped \/ ConsumerEnds
  \/ \E t \in Arc(ctail, tail_) : LoadTail(t)

SpinNext == SpinProducer \/ SpinConsumer \/ Joined

-----------------------------------------------------------------------------
(* Properties                                                              *)

(* Whatever old index a thread works with, the two never touch the same    *)
(* slot at the same time: array_ is not atomic, and the blocking push      *)
(* never looks at head_ again after its wait.                              *)
NoDataRace == ~(ppc = "write" /\ cpc = "read" /\ tail_ = head_)

Ends == {"producer", "consumer"}

Pc(e) == IF e = "producer" THEN ppc ELSE cpc

Status(e) ==
  CASE Pc(e) \in {"loop", "done"}               -> "idle"
    [] Pc(e) \in {"pushed", "popped", "notify"} -> "done"
    [] OTHER                                    -> "called"

Hand(e) ==
  CASE e = "producer" /\ Status(e) # "idle" -> pi
    [] e = "consumer" /\ Status(e) = "done" -> elem
    [] OTHER                                -> Nothing

Contents ==
  [i \in 1..((tail_ + N - head_) % N) |-> array_[(head_ + i - 1) % N]]

FIFO == INSTANCE BoundedFIFO WITH
  Producers <- {"producer"}, Consumers <- {"consumer"},
  Dishes <- 0..(Total - 1), NoDish <- Nothing, size <- N - 1,
  items <- Contents,
  status <- [e \in Ends |-> Status(e)],
  hand <- [e \in Ends |-> Hand(e)]

(* push and pop behave as one atomic FIFO of N - 1 places: nothing is      *)
(* lost, overwritten, duplicated or reordered as the indices go round and  *)
(* round the ring.                                                         *)
RefinesFIFO == FIFO!FIFOSpec
=============================================================================
