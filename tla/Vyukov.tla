------------------------------- MODULE Vyukov -------------------------------
(***************************************************************************)
(* cpp/problems/3_sushi_chefs/7_vyukov_mpmc.cpp: the bounded queue class   *)
(* MPMC for many producers and consumers, try_enq and try_dq, one step per *)
(* access to shared memory, and the chefs and customers that spin on it,   *)
(* yielding after each refusal.  8_gen_counter_vyukov_mpmc.cpp uses the    *)
(* class unchanged (there tail_ is enq_pos_ and head_ is dq_pos_):         *)
(* GenCounter extends this module.                                         *)
(*                                                                         *)
(* A call starts at "enq" or "deq" and ends at "enqueued" (true), "full"   *)
(* (false), "dequeued" (the element) or "empty" (nullopt).                 *)
(*                                                                         *)
(* Positions are unbounded naturals: MaxDishes, the number of dishes made  *)
(* in all, is far below the 2^64 at which std::size_t wraps.  The loads    *)
(* of one call may lie arbitrarily far apart, so a position may be old     *)
(* when the slot is inspected and older still when the CAS is tried.       *)
(***************************************************************************)
EXTENDS Naturals, FiniteSets

CONSTANTS Producers, Consumers, Dishes, NoDish, N, MaxDishes

ASSUME VyukovAssumption ==
  /\ IsFiniteSet(Producers)
  /\ IsFiniteSet(Consumers) /\ Consumers # {}    \* N_CONS is positive
  /\ Producers \cap Consumers = {}
  /\ NoDish \notin Dishes
  /\ N \in Nat /\ N >= 2
  /\ MaxDishes \in Nat

VARIABLES
  tail_, head_,    \* the next position to enqueue at, to dequeue from
  seq,             \* seq[s], the sequence number of slot s
  data,            \* data[s], the element in slot s; not atomic
  pc,
  pos,             \* enq_pos or dq_pos of the thread's current attempt
  elem             \* the argument of try_enq, the result of try_dq

queueVars == <<tail_, head_, seq, data, pc, pos, elem>>

Threads == Producers \cup Consumers

Slots == 0..(N - 1)

Slot(k) == k % N

Positions == 0..(MaxDishes + N)

QueueTypeOK(locations) ==
  /\ tail_ \in 0..MaxDishes
  /\ head_ \in 0..tail_
  /\ seq \in [Slots -> Positions]
  /\ data \in [Slots -> Dishes \cup {NoDish}]
  /\ pc \in [Threads -> locations]
  /\ pos \in [Threads -> Positions]
  /\ elem \in [Threads -> Dishes \cup {NoDish}]

QueueLocations ==
  {"enq", "enq_seq", "full", "enq_cas", "write", "enq_publish", "enqueued",
   "deq", "deq_seq", "empty", "deq_cas", "read", "deq_publish", "dequeued"}

InitialSeq == [s \in Slots |-> s]

QueueInit ==
  /\ tail_ = 0 /\ head_ = 0
  /\ seq = InitialSeq
  /\ data = [s \in Slots |-> NoDish]
  /\ pc = [t \in Threads |-> "idle"]
  /\ pos = [t \in Threads |-> 0]
  /\ elem = [t \in Threads |-> NoDish]

Goto(t, from, to) == pc[t] = from /\ pc' = [pc EXCEPT ![t] = to]

-----------------------------------------------------------------------------
(* try_enq                                                                 *)

EnqLoad(p) ==
  /\ Goto(p, "enq", "enq_seq")
  /\ pos' = [pos EXCEPT ![p] = tail_]
  /\ UNCHANGED <<tail_, head_, seq, data, elem>>

EnqFull(p) ==             \* return false
  /\ Goto(p, "enq_seq", "full")
  /\ seq[Slot(pos[p])] < pos[p]
  /\ UNCHANGED <<tail_, head_, seq, data, pos, elem>>

EnqStale(p) ==            \* another producer has claimed the position
  /\ Goto(p, "enq_seq", "enq")
  /\ seq[Slot(pos[p])] > pos[p]
  /\ UNCHANGED <<tail_, head_, seq, data, pos, elem>>

EnqMatch(p) ==
  /\ Goto(p, "enq_seq", "enq_cas")
  /\ seq[Slot(pos[p])] = pos[p]
  /\ UNCHANGED <<tail_, head_, seq, data, pos, elem>>

(* compare_exchange_weak: it fails if tail_ has moved, and may fail anyway *)
EnqCasFails(p) ==
  /\ Goto(p, "enq_cas", "enq")
  /\ UNCHANGED <<tail_, head_, seq, data, pos, elem>>

EnqClaimUnchecked(p) ==   \* faulty: a plain store instead of the CAS
  /\ Goto(p, "enq_cas", "write")
  /\ tail_' = pos[p] + 1
  /\ UNCHANGED <<head_, seq, data, pos, elem>>

EnqClaim(p) ==
  /\ Goto(p, "enq_cas", "write")
  /\ tail_ = pos[p]
  /\ tail_' = pos[p] + 1
  /\ UNCHANGED <<head_, seq, data, pos, elem>>

Write(p) ==
  /\ Goto(p, "write", "enq_publish")
  /\ data' = [data EXCEPT ![Slot(pos[p])] = elem[p]]
  /\ UNCHANGED <<tail_, head_, seq, pos, elem>>

EnqPublish(p) ==          \* return true
  /\ Goto(p, "enq_publish", "enqueued")
  /\ seq' = [seq EXCEPT ![Slot(pos[p])] = pos[p] + 1]
  /\ UNCHANGED <<tail_, head_, data, pos, elem>>

-----------------------------------------------------------------------------
(* try_dq                                                                  *)

DqLoad(c) ==
  /\ Goto(c, "deq", "deq_seq")
  /\ pos' = [pos EXCEPT ![c] = head_]
  /\ UNCHANGED <<tail_, head_, seq, data, elem>>

DqStale(c) ==
  /\ Goto(c, "deq_seq", "deq")
  /\ seq[Slot(pos[c])] > pos[c] + 1
  /\ UNCHANGED <<tail_, head_, seq, data, pos, elem>>

DqEmptyOffByOne(c) ==     \* faulty: nullopt although the slot is readable
  /\ Goto(c, "deq_seq", "empty")
  /\ seq[Slot(pos[c])] <= pos[c] + 1
  /\ UNCHANGED <<tail_, head_, seq, data, pos, elem>>

DqEmpty(c) ==             \* return std::nullopt
  /\ Goto(c, "deq_seq", "empty")
  /\ seq[Slot(pos[c])] < pos[c] + 1
  /\ UNCHANGED <<tail_, head_, seq, data, pos, elem>>

DqMatchUnpublished(c) ==  \* faulty: a claimed slot is taken for a full one
  /\ Goto(c, "deq_seq", "deq_cas")
  /\ seq[Slot(pos[c])] \in {pos[c], pos[c] + 1}
  /\ UNCHANGED <<tail_, head_, seq, data, pos, elem>>

DqMatch(c) ==
  /\ Goto(c, "deq_seq", "deq_cas")
  /\ seq[Slot(pos[c])] = pos[c] + 1
  /\ UNCHANGED <<tail_, head_, seq, data, pos, elem>>

DqCasFails(c) ==
  /\ Goto(c, "deq_cas", "deq")
  /\ UNCHANGED <<tail_, head_, seq, data, pos, elem>>

DqClaim(c) ==
  /\ Goto(c, "deq_cas", "read")
  /\ head_ = pos[c]
  /\ head_' = pos[c] + 1
  /\ UNCHANGED <<tail_, seq, data, pos, elem>>

Read(c) ==
  /\ Goto(c, "read", "deq_publish")
  /\ elem' = [elem EXCEPT ![c] = data[Slot(pos[c])]]
  /\ UNCHANGED <<tail_, head_, seq, data, pos>>

DqPublish(c) ==
  /\ Goto(c, "deq_publish", "dequeued")
  /\ seq' = [seq EXCEPT ![Slot(pos[c])] = pos[c] + N]
  /\ UNCHANGED <<tail_, head_, data, pos, elem>>

-----------------------------------------------------------------------------

try_enq(p) ==
  \/ EnqLoad(p) \/ EnqFull(p) \/ EnqStale(p) \/ EnqMatch(p)
  \/ EnqCasFails(p) \/ EnqClaim(p) \/ Write(p) \/ EnqPublish(p)

try_dq(c) ==
  \/ DqLoad(c) \/ DqStale(c) \/ DqEmpty(c) \/ DqMatch(c)
  \/ DqCasFails(c) \/ DqClaim(c) \/ Read(c) \/ DqPublish(c)

(* The bound MaxDishes on the dishes made: those claimed so far and those  *)
(* that a chef still carries towards the CAS.                              *)
Undelivered == {p \in Producers :
                  pc[p] \in {"version", "enq", "enq_seq", "full", "asleep", "enq_cas"}}

MayMakeDish == tail_ + Cardinality(Undelivered) < MaxDishes
-----------------------------------------------------------------------------
(* The chefs and customers of 7_vyukov_mpmc.cpp, who spin                  *)

SpinMakeDish(p) == \E dish \in Dishes :
  /\ MayMakeDish
  /\ Goto(p, "idle", "enq")
  /\ elem' = [elem EXCEPT ![p] = dish]
  /\ UNCHANGED <<tail_, head_, seq, data, pos>>

SpinMadeDish(p) ==
  /\ Goto(p, "enqueued", "idle")
  /\ elem' = [elem EXCEPT ![p] = NoDish]
  /\ UNCHANGED <<tail_, head_, seq, data, pos>>

YieldFull(p) ==
  /\ Goto(p, "full", "enq")
  /\ UNCHANGED <<tail_, head_, seq, data, pos, elem>>

SpinCall(c) ==
  /\ Goto(c, "idle", "deq")
  /\ UNCHANGED <<tail_, head_, seq, data, pos, elem>>

SpinAteDish(c) ==
  /\ Goto(c, "dequeued", "idle")
  /\ elem' = [elem EXCEPT ![c] = NoDish]
  /\ UNCHANGED <<tail_, head_, seq, data, pos>>

YieldEmpty(c) ==
  /\ Goto(c, "empty", "deq")
  /\ UNCHANGED <<tail_, head_, seq, data, pos, elem>>

SpinProducer(p) ==
  SpinMakeDish(p) \/ try_enq(p) \/ SpinMadeDish(p) \/ YieldFull(p)

SpinConsumer(c) ==
  SpinCall(c) \/ try_dq(c) \/ SpinAteDish(c) \/ YieldEmpty(c)

SpinNext ==
  \/ \E p \in Producers : SpinProducer(p)
  \/ \E c \in Consumers : SpinConsumer(c)
-----------------------------------------------------------------------------
(* Properties of the queue, whoever calls it                               *)

(* data is not atomic: while one thread writes or moves out an element, no *)
(* other thread touches the same slot, however old its position is.        *)
ExclusiveSlot ==
  \A t, u \in Threads :
    t # u /\ pc[t] \in {"write", "read"} /\ pc[u] \in {"write", "read"}
      => Slot(pos[t]) # Slot(pos[u])

MidEnqueue(p) == pc[p] \in {"write", "enq_publish"}
MidDequeue(c) == pc[c] \in {"read", "deq_publish"}

(* A refusal is exact unless another thread is between its CAS and its     *)
(* publication: nullopt then means that every enqueued dish is claimed,    *)
(* false that N dishes are in the queue.                                   *)
RefusalExactWhenQuiet ==
  [][/\ \A c \in Consumers :
          DqEmpty(c) /\ (\A p \in Producers : ~MidEnqueue(p)) => head_ = tail_
     /\ \A p \in Producers :
          EnqFull(p) /\ (\A c \in Consumers : ~MidDequeue(c)) => tail_ = head_ + N
    ]_queueVars

(* "empty" (7_vyukov_mpmc.cpp:97) and "q is emtpy" (Producer Consumer.md:  *)
(* 155): nullopt is returned only if no dish whose enqueue has completed   *)
(* is waiting in the queue.                                                *)
NulloptMeansEmpty ==
  [][\A c \in Consumers :
       DqEmpty(c) => ~\E k \in head_..(tail_ - 1) : seq[Slot(k)] = k + 1
    ]_queueVars

Status(t) ==
  CASE pc[t] = "idle" -> "idle"
    [] pc[t] \in {"write", "enq_publish", "enqueued",
                  "read", "deq_publish", "dequeued", "notify"} -> "done"
    [] OTHER -> "called"

DishAt(k) ==
  IF \E p \in Producers : pc[p] = "write" /\ pos[p] = k
    THEN elem[CHOOSE p \in Producers : pc[p] = "write" /\ pos[p] = k]
    ELSE data[Slot(k)]

Hand(t) == IF pc[t] = "read" THEN data[Slot(pos[t])] ELSE elem[t]

FIFO == INSTANCE BoundedFIFO WITH
  size <- N,
  items <- [i \in 1..(tail_ - head_) |-> DishAt(head_ + i - 1)],
  status <- [t \in Threads |-> Status(t)],
  hand <- [t \in Threads |-> Hand(t)]

(* The queue behaves as one atomic bounded FIFO: a push takes effect at    *)
(* the CAS on tail_, before its dish is in the slot, and a pop at the CAS  *)
(* on head_, before the dish is moved out.                                 *)
RefinesFIFO == FIFO!FIFOSpec
=============================================================================
