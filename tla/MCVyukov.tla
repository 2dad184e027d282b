------------------------------ MODULE MCVyukov ------------------------------
(***************************************************************************)
(* The queue of Vyukov with both of its wirings for TLC: refused threads   *)
(* park (Next of GenCounter) or spin (SpinNext), as wiring says.           *)
(***************************************************************************)
EXTENDS GenCounter, TLC

CONSTANTS p1, p2, c1, c2

VARIABLE wiring      \* "spin": 7_vyukov_mpmc.cpp; "park": 8_gen_counter...

parks == wiring = "park"

MCInit == Init /\ wiring \in {"spin", "park"}

MCNext ==
  /\ \/ parks /\ Next
     \/ ~parks /\ SpinNext /\ UNCHANGED counters
  /\ UNCHANGED wiring

(* Every thread is scheduled, and a CAS that is tried for ever with the    *)
(* expected value in place does not fail for ever.  Spurious wake-ups are  *)
(* not relied upon.                                                        *)
Fair ==
  /\ \A p \in Producers :
       /\ WF_vars(parks /\ producer(p))
       /\ SF_vars(parks /\ EnqClaim(p) /\ UNCHANGED counters)
       /\ WF_queueVars(~parks /\ SpinProducer(p))
       /\ SF_queueVars(~parks /\ EnqClaim(p))
  /\ \A c \in Consumers :
       /\ WF_vars(parks /\ consumer(c))
       /\ SF_vars(parks /\ DqClaim(c) /\ UNCHANGED counters)
       /\ WF_queueVars(~parks /\ SpinConsumer(c))
       /\ SF_queueVars(~parks /\ DqClaim(c))

MCSpec == MCInit /\ [][MCNext]_<<vars, wiring>>

MCFairSpec == MCSpec /\ Fair

(* For the runs that check no liveness.                                    *)
Symmetry == Permutations(Producers) \cup Permutations(Consumers)
-----------------------------------------------------------------------------
(* Parked threads are never forgotten (see GenCounter); the spinning       *)
(* threads never park.                                                     *)
NobodyOverlooked == parks => NeverAllParked
=============================================================================
