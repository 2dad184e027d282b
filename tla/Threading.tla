------------------------------ MODULE Threading ------------------------------
(***************************************************************************)
(* The blocking primitives of the C++ standard library, as the threads of  *)
(* the little-book programs and of main's small programs use them.         *)
(*                                                                         *)
(* A block that runs under a mutex which guards all that it touches is one *)
(* step, from the moment the mutex is taken.  A wait whose predicate is    *)
(* false leaves the thread where it stands, in the wait set; once woken it *)
(* takes the mutex and evaluates the predicate anew.  An atomic's wait is  *)
(* the same with a comparison for the predicate.                           *)
(***************************************************************************)
EXTENDS Naturals, FiniteSets

VARIABLES
  pc,          \* [thread -> the statement it stands at]
  sem,         \* [semaphore -> its counter]; of a barrier: arrivals awaited
  asleep       \* [condition variable, atomic or barrier -> threads asleep]

threadVars == <<pc, sem, asleep>>

Awake(t) == \A c \in DOMAIN asleep : t \notin asleep[c]

At(t, l) == pc[t] = l /\ Awake(t)

Goto(t, from, to) == At(t, from) /\ pc' = [pc EXCEPT ![t] = to]

(* A step that blocks nobody and wakes nobody.                             *)
Move(t, from, to) == Goto(t, from, to) /\ UNCHANGED <<sem, asleep>>

(* std::counting_semaphore and std::binary_semaphore                       *)
acquire(t, s, from, to) ==
  /\ Goto(t, from, to)
  /\ sem[s] > 0
  /\ sem' = [sem EXCEPT ![s] = @ - 1]
  /\ UNCHANGED asleep

release(t, s, n, from, to) ==
  /\ Goto(t, from, to)
  /\ sem' = [sem EXCEPT ![s] = @ + n]
  /\ UNCHANGED asleep

(* std::condition_variable and std::atomic                                 *)
Sleep(t, l, c) ==
  /\ At(t, l)
  /\ asleep' = [asleep EXCEPT ![c] = @ \cup {t}]
  /\ UNCHANGED <<pc, sem>>

WakeOne(c) ==
  \/ asleep[c] = {} /\ UNCHANGED asleep
  \/ \E u \in asleep[c] : asleep' = [asleep EXCEPT ![c] = @ \ {u}]

WakeAll(c) == asleep' = [asleep EXCEPT ![c] = {}]

notify_one(t, c, from, to) == Goto(t, from, to) /\ WakeOne(c) /\ UNCHANGED sem

notify_all(t, c, from, to) == Goto(t, from, to) /\ WakeAll(c) /\ UNCHANGED sem

WakesSpuriously(t, c) ==
  /\ t \in asleep[c]
  /\ asleep' = [asleep EXCEPT ![c] = @ \ {t}]
  /\ UNCHANGED <<pc, sem>>

(* std::barrier: the arrival that completes the phase opens the next one,  *)
(* of n arrivals, and lets the others go.                                  *)
CompletesPhase(b) == sem[b] = 1

OpenPhase(b, n) == sem' = [sem EXCEPT ![b] = n] /\ WakeAll(b)

arrive(t, b, n, from, to) ==
  /\ Goto(t, from, to)
  /\ IF CompletesPhase(b)
     THEN OpenPhase(b, n)
     ELSE sem' = [sem EXCEPT ![b] = @ - 1] /\ UNCHANGED asleep

AwaitPhase(t, b) ==
  /\ sem' = [sem EXCEPT ![b] = @ - 1]
  /\ asleep' = [asleep EXCEPT ![b] = @ \cup {t}]

arrive_and_wait(t, b, n, from, to) ==
  /\ Goto(t, from, to)
  /\ IF CompletesPhase(b) THEN OpenPhase(b, n) ELSE AwaitPhase(t, b)
=============================================================================
