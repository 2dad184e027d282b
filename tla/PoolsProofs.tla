----------------------------- MODULE PoolsProofs -----------------------------
(***************************************************************************)
(* Proofs about the thread pools as MCPools runs them, for any number of   *)
(* workers, tasks and submitters and any capacity.                         *)
(***************************************************************************)
EXTENDS MCPools, SharedLemmas

-----------------------------------------------------------------------------
(* The program that is run never changes.                                  *)
LEMMA OneProgram ==
  [MCNext]_allVars =>
    /\ program' = program
    /\ InFutures => [Next]_vars
    /\ InBounded => Bounded!Next \/ UNCHANGED allVars
    /\ InStealing => Stealing!Next \/ UNCHANGED allVars
    /\ InForget => \/ Forget!Spurious \/ UNCHANGED allVars
                   \/ \E t \in Forget!PoolThreads : Forget!Step(t)
    /\ InCancel => \/ UNCHANGED allVars
                   \/ \E t \in Cancel!CancelThreads : Cancel!Step(t)
<1> SUFFICES ASSUME [MCNext]_allVars
             PROVE  /\ program' = program
                    /\ InFutures => [Next]_vars
                    /\ InBounded => Bounded!Next \/ UNCHANGED allVars
                    /\ InStealing => Stealing!Next \/ UNCHANGED allVars
                    /\ InForget => \/ Forget!Spurious \/ UNCHANGED allVars
                                   \/ \E t \in Forget!PoolThreads : Forget!Step(t)
                    /\ InCancel => \/ UNCHANGED allVars
                                   \/ \E t \in Cancel!CancelThreads : Cancel!Step(t)
  OBVIOUS
<1> USE DEF InFutures, InBounded, InStealing, InForget, InCancel
<1>1. CASE FuturesRuns(Next)
  BY <1>1 DEF FuturesRuns
<1>2. CASE BoundedRuns(Bounded!Next)
  BY <1>2 DEF BoundedRuns
<1>3. CASE StealingRuns(Stealing!Next)
  BY <1>3 DEF StealingRuns
<1>4. CASE ForgetRuns(Forget!Spurious \/ \E t \in Forget!PoolThreads : Forget!Step(t))
  BY <1>4 DEF ForgetRuns
<1>5. CASE CancelRuns(\E t \in Cancel!CancelThreads : Cancel!Step(t))
  BY <1>5 DEF CancelRuns
<1>6. CASE UNCHANGED allVars
  BY <1>6 DEF allVars, vars, queueVars, lockVars
<1> QED
  BY <1>1, <1>2, <1>3, <1>4, <1>5, <1>6 DEF MCNext

-----------------------------------------------------------------------------
(* The pool with futures                                                   *)

WorkerAt == {"loop", "locked", "asleep", "run", "exited", "submit",
             "submit_locked", "notify", "submitted"}
MainAt == {"main", "submit", "submit_locked", "notify", "submitted", "dtor",
           "dtor_locked", "notify_all", "join", "destroyed"}
ActiveAt == {"run", "submit", "submit_locked", "notify", "submitted"}
AwakeAt == {"loop", "locked"}

Typed ==
  /\ tasks_ \in Seq(Tasks)
  /\ mtx_ \in Threads \cup {NoOne}
  /\ stopping_ \in BOOLEAN
  /\ stop_or_task_cv_ = {w \in Workers : pc[w] = "asleep"}
  /\ pc \in [Threads -> Locations]
  /\ \A w \in Workers : pc[w] \in WorkerAt
  /\ pc[Main] \in MainAt
  /\ task \in [Threads -> Tasks \cup {NoTask}]
  /\ future \in [Tasks -> {"none", "pending", "value", "error"}]

(* The mutex is held exactly between the steps that take and release it,   *)
(* and the stop is set by the destructor, under the mutex.                 *)
Locked ==
  /\ \A t \in Threads : pc[t] \in {"locked", "submit_locked", "dtor_locked"} <=> mtx_ = t
  /\ stopping_ <=> pc[Main] \in {"notify_all", "join", "destroyed"}
  /\ pc[Main] \in {"join", "destroyed"} => \A w \in Workers : pc[w] # "asleep"

(* A task is queued or run at most once: its future is pending exactly     *)
(* then, and a task submits its child once, while it runs.                 *)
Once ==
  /\ Distinct(tasks_)
  /\ \A t \in Elements(tasks_) : future[t] = "pending"
  /\ \A w \in Workers : pc[w] \in ActiveAt =>
       /\ task[w] \in Tasks \ Elements(tasks_)
       /\ future[task[w]] = "pending"
       /\ \A v \in Workers : pc[v] \in ActiveAt /\ task[v] = task[w] => v = w
       /\ pc[w] # "run" => task[w] \in DOMAIN Child
       /\ pc[w] \in {"run", "submit", "submit_locked"} /\ task[w] \in DOMAIN Child =>
            future[Child[task[w]]] = "none"
  /\ pc[Main] \in {"submit", "submit_locked", "notify", "submitted"} =>
       task[Main] \in MainTasks
  /\ pc[Main] \in {"submit", "submit_locked"} => future[task[Main]] = "none"
  /\ \A t \in DOMAIN Child :
       future[t] = "none" \/ t \in Elements(tasks_) => future[Child[t]] = "none"

AwakeCount == Count(Workers, pc, AwakeAt)
NotifyingCount == Count(Threads, pc, {"notify"})

Notified ==
  (\E w \in Workers : pc[w] = "asleep") => Len(tasks_) <= AwakeCount + NotifyingCount

FuturesInv == Typed /\ Locked /\ Once /\ Notified

LEMMA People ==
  /\ \A w \in Workers : w \in Threads /\ w # Main
  /\ Main \in Threads /\ NoOne \notin Threads
  /\ Threads = Workers \cup {Main}
  /\ IsFiniteSet(Workers) /\ IsFiniteSet(Threads) /\ IsFiniteSet(Tasks)
<1>1. IsFiniteSet(Workers \cup {Main})
  BY PoolAssumption, FS_AddElement
<1> QED
  BY <1>1, PoolAssumption DEF Threads

LEMMA Family ==
  /\ NoTask \notin Tasks
  /\ MainTasks \subseteq Tasks
  /\ \A t \in DOMAIN Child : t \in Tasks /\ Child[t] \in Tasks \ MainTasks
  /\ \A t, u \in DOMAIN Child : Child[t] = Child[u] => t = u
  BY PoolAssumption DEF Tasks

LEMMA FuturesStarts == Init => FuturesInv
<1> SUFFICES ASSUME Init PROVE FuturesInv
  OBVIOUS
<1> USE People, Family DEF Init
<1>1. Typed /\ Locked
  <2>1. pc[Main] = "main" /\ \A w \in Workers : pc[w] = "loop"
    OBVIOUS
  <2>2. Typed
    <3>1. tasks_ \in Seq(Tasks) /\ mtx_ = NoOne /\ stopping_ = FALSE
      OBVIOUS
    <3>2. pc \in [Threads -> Locations]
      BY DEF Locations
    <3>3. /\ task \in [Threads -> Tasks \cup {NoTask}]
          /\ future \in [Tasks -> {"none", "pending", "value", "error"}]
      OBVIOUS
    <3>4. stop_or_task_cv_ = {w \in Workers : pc[w] = "asleep"}
      BY <2>1
    <3> QED
      BY <2>1, <3>1, <3>2, <3>3, <3>4 DEF Typed, WorkerAt, MainAt
  <2> QED
    BY <2>1, <2>2 DEF Locked
<1>2. Elements(tasks_) = {} /\ Distinct(tasks_)
  BY DEF Elements, Distinct
<1>3. Once
  BY <1>2 DEF Once, ActiveAt
<1> QED
  BY <1>1, <1>3 DEF FuturesInv, Notified

LEMMA FuturesTyped == FuturesInv /\ [Next]_vars => Typed' /\ Locked'
<1> SUFFICES ASSUME FuturesInv, [Next]_vars PROVE Typed' /\ Locked'
  OBVIOUS
<1> USE People, Family
    DEF FuturesInv, Typed, Locked, Locations, WorkerAt, MainAt, Goto, Acquire, Release
<1>1. ASSUME NEW w \in Workers, WorkerLock(w) PROVE Typed' /\ Locked'
  BY <1>1 DEF WorkerLock
<1>2. ASSUME NEW w \in Workers, WorkerWait(w) PROVE Typed' /\ Locked'
  BY <1>2 DEF WorkerWait
<1>3. ASSUME NEW w \in Workers, WorkerWakes(w) PROVE Typed' /\ Locked'
  BY <1>3 DEF WorkerWakes
<1>4. ASSUME NEW w \in Workers, WorkerExits(w) PROVE Typed' /\ Locked'
  BY <1>4 DEF WorkerExits
<1>5. ASSUME NEW w \in Workers, TakeTask(w) PROVE Typed' /\ Locked'
  BY <1>5 DEF TakeTask
<1>6. ASSUME NEW w \in Workers, RunTask(w) PROVE Typed' /\ Locked'
  <2>1. PICK outcome \in {"value", "error"} :
          future' = [future EXCEPT ![task[w]] = outcome]
    BY <1>6 DEF RunTask
  <2>2. future' \in [Tasks -> {"none", "pending", "value", "error"}]
    BY <2>1
  <2> QED
    BY <1>6, <2>2 DEF RunTask
<1>7. ASSUME NEW w \in Workers, TaskSubmits(w) PROVE Typed' /\ Locked'
  BY <1>7 DEF TaskSubmits
<1>8. ASSUME NEW w \in Workers, TaskReturns(w) PROVE Typed' /\ Locked'
  BY <1>8 DEF TaskReturns
<1>9. ASSUME NEW w \in Workers, SubmitThrows(w) PROVE Typed' /\ Locked'
  BY <1>9 DEF SubmitThrows
<1>10. ASSUME NEW t \in Threads, SubmitLock(t) PROVE Typed' /\ Locked'
  BY <1>10 DEF SubmitLock
<1>11. ASSUME NEW t \in Threads, Enqueue(t) PROVE Typed' /\ Locked'
  <2>1. Submitted(t) \in Tasks
    BY <1>11 DEF Enqueue, Submitted, Once, ActiveAt
  <2> QED
    BY <1>11, <2>1 DEF Enqueue
<1>12. ASSUME NEW t \in Threads, NotifyOne(t) PROVE Typed' /\ Locked'
  BY <1>12 DEF NotifyOne
<1>13. ASSUME NEW t \in MainTasks, MainSubmits(t) PROVE Typed' /\ Locked'
  BY <1>13 DEF MainSubmits
<1>14. ASSUME MainGetsFuture PROVE Typed' /\ Locked'
  BY <1>14 DEF MainGetsFuture
<1>15. ASSUME MainDropsFuture PROVE Typed' /\ Locked'
  BY <1>15 DEF MainDropsFuture
<1>16. ASSUME MainLeavesScope PROVE Typed' /\ Locked'
  BY <1>16 DEF MainLeavesScope
<1>17. ASSUME DtorLock PROVE Typed' /\ Locked'
  BY <1>17 DEF DtorLock
<1>18. ASSUME DtorStops PROVE Typed' /\ Locked'
  BY <1>18 DEF DtorStops
<1>19. ASSUME DtorNotifyAll PROVE Typed' /\ Locked'
  BY <1>19 DEF DtorNotifyAll
<1>20. ASSUME DtorJoined PROVE Typed' /\ Locked'
  BY <1>20 DEF DtorJoined
<1>21. CASE UNCHANGED vars
  BY <1>21 DEF vars
<1> QED
  BY <1>1, <1>2, <1>3, <1>4, <1>5, <1>6, <1>7, <1>8, <1>9, <1>10, <1>11, <1>12, <1>13, <1>14, <1>15, <1>16, <1>17, <1>18, <1>19, <1>20, <1>21
  DEF Next, worker, main, submit, MainReturned

LEMMA FuturesOnce == FuturesInv /\ [Next]_vars => Once'
<1> SUFFICES ASSUME FuturesInv, [Next]_vars PROVE Once'
  OBVIOUS
<1> USE People, Family DEF FuturesInv, Typed, Once, WorkerAt, MainAt, ActiveAt, Goto
<1>1. ASSUME NEW w \in Workers, WorkerLock(w) PROVE Once'
  BY <1>1 DEF WorkerLock
<1>2. ASSUME NEW w \in Workers, WorkerWait(w) PROVE Once'
  BY <1>2 DEF WorkerWait
<1>3. ASSUME NEW w \in Workers, WorkerWakes(w) PROVE Once'
  BY <1>3 DEF WorkerWakes
<1>4. ASSUME NEW w \in Workers, WorkerExits(w) PROVE Once'
  BY <1>4 DEF WorkerExits
<1>5. ASSUME NEW w \in Workers, TakeTask(w) PROVE Once'
  <2>1. /\ Head(tasks_) \in Elements(tasks_)
        /\ Elements(tasks_') = Elements(tasks_) \ {Head(tasks_)}
        /\ Distinct(tasks_')
    BY <1>5, TailElements DEF TakeTask
  <2>2. Elements(tasks_) \subseteq Tasks
    BY ElementsIn
  <2> QED
    BY <1>5, <2>1, <2>2 DEF TakeTask
<1>6. ASSUME NEW w \in Workers, RunTask(w) PROVE Once'
  BY <1>6 DEF RunTask
<1>7. ASSUME NEW w \in Workers, TaskSubmits(w) PROVE Once'
  BY <1>7 DEF TaskSubmits
<1>8. ASSUME NEW w \in Workers, TaskReturns(w) PROVE Once'
  BY <1>8 DEF TaskReturns
<1>9. ASSUME NEW w \in Workers, SubmitThrows(w) PROVE Once'
  BY <1>9 DEF SubmitThrows
<1>10. ASSUME NEW t \in Threads, SubmitLock(t) PROVE Once'
  BY <1>10 DEF SubmitLock
<1>11. ASSUME NEW t \in Threads, Enqueue(t) PROVE Once'
  <2> DEFINE new == Submitted(t)
  <2>1. new \in Tasks /\ future[new] = "none"
    BY <1>11 DEF Enqueue, Submitted
  <2>2. new \notin Elements(tasks_)
    BY <2>1
  <2>3. Elements(tasks_') = Elements(tasks_) \cup {new} /\ Distinct(tasks_')
    BY <1>11, <2>1, <2>2, AppendElement DEF Enqueue
  <2>4. /\ future' = [future EXCEPT ![new] = "pending"]
        /\ pc[t] = "submit_locked" /\ pc' = [pc EXCEPT ![t] = "notify"]
        /\ task' = task
    BY <1>11 DEF Enqueue
  <2>5. CASE t = Main
    BY <2>1, <2>2, <2>3, <2>4, <2>5 DEF Submitted
  <2>6. CASE t \in Workers
    BY <2>1, <2>2, <2>3, <2>4, <2>6 DEF Submitted
  <2> QED
    BY <2>5, <2>6
<1>12. ASSUME NEW t \in Threads, NotifyOne(t) PROVE Once'
  BY <1>12 DEF NotifyOne
<1>13. ASSUME NEW t \in MainTasks, MainSubmits(t) PROVE Once'
  BY <1>13 DEF MainSubmits
<1>14. ASSUME MainGetsFuture PROVE Once'
  BY <1>14 DEF MainGetsFuture
<1>15. ASSUME MainDropsFuture PROVE Once'
  BY <1>15 DEF MainDropsFuture
<1>16. ASSUME MainLeavesScope PROVE Once'
  BY <1>16 DEF MainLeavesScope
<1>17. ASSUME DtorLock PROVE Once'
  BY <1>17 DEF DtorLock
<1>18. ASSUME DtorStops PROVE Once'
  BY <1>18 DEF DtorStops
<1>19. ASSUME DtorNotifyAll PROVE Once'
  BY <1>19 DEF DtorNotifyAll
<1>20. ASSUME DtorJoined PROVE Once'
  BY <1>20 DEF DtorJoined
<1>21. CASE UNCHANGED vars
  BY <1>21 DEF vars
<1> QED
  BY <1>1, <1>2, <1>3, <1>4, <1>5, <1>6, <1>7, <1>8, <1>9, <1>10, <1>11, <1>12, <1>13, <1>14, <1>15, <1>16, <1>17, <1>18, <1>19, <1>20, <1>21
  DEF Next, worker, main, submit, MainReturned

-----------------------------------------------------------------------------
(* What the step of a thread from one location to another adds to the      *)
(* number of threads at locs.                                              *)
Change(locs, from, to) ==
  IF from \in locs <=> to \in locs THEN 0 ELSE IF to \in locs THEN 1 ELSE -1

LEMMA CountsAreNat == AwakeCount \in Nat /\ NotifyingCount \in Nat
  BY People, CountIsNat DEF AwakeCount, NotifyingCount

LEMMA CountsNextAreNat ==
  /\ AwakeCount' \in Nat /\ NotifyingCount' \in Nat
  /\ AwakeCount' + NotifyingCount' >= 0
<1>1. /\ AwakeCount' = Count(Workers, pc', AwakeAt)
      /\ NotifyingCount' = Count(Threads, pc', {"notify"})
  BY DEF AwakeCount, NotifyingCount, Count, Standing
<1>2. ASSUME NEW m \in Nat, NEW n \in Nat PROVE m + n >= 0
  OBVIOUS
<1>3. AwakeCount' \in Nat /\ NotifyingCount' \in Nat
  BY <1>1, People, CountIsNat
<1> QED
  BY <1>2, <1>3

LEMMA CountsAfterGoto ==
  ASSUME Typed, NEW from, NEW to, NEW t \in Threads, Goto(t, from, to)
  PROVE  /\ AwakeCount' = AwakeCount +
              (IF t \in Workers THEN Change(AwakeAt, from, to) ELSE 0)
         /\ NotifyingCount' = NotifyingCount + Change({"notify"}, from, to)
<1>1. DOMAIN pc = Threads /\ Moves(t, to, pc, pc') /\ pc[t] = from
  BY DEF Typed, Goto, Moves
<1>2. \A S \in {Workers, Threads} : S \subseteq Threads /\ IsFiniteSet(S)
  BY People
<1>3. ASSUME NEW S \in {Workers, Threads}, NEW L
      PROVE  Count(S, pc', L) = Count(S, pc, L) +
               (IF t \in S THEN Change(L, from, to) ELSE 0)
  <2>1. Count(S, pc', L) =
          Count(S, pc, L) +
            (IF t \notin S \/ (pc[t] \in L <=> to \in L) THEN 0
             ELSE IF to \in L THEN 1 ELSE -1)
    BY <1>1, <1>2, CountAfterMove
  <2> QED
    BY <1>1, <2>1 DEF Change
<1>4. /\ AwakeCount' = Count(Workers, pc', AwakeAt)
      /\ NotifyingCount' = Count(Threads, pc', {"notify"})
  BY DEF AwakeCount, NotifyingCount, Count, Standing
<1> QED
  BY <1>3, <1>4 DEF AwakeCount, NotifyingCount

(* A submitter that notifies hands its place in the count to the worker    *)
(* that it wakes.                                                          *)
LEMMA CountsAfterWake ==
  ASSUME Typed, NEW t \in Threads, pc[t] = "notify",
         NEW w \in Workers, pc[w] = "asleep",
         pc' = [pc EXCEPT ![t] = "submitted", ![w] = "loop"]
  PROVE  /\ AwakeCount' = AwakeCount + 1
         /\ NotifyingCount' = NotifyingCount - 1
<1> DEFINE g == [pc EXCEPT ![t] = "submitted"]
<1>1. /\ DOMAIN pc = Threads /\ Moves(t, "submitted", pc, g)
      /\ DOMAIN g = Threads /\ Moves(w, "loop", g, pc') /\ g[w] = "asleep"
  BY People DEF Typed, Moves
<1> HIDE DEF g
<1>2. Workers \subseteq Threads /\ IsFiniteSet(Workers) /\ IsFiniteSet(Threads)
  BY People
<1>3. /\ Count(Workers, g, AwakeAt) = Count(Workers, pc, AwakeAt)
      /\ Count(Workers, pc', AwakeAt) = Count(Workers, g, AwakeAt) + 1
  BY <1>1, <1>2, CountAfterMove, CountsAreNat DEF AwakeAt, AwakeCount
<1>4. /\ Count(Threads, g, {"notify"}) = Count(Threads, pc, {"notify"}) - 1
      /\ Count(Threads, pc', {"notify"}) = Count(Threads, g, {"notify"})
  BY <1>1, <1>2, CountAfterMove, CountsAreNat, People DEF NotifyingCount
<1>5. /\ AwakeCount' = Count(Workers, pc', AwakeAt)
      /\ NotifyingCount' = Count(Threads, pc', {"notify"})
  BY DEF AwakeCount, NotifyingCount, Count, Standing
<1> QED
  BY <1>3, <1>4, <1>5 DEF AwakeCount, NotifyingCount

LEMMA FuturesNotified == FuturesInv /\ [Next]_vars => Notified'
<1> SUFFICES ASSUME FuturesInv, [Next]_vars PROVE Notified'
  OBVIOUS
<1> USE People, CountsAreNat, CountsNextAreNat DEF FuturesInv, Notified
<1>n. Len(tasks_) \in Nat /\ Typed
  BY DEF Typed
<1>1. ASSUME NEW w \in Workers, WorkerLock(w) PROVE Notified'
  <2>1. Goto(w, "loop", "locked")
    BY <1>1 DEF WorkerLock
  <2>2. AwakeCount' = AwakeCount /\ NotifyingCount' = NotifyingCount
    BY <1>n, <2>1, CountsAfterGoto DEF Change, AwakeAt
  <2>3. Len(tasks_') = Len(tasks_)
    BY <1>1 DEF WorkerLock
  <2>4. \A u \in Workers : pc'[u] = "asleep" => pc[u] = "asleep"
    BY <2>1 DEF Goto, Typed
  <2> QED
    BY <1>n, <2>2, <2>3, <2>4
<1>2. ASSUME NEW w \in Workers, WorkerWait(w) PROVE Notified'
  <2>1. Len(tasks_') = 0
    BY <1>2 DEF WorkerWait
  <2>2. Len(tasks_') <= AwakeCount' + NotifyingCount'
    BY <2>1
  <2> QED
    BY <2>2
<1>3. ASSUME NEW w \in Workers, WorkerWakes(w) PROVE Notified'
  <2>1. Goto(w, "asleep", "loop")
    BY <1>3 DEF WorkerWakes
  <2>2. AwakeCount' = AwakeCount + 1 /\ NotifyingCount' = NotifyingCount
    BY <1>n, <2>1, CountsAfterGoto DEF Change, AwakeAt
  <2>3. Len(tasks_') = Len(tasks_)
    BY <1>3 DEF WorkerWakes
  <2>4. \A u \in Workers : pc'[u] = "asleep" => pc[u] = "asleep"
    BY <2>1 DEF Goto, Typed
  <2> QED
    BY <1>n, <2>2, <2>3, <2>4
<1>4. ASSUME NEW w \in Workers, WorkerExits(w) PROVE Notified'
  <2>1. Len(tasks_') = 0
    BY <1>4 DEF WorkerExits
  <2>2. Len(tasks_') <= AwakeCount' + NotifyingCount'
    BY <2>1
  <2> QED
    BY <2>2
<1>5. ASSUME NEW w \in Workers, TakeTask(w) PROVE Notified'
  <2>1. Goto(w, "locked", "run")
    BY <1>5 DEF TakeTask
  <2>2. AwakeCount' = AwakeCount - 1 /\ NotifyingCount' = NotifyingCount
    BY <1>n, <2>1, CountsAfterGoto DEF Change, AwakeAt
  <2>3. Len(tasks_') = Len(tasks_) - 1
    BY <1>5, TailElements DEF TakeTask, Typed
  <2>4. \A u \in Workers : pc'[u] = "asleep" => pc[u] = "asleep"
    BY <2>1 DEF Goto, Typed
  <2> QED
    BY <1>n, <2>2, <2>3, <2>4
<1>6. ASSUME NEW w \in Workers, RunTask(w) PROVE Notified'
  <2>1. Goto(w, "run", "loop")
    BY <1>6 DEF RunTask
  <2>2. AwakeCount' = AwakeCount + 1 /\ NotifyingCount' = NotifyingCount
    BY <1>n, <2>1, CountsAfterGoto DEF Change, AwakeAt
  <2>3. Len(tasks_') = Len(tasks_)
    BY <1>6 DEF RunTask
  <2>4. \A u \in Workers : pc'[u] = "asleep" => pc[u] = "asleep"
    BY <2>1 DEF Goto, Typed
  <2> QED
    BY <1>n, <2>2, <2>3, <2>4
<1>7. ASSUME NEW w \in Workers, TaskSubmits(w) PROVE Notified'
  <2>1. Goto(w, "run", "submit")
    BY <1>7 DEF TaskSubmits
  <2>2. AwakeCount' = AwakeCount /\ NotifyingCount' = NotifyingCount
    BY <1>n, <2>1, CountsAfterGoto DEF Change, AwakeAt
  <2>3. Len(tasks_') = Len(tasks_)
    BY <1>7 DEF TaskSubmits
  <2>4. \A u \in Workers : pc'[u] = "asleep" => pc[u] = "asleep"
    BY <2>1 DEF Goto, Typed
  <2> QED
    BY <1>n, <2>2, <2>3, <2>4
<1>8. ASSUME NEW w \in Workers, TaskReturns(w) PROVE Notified'
  <2>1. Goto(w, "submitted", "loop")
    BY <1>8 DEF TaskReturns
  <2>2. AwakeCount' = AwakeCount + 1 /\ NotifyingCount' = NotifyingCount
    BY <1>n, <2>1, CountsAfterGoto DEF Change, AwakeAt
  <2>3. Len(tasks_') = Len(tasks_)
    BY <1>8 DEF TaskReturns
  <2>4. \A u \in Workers : pc'[u] = "asleep" => pc[u] = "asleep"
    BY <2>1 DEF Goto, Typed
  <2> QED
    BY <1>n, <2>2, <2>3, <2>4
<1>9. ASSUME NEW w \in Workers, SubmitThrows(w) PROVE Notified'
  <2>1. Goto(w, "submit_locked", "loop")
    BY <1>9 DEF SubmitThrows
  <2>2. AwakeCount' = AwakeCount + 1 /\ NotifyingCount' = NotifyingCount
    BY <1>n, <2>1, CountsAfterGoto DEF Change, AwakeAt
  <2>3. Len(tasks_') = Len(tasks_)
    BY <1>9 DEF SubmitThrows
  <2>4. \A u \in Workers : pc'[u] = "asleep" => pc[u] = "asleep"
    BY <2>1 DEF Goto, Typed
  <2> QED
    BY <1>n, <2>2, <2>3, <2>4
<1>10. ASSUME NEW t \in Threads, SubmitLock(t) PROVE Notified'
  <2>1. Goto(t, "submit", "submit_locked")
    BY <1>10 DEF SubmitLock
  <2>2. AwakeCount' = AwakeCount /\ NotifyingCount' = NotifyingCount
    BY <1>n, <2>1, CountsAfterGoto DEF Change, AwakeAt
  <2>3. Len(tasks_') = Len(tasks_)
    BY <1>10 DEF SubmitLock
  <2>4. \A u \in Workers : pc'[u] = "asleep" => pc[u] = "asleep"
    BY <2>1 DEF Goto, Typed
  <2> QED
    BY <1>n, <2>2, <2>3, <2>4
<1>11. ASSUME NEW t \in Threads, Enqueue(t) PROVE Notified'
  <2>1. Goto(t, "submit_locked", "notify")
    BY <1>11 DEF Enqueue
  <2>2. AwakeCount' = AwakeCount /\ NotifyingCount' = NotifyingCount + 1
    BY <1>n, <2>1, CountsAfterGoto DEF Change, AwakeAt
  <2>3. Len(tasks_') = Len(tasks_) + 1
    BY <1>11 DEF Enqueue, Typed
  <2>4. \A u \in Workers : pc'[u] = "asleep" => pc[u] = "asleep"
    BY <2>1 DEF Goto, Typed
  <2> QED
    BY <1>n, <2>2, <2>3, <2>4
<1>12. ASSUME NEW t \in Threads, NotifyOne(t) PROVE Notified'
  <2>1. Len(tasks_') = Len(tasks_)
    BY <1>12 DEF NotifyOne
  <2>2. CASE stop_or_task_cv_ = {}
    <3>1. \A w \in Workers : pc[w] # "asleep"
      BY <2>2 DEF Typed
    <3>2. \A w \in Workers : pc'[w] # "asleep"
      BY <1>12, <2>2, <3>1 DEF NotifyOne, Goto, Typed
    <3> QED
      BY <3>2
  <2>3. ASSUME NEW w \in stop_or_task_cv_, pc[t] = "notify",
               pc' = [pc EXCEPT ![t] = "submitted", ![w] = "loop"]
        PROVE  Notified'
    <3>1. w \in Workers /\ pc[w] = "asleep"
      BY <2>3 DEF Typed
    <3>2. AwakeCount' = AwakeCount + 1 /\ NotifyingCount' = NotifyingCount - 1
      BY <2>3, <3>1, CountsAfterWake
    <3> QED
      BY <1>n, <2>1, <3>1, <3>2
  <2> QED
    BY <1>12, <2>2, <2>3 DEF NotifyOne
<1>13. ASSUME NEW t \in MainTasks, MainSubmits(t) PROVE Notified'
  <2>1. Goto(Main, "main", "submit")
    BY <1>13 DEF MainSubmits
  <2>2. AwakeCount' = AwakeCount /\ NotifyingCount' = NotifyingCount
    BY <1>n, <2>1, CountsAfterGoto DEF Change, AwakeAt
  <2>3. Len(tasks_') = Len(tasks_)
    BY <1>13 DEF MainSubmits
  <2>4. \A u \in Workers : pc'[u] = "asleep" => pc[u] = "asleep"
    BY <2>1 DEF Goto, Typed
  <2> QED
    BY <1>n, <2>2, <2>3, <2>4
<1>14. ASSUME MainGetsFuture PROVE Notified'
  <2>1. Goto(Main, "submitted", "main")
    BY <1>14 DEF MainGetsFuture
  <2>2. AwakeCount' = AwakeCount /\ NotifyingCount' = NotifyingCount
    BY <1>n, <2>1, CountsAfterGoto DEF Change, AwakeAt
  <2>3. Len(tasks_') = Len(tasks_)
    BY <1>14 DEF MainGetsFuture
  <2>4. \A u \in Workers : pc'[u] = "asleep" => pc[u] = "asleep"
    BY <2>1 DEF Goto, Typed
  <2> QED
    BY <1>n, <2>2, <2>3, <2>4
<1>15. ASSUME MainDropsFuture PROVE Notified'
  <2>1. Goto(Main, "submitted", "main")
    BY <1>15 DEF MainDropsFuture
  <2>2. AwakeCount' = AwakeCount /\ NotifyingCount' = NotifyingCount
    BY <1>n, <2>1, CountsAfterGoto DEF Change, AwakeAt
  <2>3. Len(tasks_') = Len(tasks_)
    BY <1>15 DEF MainDropsFuture
  <2>4. \A u \in Workers : pc'[u] = "asleep" => pc[u] = "asleep"
    BY <2>1 DEF Goto, Typed
  <2> QED
    BY <1>n, <2>2, <2>3, <2>4
<1>16. ASSUME MainLeavesScope PROVE Notified'
  <2>1. Goto(Main, "main", "dtor")
    BY <1>16 DEF MainLeavesScope
  <2>2. AwakeCount' = AwakeCount /\ NotifyingCount' = NotifyingCount
    BY <1>n, <2>1, CountsAfterGoto DEF Change, AwakeAt
  <2>3. Len(tasks_') = Len(tasks_)
    BY <1>16 DEF MainLeavesScope
  <2>4. \A u \in Workers : pc'[u] = "asleep" => pc[u] = "asleep"
    BY <2>1 DEF Goto, Typed
  <2> QED
    BY <1>n, <2>2, <2>3, <2>4
<1>17. ASSUME DtorLock PROVE Notified'
  <2>1. Goto(Main, "dtor", "dtor_locked")
    BY <1>17 DEF DtorLock
  <2>2. AwakeCount' = AwakeCount /\ NotifyingCount' = NotifyingCount
    BY <1>n, <2>1, CountsAfterGoto DEF Change, AwakeAt
  <2>3. Len(tasks_') = Len(tasks_)
    BY <1>17 DEF DtorLock
  <2>4. \A u \in Workers : pc'[u] = "asleep" => pc[u] = "asleep"
    BY <2>1 DEF Goto, Typed
  <2> QED
    BY <1>n, <2>2, <2>3, <2>4
<1>18. ASSUME DtorStops PROVE Notified'
  <2>1. Goto(Main, "dtor_locked", "notify_all")
    BY <1>18 DEF DtorStops
  <2>2. AwakeCount' = AwakeCount /\ NotifyingCount' = NotifyingCount
    BY <1>n, <2>1, CountsAfterGoto DEF Change, AwakeAt
  <2>3. Len(tasks_') = Len(tasks_)
    BY <1>18 DEF DtorStops
  <2>4. \A u \in Workers : pc'[u] = "asleep" => pc[u] = "asleep"
    BY <2>1 DEF Goto, Typed
  <2> QED
    BY <1>n, <2>2, <2>3, <2>4
<1>19. ASSUME DtorNotifyAll PROVE Notified'
  <2>1. \A w \in Workers : pc'[w] # "asleep"
    BY <1>19 DEF DtorNotifyAll, Typed
  <2> QED
    BY <2>1
<1>20. ASSUME DtorJoined PROVE Notified'
  <2>1. Goto(Main, "join", "destroyed")
    BY <1>20 DEF DtorJoined
  <2>2. AwakeCount' = AwakeCount /\ NotifyingCount' = NotifyingCount
    BY <1>n, <2>1, CountsAfterGoto DEF Change, AwakeAt
  <2>3. Len(tasks_') = Len(tasks_)
    BY <1>20 DEF DtorJoined
  <2>4. \A u \in Workers : pc'[u] = "asleep" => pc[u] = "asleep"
    BY <2>1 DEF Goto, Typed
  <2> QED
    BY <1>n, <2>2, <2>3, <2>4
<1>21. CASE UNCHANGED vars
  BY <1>21 DEF vars, AwakeCount, NotifyingCount
<1> QED
  BY <1>1, <1>2, <1>3, <1>4, <1>5, <1>6, <1>7, <1>8, <1>9, <1>10, <1>11, <1>12, <1>13, <1>14, <1>15, <1>16, <1>17, <1>18, <1>19, <1>20, <1>21
  DEF Next, worker, main, submit, MainReturned

LEMMA FuturesCorrect == FuturesInv => PoolInv
<1> SUFFICES ASSUME FuturesInv PROVE PoolInv
  OBVIOUS
<1> USE People DEF FuturesInv, Typed
<1>1. Len(tasks_) \in Nat /\ Len(tasks_) <= Cardinality(Tasks)
  BY DistinctIsShort DEF Once
<1>2. TypeOK
  BY <1>1 DEF TypeOK
<1>3. Cardinality(Awake) = AwakeCount /\ Cardinality(Notifying) = NotifyingCount
  BY DEF Awake, AwakeAt, Notifying, AwakeCount, NotifyingCount, Count, Standing
<1>4. NoTaskForgotten
  BY <1>3 DEF NoTaskForgotten, Notified
<1>5. NobodySleepsThroughStop
  BY DEF NobodySleepsThroughStop, Locked
<1> QED
  BY <1>2, <1>4, <1>5 DEF PoolInv

FuturesKept == InFutures => FuturesInv

LEMMA FuturesStep == FuturesInv /\ [Next]_vars => FuturesInv'
  BY FuturesTyped, FuturesOnce, FuturesNotified DEF FuturesInv

LEMMA FuturesInvHolds == MCSpec => []FuturesKept
<1>1. MCInit => FuturesKept
  BY FuturesStarts DEF FuturesKept, MCInit, InFutures, InBounded, InStealing,
     InForget, InCancel
<1>2. FuturesKept /\ [MCNext]_allVars => FuturesKept'
  <2> SUFFICES ASSUME FuturesKept, [MCNext]_allVars, InFutures' PROVE FuturesInv'
    BY DEF FuturesKept
  <2>1. InFutures /\ FuturesInv
    BY OneProgram DEF InFutures, FuturesKept
  <2> QED
    BY <2>1, OneProgram, FuturesStep
<1> QED
  BY <1>1, <1>2, PTL DEF MCSpec

-----------------------------------------------------------------------------
(* The bounded pool                                                        *)

ComingAt == {"lock", "relock", "locked"}

BoundedTyped ==
  /\ tasks_ \in Seq(Submitters) /\ Len(tasks_) <= capacity
  /\ mtx_ \in Bounded!Threads \cup {NoOne}
  /\ stopping_ \in BOOLEAN
  /\ stop_or_task_cv_ = {w \in BoundedWorkers : pc[w] = "asleep"}
  /\ stop_or_enq_task_cv_ = {s \in Submitters : pc[s] = "asleep"}
  /\ pc \in [Bounded!Threads -> Bounded!Locations]
  /\ \A w \in BoundedWorkers :
       pc[w] \in ComingAt \cup {"asleep", "notify", "run", "exited"}
  /\ \A s \in Submitters :
       pc[s] \in ComingAt \cup {"start", "asleep", "notify", "accepted", "thrown"}
  /\ pc[Main] \in {"dtor", "dtor_locked", "notify_workers", "notify_submitters",
                   "join", "destroyed"}
  /\ task \in [BoundedWorkers -> Submitters \cup {NoTask}]

(* The stop is set under the mutex, before either side is notified of it.  *)
BoundedLocked ==
  /\ \A t \in Bounded!Threads : pc[t] \in {"locked", "dtor_locked"} <=> mtx_ = t
  /\ stopping_ <=> pc[Main] \notin {"dtor", "dtor_locked"}
  /\ pc[Main] \in {"notify_submitters", "join", "destroyed"} =>
       \A w \in BoundedWorkers : pc[w] # "asleep"
  /\ pc[Main] \in {"join", "destroyed"} => \A s \in Submitters : pc[s] # "asleep"

ComingWorkers == Count(BoundedWorkers, pc, ComingAt)
NotifyingWorkers == Count(BoundedWorkers, pc, {"notify"})
ComingSubmitters == Count(Submitters, pc, ComingAt)
NotifyingSubmitters == Count(Submitters, pc, {"notify"})

TasksNotified ==
  (\E w \in BoundedWorkers : pc[w] = "asleep") =>
    Len(tasks_) <= ComingWorkers + NotifyingSubmitters

PlacesNotified ==
  ~stopping_ /\ (\E s \in Submitters : pc[s] = "asleep") =>
    capacity - Len(tasks_) <= ComingSubmitters + NotifyingWorkers

BoundedInv == BoundedTyped /\ BoundedLocked /\ TasksNotified /\ PlacesNotified

BoundedKept == InBounded => BoundedInv

LEMMA Clients ==
  /\ \A w \in BoundedWorkers :
       w \in Bounded!Threads /\ w \notin Submitters /\ w # Main
  /\ \A s \in Submitters :
       s \in Bounded!Threads /\ s \notin BoundedWorkers /\ s # Main
  /\ Main \in Bounded!Threads /\ NoOne \notin Bounded!Threads
  /\ Bounded!Threads = BoundedWorkers \cup Submitters \cup {Main}
  /\ IsFiniteSet(BoundedWorkers) /\ IsFiniteSet(Submitters)
  /\ capacity \in Nat \ {0}
<1>1. /\ Main \notin BoundedWorkers \cup Submitters
      /\ NoOne \notin BoundedWorkers \cup Submitters
  BY PoolsAssumption
<1>2. Main # NoOne
  BY PoolAssumption DEF Threads
<1> QED
  BY <1>1, <1>2, PoolsAssumption DEF Bounded!Threads

LEMMA BoundedCountsAreNat ==
  /\ ComingWorkers \in Nat /\ NotifyingWorkers \in Nat
  /\ ComingSubmitters \in Nat /\ NotifyingSubmitters \in Nat
  BY Clients, CountIsNat
  DEF ComingWorkers, NotifyingWorkers, ComingSubmitters, NotifyingSubmitters

LEMMA NextCountsAreCounts ==
  /\ ComingWorkers' = Count(BoundedWorkers, pc', ComingAt)
  /\ NotifyingWorkers' = Count(BoundedWorkers, pc', {"notify"})
  /\ ComingSubmitters' = Count(Submitters, pc', ComingAt)
  /\ NotifyingSubmitters' = Count(Submitters, pc', {"notify"})
  BY DEF ComingWorkers, NotifyingWorkers, ComingSubmitters, NotifyingSubmitters,
         Count, Standing

LEMMA BoundedCountsNextAreNat ==
  /\ ComingWorkers' \in Nat /\ NotifyingWorkers' \in Nat
  /\ ComingSubmitters' \in Nat /\ NotifyingSubmitters' \in Nat
  /\ ComingWorkers' + NotifyingSubmitters' >= 0
  /\ ComingSubmitters' + NotifyingWorkers' >= 0
<1>1. ASSUME NEW m \in Nat, NEW n \in Nat PROVE m + n >= 0
  OBVIOUS
<1>2. /\ ComingWorkers' \in Nat /\ NotifyingWorkers' \in Nat
      /\ ComingSubmitters' \in Nat /\ NotifyingSubmitters' \in Nat
  BY NextCountsAreCounts, Clients, CountIsNat
<1> QED
  BY <1>1, <1>2

LEMMA BoundedCountsAfterGoto ==
  ASSUME BoundedTyped, NEW from, NEW to, NEW t \in Bounded!Threads,
         Bounded!Goto(t, from, to)
  PROVE  /\ ComingWorkers' = ComingWorkers +
              (IF t \in BoundedWorkers THEN Change(ComingAt, from, to) ELSE 0)
         /\ NotifyingWorkers' = NotifyingWorkers +
              (IF t \in BoundedWorkers THEN Change({"notify"}, from, to) ELSE 0)
         /\ ComingSubmitters' = ComingSubmitters +
              (IF t \in Submitters THEN Change(ComingAt, from, to) ELSE 0)
         /\ NotifyingSubmitters' = NotifyingSubmitters +
              (IF t \in Submitters THEN Change({"notify"}, from, to) ELSE 0)
<1>1. DOMAIN pc = Bounded!Threads /\ Moves(t, to, pc, pc') /\ pc[t] = from
  BY DEF BoundedTyped, Bounded!Goto, Moves
<1>2. \A S \in {BoundedWorkers, Submitters} :
        S \subseteq Bounded!Threads /\ IsFiniteSet(S)
  BY Clients
<1>3. ASSUME NEW S \in {BoundedWorkers, Submitters}, NEW L
      PROVE  Count(S, pc', L) = Count(S, pc, L) +
               (IF t \in S THEN Change(L, from, to) ELSE 0)
  <2>1. Count(S, pc', L) =
          Count(S, pc, L) +
            (IF t \notin S \/ (pc[t] \in L <=> to \in L) THEN 0
             ELSE IF to \in L THEN 1 ELSE -1)
    BY <1>1, <1>2, CountAfterMove
  <2> QED
    BY <1>1, <2>1 DEF Change
<1> QED
  BY <1>3, NextCountsAreCounts
  DEF ComingWorkers, NotifyingWorkers, ComingSubmitters, NotifyingSubmitters

(* Who notifies hands its place in the count to the sleeper that it wakes, *)
(* on the other side.                                                      *)
HandsOver(t, to, u) ==
  /\ pc[t] = "notify" /\ pc[u] = "asleep"
  /\ pc' = [pc EXCEPT ![t] = to, ![u] = "relock"]

LEMMA BoundedCountsAfterWake ==
  ASSUME BoundedTyped, NEW to, to \notin ComingAt \cup {"notify"},
         NEW S, NEW R, {S, R} = {BoundedWorkers, Submitters},
         NEW t \in S, NEW u \in R, HandsOver(t, to, u)
  PROVE  /\ Count(S, pc', ComingAt) = Count(S, pc, ComingAt)
         /\ Count(S, pc', {"notify"}) = Count(S, pc, {"notify"}) - 1
         /\ Count(R, pc', ComingAt) = Count(R, pc, ComingAt) + 1
         /\ Count(R, pc', {"notify"}) = Count(R, pc, {"notify"})
<1> DEFINE g == [pc EXCEPT ![t] = to]
<1>1. /\ S \subseteq Bounded!Threads /\ IsFiniteSet(S)
      /\ R \subseteq Bounded!Threads /\ IsFiniteSet(R)
      /\ t \notin R /\ u \notin S
  BY Clients
<1>2. /\ DOMAIN pc = Bounded!Threads /\ Moves(t, to, pc, g)
      /\ DOMAIN g = Bounded!Threads /\ Moves(u, "relock", g, pc') /\ g[u] = "asleep"
      /\ pc[t] = "notify"
  BY <1>1 DEF BoundedTyped, HandsOver, Moves
<1> HIDE DEF g
<1>3. /\ Count(S, g, ComingAt) = Count(S, pc, ComingAt) + 0
      /\ Count(S, g, {"notify"}) = Count(S, pc, {"notify"}) + -1
      /\ Count(R, g, ComingAt) = Count(R, pc, ComingAt) + 0
      /\ Count(R, g, {"notify"}) = Count(R, pc, {"notify"}) + 0
  BY <1>1, <1>2, CountAfterMove DEF ComingAt
<1>4. /\ Count(S, pc', ComingAt) = Count(S, g, ComingAt) + 0
      /\ Count(S, pc', {"notify"}) = Count(S, g, {"notify"}) + 0
      /\ Count(R, pc', ComingAt) = Count(R, g, ComingAt) + 1
      /\ Count(R, pc', {"notify"}) = Count(R, g, {"notify"}) + 0
  BY <1>1, <1>2, CountAfterMove DEF ComingAt
<1>5. /\ Count(S, pc, ComingAt) \in Nat /\ Count(S, pc, {"notify"}) \in Nat
      /\ Count(R, pc, ComingAt) \in Nat /\ Count(R, pc, {"notify"}) \in Nat
  BY <1>1, CountIsNat
<1> QED
  BY <1>3, <1>4, <1>5

LEMMA Between ==
  ASSUME NEW x \in Int, NEW y \in Int, x <= 0, y >= 0 PROVE x <= y
  OBVIOUS

LEMMA BoundedStarts == MCInit => BoundedKept
<1> SUFFICES ASSUME MCInit, InBounded PROVE BoundedInv
  BY DEF BoundedKept
<1> USE Clients
<1>1. Bounded!Init
  BY DEF MCInit, InFutures, InBounded, InStealing, InForget, InCancel
<1>2. /\ tasks_ = << >> /\ mtx_ = NoOne /\ stopping_ = FALSE
      /\ stop_or_task_cv_ = {} /\ stop_or_enq_task_cv_ = {}
      /\ pc[Main] = "dtor" /\ \A w \in BoundedWorkers : pc[w] = "lock"
      /\ \A s \in Submitters : pc[s] = "start"
  BY <1>1 DEF Bounded!Init
<1>3. /\ pc \in [Bounded!Threads -> Bounded!Locations]
      /\ task \in [BoundedWorkers -> Submitters \cup {NoTask}]
  BY <1>1 DEF Bounded!Init, Bounded!Locations
<1>4. BoundedTyped
  <2>1. /\ stop_or_task_cv_ = {w \in BoundedWorkers : pc[w] = "asleep"}
        /\ stop_or_enq_task_cv_ = {s \in Submitters : pc[s] = "asleep"}
    BY <1>2
  <2>2. tasks_ \in Seq(Submitters) /\ Len(tasks_) <= capacity
    BY <1>2
  <2> QED
    BY <1>2, <1>3, <2>1, <2>2 DEF BoundedTyped, ComingAt
<1>5. BoundedLocked
  <2>1. \A t \in Bounded!Threads : pc[t] \notin {"locked", "dtor_locked"} /\ mtx_ # t
    BY <1>2
  <2>2. stopping_ <=> pc[Main] \notin {"dtor", "dtor_locked"}
    BY <1>2
  <2> QED
    BY <1>2, <2>1, <2>2 DEF BoundedLocked
<1>6. TasksNotified /\ PlacesNotified
  BY <1>2 DEF TasksNotified, PlacesNotified
<1> QED
  BY <1>4, <1>5, <1>6 DEF BoundedInv

LEMMA BoundedTypedKept == BoundedInv /\ (Bounded!Next \/ UNCHANGED Bounded!vars) => BoundedTyped' /\ BoundedLocked'
<1> SUFFICES ASSUME BoundedInv, Bounded!Next \/ UNCHANGED Bounded!vars
             PROVE  BoundedTyped' /\ BoundedLocked'
  OBVIOUS
<1> USE Clients DEF BoundedInv, BoundedTyped, BoundedLocked, Bounded!Locations,
    ComingAt, Bounded!Goto, Bounded!Release, Bounded!destroyed
<1>1. ASSUME NEW t \in Bounded!Threads \ {Main}, Bounded!Lock(t) PROVE BoundedTyped' /\ BoundedLocked'
  BY <1>1 DEF Bounded!Lock
<1>2. ASSUME NEW w \in BoundedWorkers, Bounded!WorkerWait(w) PROVE BoundedTyped' /\ BoundedLocked'
  BY <1>2 DEF Bounded!WorkerWait
<1>3. ASSUME NEW w \in BoundedWorkers, Bounded!WorkerWakes(w) PROVE BoundedTyped' /\ BoundedLocked'
  BY <1>3 DEF Bounded!WorkerWakes
<1>4. ASSUME NEW w \in BoundedWorkers, Bounded!WorkerExits(w) PROVE BoundedTyped' /\ BoundedLocked'
  BY <1>4 DEF Bounded!WorkerExits
<1>5. ASSUME NEW w \in BoundedWorkers, Bounded!TakeTask(w) PROVE BoundedTyped' /\ BoundedLocked'
  <2>1. /\ Head(tasks_) \in Submitters /\ tasks_' \in Seq(Submitters)
        /\ Len(tasks_') <= capacity
    BY <1>5, HeadTailProperties DEF Bounded!TakeTask
  <2> QED
    BY <1>5, <2>1 DEF Bounded!TakeTask
<1>6. ASSUME NEW w \in BoundedWorkers, Bounded!NotifySubmitter(w) PROVE BoundedTyped' /\ BoundedLocked'
  BY <1>6 DEF Bounded!NotifySubmitter
<1>7. ASSUME NEW w \in BoundedWorkers, Bounded!RunTask(w) PROVE BoundedTyped' /\ BoundedLocked'
  BY <1>7 DEF Bounded!RunTask
<1>8. ASSUME NEW s \in Submitters, Bounded!Call(s) PROVE BoundedTyped' /\ BoundedLocked'
  BY <1>8 DEF Bounded!Call
<1>9. ASSUME NEW s \in Submitters, Bounded!SubmitWait(s) PROVE BoundedTyped' /\ BoundedLocked'
  BY <1>9 DEF Bounded!SubmitWait
<1>10. ASSUME NEW s \in Submitters, Bounded!SubmitterWakes(s) PROVE BoundedTyped' /\ BoundedLocked'
  BY <1>10 DEF Bounded!SubmitterWakes
<1>11. ASSUME NEW s \in Submitters, Bounded!SubmitThrows(s) PROVE BoundedTyped' /\ BoundedLocked'
  BY <1>11 DEF Bounded!SubmitThrows
<1>12. ASSUME NEW s \in Submitters, Bounded!Enqueue(s) PROVE BoundedTyped' /\ BoundedLocked'
  BY <1>12 DEF Bounded!Enqueue, Bounded!HasSpace
<1>13. ASSUME NEW s \in Submitters, Bounded!NotifyWorker(s) PROVE BoundedTyped' /\ BoundedLocked'
  BY <1>13 DEF Bounded!NotifyWorker
<1>14. ASSUME Bounded!DtorLock PROVE BoundedTyped' /\ BoundedLocked'
  BY <1>14 DEF Bounded!DtorLock
<1>15. ASSUME Bounded!DtorStops PROVE BoundedTyped' /\ BoundedLocked'
  BY <1>15 DEF Bounded!DtorStops
<1>16. ASSUME Bounded!DtorNotifyWorkers PROVE BoundedTyped' /\ BoundedLocked'
  BY <1>16 DEF Bounded!DtorNotifyWorkers, Bounded!NotifyAll
<1>17. ASSUME Bounded!DtorNotifySubmitters PROVE BoundedTyped' /\ BoundedLocked'
  BY <1>17 DEF Bounded!DtorNotifySubmitters, Bounded!NotifyAll
<1>18. ASSUME Bounded!DtorJoined PROVE BoundedTyped' /\ BoundedLocked'
  BY <1>18 DEF Bounded!DtorJoined
<1>19. CASE UNCHANGED Bounded!vars
  BY <1>19 DEF Bounded!vars
<1> QED
  BY <1>1, <1>2, <1>3, <1>4, <1>5, <1>6, <1>7, <1>8, <1>9, <1>10, <1>11, <1>12, <1>13, <1>14, <1>15, <1>16, <1>17, <1>18, <1>19, Clients
  DEF Bounded!Next, Bounded!worker, Bounded!submit, Bounded!dtor, Bounded!Gone

LEMMA BoundedNotified == BoundedInv /\ (Bounded!Next \/ UNCHANGED Bounded!vars) => TasksNotified' /\ PlacesNotified'
<1> SUFFICES ASSUME BoundedInv, Bounded!Next \/ UNCHANGED Bounded!vars
             PROVE  TasksNotified' /\ PlacesNotified'
  OBVIOUS
<1> USE Clients, BoundedCountsAreNat, BoundedCountsNextAreNat
    DEF BoundedInv, TasksNotified, PlacesNotified
<1>n. Len(tasks_) \in Nat /\ BoundedTyped
  BY DEF BoundedTyped
<1>1. ASSUME NEW t \in Bounded!Threads \ {Main}, Bounded!Lock(t) PROVE TasksNotified' /\ PlacesNotified'
  <2>1. PICK from \in {"lock", "relock"} :
          Bounded!Goto(t, from, "locked")
    BY <1>1 DEF Bounded!Lock
  <2>2. /\ ComingWorkers' = ComingWorkers /\ NotifyingWorkers' = NotifyingWorkers
        /\ ComingSubmitters' = ComingSubmitters
        /\ NotifyingSubmitters' = NotifyingSubmitters
    BY <1>n, <2>1, BoundedCountsAfterGoto DEF Change, ComingAt
  <2>3. Len(tasks_') = Len(tasks_) /\ stopping_' = stopping_
    BY <1>1 DEF Bounded!Lock
  <2>4. \A u \in BoundedWorkers \cup Submitters : pc'[u] = "asleep" => pc[u] = "asleep"
    BY <2>1 DEF BoundedTyped, Bounded!Goto
  <2> QED
    BY <1>n, <2>2, <2>3, <2>4
<1>2. ASSUME NEW w \in BoundedWorkers, Bounded!WorkerWait(w) PROVE TasksNotified' /\ PlacesNotified'
  <2>1. Bounded!Goto(w, "locked", "asleep")
    BY <1>2 DEF Bounded!WorkerWait
  <2>2. /\ ComingWorkers' = ComingWorkers - 1 /\ NotifyingWorkers' = NotifyingWorkers
        /\ ComingSubmitters' = ComingSubmitters /\ NotifyingSubmitters' = NotifyingSubmitters
    BY <1>n, <2>1, BoundedCountsAfterGoto DEF Change, ComingAt
  <2>3. Len(tasks_') = Len(tasks_)
    BY <1>2 DEF Bounded!WorkerWait, BoundedTyped
  <2>4. Len(tasks_') = 0 /\ stopping_' = stopping_
    BY <1>2 DEF Bounded!WorkerWait
  <2>5. \A u \in Submitters : pc'[u] = "asleep" => pc[u] = "asleep"
    BY <2>1 DEF BoundedTyped, Bounded!Goto
  <2> QED
    BY <1>n, <2>2, <2>3, <2>4, <2>5
<1>3. ASSUME NEW w \in BoundedWorkers, Bounded!WorkerWakes(w) PROVE TasksNotified' /\ PlacesNotified'
  <2>1. Bounded!Goto(w, "asleep", "relock")
    BY <1>3 DEF Bounded!WorkerWakes
  <2>2. /\ ComingWorkers' = ComingWorkers + 1 /\ NotifyingWorkers' = NotifyingWorkers
        /\ ComingSubmitters' = ComingSubmitters /\ NotifyingSubmitters' = NotifyingSubmitters
    BY <1>n, <2>1, BoundedCountsAfterGoto DEF Change, ComingAt
  <2>3. Len(tasks_') = Len(tasks_)
    BY <1>3 DEF Bounded!WorkerWakes, BoundedTyped
  <2>4. stopping_ => stopping_'
    BY <1>3 DEF Bounded!WorkerWakes
  <2>5. \A u \in BoundedWorkers \cup Submitters : pc'[u] = "asleep" => pc[u] = "asleep"
    BY <2>1 DEF BoundedTyped, Bounded!Goto
  <2> QED
    BY <1>n, <2>2, <2>3, <2>4, <2>5
<1>4. ASSUME NEW w \in BoundedWorkers, Bounded!WorkerExits(w) PROVE TasksNotified' /\ PlacesNotified'
  <2>1. Bounded!Goto(w, "locked", "exited")
    BY <1>4 DEF Bounded!WorkerExits
  <2>2. /\ ComingWorkers' = ComingWorkers - 1 /\ NotifyingWorkers' = NotifyingWorkers
        /\ ComingSubmitters' = ComingSubmitters /\ NotifyingSubmitters' = NotifyingSubmitters
    BY <1>n, <2>1, BoundedCountsAfterGoto DEF Change, ComingAt
  <2>3. Len(tasks_') = Len(tasks_)
    BY <1>4 DEF Bounded!WorkerExits, BoundedTyped
  <2>4. Len(tasks_') = 0 /\ stopping_'
    BY <1>4 DEF Bounded!WorkerExits
  <2> QED
    BY <2>4
<1>5. ASSUME NEW w \in BoundedWorkers, Bounded!TakeTask(w) PROVE TasksNotified' /\ PlacesNotified'
  <2>1. Bounded!Goto(w, "locked", "notify")
    BY <1>5 DEF Bounded!TakeTask
  <2>2. /\ ComingWorkers' = ComingWorkers - 1 /\ NotifyingWorkers' = NotifyingWorkers + 1
        /\ ComingSubmitters' = ComingSubmitters /\ NotifyingSubmitters' = NotifyingSubmitters
    BY <1>n, <2>1, BoundedCountsAfterGoto DEF Change, ComingAt
  <2>3. Len(tasks_') = Len(tasks_) - 1
    BY <1>5, HeadTailProperties DEF Bounded!TakeTask, BoundedTyped
  <2>4. stopping_ => stopping_'
    BY <1>5 DEF Bounded!TakeTask
  <2>5. \A u \in BoundedWorkers \cup Submitters : pc'[u] = "asleep" => pc[u] = "asleep"
    BY <2>1 DEF BoundedTyped, Bounded!Goto
  <2>6. TasksNotified'
    BY <1>n, <2>2, <2>3, <2>5
  <2>7. PlacesNotified'
    BY <1>n, <2>2, <2>3, <2>4, <2>5
  <2> QED
    BY <2>6, <2>7
<1>6. ASSUME NEW w \in BoundedWorkers, Bounded!NotifySubmitter(w) PROVE TasksNotified' /\ PlacesNotified'
  <2>1. Len(tasks_') = Len(tasks_) /\ stopping_' = stopping_
    BY <1>6 DEF Bounded!NotifySubmitter
  <2>2. ASSUME stop_or_enq_task_cv_ = {}, Bounded!Goto(w, "notify", "run")
        PROVE  TasksNotified' /\ PlacesNotified'
    <3>1. /\ ComingWorkers' = ComingWorkers /\ ComingSubmitters' = ComingSubmitters
          /\ NotifyingWorkers' = NotifyingWorkers - 1 /\ NotifyingSubmitters' = NotifyingSubmitters
      BY <1>n, <2>2, BoundedCountsAfterGoto DEF Change, ComingAt
    <3>2. \A u \in BoundedWorkers : pc'[u] = "asleep" => pc[u] = "asleep"
      BY <2>2 DEF BoundedTyped, Bounded!Goto
    <3>3. \A u \in Submitters : pc'[u] # "asleep"
      BY <2>2 DEF BoundedTyped, Bounded!Goto
    <3> QED
      BY <1>n, <2>1, <3>1, <3>2, <3>3
  <2>3. ASSUME NEW u \in stop_or_enq_task_cv_, pc[w] = "notify",
               pc' = [pc EXCEPT ![w] = "run", ![u] = "relock"]
        PROVE  TasksNotified' /\ PlacesNotified'
    <3>1. u \in Submitters /\ pc[u] = "asleep"
      BY <2>3 DEF BoundedTyped
    <3>2. /\ ComingWorkers' = ComingWorkers /\ ComingSubmitters' = ComingSubmitters + 1
          /\ NotifyingWorkers' = NotifyingWorkers - 1 /\ NotifyingSubmitters' = NotifyingSubmitters
      <4>1. "run" \notin ComingAt \cup {"notify"}
        BY DEF ComingAt
      <4>2. {BoundedWorkers, Submitters} = {BoundedWorkers, Submitters}
        OBVIOUS
      <4>3. HandsOver(w, "run", u)
        BY <2>3, <3>1 DEF HandsOver
      <4> QED
        BY <1>n, <3>1, <4>1, <4>2, <4>3, BoundedCountsAfterWake, NextCountsAreCounts
        DEF ComingWorkers, NotifyingWorkers, ComingSubmitters, NotifyingSubmitters
    <3>3. \A x \in BoundedWorkers \cup Submitters : pc'[x] = "asleep" => pc[x] = "asleep"
      BY <2>3 DEF BoundedTyped
    <3> QED
      BY <1>n, <2>1, <3>1, <3>2, <3>3
  <2> QED
    BY <1>6, <2>2, <2>3 DEF Bounded!NotifySubmitter
<1>7. ASSUME NEW w \in BoundedWorkers, Bounded!RunTask(w) PROVE TasksNotified' /\ PlacesNotified'
  <2>1. Bounded!Goto(w, "run", "lock")
    BY <1>7 DEF Bounded!RunTask
  <2>2. /\ ComingWorkers' = ComingWorkers + 1 /\ NotifyingWorkers' = NotifyingWorkers
        /\ ComingSubmitters' = ComingSubmitters /\ NotifyingSubmitters' = NotifyingSubmitters
    BY <1>n, <2>1, BoundedCountsAfterGoto DEF Change, ComingAt
  <2>3. Len(tasks_') = Len(tasks_)
    BY <1>7 DEF Bounded!RunTask, BoundedTyped
  <2>4. stopping_ => stopping_'
    BY <1>7 DEF Bounded!RunTask
  <2>5. \A u \in BoundedWorkers \cup Submitters : pc'[u] = "asleep" => pc[u] = "asleep"
    BY <2>1 DEF BoundedTyped, Bounded!Goto
  <2> QED
    BY <1>n, <2>2, <2>3, <2>4, <2>5
<1>8. ASSUME NEW s \in Submitters, Bounded!Call(s) PROVE TasksNotified' /\ PlacesNotified'
  <2>1. Bounded!Goto(s, "start", "lock")
    BY <1>8 DEF Bounded!Call
  <2>2. /\ ComingWorkers' = ComingWorkers /\ NotifyingWorkers' = NotifyingWorkers
        /\ ComingSubmitters' = ComingSubmitters + 1 /\ NotifyingSubmitters' = NotifyingSubmitters
    BY <1>n, <2>1, BoundedCountsAfterGoto DEF Change, ComingAt
  <2>3. Len(tasks_') = Len(tasks_)
    BY <1>8 DEF Bounded!Call, BoundedTyped
  <2>4. stopping_ => stopping_'
    BY <1>8 DEF Bounded!Call
  <2>5. \A u \in BoundedWorkers \cup Submitters : pc'[u] = "asleep" => pc[u] = "asleep"
    BY <2>1 DEF BoundedTyped, Bounded!Goto
  <2> QED
    BY <1>n, <2>2, <2>3, <2>4, <2>5
<1>9. ASSUME NEW s \in Submitters, Bounded!SubmitWait(s) PROVE TasksNotified' /\ PlacesNotified'
  <2>1. Bounded!Goto(s, "locked", "asleep")
    BY <1>9 DEF Bounded!SubmitWait
  <2>2. /\ ComingWorkers' = ComingWorkers /\ NotifyingWorkers' = NotifyingWorkers
        /\ ComingSubmitters' = ComingSubmitters - 1 /\ NotifyingSubmitters' = NotifyingSubmitters
    BY <1>n, <2>1, BoundedCountsAfterGoto DEF Change, ComingAt
  <2>3. Len(tasks_') = Len(tasks_)
    BY <1>9 DEF Bounded!SubmitWait, BoundedTyped
  <2>4. capacity - Len(tasks_') <= 0 /\ stopping_' = stopping_
    BY <1>n, <1>9 DEF Bounded!SubmitWait, Bounded!HasSpace
  <2>5. \A u \in BoundedWorkers : pc'[u] = "asleep" => pc[u] = "asleep"
    BY <2>1 DEF BoundedTyped, Bounded!Goto
  <2>6. TasksNotified'
    BY <1>n, <2>2, <2>3, <2>5
  <2>7. capacity - Len(tasks_') \in Int
    BY <1>n, <2>3
  <2>8. ComingSubmitters' + NotifyingWorkers' \in Int
    BY <1>n, <2>2
  <2> QED
    BY <2>4, <2>6, <2>7, <2>8, Between
<1>10. ASSUME NEW s \in Submitters, Bounded!SubmitterWakes(s) PROVE TasksNotified' /\ PlacesNotified'
  <2>1. Bounded!Goto(s, "asleep", "relock")
    BY <1>10 DEF Bounded!SubmitterWakes
  <2>2. /\ ComingWorkers' = ComingWorkers /\ NotifyingWorkers' = NotifyingWorkers
        /\ ComingSubmitters' = ComingSubmitters + 1 /\ NotifyingSubmitters' = NotifyingSubmitters
    BY <1>n, <2>1, BoundedCountsAfterGoto DEF Change, ComingAt
  <2>3. Len(tasks_') = Len(tasks_)
    BY <1>10 DEF Bounded!SubmitterWakes, BoundedTyped
  <2>4. stopping_ => stopping_'
    BY <1>10 DEF Bounded!SubmitterWakes
  <2>5. \A u \in BoundedWorkers \cup Submitters : pc'[u] = "asleep" => pc[u] = "asleep"
    BY <2>1 DEF BoundedTyped, Bounded!Goto
  <2> QED
    BY <1>n, <2>2, <2>3, <2>4, <2>5
<1>11. ASSUME NEW s \in Submitters, Bounded!SubmitThrows(s) PROVE TasksNotified' /\ PlacesNotified'
  <2>1. Bounded!Goto(s, "locked", "thrown")
    BY <1>11 DEF Bounded!SubmitThrows
  <2>2. /\ ComingWorkers' = ComingWorkers /\ NotifyingWorkers' = NotifyingWorkers
        /\ ComingSubmitters' = ComingSubmitters - 1 /\ NotifyingSubmitters' = NotifyingSubmitters
    BY <1>n, <2>1, BoundedCountsAfterGoto DEF Change, ComingAt
  <2>3. Len(tasks_') = Len(tasks_)
    BY <1>11 DEF Bounded!SubmitThrows, BoundedTyped
  <2>4. stopping_ => stopping_'
    BY <1>11 DEF Bounded!SubmitThrows, BoundedLocked
  <2>5. \A u \in BoundedWorkers \cup Submitters : pc'[u] = "asleep" => pc[u] = "asleep"
    BY <2>1 DEF BoundedTyped, Bounded!Goto
  <2>6. stopping_'
    BY <1>11 DEF Bounded!SubmitThrows
  <2> QED
    BY <1>n, <2>2, <2>3, <2>5, <2>6
<1>12. ASSUME NEW s \in Submitters, Bounded!Enqueue(s) PROVE TasksNotified' /\ PlacesNotified'
  <2>1. Bounded!Goto(s, "locked", "notify")
    BY <1>12 DEF Bounded!Enqueue
  <2>2. /\ ComingWorkers' = ComingWorkers /\ NotifyingWorkers' = NotifyingWorkers
        /\ ComingSubmitters' = ComingSubmitters - 1 /\ NotifyingSubmitters' = NotifyingSubmitters + 1
    BY <1>n, <2>1, BoundedCountsAfterGoto DEF Change, ComingAt
  <2>3. Len(tasks_') = Len(tasks_) + 1
    BY <1>12 DEF Bounded!Enqueue, BoundedTyped
  <2>4. stopping_ => stopping_'
    BY <1>12 DEF Bounded!Enqueue
  <2>5. \A u \in BoundedWorkers \cup Submitters : pc'[u] = "asleep" => pc[u] = "asleep"
    BY <2>1 DEF BoundedTyped, Bounded!Goto
  <2> QED
    BY <1>n, <2>2, <2>3, <2>4, <2>5
<1>13. ASSUME NEW s \in Submitters, Bounded!NotifyWorker(s) PROVE TasksNotified' /\ PlacesNotified'
  <2>1. Len(tasks_') = Len(tasks_) /\ stopping_' = stopping_
    BY <1>13 DEF Bounded!NotifyWorker
  <2>2. ASSUME stop_or_task_cv_ = {}, Bounded!Goto(s, "notify", "accepted")
        PROVE  TasksNotified' /\ PlacesNotified'
    <3>1. /\ ComingSubmitters' = ComingSubmitters /\ ComingWorkers' = ComingWorkers
          /\ NotifyingSubmitters' = NotifyingSubmitters - 1 /\ NotifyingWorkers' = NotifyingWorkers
      BY <1>n, <2>2, BoundedCountsAfterGoto DEF Change, ComingAt
    <3>2. \A u \in Submitters : pc'[u] = "asleep" => pc[u] = "asleep"
      BY <2>2 DEF BoundedTyped, Bounded!Goto
    <3>3. \A u \in BoundedWorkers : pc'[u] # "asleep"
      BY <2>2 DEF BoundedTyped, Bounded!Goto
    <3> QED
      BY <1>n, <2>1, <3>1, <3>2, <3>3
  <2>3. ASSUME NEW u \in stop_or_task_cv_, pc[s] = "notify",
               pc' = [pc EXCEPT ![s] = "accepted", ![u] = "relock"]
        PROVE  TasksNotified' /\ PlacesNotified'
    <3>1. u \in BoundedWorkers /\ pc[u] = "asleep"
      BY <2>3 DEF BoundedTyped
    <3>2. /\ ComingSubmitters' = ComingSubmitters /\ ComingWorkers' = ComingWorkers + 1
          /\ NotifyingSubmitters' = NotifyingSubmitters - 1 /\ NotifyingWorkers' = NotifyingWorkers
      <4>1. "accepted" \notin ComingAt \cup {"notify"}
        BY DEF ComingAt
      <4>2. {Submitters, BoundedWorkers} = {BoundedWorkers, Submitters}
        OBVIOUS
      <4>3. HandsOver(s, "accepted", u)
        BY <2>3, <3>1 DEF HandsOver
      <4> QED
        BY <1>n, <3>1, <4>1, <4>2, <4>3, BoundedCountsAfterWake, NextCountsAreCounts
        DEF ComingWorkers, NotifyingWorkers, ComingSubmitters, NotifyingSubmitters
    <3>3. \A x \in BoundedWorkers \cup Submitters : pc'[x] = "asleep" => pc[x] = "asleep"
      BY <2>3 DEF BoundedTyped
    <3> QED
      BY <1>n, <2>1, <3>1, <3>2, <3>3
  <2> QED
    BY <1>13, <2>2, <2>3 DEF Bounded!NotifyWorker
<1>14. ASSUME Bounded!DtorLock PROVE TasksNotified' /\ PlacesNotified'
  <2>1. Bounded!Goto(Main, "dtor", "dtor_locked")
    BY <1>14 DEF Bounded!DtorLock
  <2>2. /\ ComingWorkers' = ComingWorkers /\ NotifyingWorkers' = NotifyingWorkers
        /\ ComingSubmitters' = ComingSubmitters /\ NotifyingSubmitters' = NotifyingSubmitters
    BY <1>n, <2>1, BoundedCountsAfterGoto DEF Change, ComingAt
  <2>3. Len(tasks_') = Len(tasks_)
    BY <1>14 DEF Bounded!DtorLock, BoundedTyped
  <2>4. stopping_ => stopping_'
    BY <1>14 DEF Bounded!DtorLock
  <2>5. \A u \in BoundedWorkers \cup Submitters : pc'[u] = "asleep" => pc[u] = "asleep"
    BY <2>1 DEF BoundedTyped, Bounded!Goto
  <2> QED
    BY <1>n, <2>2, <2>3, <2>4, <2>5
<1>15. ASSUME Bounded!DtorStops PROVE TasksNotified' /\ PlacesNotified'
  <2>1. Bounded!Goto(Main, "dtor_locked", "notify_workers")
    BY <1>15 DEF Bounded!DtorStops
  <2>2. /\ ComingWorkers' = ComingWorkers /\ NotifyingWorkers' = NotifyingWorkers
        /\ ComingSubmitters' = ComingSubmitters /\ NotifyingSubmitters' = NotifyingSubmitters
    BY <1>n, <2>1, BoundedCountsAfterGoto DEF Change, ComingAt
  <2>3. Len(tasks_') = Len(tasks_)
    BY <1>15 DEF Bounded!DtorStops, BoundedTyped
  <2>4. stopping_ => stopping_'
    BY <1>15 DEF Bounded!DtorStops
  <2>5. \A u \in BoundedWorkers \cup Submitters : pc'[u] = "asleep" => pc[u] = "asleep"
    BY <2>1 DEF BoundedTyped, Bounded!Goto
  <2> QED
    BY <1>n, <2>2, <2>3, <2>4, <2>5
<1>16. ASSUME Bounded!DtorNotifyWorkers PROVE TasksNotified' /\ PlacesNotified'
  <2>1. /\ stopping_'
        /\ \A w \in BoundedWorkers : pc'[w] # "asleep"
    BY <1>16 DEF Bounded!DtorNotifyWorkers, Bounded!NotifyAll, BoundedTyped, BoundedLocked
  <2> QED
    BY <2>1
<1>17. ASSUME Bounded!DtorNotifySubmitters PROVE TasksNotified' /\ PlacesNotified'
  <2>1. /\ stopping_' /\ pc[Main] = "notify_submitters"
        /\ \A w \in BoundedWorkers : pc'[w] # "asleep"
    BY <1>17 DEF Bounded!DtorNotifySubmitters, Bounded!NotifyAll, BoundedTyped, BoundedLocked
  <2> QED
    BY <2>1
<1>18. ASSUME Bounded!DtorJoined PROVE TasksNotified' /\ PlacesNotified'
  <2>1. Bounded!Goto(Main, "join", "destroyed")
    BY <1>18 DEF Bounded!DtorJoined
  <2>2. /\ ComingWorkers' = ComingWorkers /\ NotifyingWorkers' = NotifyingWorkers
        /\ ComingSubmitters' = ComingSubmitters /\ NotifyingSubmitters' = NotifyingSubmitters
    BY <1>n, <2>1, BoundedCountsAfterGoto DEF Change, ComingAt
  <2>3. Len(tasks_') = Len(tasks_)
    BY <1>18 DEF Bounded!DtorJoined, BoundedTyped
  <2>4. stopping_ => stopping_'
    BY <1>18 DEF Bounded!DtorJoined
  <2>5. \A u \in BoundedWorkers \cup Submitters : pc'[u] = "asleep" => pc[u] = "asleep"
    BY <2>1 DEF BoundedTyped, Bounded!Goto
  <2> QED
    BY <1>n, <2>2, <2>3, <2>4, <2>5
<1>19. CASE UNCHANGED Bounded!vars
  BY <1>19 DEF Bounded!vars, ComingWorkers, NotifyingWorkers,
     ComingSubmitters, NotifyingSubmitters
<1> QED
  BY <1>1, <1>2, <1>3, <1>4, <1>5, <1>6, <1>7, <1>8, <1>9, <1>10, <1>11, <1>12, <1>13, <1>14, <1>15, <1>16, <1>17, <1>18, <1>19, Clients
  DEF Bounded!Next, Bounded!worker, Bounded!submit, Bounded!dtor, Bounded!Gone

LEMMA BoundedCorrect == BoundedInv => Bounded!PoolInv
<1> SUFFICES ASSUME BoundedInv PROVE Bounded!PoolInv
  OBVIOUS
<1> USE Clients DEF BoundedInv
<1>1. Bounded!TypeOK
  BY DEF BoundedTyped, Bounded!TypeOK
<1>2. /\ Bounded!At(BoundedWorkers, {"lock", "relock", "locked"}) = ComingWorkers
      /\ Bounded!At(Submitters, {"lock", "relock", "locked"}) = ComingSubmitters
      /\ Bounded!At(BoundedWorkers, {"notify"}) = NotifyingWorkers
      /\ Bounded!At(Submitters, {"notify"}) = NotifyingSubmitters
  BY DEF Bounded!At, Bounded!Cardinality, Cardinality, ComingAt, Count, Standing,
         ComingWorkers, ComingSubmitters, NotifyingWorkers, NotifyingSubmitters
<1>3. Bounded!NoTaskForgotten
  BY <1>2 DEF Bounded!NoTaskForgotten, TasksNotified, BoundedTyped
<1>4. Bounded!NoPlaceForgotten
  BY <1>2 DEF Bounded!NoPlaceForgotten, PlacesNotified, BoundedTyped
<1>5. Bounded!NobodySleepsThroughStop
  BY DEF Bounded!NobodySleepsThroughStop, BoundedLocked, BoundedTyped
<1> QED
  BY <1>1, <1>3, <1>4, <1>5 DEF Bounded!PoolInv

LEMMA BoundedInvHolds == MCSpec => []BoundedKept
<1>1. BoundedKept /\ [MCNext]_allVars => BoundedKept'
  <2> SUFFICES ASSUME BoundedKept, [MCNext]_allVars, InBounded' PROVE BoundedInv'
    BY DEF BoundedKept
  <2>1. InBounded /\ BoundedInv
    BY OneProgram DEF InBounded, BoundedKept
  <2>2. Bounded!Next \/ UNCHANGED Bounded!vars
    BY <2>1, OneProgram DEF allVars, queueVars, lockVars, Bounded!vars
  <2> QED
    BY <2>1, <2>2, BoundedTypedKept, BoundedNotified DEF BoundedInv
<1> QED
  BY <1>1, BoundedStarts, PTL DEF MCSpec

-----------------------------------------------------------------------------
(* The fire-and-forget pool                                                *)

ForgetCV == Forget!stop_or_task_cv_

Ready == {w \in Forget!threads_ : Forget!At(w, "wait")}

ForgetMain == pc[Forget!main_thread]

(* The stop is set before main notifies all, and a worker that finds it    *)
(* set does not go to sleep.                                               *)
ForgetInv ==
  /\ DOMAIN pc = Forget!PoolThreads
  /\ \A w \in Forget!threads_ : pc[w] \in {"wait", "run", "returned"}
  /\ ForgetMain \in {"put", "notify", "notify_all", "join", "joined"}
  /\ asleep \in [{ForgetCV} -> SUBSET Forget!threads_]
  /\ \A w \in asleep[ForgetCV] : pc[w] = "wait"
  /\ tasks_ \in Seq(Nat) /\ completed \in Nat
  /\ stopping_ <=> ForgetMain \in {"notify_all", "join", "joined"}
  /\ asleep[ForgetCV] # {} =>
       Len(tasks_) <= Cardinality(Ready) + (IF ForgetMain = "put" THEN 0 ELSE 1)
  /\ ForgetMain \in {"join", "joined"} => asleep[ForgetCV] = {}

ForgetKept == InForget => ForgetInv

LEMMA ForgetPeople ==
  /\ Forget!main_thread \notin Forget!threads_
  /\ Forget!PoolThreads = Forget!threads_ \cup {Forget!main_thread}
  /\ IsFiniteSet(Forget!threads_)
<1>1. 1 \in Int /\ ForgetWorkers \in Int
  BY PoolsAssumption
<1>2. IsFiniteSet({"worker"}) /\ IsFiniteSet(1..ForgetWorkers)
  BY <1>1, FS_Singleton, FS_Interval
<1> QED
  BY <1>2, FS_Product DEF Forget!main_thread, Forget!threads_, Forget!PoolThreads

LEMMA ReadyIsFinite ==
  /\ IsFiniteSet(Ready) /\ IsFiniteSet(Ready')
  /\ Cardinality(Ready) \in Nat /\ Cardinality(Ready') \in Nat
  /\ \A w : w \in Ready /\ Ready' = Ready \ {w} => Cardinality(Ready') = Cardinality(Ready) - 1
  /\ \A w : w \notin Ready /\ Ready' = Ready \cup {w} => Cardinality(Ready') = Cardinality(Ready) + 1
<1>1. Ready \subseteq Forget!threads_ /\ Ready' \subseteq Forget!threads_
  BY DEF Ready
<1>2. IsFiniteSet(Ready) /\ IsFiniteSet(Ready')
  BY <1>1, ForgetPeople, FS_Subset
<1>3. Cardinality(Ready) \in Nat /\ Cardinality(Ready') \in Nat
  BY <1>2, FS_CardinalityType
<1>4. ASSUME NEW w, w \in Ready, Ready' = Ready \ {w}
      PROVE  Cardinality(Ready') = Cardinality(Ready) - 1
  BY <1>2, <1>4, FS_RemoveElement
<1>5. ASSUME NEW w, w \notin Ready, Ready' = Ready \cup {w}
      PROVE  Cardinality(Ready') = Cardinality(Ready) + 1
  BY <1>2, <1>5, FS_AddElement
<1> QED
  BY <1>2, <1>3, <1>4, <1>5

LEMMA RunningIsFinite == Cardinality(Forget!Running) \in Nat
<1> DEFINE V == {v \in Forget!threads_ : pc[v] = "run"}
           f == [v \in V |-> task[v]]
<1>1. f \in Surjection(V, Forget!Running)
  BY DEF Surjection, Forget!Running
<1>2. IsFiniteSet(V)
  BY ForgetPeople, FS_Subset
<1> QED
  BY <1>1, <1>2, FS_Surjection, FS_CardinalityType

LEMMA ForgetStarts == MCInit => ForgetKept
<1> SUFFICES ASSUME MCInit, InForget PROVE ForgetInv
  BY DEF ForgetKept
<1>1. Forget!Init
  BY DEF MCInit, InFutures, InBounded, InStealing, InForget, InCancel
<1> QED
  BY <1>1, ForgetPeople DEF Forget!Init, ForgetInv, ForgetCV, ForgetMain

LEMMA ForgetStep ==
  ASSUME ForgetInv, Forget!Spurious \/ \E t \in Forget!PoolThreads : Forget!Step(t)
  PROVE  ForgetInv'
<1> USE ForgetPeople, ReadyIsFinite
    DEF ForgetInv, ForgetMain, ForgetCV, Forget!Move, Forget!Goto, Forget!At,
        Forget!Awake, Forget!poolVars
<1>0. Len(tasks_) \in Nat /\ asleep[ForgetCV] \in SUBSET Forget!threads_
  OBVIOUS
<1>1. ASSUME NEW w \in Forget!threads_, Forget!Wait(w) PROVE ForgetInv'
  <2>1. /\ pc[w] = "wait" /\ pc' = pc /\ tasks_ = << >> /\ tasks_' = tasks_
        /\ stopping_' = stopping_ /\ ~stopping_ /\ completed' = completed
        /\ asleep' = [asleep EXCEPT ![ForgetCV] = @ \cup {w}]
    BY <1>1 DEF Forget!Wait, Forget!Sleep
  <2>2. Len(tasks_') = 0
    BY <2>1
  <2>3. Len(tasks_') <= Cardinality(Ready') + (IF ForgetMain = "put" THEN 0 ELSE 1)
    BY <2>2
  <2> QED
    BY <2>1, <2>3
<1>2. ASSUME NEW w \in Forget!threads_, Forget!Return(w) PROVE ForgetInv'
  <2>1. Len(tasks_') = 0
    BY <1>2 DEF Forget!Return
  <2>2. Len(tasks_') <= Cardinality(Ready') + (IF ForgetMain = "put" THEN 0 ELSE 1)
    BY <2>1
  <2> QED
    BY <1>2, <2>2 DEF Forget!Return
<1>3. ASSUME NEW w \in Forget!threads_, Forget!Pick(w) PROVE ForgetInv'
  <2>1. w \in Ready /\ Ready' = Ready \ {w}
    BY <1>3 DEF Forget!Pick, Ready
  <2>2. tasks_' \in Seq(Nat) /\ Len(tasks_') = Len(tasks_) - 1
    BY <1>3, TailElements DEF Forget!Pick
  <2>3. Cardinality(Ready') = Cardinality(Ready) - 1
    BY <2>1
  <2> QED
    BY <1>0, <1>3, <2>2, <2>3 DEF Forget!Pick
<1>4. ASSUME NEW w \in Forget!threads_, Forget!Run(w) PROVE ForgetInv'
  <2>1. w \notin Ready /\ Ready' = Ready \cup {w}
    BY <1>4 DEF Forget!Run, Ready
  <2>2. Cardinality(Ready') = Cardinality(Ready) + 1
    BY <2>1
  <2> QED
    BY <1>0, <1>4, <2>2 DEF Forget!Run
<1>5. CASE Forget!put
  <2>1. Ready' = Ready
    BY <1>5 DEF Forget!put, Ready
  <2>2. Forget!PutCount + 1 \in Nat
    BY <1>0, RunningIsFinite DEF Forget!PutCount, Forget!Cardinality, Cardinality
  <2>3. tasks_' \in Seq(Nat) /\ Len(tasks_') = Len(tasks_) + 1
    BY <1>5, <2>2 DEF Forget!put
  <2> QED
    BY <1>0, <1>5, <2>1, <2>3 DEF Forget!put
<1>6. CASE Forget!Notify
  <2>1. /\ Forget!WakeOne(ForgetCV)
        /\ ForgetMain = "notify" /\ pc' = [pc EXCEPT ![Forget!main_thread] = "put"]
        /\ tasks_' = tasks_ /\ stopping_' = stopping_
        /\ completed' = completed
    BY <1>6 DEF Forget!Notify, Forget!notify_one
  <2>2. CASE asleep[ForgetCV] = {} /\ UNCHANGED asleep
    BY <2>1, <2>2
  <2>3. ASSUME NEW w \in asleep[ForgetCV],
               asleep' = [asleep EXCEPT ![ForgetCV] = @ \ {w}]
        PROVE  ForgetInv'
    <3>1. w \notin Ready /\ Ready' = Ready \cup {w}
      BY <2>1, <2>3 DEF Ready
    <3>2. Cardinality(Ready') = Cardinality(Ready) + 1
      BY <3>1
    <3> QED
      BY <1>0, <2>1, <2>3, <3>2
  <2> QED
    BY <2>1, <2>2, <2>3 DEF Forget!WakeOne
<1>7. CASE Forget!Stop
  <2>1. Ready' = Ready
    BY <1>7 DEF Forget!Stop, Ready
  <2> QED
    BY <1>0, <1>7, <2>1 DEF Forget!Stop
<1>8. CASE Forget!NotifyAll
  BY <1>8 DEF Forget!NotifyAll, Forget!notify_all, Forget!WakeAll
<1>9. CASE Forget!Join
  BY <1>9 DEF Forget!Join
<1>10. ASSUME NEW w \in Forget!threads_, Forget!WakesSpuriously(w, ForgetCV),
              UNCHANGED Forget!poolVars
       PROVE  ForgetInv'
  <2>1. w \notin Ready /\ Ready' = Ready \cup {w}
    BY <1>10 DEF Forget!WakesSpuriously, Ready
  <2>2. Cardinality(Ready') = Cardinality(Ready) + 1
    BY <2>1
  <2> QED
    BY <1>0, <1>10, <2>2 DEF Forget!WakesSpuriously
<1> QED
  BY <1>1, <1>2, <1>3, <1>4, <1>5, <1>6, <1>7, <1>8, <1>9, <1>10
  DEF Forget!Step, Forget!main, Forget!worker, Forget!Spurious

LEMMA ForgetInvHolds == MCSpec => []ForgetKept
<1>1. ForgetKept /\ [MCNext]_allVars => ForgetKept'
  <2> SUFFICES ASSUME ForgetKept, [MCNext]_allVars, InForget' PROVE ForgetInv'
    BY DEF ForgetKept
  <2>1. InForget /\ ForgetInv
    BY OneProgram DEF InForget, ForgetKept
  <2>2. CASE UNCHANGED allVars
    <3>1. Ready' = Ready
      BY <2>2 DEF allVars, Ready, Forget!At, Forget!Awake
    <3> QED
      BY <2>1, <2>2, <3>1 DEF allVars, queueVars, ForgetInv, ForgetMain
  <2> QED
    BY <2>1, <2>2, OneProgram, ForgetStep
<1> QED
  BY <1>1, ForgetStarts, PTL DEF MCSpec

-----------------------------------------------------------------------------
(* The pool with cancellation                                              *)

(* A thread that has been joined has returned, for good.                   *)
CancelInv ==
  /\ DOMAIN pc = Cancel!CancelThreads
  /\ asleep = [c \in {} |-> {}]
  /\ \A w \in Cancel!threads_ : pc[w] \in {"loop", "global", "run", "returned"}
  /\ Cancel!StoppedMeansStopped

CancelKept == InCancel => CancelInv

LEMMA Strands ==
  /\ Cancel!main_thread \notin Cancel!threads_
  /\ Cancel!CancelThreads = Cancel!threads_ \cup {Cancel!main_thread}
  BY DEF Cancel!main_thread, Cancel!threads_, Cancel!CancelThreads

LEMMA CancelStarts == MCInit => CancelKept
<1> SUFFICES ASSUME MCInit, InCancel PROVE CancelInv
  BY DEF CancelKept
<1>1. Cancel!Init
  BY DEF MCInit, InFutures, InBounded, InStealing, InForget, InCancel
<1> QED
  BY <1>1, Strands DEF Cancel!Init, CancelInv, Cancel!StoppedMeansStopped,
     Cancel!destroyed, Cancel!joinable

LEMMA CancelStep ==
  ASSUME CancelInv, NEW t \in Cancel!CancelThreads, Cancel!Step(t)
  PROVE  CancelInv'
<1> USE Strands
    DEF CancelInv, Cancel!StoppedMeansStopped, Cancel!destroyed, Cancel!joinable,
        Cancel!Move, Cancel!Goto, Cancel!At, Cancel!cancelVars
<1>1. CASE t # Cancel!main_thread
  <2>1. Cancel!worker(t) /\ t \in Cancel!threads_
    BY <1>1 DEF Cancel!Step
  <2> QED
    BY <2>1 DEF Cancel!worker
<1>2. ASSUME NEW w \in Cancel!threads_, Cancel!RequestStop(w) PROVE CancelInv'
  BY <1>2 DEF Cancel!RequestStop
<1>3. ASSUME NEW w \in Cancel!threads_, Cancel!JoinOne(w) PROVE CancelInv'
  BY <1>3 DEF Cancel!JoinOne, Cancel!Join
<1>4. ASSUME NEW w \in Cancel!threads_, Cancel!JoinEach(w) PROVE CancelInv'
  BY <1>4 DEF Cancel!JoinEach, Cancel!Join
<1>5. ASSUME NEW w \in Cancel!threads_, Cancel!DtorStops(w) PROVE CancelInv'
  BY <1>5 DEF Cancel!DtorStops
<1>6. ASSUME NEW w \in Cancel!threads_, Cancel!DtorJoins(w) PROVE CancelInv'
  BY <1>6 DEF Cancel!DtorJoins, Cancel!Join
<1>7. CASE Cancel!RequestStopAll
  BY <1>7 DEF Cancel!RequestStopAll
<1>8. CASE Cancel!JoinedAll
  BY <1>8 DEF Cancel!JoinedAll
<1>9. CASE Cancel!ReadCounters
  BY <1>9 DEF Cancel!ReadCounters
<1>10. CASE Cancel!LeaveScope
  BY <1>10 DEF Cancel!LeaveScope
<1>11. CASE Cancel!DtorReturns
  BY <1>11 DEF Cancel!DtorReturns
<1> QED
  BY <1>1, <1>2, <1>3, <1>4, <1>5, <1>6, <1>7, <1>8, <1>9, <1>10, <1>11
  DEF Cancel!Step, Cancel!main

LEMMA CancelInvHolds == MCSpec => []CancelKept
<1>1. CancelKept /\ [MCNext]_allVars => CancelKept'
  <2> SUFFICES ASSUME CancelKept, [MCNext]_allVars, InCancel' PROVE CancelInv'
    BY DEF CancelKept
  <2>1. InCancel /\ CancelInv
    BY OneProgram DEF InCancel, CancelKept
  <2>2. CASE UNCHANGED allVars
    BY <2>1, <2>2 DEF allVars, cancelOnly, CancelInv, Cancel!StoppedMeansStopped,
       Cancel!destroyed, Cancel!joinable
  <2> QED
    BY <2>1, <2>2, OneProgram, CancelStep
<1> QED
  BY <1>1, CancelStarts, PTL DEF MCSpec

(* No task runs while main reads the counters after stop_all, nor once     *)
(* tasks_ is destroyed, nor ever again for a worker that stop_one has      *)
(* stopped (5_cancellation.cpp).                                           *)
THEOREM StoppedIsStopped == MCSpec => []StoppedMeansStopped
<1>1. CancelKept => StoppedMeansStopped
  BY DEF CancelKept, CancelInv, StoppedMeansStopped
<1> QED
  BY <1>1, CancelInvHolds, PTL

-----------------------------------------------------------------------------
(* The work-stealing pool                                                  *)

Indices == Stealing!Indices
Crew == Indices \cup {Main}

Deque(w) == Elements(local_tasks_[w])
Global == Elements(tasks_)

SearchAt == {"own", "own_locked", "steal", "steal_locked", "global",
             "global_locked", "predicate", "relock"}
TakenAt == {"own_count", "steal_count"}
SubmittingAt == {"submit", "submit_locked", "local_locked"}
PushedAt == {"local_count", "notify", "submitted"}
BusyAt == TakenAt \cup {"run"} \cup SubmittingAt \cup PushedAt
IdleAt == SearchAt \cup {"asleep", "exited"}

StealingTyped ==
  /\ local_tasks_ \in [Indices -> Seq(Tasks)]
  /\ tasks_ \in Seq(Tasks)
  /\ stopping_ \in BOOLEAN
  /\ stop_or_task_cv_ = {w \in Indices : pc[w] = "asleep"}
  /\ pc \in [Crew -> Stealing!Locations]
  /\ \A w \in Indices : pc[w] \in BusyAt \cup IdleAt
  /\ pc[Main] \in MainAt
  /\ task \in [Crew -> Tasks \cup {NoTask}]
  /\ victim \in [Indices -> 0..NumWorkers]
  /\ all_checked \in [Indices -> BOOLEAN]
  /\ future \in [Tasks -> {"none", "pending", "ready", "error"}]

(* Who holds the mutex of a deque: its owner, or a thief.                  *)
Holds(w, v) ==
  IF w = v
  THEN pc[w] \in {"own_locked", "own_count", "local_locked", "local_count"}
  ELSE pc[w] \in {"steal_locked", "steal_count"} /\ victim[w] = v

(* Each mutex is held exactly between the steps that take and release it;  *)
(* the stop is set under the global one, so nobody who has found it unset  *)
(* there pushes a task after it.                                           *)
StealingLocked ==
  /\ mtx_ \in Crew \cup {NoOne}
  /\ local_mutex_ \in [Indices -> Indices \cup {NoOne}]
  /\ \A t \in Crew :
       pc[t] \in {"global_locked", "predicate", "submit_locked", "local_locked",
                  "local_count", "dtor_locked"} <=> mtx_ = t
  /\ \A w, v \in Indices : Holds(w, v) <=> local_mutex_[v] = w
  /\ \A w \in Indices :
       pc[w] \in {"steal_locked", "steal_count"} => victim[w] \in Indices \ {w}
  /\ stopping_ <=> pc[Main] \in {"notify_all", "join", "destroyed"}
  /\ pc[Main] \in {"join", "destroyed"} => \A w \in Indices : pc[w] # "asleep"
  /\ \A w \in Indices : pc[w] \in {"local_locked", "local_count"} => ~stopping_

(* A task is in one queue or held by one worker, and its future is pending *)
(* exactly then; a task submits its child once, while it runs.             *)
HeldOnce ==
  \A w \in Indices : pc[w] \in BusyAt =>
    /\ task[w] \in Tasks /\ future[task[w]] = "pending"
    /\ task[w] \notin Global /\ \A v \in Indices : task[w] \notin Deque(v)
    /\ \A v \in Indices : pc[v] \in BusyAt /\ task[v] = task[w] => v = w
    /\ pc[w] \in SubmittingAt \cup PushedAt => task[w] \in DOMAIN Child
    /\ pc[w] \notin PushedAt /\ task[w] \in DOMAIN Child =>
         future[Child[task[w]]] = "none"
    /\ pc[w] = "local_count" => Child[task[w]] \in Deque(w)

QueuedOnce ==
  /\ Distinct(tasks_) /\ \A t \in Global : future[t] = "pending"
  /\ \A w \in Indices :
       /\ Distinct(local_tasks_[w])
       /\ \A t \in Deque(w) :
            /\ future[t] = "pending"
            /\ t \notin Global /\ \A v \in Indices \ {w} : t \notin Deque(v)

SubmittedOnce ==
  /\ pc[Main] \in {"submit", "submit_locked", "notify", "submitted"} =>
       task[Main] \in MainTasks
  /\ pc[Main] \in {"submit", "submit_locked"} => future[task[Main]] = "none"
  /\ \A t \in DOMAIN Child :
       (future[t] = "none" \/ t \in Global \/ \E w \in Indices : t \in Deque(w)) =>
         future[Child[t]] = "none"

StealingOnce == HeldOnce /\ QueuedOnce /\ SubmittedOnce

(* What all_queued_tasks_ counts: a task that was taken until the taker    *)
(* says so, and one that was pushed once the submitter says so.            *)
Taken == {task[w] : w \in {v \in Indices : pc[v] \in TakenAt}}
Pushed == {Child[task[w]] : w \in {v \in Indices : pc[v] = "local_count"}}
InQueues == Stealing!Queued
Counted == (InQueues \ Pushed) \cup Taken

CounterCounts == all_queued_tasks_ = Cardinality(Counted)

(* A worker leaves only when no task is or will be queued.                 *)
Drained ==
  /\ \A w \in Indices : pc[w] = "exited" => stopping_ /\ InQueues = {}
  /\ pc[Main] = "destroyed" => \A w \in Indices : pc[w] = "exited"

SearchCount == Count(Indices, pc, SearchAt)
ToNotifyCount == Count(Crew, pc, {"local_count", "notify"})

SearchersSuffice ==
  (\E w \in Indices : pc[w] = "asleep") =>
    Cardinality(InQueues) <= SearchCount + ToNotifyCount

StealingInv ==
  /\ StealingTyped /\ StealingLocked /\ StealingOnce
  /\ CounterCounts /\ Drained /\ SearchersSuffice

StealingKept == InStealing => StealingInv

LEMMA StealingPeople ==
  /\ \A w \in Indices : w \in Crew /\ w # Main
  /\ Main \in Crew /\ NoOne \notin Crew
  /\ Crew = Indices \cup {Main}
  /\ IsFiniteSet(Indices) /\ IsFiniteSet(Crew) /\ Indices # {}
  /\ Stealing!Indices = Indices /\ Stealing!Threads = Crew /\ Stealing!Tasks = Tasks
<1>1. NumWorkers \in Nat \ {0} /\ 0 \in Int /\ NumWorkers - 1 \in Int
  BY PoolsAssumption
<1>2. IsFiniteSet(Indices) /\ 0 \in Indices
  <2>1. IsFiniteSet(0..(NumWorkers - 1))
    BY <1>1, FS_Interval
  <2> QED
    BY <1>1, <2>1 DEF Indices, Stealing!Indices
<1>3. {Main, NoOne} \cap Indices = {}
  BY PoolsAssumption DEF Indices
<1>4. IsFiniteSet(Crew)
  BY <1>2, FS_AddElement DEF Crew
<1>5. Main # NoOne
  BY PoolAssumption DEF Threads
<1> QED
  BY <1>2, <1>3, <1>4, <1>5
  DEF Crew, Indices, Stealing!Threads, Stealing!Tasks, Tasks

(* A victim is the index of a deque, or one past the last.                 *)
LEMMA Victims ==
  /\ NumWorkers \in Nat \ {0} /\ Indices \subseteq 0..NumWorkers
  /\ \A v \in Indices : v + 1 \in 0..NumWorkers
  /\ 0 \in 0..NumWorkers
<1>1. NumWorkers \in Nat \ {0}
  BY PoolsAssumption
<1> QED
  BY <1>1 DEF Indices, Stealing!Indices

LEMMA StealingStarts == MCInit => StealingKept
<1> SUFFICES ASSUME MCInit, InStealing PROVE StealingInv
  BY DEF StealingKept
<1> USE StealingPeople, Family
<1>1. Stealing!Init
  BY DEF MCInit, InFutures, InBounded, InStealing, InForget, InCancel
<1>2. /\ local_tasks_ = [w \in Indices |-> << >>] /\ tasks_ = << >>
      /\ local_mutex_ = [w \in Indices |-> NoOne] /\ mtx_ = NoOne
      /\ stopping_ = FALSE /\ all_queued_tasks_ = 0 /\ stop_or_task_cv_ = {}
      /\ pc = [t \in Crew |-> IF t = Main THEN "main" ELSE "own"]
      /\ task = [t \in Crew |-> NoTask]
      /\ future = [t \in Tasks |-> "none"]
  BY <1>1 DEF Stealing!Init
<1>3. pc[Main] = "main" /\ \A w \in Indices : pc[w] = "own"
  BY <1>2
<1>4. Global = {} /\ \A w \in Indices : Deque(w) = {} /\ Distinct(local_tasks_[w])
  BY <1>2 DEF Global, Deque, Elements, Distinct
<1>5. StealingTyped
  <2>1. local_tasks_ \in [Indices -> Seq(Tasks)] /\ tasks_ \in Seq(Tasks)
    BY <1>2
  <2>2. stop_or_task_cv_ = {w \in Indices : pc[w] = "asleep"}
    BY <1>2, <1>3
  <2>3. pc \in [Crew -> Stealing!Locations]
    BY <1>2 DEF Stealing!Locations
  <2>4. victim \in [Indices -> 0..NumWorkers] /\ all_checked \in [Indices -> BOOLEAN]
    BY <1>1, Victims DEF Stealing!Init
  <2> QED
    BY <1>2, <1>3, <2>1, <2>2, <2>3, <2>4 DEF StealingTyped, IdleAt, SearchAt, MainAt
<1>6. StealingLocked
  BY <1>2, <1>3 DEF StealingLocked, Holds
<1>7. StealingOnce
  BY <1>2, <1>3, <1>4
  DEF StealingOnce, HeldOnce, QueuedOnce, SubmittedOnce, BusyAt, TakenAt, SubmittingAt,
      PushedAt, Distinct
<1>8. InQueues = {} /\ Counted = {}
  <2>1. InQueues = {}
    BY <1>2 DEF InQueues, Stealing!Queued, Stealing!Elements
  <2>2. Taken = {}
    BY <1>3 DEF Taken, TakenAt
  <2> QED
    BY <2>1, <2>2 DEF Counted
<1>9. CounterCounts
  BY <1>2, <1>8, FS_EmptySet DEF CounterCounts
<1>10. Drained /\ SearchersSuffice
  BY <1>3 DEF Drained, SearchersSuffice
<1> QED
  BY <1>5, <1>6, <1>7, <1>9, <1>10 DEF StealingInv

LEMMA StealingTypedKept ==
  StealingInv /\ (Stealing!Next \/ UNCHANGED Stealing!vars) => StealingTyped'
<1> SUFFICES ASSUME StealingInv, Stealing!Next \/ UNCHANGED Stealing!vars PROVE StealingTyped'
  OBVIOUS
<1> USE StealingPeople, Family
    DEF StealingInv, StealingTyped, Stealing!Locations, BusyAt, TakenAt, SubmittingAt,
        PushedAt, IdleAt, SearchAt, MainAt, Stealing!Goto, Stealing!queues,
        Stealing!stealVars, Stealing!unchangedByMain
<1>1. ASSUME NEW w \in Indices, Stealing!OwnLock(w) PROVE StealingTyped'
  BY <1>1 DEF Stealing!OwnLock
<1>2. ASSUME NEW w \in Indices, Stealing!OwnPop(w) PROVE StealingTyped'
  <2>1. /\ local_tasks_[w] \in Seq(Tasks) /\ local_tasks_[w] # << >>
        /\ local_tasks_[w][Len(local_tasks_[w])] \in Tasks
        /\ SubSeq(local_tasks_[w], 1, Len(local_tasks_[w]) - 1) \in Seq(Tasks)
    BY <1>2, FrontElements, ElementsIn DEF Stealing!OwnPop
  <2> QED
    BY <1>2, <2>1 DEF Stealing!OwnPop
<1>3. ASSUME NEW w \in Indices, Stealing!OwnCount(w) PROVE StealingTyped'
  BY <1>3 DEF Stealing!OwnCount
<1>4. ASSUME NEW w \in Indices, Stealing!OwnEmpty(w) PROVE StealingTyped'
  <2>1. w \in Indices /\ victim' = [victim EXCEPT ![w] = 0]
    BY <1>4 DEF Stealing!OwnEmpty, StealingLocked, Stealing!Advance
  <2>2. victim' \in [Indices -> 0..NumWorkers]
    BY <2>1, Victims
  <2> QED
    BY <1>4, <2>2 DEF Stealing!OwnEmpty
<1>5. ASSUME NEW w \in Indices, Stealing!StealSkipsSelf(w) PROVE StealingTyped'
  <2>1. victim[w] \in Indices /\ victim' = [victim EXCEPT ![w] = victim[w] + 1]
    BY <1>5 DEF Stealing!StealSkipsSelf, StealingLocked, Stealing!Advance
  <2>2. victim' \in [Indices -> 0..NumWorkers]
    BY <2>1, Victims
  <2> QED
    BY <1>5, <2>2 DEF Stealing!StealSkipsSelf
<1>6. ASSUME NEW w \in Indices, Stealing!StealTryLock(w) PROVE StealingTyped'
  BY <1>6 DEF Stealing!StealTryLock
<1>7. ASSUME NEW w \in Indices, Stealing!StealLockFails(w) PROVE StealingTyped'
  <2>1. victim[w] \in Indices /\ victim' = [victim EXCEPT ![w] = victim[w] + 1]
    BY <1>7 DEF Stealing!StealLockFails, StealingLocked, Stealing!Advance
  <2>2. victim' \in [Indices -> 0..NumWorkers]
    BY <2>1, Victims
  <2> QED
    BY <1>7, <2>2 DEF Stealing!StealLockFails
<1>8. ASSUME NEW w \in Indices, Stealing!StealNothing(w) PROVE StealingTyped'
  <2>1. victim[w] \in Indices /\ victim' = [victim EXCEPT ![w] = victim[w] + 1]
    BY <1>8 DEF Stealing!StealNothing, StealingLocked, Stealing!Advance
  <2>2. victim' \in [Indices -> 0..NumWorkers]
    BY <2>1, Victims
  <2> QED
    BY <1>8, <2>2 DEF Stealing!StealNothing
<1>9. ASSUME NEW w \in Indices, Stealing!StealPop(w) PROVE StealingTyped'
  <2> DEFINE q == local_tasks_[victim[w]]
  <2>1. victim[w] \in Indices /\ q \in Seq(Tasks) /\ q # << >>
    BY <1>9 DEF Stealing!StealPop, StealingLocked
  <2>2. Head(q) \in Tasks /\ Tail(q) \in Seq(Tasks)
    BY <2>1, TailElements, ElementsIn
  <2>3. /\ local_tasks_' = [local_tasks_ EXCEPT ![victim[w]] = Tail(q)]
        /\ task' = [task EXCEPT ![w] = Head(q)]
    BY <1>9 DEF Stealing!StealPop
  <2> QED
    BY <1>9, <2>1, <2>2, <2>3 DEF Stealing!StealPop
<1>10. ASSUME NEW w \in Indices, Stealing!StealCount(w) PROVE StealingTyped'
  BY <1>10 DEF Stealing!StealCount
<1>11. ASSUME NEW w \in Indices, Stealing!StealAgain(w) PROVE StealingTyped'
  <2>1. w \in Indices /\ victim' = [victim EXCEPT ![w] = 0]
    BY <1>11 DEF Stealing!StealAgain, StealingLocked, Stealing!Advance
  <2>2. victim' \in [Indices -> 0..NumWorkers]
    BY <2>1, Victims
  <2> QED
    BY <1>11, <2>2 DEF Stealing!StealAgain
<1>12. ASSUME NEW w \in Indices, Stealing!StealGivesUp(w) PROVE StealingTyped'
  BY <1>12 DEF Stealing!StealGivesUp
<1>13. ASSUME NEW w \in Indices, Stealing!GlobalLock(w) PROVE StealingTyped'
  BY <1>13 DEF Stealing!GlobalLock
<1>14. ASSUME NEW w \in Indices, Stealing!GlobalTake(w) PROVE StealingTyped'
  BY <1>14 DEF Stealing!GlobalTake
<1>15. ASSUME NEW w \in Indices, Stealing!GlobalEmpty(w) PROVE StealingTyped'
  BY <1>15 DEF Stealing!GlobalEmpty
<1>16. ASSUME NEW w \in Indices, Stealing!WaitSleeps(w) PROVE StealingTyped'
  BY <1>16 DEF Stealing!WaitSleeps
<1>17. ASSUME NEW w \in Indices, Stealing!WorkerWakes(w) PROVE StealingTyped'
  BY <1>17 DEF Stealing!WorkerWakes
<1>18. ASSUME NEW w \in Indices, Stealing!WaitRelocks(w) PROVE StealingTyped'
  BY <1>18 DEF Stealing!WaitRelocks
<1>19. ASSUME NEW w \in Indices, Stealing!WaitEndsWithTask(w) PROVE StealingTyped'
  BY <1>19 DEF Stealing!WaitEndsWithTask
<1>20. ASSUME NEW w \in Indices, Stealing!WorkerExits(w) PROVE StealingTyped'
  BY <1>20 DEF Stealing!WorkerExits
<1>21. ASSUME NEW w \in Indices, Stealing!RunTask(w) PROVE StealingTyped'
  BY <1>21 DEF Stealing!RunTask
<1>22. ASSUME NEW w \in Indices, Stealing!TaskSubmits(w) PROVE StealingTyped'
  BY <1>22 DEF Stealing!TaskSubmits
<1>23. ASSUME NEW w \in Indices, Stealing!TaskGetsChild(w) PROVE StealingTyped'
  BY <1>23 DEF Stealing!TaskGetsChild
<1>24. ASSUME NEW w \in Indices, Stealing!TaskDropsChild(w) PROVE StealingTyped'
  BY <1>24 DEF Stealing!TaskDropsChild
<1>25. ASSUME NEW w \in Indices, Stealing!SubmitThrows(w) PROVE StealingTyped'
  BY <1>25 DEF Stealing!SubmitThrows
<1>26. ASSUME NEW w \in Indices, Stealing!SubmitLocalLock(w) PROVE StealingTyped'
  BY <1>26 DEF Stealing!SubmitLocalLock
<1>27. ASSUME NEW w \in Indices, Stealing!LocalPush(w) PROVE StealingTyped'
  <2>1. Child[task[w]] \in Tasks /\ local_tasks_[w] \in Seq(Tasks)
    BY <1>27 DEF Stealing!LocalPush, StealingOnce, HeldOnce
  <2>2. Append(local_tasks_[w], Child[task[w]]) \in Seq(Tasks)
    BY <2>1
  <2> QED
    BY <1>27, <2>1, <2>2 DEF Stealing!LocalPush
<1>28. ASSUME NEW w \in Indices, Stealing!LocalCount(w) PROVE StealingTyped'
  BY <1>28 DEF Stealing!LocalCount
<1>29. ASSUME NEW t \in Crew, Stealing!SubmitLock(t) PROVE StealingTyped'
  BY <1>29 DEF Stealing!SubmitLock
<1>30. ASSUME NEW t \in Crew, Stealing!NotifyOne(t) PROVE StealingTyped'
  <2>1. CASE stop_or_task_cv_ = {} /\ Stealing!Goto(t, "notify", "submitted")
    BY <1>30, <2>1 DEF Stealing!NotifyOne
  <2>2. ASSUME NEW w \in stop_or_task_cv_, pc[t] = "notify",
               pc' = [pc EXCEPT ![t] = "submitted", ![w] = "relock"],
               stop_or_task_cv_' = stop_or_task_cv_ \ {w}
        PROVE  StealingTyped'
    <3>1. w \in Indices /\ pc[w] = "asleep" /\ w # t
      BY <2>2
    <3>2. /\ pc' \in [Crew -> Stealing!Locations]
          /\ \A u \in Indices \ {t, w} : pc'[u] = pc[u]
          /\ pc'[t] = "submitted" /\ pc'[w] = "relock"
          /\ t # Main => pc'[Main] = pc[Main]
      BY <2>2, <3>1
    <3>3. stop_or_task_cv_' = {u \in Indices : pc'[u] = "asleep"}
      BY <2>2, <3>1, <3>2
    <3> QED
      BY <1>30, <3>1, <3>2, <3>3 DEF Stealing!NotifyOne
  <2> QED
    BY <1>30, <2>1, <2>2 DEF Stealing!NotifyOne
<1>31. ASSUME NEW t \in MainTasks, Stealing!MainSubmits(t) PROVE StealingTyped'
  BY <1>31 DEF Stealing!MainSubmits
<1>32. CASE Stealing!SubmitGlobal
  <2>1. task[Main] \in Tasks
    BY <1>32 DEF Stealing!SubmitGlobal, StealingOnce, SubmittedOnce
  <2>2. Append(tasks_, task[Main]) \in Seq(Tasks)
    BY <2>1
  <2> QED
    BY <1>32, <2>1, <2>2 DEF Stealing!SubmitGlobal
<1>33. CASE Stealing!MainGetsFuture
  BY <1>33 DEF Stealing!MainGetsFuture
<1>34. CASE Stealing!MainDropsFuture
  BY <1>34 DEF Stealing!MainDropsFuture
<1>35. CASE Stealing!MainLeavesScope
  BY <1>35 DEF Stealing!MainLeavesScope
<1>36. CASE Stealing!DtorLock
  BY <1>36 DEF Stealing!DtorLock
<1>37. CASE Stealing!DtorStops
  BY <1>37 DEF Stealing!DtorStops
<1>38. CASE Stealing!DtorNotifyAll
  BY <1>38 DEF Stealing!DtorNotifyAll
<1>39. CASE Stealing!DtorJoined
  BY <1>39 DEF Stealing!DtorJoined
<1>40. CASE UNCHANGED Stealing!vars
  BY <1>40 DEF Stealing!vars
<1> QED
  BY <1>1, <1>2, <1>3, <1>4, <1>5, <1>6, <1>7, <1>8, <1>9, <1>10, <1>11, <1>12,
     <1>13, <1>14, <1>15, <1>16, <1>17, <1>18, <1>19, <1>20, <1>21, <1>22,
     <1>23, <1>24, <1>25, <1>26, <1>27, <1>28, <1>29, <1>30, <1>31, <1>32,
     <1>33, <1>34, <1>35, <1>36, <1>37, <1>38, <1>39, <1>40,
     StealingPeople
  DEF Stealing!Next, Stealing!worker, Stealing!main, Stealing!submit,
      Stealing!try_steal, Stealing!MainReturned

(* Who notifies, or is woken, holds no mutex.                              *)
LeavesUnlocked(u) ==
  /\ pc[u] \in {"notify", "asleep", "notify_all"}
  /\ pc'[u] \in {"submitted", "relock", "join"}

LEMMA LockedStill ==
  ASSUME StealingLocked,
         local_mutex_' = local_mutex_, mtx_' = mtx_, stopping_' = stopping_,
         victim' = victim,
         \A u \in Crew : pc'[u] = pc[u] \/ LeavesUnlocked(u),
         pc'[Main] \in {"notify_all", "join", "destroyed"} <=> stopping_,
         pc'[Main] \in {"join", "destroyed"} => \A w \in Indices : pc'[w] # "asleep"
  PROVE  StealingLocked'
<1> USE DEF StealingLocked, LeavesUnlocked
<1>1. Indices \subseteq Crew
  BY StealingPeople
<1>2. \A t \in Crew :
        pc'[t] \in {"global_locked", "predicate", "submit_locked", "local_locked",
                    "local_count", "dtor_locked"} <=> mtx_' = t
  OBVIOUS
<1>3. \A w, v \in Indices : Holds(w, v)' <=> local_mutex_'[v] = w
  BY <1>1 DEF Holds
<1>4. \A w \in Indices :
        /\ pc'[w] \in {"steal_locked", "steal_count"} => victim'[w] \in Indices \ {w}
        /\ pc'[w] \in {"local_locked", "local_count"} => ~stopping_'
  BY <1>1
<1> QED
  BY <1>2, <1>3, <1>4

LEMMA StealingLockedKept ==
  StealingInv /\ (Stealing!Next \/ UNCHANGED Stealing!vars) => StealingLocked'
<1> SUFFICES ASSUME StealingInv, Stealing!Next \/ UNCHANGED Stealing!vars PROVE StealingLocked'
  OBVIOUS
<1> USE StealingPeople
    DEF StealingInv, StealingTyped, StealingLocked, Holds, BusyAt, TakenAt, SubmittingAt,
        PushedAt, IdleAt, SearchAt, MainAt, Stealing!Goto, Stealing!queues,
        Stealing!stealVars, Stealing!unchangedByMain, Stealing!AcquireLocal,
        Stealing!ReleaseLocal, Stealing!AcquireGlobal, Stealing!ReleaseGlobal,
        Stealing!Advance
<1>1. ASSUME NEW w \in Indices, Stealing!OwnLock(w) PROVE StealingLocked'
  BY <1>1 DEF Stealing!OwnLock
<1>2. ASSUME NEW w \in Indices, Stealing!OwnPop(w) PROVE StealingLocked'
  BY <1>2 DEF Stealing!OwnPop
<1>3. ASSUME NEW w \in Indices, Stealing!OwnCount(w) PROVE StealingLocked'
  BY <1>3 DEF Stealing!OwnCount
<1>4. ASSUME NEW w \in Indices, Stealing!OwnEmpty(w) PROVE StealingLocked'
  BY <1>4 DEF Stealing!OwnEmpty
<1>5. ASSUME NEW w \in Indices, Stealing!StealSkipsSelf(w) PROVE StealingLocked'
  BY <1>5 DEF Stealing!StealSkipsSelf
<1>6. ASSUME NEW w \in Indices, Stealing!StealTryLock(w) PROVE StealingLocked'
  BY <1>6 DEF Stealing!StealTryLock
<1>7. ASSUME NEW w \in Indices, Stealing!StealLockFails(w) PROVE StealingLocked'
  BY <1>7 DEF Stealing!StealLockFails
<1>8. ASSUME NEW w \in Indices, Stealing!StealNothing(w) PROVE StealingLocked'
  BY <1>8 DEF Stealing!StealNothing
<1>9. ASSUME NEW w \in Indices, Stealing!StealPop(w) PROVE StealingLocked'
  BY <1>9 DEF Stealing!StealPop
<1>10. ASSUME NEW w \in Indices, Stealing!StealCount(w) PROVE StealingLocked'
  BY <1>10 DEF Stealing!StealCount
<1>11. ASSUME NEW w \in Indices, Stealing!StealAgain(w) PROVE StealingLocked'
  BY <1>11 DEF Stealing!StealAgain
<1>12. ASSUME NEW w \in Indices, Stealing!StealGivesUp(w) PROVE StealingLocked'
  BY <1>12 DEF Stealing!StealGivesUp
<1>13. ASSUME NEW w \in Indices, Stealing!GlobalLock(w) PROVE StealingLocked'
  BY <1>13 DEF Stealing!GlobalLock
<1>14. ASSUME NEW w \in Indices, Stealing!GlobalTake(w) PROVE StealingLocked'
  BY <1>14 DEF Stealing!GlobalTake
<1>15. ASSUME NEW w \in Indices, Stealing!GlobalEmpty(w) PROVE StealingLocked'
  BY <1>15 DEF Stealing!GlobalEmpty
<1>16. ASSUME NEW w \in Indices, Stealing!WaitSleeps(w) PROVE StealingLocked'
  BY <1>16 DEF Stealing!WaitSleeps
<1>17. ASSUME NEW w \in Indices, Stealing!WorkerWakes(w) PROVE StealingLocked'
  BY <1>17 DEF Stealing!WorkerWakes
<1>18. ASSUME NEW w \in Indices, Stealing!WaitRelocks(w) PROVE StealingLocked'
  BY <1>18 DEF Stealing!WaitRelocks
<1>19. ASSUME NEW w \in Indices, Stealing!WaitEndsWithTask(w) PROVE StealingLocked'
  BY <1>19 DEF Stealing!WaitEndsWithTask
<1>20. ASSUME NEW w \in Indices, Stealing!WorkerExits(w) PROVE StealingLocked'
  BY <1>20 DEF Stealing!WorkerExits
<1>21. ASSUME NEW w \in Indices, Stealing!RunTask(w) PROVE StealingLocked'
  BY <1>21 DEF Stealing!RunTask
<1>22. ASSUME NEW w \in Indices, Stealing!TaskSubmits(w) PROVE StealingLocked'
  <2>1. pc[w] = "run" /\ pc' = [pc EXCEPT ![w] = "submit"]
    BY <1>22 DEF Stealing!TaskSubmits
  <2>2. /\ UNCHANGED <<local_mutex_, mtx_, stopping_, victim>>
        /\ stop_or_task_cv_ \subseteq Indices
    BY <1>22 DEF Stealing!TaskSubmits
  <2> QED
    BY <2>1, <2>2
<1>23. ASSUME NEW w \in Indices, Stealing!TaskGetsChild(w) PROVE StealingLocked'
  BY <1>23 DEF Stealing!TaskGetsChild
<1>24. ASSUME NEW w \in Indices, Stealing!TaskDropsChild(w) PROVE StealingLocked'
  BY <1>24 DEF Stealing!TaskDropsChild
<1>25. ASSUME NEW w \in Indices, Stealing!SubmitThrows(w) PROVE StealingLocked'
  BY <1>25 DEF Stealing!SubmitThrows
<1>26. ASSUME NEW w \in Indices, Stealing!SubmitLocalLock(w) PROVE StealingLocked'
  BY <1>26 DEF Stealing!SubmitLocalLock
<1>27. ASSUME NEW w \in Indices, Stealing!LocalPush(w) PROVE StealingLocked'
  BY <1>27 DEF Stealing!LocalPush
<1>28. ASSUME NEW w \in Indices, Stealing!LocalCount(w) PROVE StealingLocked'
  BY <1>28 DEF Stealing!LocalCount
<1>29. ASSUME NEW t \in Crew, Stealing!SubmitLock(t) PROVE StealingLocked'
  BY <1>29 DEF Stealing!SubmitLock
<1>30. ASSUME NEW t \in Crew, Stealing!NotifyOne(t) PROVE StealingLocked'
  <2>1. /\ local_mutex_' = local_mutex_ /\ mtx_' = mtx_
        /\ stopping_' = stopping_ /\ victim' = victim
    BY <1>30 DEF Stealing!NotifyOne
  <2>2. \A u \in Crew : pc'[u] = pc[u] \/ LeavesUnlocked(u)
    BY <1>30 DEF Stealing!NotifyOne, LeavesUnlocked
  <2>3. /\ pc'[Main] \in {"notify_all", "join", "destroyed"} <=> stopping_
        /\ pc'[Main] \in {"join", "destroyed"} => \A w \in Indices : pc'[w] # "asleep"
    BY <1>30, <2>2 DEF Stealing!NotifyOne, LeavesUnlocked
  <2> QED
    BY <2>1, <2>2, <2>3, LockedStill DEF StealingInv
<1>31. ASSUME NEW t \in MainTasks, Stealing!MainSubmits(t) PROVE StealingLocked'
  BY <1>31 DEF Stealing!MainSubmits
<1>32. CASE Stealing!SubmitGlobal
  BY <1>32 DEF Stealing!SubmitGlobal
<1>33. CASE Stealing!MainGetsFuture
  BY <1>33 DEF Stealing!MainGetsFuture
<1>34. CASE Stealing!MainDropsFuture
  BY <1>34 DEF Stealing!MainDropsFuture
<1>35. CASE Stealing!MainLeavesScope
  BY <1>35 DEF Stealing!MainLeavesScope
<1>36. CASE Stealing!DtorLock
  BY <1>36 DEF Stealing!DtorLock
<1>37. CASE Stealing!DtorStops
  BY <1>37 DEF Stealing!DtorStops
<1>38. CASE Stealing!DtorNotifyAll
  <2>1. /\ local_mutex_' = local_mutex_ /\ mtx_' = mtx_
        /\ stopping_' = stopping_ /\ victim' = victim
    BY <1>38 DEF Stealing!DtorNotifyAll
  <2>2. \A u \in Crew : pc'[u] = pc[u] \/ LeavesUnlocked(u)
    BY <1>38 DEF Stealing!DtorNotifyAll, LeavesUnlocked
  <2>3. /\ pc'[Main] \in {"notify_all", "join", "destroyed"} <=> stopping_
        /\ pc'[Main] \in {"join", "destroyed"} => \A w \in Indices : pc'[w] # "asleep"
    BY <1>38, <2>2 DEF Stealing!DtorNotifyAll, LeavesUnlocked
  <2> QED
    BY <2>1, <2>2, <2>3, LockedStill DEF StealingInv
<1>39. CASE Stealing!DtorJoined
  BY <1>39 DEF Stealing!DtorJoined
<1>40. CASE UNCHANGED Stealing!vars
  BY <1>40 DEF Stealing!vars
<1> QED
  BY <1>1, <1>2, <1>3, <1>4, <1>5, <1>6, <1>7, <1>8, <1>9, <1>10, <1>11, <1>12,
     <1>13, <1>14, <1>15, <1>16, <1>17, <1>18, <1>19, <1>20, <1>21, <1>22,
     <1>23, <1>24, <1>25, <1>26, <1>27, <1>28, <1>29, <1>30, <1>31, <1>32,
     <1>33, <1>34, <1>35, <1>36, <1>37, <1>38, <1>39, <1>40,
     StealingPeople
  DEF Stealing!Next, Stealing!worker, Stealing!main, Stealing!submit,
      Stealing!try_steal, Stealing!MainReturned

(* A worker takes the task x out of deque v.                               *)
Pops(w, v, x) ==
  /\ pc[w] \in {"own_locked", "steal_locked"} /\ pc[v] # "local_count"
  /\ \E to \in TakenAt : pc' = [pc EXCEPT ![w] = to]
  /\ x \in Elements(local_tasks_[v])
  /\ Elements(local_tasks_'[v]) = Elements(local_tasks_[v]) \ {x}
  /\ Distinct(local_tasks_'[v])
  /\ \A u \in Indices \ {v} : local_tasks_'[u] = local_tasks_[u]
  /\ tasks_' = tasks_ /\ future' = future /\ all_queued_tasks_' = all_queued_tasks_
  /\ task' = [task EXCEPT ![w] = x]

LEMMA Popping ==
  ASSUME StealingInv, NEW w \in Indices
  PROVE  /\ Stealing!OwnPop(w) => \E x \in Tasks : Pops(w, w, x)
         /\ Stealing!StealPop(w) =>
              victim[w] \in Indices /\ \E x \in Tasks : Pops(w, victim[w], x)
<1> USE DEF StealingInv, StealingTyped, StealingLocked, StealingOnce, QueuedOnce,
            Stealing!Goto, Stealing!queues, Stealing!stealVars
<1>1. ASSUME Stealing!OwnPop(w) PROVE \E x \in Tasks : Pops(w, w, x)
  <2> DEFINE q == local_tasks_[w]
             x == q[Len(q)]
  <2>1. q \in Seq(Tasks) /\ q # << >> /\ Distinct(q)
    BY <1>1 DEF Stealing!OwnPop
  <2>2. /\ x \in Elements(q) /\ x \in Tasks
        /\ Elements(SubSeq(q, 1, Len(q) - 1)) = Elements(q) \ {x}
        /\ Distinct(SubSeq(q, 1, Len(q) - 1))
    BY <2>1, FrontElements, ElementsIn
  <2>3. /\ local_tasks_' = [local_tasks_ EXCEPT ![w] = SubSeq(q, 1, Len(q) - 1)]
        /\ task' = [task EXCEPT ![w] = x]
        /\ pc[w] = "own_locked" /\ pc' = [pc EXCEPT ![w] = "own_count"]
        /\ tasks_' = tasks_ /\ future' = future /\ all_queued_tasks_' = all_queued_tasks_
    BY <1>1 DEF Stealing!OwnPop
  <2> HIDE DEF q, x
  <2>4. Pops(w, w, x)
    BY <2>2, <2>3 DEF Pops, TakenAt, q
  <2> QED
    BY <2>2, <2>4
<1>2. ASSUME Stealing!StealPop(w)
      PROVE  victim[w] \in Indices /\ \E x \in Tasks : Pops(w, victim[w], x)
  <2> DEFINE v == victim[w]
             q == local_tasks_[v]
             x == Head(q)
  <2>1. v \in Indices /\ v # w /\ pc[v] # "local_count"
    BY <1>2 DEF Stealing!StealPop, Holds
  <2>2. q \in Seq(Tasks) /\ q # << >> /\ Distinct(q)
    BY <1>2, <2>1 DEF Stealing!StealPop
  <2>3. /\ x \in Elements(q) /\ x \in Tasks
        /\ Elements(Tail(q)) = Elements(q) \ {x} /\ Distinct(Tail(q))
    BY <2>2, TailElements, ElementsIn
  <2>4. /\ local_tasks_' = [local_tasks_ EXCEPT ![v] = Tail(q)]
        /\ task' = [task EXCEPT ![w] = x]
        /\ pc[w] = "steal_locked" /\ pc' = [pc EXCEPT ![w] = "steal_count"]
        /\ tasks_' = tasks_ /\ future' = future /\ all_queued_tasks_' = all_queued_tasks_
    BY <1>2 DEF Stealing!StealPop
  <2> HIDE DEF v, q, x
  <2>5. Pops(w, v, x)
    BY <2>1, <2>3, <2>4 DEF Pops, TakenAt, q
  <2> QED
    BY <2>1, <2>3, <2>5 DEF v
<1> QED
  BY <1>1, <1>2

LEMMA OnceAfterPop ==
  ASSUME StealingTyped, StealingOnce,
         NEW w \in Indices, NEW v \in Indices, NEW x \in Tasks, Pops(w, v, x)
  PROVE  StealingOnce'
<1> USE DEF StealingTyped, StealingOnce, HeldOnce, QueuedOnce, SubmittedOnce, Global,
            Deque, BusyAt, TakenAt, SubmittingAt, PushedAt
<1>1. \A u \in Indices : \A t : t \in Elements(local_tasks_'[u]) <=>
        t \in Elements(local_tasks_[u]) /\ ~(u = v /\ t = x)
  BY DEF Pops
<1>2. /\ x \in Elements(local_tasks_[v]) /\ future[x] = "pending" /\ x \notin Elements(tasks_)
      /\ \A u \in Indices : /\ pc[u] \in BusyAt => task[u] # x
                            /\ u # v => x \notin Elements(local_tasks_[u])
      /\ x \in DOMAIN Child => future[Child[x]] = "none"
      /\ pc[v] # "local_count"
  BY DEF Pops
<1>3. /\ pc'[w] \in TakenAt /\ task'[w] = x
      /\ \A u \in Indices \ {w} : pc'[u] = pc[u] /\ task'[u] = task[u]
      /\ pc'[Main] = pc[Main] /\ task'[Main] = task[Main]
      /\ tasks_' = tasks_ /\ future' = future
      /\ \A u \in Indices : Distinct(local_tasks_'[u])
  BY StealingPeople DEF Pops
<1>4. HeldOnce'
  <2> SUFFICES ASSUME NEW u \in Indices, pc'[u] \in BusyAt
               PROVE  /\ task'[u] \in Tasks /\ future'[task'[u]] = "pending"
                      /\ task'[u] \notin Elements(tasks_')
                      /\ \A z \in Indices : task'[u] \notin Elements(local_tasks_'[z])
                      /\ \A z \in Indices :
                           pc'[z] \in BusyAt /\ task'[z] = task'[u] => z = u
                      /\ pc'[u] \in SubmittingAt \cup PushedAt => task'[u] \in DOMAIN Child
                      /\ pc'[u] \notin PushedAt /\ task'[u] \in DOMAIN Child =>
                           future'[Child[task'[u]]] = "none"
                      /\ pc'[u] = "local_count" => Child[task'[u]] \in Elements(local_tasks_'[u])
    BY Zenon DEF HeldOnce, Deque, Global
  <2> HIDE DEF StealingTyped, QueuedOnce, SubmittedOnce
  <2>1. CASE u = w
    <3>1. pc'[w] \notin SubmittingAt \cup PushedAt /\ pc'[w] # "local_count"
      BY <1>3
    <3> QED
      BY <1>1, <1>2, <1>3, <2>1, <3>1
  <2>2. CASE u # w
    <3>0. pc'[u] = pc[u] /\ task'[u] = task[u]
      BY <1>3, <2>2
    <3>1. pc'[u] = pc[u] /\ task'[u] = task[u] /\ task[u] # x /\ pc[u] \in BusyAt
      BY <1>2, <3>0
    <3> QED
      BY <1>1, <1>2, <1>3, <2>2, <3>1
  <2> QED
    BY <2>1, <2>2
<1>5. QueuedOnce'
  <2>1. Distinct(tasks_') /\ \A t \in Elements(tasks_') : future'[t] = "pending"
    BY <1>3
  <2>2. ASSUME NEW u \in Indices, NEW t \in Elements(local_tasks_'[u])
        PROVE  /\ future'[t] = "pending" /\ t \notin Elements(tasks_')
               /\ \A z \in Indices \ {u} : t \notin Elements(local_tasks_'[z])
    <3>1. t \in Elements(local_tasks_[u])
      BY <1>1
    <3> QED
      BY <1>1, <1>3, <3>1
  <2> QED
    BY <1>3, <2>1, <2>2
<1>6. SubmittedOnce'
  <2>1. \A t \in DOMAIN Child :
          (future'[t] = "none" \/ t \in Elements(tasks_')
             \/ \E u \in Indices : t \in Elements(local_tasks_'[u])) =>
            future'[Child[t]] = "none"
    BY <1>1, <1>3
  <2> QED
    BY <1>3, <2>1
<1> QED
  BY <1>4, <1>5, <1>6

(* A thread adds the task x to a queue: main to the global one, a worker   *)
(* to its deque.                                                           *)
LEMMA Pushing ==
  ASSUME StealingInv, NEW w \in Indices, Stealing!LocalPush(w)
  PROVE  /\ Child[task[w]] \in Tasks \ MainTasks /\ future[Child[task[w]]] = "none"
         /\ Elements(local_tasks_'[w]) = Elements(local_tasks_[w]) \cup {Child[task[w]]}
         /\ Distinct(local_tasks_'[w])
         /\ \A u \in Indices \ {w} : local_tasks_'[u] = local_tasks_[u]
<1> DEFINE x == Child[task[w]]
           q == local_tasks_[w]
<1> USE DEF StealingInv, StealingTyped, StealingOnce, HeldOnce, QueuedOnce,
            Global, Deque, BusyAt, SubmittingAt, PushedAt, Stealing!Goto
<1>1. x \in Tasks \ MainTasks /\ future[x] = "none"
  BY Family DEF Stealing!LocalPush
<1>2. q \in Seq(Tasks) /\ Distinct(q) /\ x \notin Elements(q)
  BY <1>1
<1>3. Elements(Append(q, x)) = Elements(q) \cup {x} /\ Distinct(Append(q, x))
  BY <1>1, <1>2, AppendElement
<1>4. local_tasks_' = [local_tasks_ EXCEPT ![w] = Append(q, x)]
  BY DEF Stealing!LocalPush
<1> QED
  BY <1>1, <1>3, <1>4

LEMMA StealingOnceKept ==
  StealingInv /\ (Stealing!Next \/ UNCHANGED Stealing!vars) => StealingOnce'
<1> SUFFICES ASSUME StealingInv, Stealing!Next \/ UNCHANGED Stealing!vars PROVE StealingOnce'
  OBVIOUS
<1> USE StealingPeople, Family
    DEF StealingInv, StealingTyped, StealingOnce, HeldOnce, QueuedOnce, SubmittedOnce,
        Global, Deque, BusyAt, TakenAt, SubmittingAt, PushedAt, IdleAt, SearchAt, MainAt,
        Stealing!Goto, Stealing!queues, Stealing!stealVars, Stealing!unchangedByMain
<1>1. ASSUME NEW w \in Indices, Stealing!OwnLock(w) PROVE StealingOnce'
  BY <1>1 DEF Stealing!OwnLock
<1>2. ASSUME NEW w \in Indices, Stealing!OwnPop(w) PROVE StealingOnce'
  BY <1>2, Popping, OnceAfterPop
<1>3. ASSUME NEW w \in Indices, Stealing!OwnCount(w) PROVE StealingOnce'
  BY <1>3 DEF Stealing!OwnCount
<1>4. ASSUME NEW w \in Indices, Stealing!OwnEmpty(w) PROVE StealingOnce'
  BY <1>4 DEF Stealing!OwnEmpty
<1>5. ASSUME NEW w \in Indices, Stealing!StealSkipsSelf(w) PROVE StealingOnce'
  BY <1>5 DEF Stealing!StealSkipsSelf
<1>6. ASSUME NEW w \in Indices, Stealing!StealTryLock(w) PROVE StealingOnce'
  BY <1>6 DEF Stealing!StealTryLock
<1>7. ASSUME NEW w \in Indices, Stealing!StealLockFails(w) PROVE StealingOnce'
  BY <1>7 DEF Stealing!StealLockFails
<1>8. ASSUME NEW w \in Indices, Stealing!StealNothing(w) PROVE StealingOnce'
  BY <1>8 DEF Stealing!StealNothing
<1>9. ASSUME NEW w \in Indices, Stealing!StealPop(w) PROVE StealingOnce'
  BY <1>9, Popping, OnceAfterPop
<1>10. ASSUME NEW w \in Indices, Stealing!StealCount(w) PROVE StealingOnce'
  BY <1>10 DEF Stealing!StealCount
<1>11. ASSUME NEW w \in Indices, Stealing!StealAgain(w) PROVE StealingOnce'
  BY <1>11 DEF Stealing!StealAgain
<1>12. ASSUME NEW w \in Indices, Stealing!StealGivesUp(w) PROVE StealingOnce'
  BY <1>12 DEF Stealing!StealGivesUp
<1>13. ASSUME NEW w \in Indices, Stealing!GlobalLock(w) PROVE StealingOnce'
  BY <1>13 DEF Stealing!GlobalLock
<1>14. ASSUME NEW w \in Indices, Stealing!GlobalTake(w) PROVE StealingOnce'
  <2> DEFINE x == Head(tasks_)
  <2>1. /\ x \in Elements(tasks_) /\ x \in Tasks /\ Distinct(tasks_')
        /\ Elements(tasks_') = Elements(tasks_) \ {x}
    BY <1>14, TailElements, ElementsIn DEF Stealing!GlobalTake
  <2>2. /\ task' = [task EXCEPT ![w] = x]
        /\ pc[w] = "global_locked" /\ pc' = [pc EXCEPT ![w] = "run"]
        /\ local_tasks_' = local_tasks_ /\ future' = future
    BY <1>14 DEF Stealing!GlobalTake
  <2> HIDE DEF x
  <2>3. HeldOnce'
    BY <2>1, <2>2
  <2>4. QueuedOnce' /\ SubmittedOnce'
    BY <2>1, <2>2
  <2> QED
    BY <2>3, <2>4
<1>15. ASSUME NEW w \in Indices, Stealing!GlobalEmpty(w) PROVE StealingOnce'
  BY <1>15 DEF Stealing!GlobalEmpty
<1>16. ASSUME NEW w \in Indices, Stealing!WaitSleeps(w) PROVE StealingOnce'
  BY <1>16 DEF Stealing!WaitSleeps
<1>17. ASSUME NEW w \in Indices, Stealing!WorkerWakes(w) PROVE StealingOnce'
  BY <1>17 DEF Stealing!WorkerWakes
<1>18. ASSUME NEW w \in Indices, Stealing!WaitRelocks(w) PROVE StealingOnce'
  BY <1>18 DEF Stealing!WaitRelocks
<1>19. ASSUME NEW w \in Indices, Stealing!WaitEndsWithTask(w) PROVE StealingOnce'
  BY <1>19 DEF Stealing!WaitEndsWithTask
<1>20. ASSUME NEW w \in Indices, Stealing!WorkerExits(w) PROVE StealingOnce'
  BY <1>20 DEF Stealing!WorkerExits
<1>21. ASSUME NEW w \in Indices, Stealing!RunTask(w) PROVE StealingOnce'
  BY <1>21 DEF Stealing!RunTask
<1>22. ASSUME NEW w \in Indices, Stealing!TaskSubmits(w) PROVE StealingOnce'
  BY <1>22 DEF Stealing!TaskSubmits
<1>23. ASSUME NEW w \in Indices, Stealing!TaskGetsChild(w) PROVE StealingOnce'
  BY <1>23 DEF Stealing!TaskGetsChild
<1>24. ASSUME NEW w \in Indices, Stealing!TaskDropsChild(w) PROVE StealingOnce'
  BY <1>24 DEF Stealing!TaskDropsChild
<1>25. ASSUME NEW w \in Indices, Stealing!SubmitThrows(w) PROVE StealingOnce'
  BY <1>25 DEF Stealing!SubmitThrows
<1>26. ASSUME NEW w \in Indices, Stealing!SubmitLocalLock(w) PROVE StealingOnce'
  BY <1>26 DEF Stealing!SubmitLocalLock
<1>27. ASSUME NEW w \in Indices, Stealing!LocalPush(w) PROVE StealingOnce'
  <2> DEFINE x == Child[task[w]]
  <2>1. /\ x \in Tasks \ MainTasks /\ future[x] = "none"
        /\ Elements(local_tasks_'[w]) = Elements(local_tasks_[w]) \cup {x}
        /\ Distinct(local_tasks_'[w])
        /\ \A u \in Indices \ {w} : local_tasks_'[u] = local_tasks_[u]
    BY <1>27, Pushing
  <2>2. /\ future' = [future EXCEPT ![x] = "pending"]
        /\ pc[w] = "local_locked" /\ pc' = [pc EXCEPT ![w] = "local_count"]
        /\ tasks_' = tasks_ /\ task' = task /\ task[w] \in DOMAIN Child
    BY <1>27 DEF Stealing!LocalPush
  <2> HIDE DEF x
  <2>3. \A u \in Indices : \A t : t \in Elements(local_tasks_'[u]) <=>
          t \in Elements(local_tasks_[u]) \/ (u = w /\ t = x)
    BY <2>1
  <2>4. /\ x \notin Elements(tasks_)
        /\ \A u \in Indices : /\ pc[u] \in BusyAt => task[u] # x
                              /\ x \notin Elements(local_tasks_[u])
        /\ x \in DOMAIN Child => future[Child[x]] = "none" /\ Child[x] # x
        /\ \A u \in Indices : pc[u] \in BusyAt /\ task[u] \in DOMAIN Child /\ Child[task[u]] = x => u = w
        /\ \A t \in DOMAIN Child : Child[t] = x => t = task[w]
    BY <2>1, <2>2 DEF x
  <2>5. HeldOnce'
    <3>1. ASSUME NEW u \in Indices, pc'[u] \in BusyAt
          PROVE  /\ pc[u] \in BusyAt /\ task'[u] = task[u] /\ task[u] # x
                 /\ pc'[u] \notin PushedAt => pc[u] \notin PushedAt /\ u # w
      BY <2>2, <2>4, <3>1
    <3> QED
      BY <2>1, <2>2, <2>3, <2>4, <3>1 DEF x
  <2>6. QueuedOnce'
    BY <2>1, <2>2, <2>3, <2>4
  <2>7. SubmittedOnce'
    BY <2>1, <2>2, <2>3, <2>4 DEF x
  <2> QED
    BY <2>5, <2>6, <2>7
<1>28. ASSUME NEW w \in Indices, Stealing!LocalCount(w) PROVE StealingOnce'
  BY <1>28 DEF Stealing!LocalCount
<1>29. ASSUME NEW t \in Crew, Stealing!SubmitLock(t) PROVE StealingOnce'
  BY <1>29 DEF Stealing!SubmitLock
<1>30. ASSUME NEW t \in Crew, Stealing!NotifyOne(t) PROVE StealingOnce'
  BY <1>30 DEF Stealing!NotifyOne
<1>31. ASSUME NEW t \in MainTasks, Stealing!MainSubmits(t) PROVE StealingOnce'
  BY <1>31 DEF Stealing!MainSubmits
<1>32. CASE Stealing!SubmitGlobal
  <2> DEFINE x == task[Main]
  <2>1. x \in MainTasks /\ x \in Tasks /\ future[x] = "none"
    BY <1>32 DEF Stealing!SubmitGlobal
  <2>2. x \notin Elements(tasks_) /\ \A w \in Indices : x \notin Elements(local_tasks_[w])
    BY <2>1
  <2>3. Elements(tasks_') = Elements(tasks_) \cup {x} /\ Distinct(tasks_')
    BY <1>32, <2>1, <2>2, AppendElement DEF Stealing!SubmitGlobal
  <2>4. /\ future' = [future EXCEPT ![x] = "pending"]
        /\ pc[Main] = "submit_locked" /\ pc' = [pc EXCEPT ![Main] = "notify"]
        /\ local_tasks_' = local_tasks_ /\ task' = task
    BY <1>32 DEF Stealing!SubmitGlobal
  <2> HIDE DEF x
  <2>5. HeldOnce'
    BY <2>1, <2>2, <2>3, <2>4
  <2>6. QueuedOnce'
    BY <2>1, <2>2, <2>3, <2>4
  <2>7. SubmittedOnce'
    BY <2>1, <2>2, <2>3, <2>4 DEF x
  <2> QED
    BY <2>5, <2>6, <2>7
<1>33. CASE Stealing!MainGetsFuture
  BY <1>33 DEF Stealing!MainGetsFuture
<1>34. CASE Stealing!MainDropsFuture
  BY <1>34 DEF Stealing!MainDropsFuture
<1>35. CASE Stealing!MainLeavesScope
  BY <1>35 DEF Stealing!MainLeavesScope
<1>36. CASE Stealing!DtorLock
  BY <1>36 DEF Stealing!DtorLock
<1>37. CASE Stealing!DtorStops
  BY <1>37 DEF Stealing!DtorStops
<1>38. CASE Stealing!DtorNotifyAll
  BY <1>38 DEF Stealing!DtorNotifyAll
<1>39. CASE Stealing!DtorJoined
  BY <1>39 DEF Stealing!DtorJoined
<1>40. CASE UNCHANGED Stealing!vars
  BY <1>40 DEF Stealing!vars
<1> HIDE DEF StealingInv, StealingOnce
<1> QED
  BY <1>1, <1>2, <1>3, <1>4, <1>5, <1>6, <1>7, <1>8, <1>9, <1>10, <1>11, <1>12,
     <1>13, <1>14, <1>15, <1>16, <1>17, <1>18, <1>19, <1>20, <1>21, <1>22,
     <1>23, <1>24, <1>25, <1>26, <1>27, <1>28, <1>29, <1>30, <1>31, <1>32,
     <1>33, <1>34, <1>35, <1>36, <1>37, <1>38, <1>39, <1>40,
     StealingPeople
  DEF Stealing!Next, Stealing!worker, Stealing!main, Stealing!submit,
      Stealing!try_steal, Stealing!MainReturned

LEMMA InQueuesAre ==
  /\ \A t : t \in InQueues <=>
       t \in Elements(tasks_) \/ \E w \in Indices : t \in Elements(local_tasks_[w])
  /\ \A t : t \in InQueues' <=>
       t \in Elements(tasks_') \/ \E w \in Indices : t \in Elements(local_tasks_'[w])
  BY DEF InQueues, Stealing!Queued, Stealing!Elements, Elements, Indices

LEMMA CountedAre ==
  /\ \A t : t \in Counted <=>
       \/ t \in InQueues /\ \A w \in Indices : pc[w] = "local_count" => t # Child[task[w]]
       \/ \E w \in Indices : pc[w] \in TakenAt /\ t = task[w]
  /\ \A t : t \in Counted' <=>
       \/ t \in InQueues' /\ \A w \in Indices : pc'[w] = "local_count" => t # Child[task'[w]]
       \/ \E w \in Indices : pc'[w] \in TakenAt /\ t = task'[w]
  BY DEF Counted, Taken, Pushed

LEMMA InQueuesFinite ==
  /\ StealingTyped => IsFiniteSet(InQueues) /\ InQueues \subseteq Tasks
  /\ StealingTyped /\ StealingOnce => IsFiniteSet(Counted) /\ Counted \subseteq Tasks
<1>1. ASSUME StealingTyped PROVE InQueues \subseteq Tasks
  BY <1>1, InQueuesAre, ElementsIn DEF StealingTyped
<1>2. ASSUME StealingTyped, StealingOnce PROVE Counted \subseteq Tasks
  BY <1>1, <1>2, CountedAre DEF StealingOnce, HeldOnce, BusyAt
<1> QED
  BY <1>1, <1>2, People, FS_Subset

(* The three parts of the invariant about how many tasks are queued.       *)
Counts == CounterCounts /\ Drained /\ SearchersSuffice

LEMMA SearchCountsAreNat ==
  /\ SearchCount \in Nat /\ ToNotifyCount \in Nat
  /\ SearchCount' \in Nat /\ ToNotifyCount' \in Nat
  /\ SearchCount' = Count(Indices, pc', SearchAt)
  /\ ToNotifyCount' = Count(Crew, pc', {"local_count", "notify"})
<1>1. /\ SearchCount' = Count(Indices, pc', SearchAt)
      /\ ToNotifyCount' = Count(Crew, pc', {"local_count", "notify"})
  BY DEF SearchCount, ToNotifyCount, Count, Standing
<1> QED
  BY <1>1, StealingPeople, CountIsNat DEF SearchCount, ToNotifyCount

LEMMA SearchCountsAfterGoto ==
  ASSUME StealingTyped, NEW from, NEW to, NEW t \in Crew, Stealing!Goto(t, from, to)
  PROVE  /\ SearchCount' = SearchCount +
              (IF t \in Indices THEN Change(SearchAt, from, to) ELSE 0)
         /\ ToNotifyCount' = ToNotifyCount + Change({"local_count", "notify"}, from, to)
<1>1. DOMAIN pc = Crew /\ Moves(t, to, pc, pc') /\ pc[t] = from
  BY DEF StealingTyped, Stealing!Goto, Moves
<1>2. \A S \in {Indices, Crew} : S \subseteq Crew /\ IsFiniteSet(S)
  BY StealingPeople
<1>3. ASSUME NEW S \in {Indices, Crew}, NEW L
      PROVE  Count(S, pc', L) = Count(S, pc, L) +
               (IF t \in S THEN Change(L, from, to) ELSE 0)
  <2>1. Count(S, pc', L) =
          Count(S, pc, L) +
            (IF t \notin S \/ (pc[t] \in L <=> to \in L) THEN 0
             ELSE IF to \in L THEN 1 ELSE -1)
    BY <1>1, <1>2, CountAfterMove
  <2> QED
    BY <1>1, <2>1 DEF Change
<1> QED
  BY <1>3, SearchCountsAreNat DEF SearchCount, ToNotifyCount

(* Nothing is queued when the counter is zero under the global mutex: any  *)
(* thread between a push and the count would hold it.                      *)
LEMMA NothingQueued ==
  ASSUME StealingInv, all_queued_tasks_ = 0, NEW w \in Indices, pc[w] = "predicate"
  PROVE  InQueues = {}
<1>1. Counted = {}
  BY InQueuesFinite, FS_EmptySet DEF StealingInv, CounterCounts
<1>2. \A v \in Indices : pc[v] # "local_count"
  BY StealingPeople DEF StealingInv, StealingLocked
<1> QED
  BY <1>1, <1>2, CountedAre

(* A step that neither changes a queue nor the counter, by a thread that   *)
(* goes on searching, if it did.                                           *)
LEMMA OrdinaryStep ==
  ASSUME StealingInv, NEW t \in Crew, NEW from, NEW to, Stealing!Goto(t, from, to),
         tasks_' = tasks_, local_tasks_' = local_tasks_,
         all_queued_tasks_' = all_queued_tasks_, stopping_ => stopping_',
         from \notin TakenAt \cup {"local_count", "notify", "exited", "destroyed"},
         to \notin TakenAt \cup {"local_count", "asleep", "exited", "destroyed"},
         \A u \in Indices \ {t} : task'[u] = task[u],
         t \in Indices /\ from \in SearchAt => to \in SearchAt
  PROVE  Counts'
<1> USE DEF StealingInv, Stealing!Goto
<1>1. InQueues' = InQueues
  BY InQueuesAre
<1>2. \A u \in Indices \ {t} : pc'[u] = pc[u] /\ task'[u] = task[u]
  BY StealingPeople DEF StealingTyped
<1>3. pc[t] = from /\ pc'[t] = to /\ (t # Main => pc'[Main] = pc[Main])
  BY StealingPeople DEF StealingTyped
<1>4. Counted' = Counted
  <2>1. \A u \in Indices :
          /\ pc'[u] \in TakenAt <=> pc[u] \in TakenAt
          /\ pc'[u] = "local_count" <=> pc[u] = "local_count"
          /\ pc[u] \in TakenAt \cup {"local_count"} => task'[u] = task[u]
    BY <1>2, <1>3
  <2>2. \A x : x \in Counted' <=> x \in Counted
    BY <1>1, <2>1, CountedAre
  <2> QED
    BY <2>2
<1>5. CounterCounts'
  BY <1>4 DEF CounterCounts
<1>6. Drained'
  BY <1>1, <1>2, <1>3 DEF Drained
<1>7. SearchersSuffice'
  <2>1. SearchCount' >= SearchCount /\ ToNotifyCount' >= ToNotifyCount
    <3>1. /\ SearchCount' = SearchCount +
               (IF t \in Indices THEN Change(SearchAt, from, to) ELSE 0)
          /\ ToNotifyCount' = ToNotifyCount + Change({"local_count", "notify"}, from, to)
      BY SearchCountsAfterGoto
    <3> QED
      BY <3>1, SearchCountsAreNat DEF Change
  <2>2. \A u \in Indices : pc'[u] = "asleep" => pc[u] = "asleep"
    BY <1>2, <1>3
  <2>3. Cardinality(InQueues) \in Nat
    BY InQueuesFinite, FS_CardinalityType
  <2> QED
    BY <1>1, <2>1, <2>2, <2>3, SearchCountsAreNat DEF SearchersSuffice
<1> QED
  BY <1>5, <1>6, <1>7 DEF Counts


(* What remains of SearchersSuffice and Drained, given the change of the   *)
(* number of queued tasks.                                                 *)
LEMMA SearchersStillSuffice ==
  ASSUME StealingInv, NEW d \in Int,
         Cardinality(InQueues') = Cardinality(InQueues) + d,
         SearchCount' + ToNotifyCount' >= SearchCount + ToNotifyCount + d,
         \A u \in Indices : pc'[u] = "asleep" => pc[u] = "asleep"
  PROVE  SearchersSuffice'
<1>1. Cardinality(InQueues) \in Nat
  BY InQueuesFinite, FS_CardinalityType DEF StealingInv
<1>2. (\E w \in Indices : pc'[w] = "asleep") =>
        Cardinality(InQueues') <= SearchCount' + ToNotifyCount'
  BY <1>1, SearchCountsAreNat DEF StealingInv, SearchersSuffice
<1> QED
  BY <1>2 DEF SearchersSuffice

LEMMA CountsAfterPop ==
  ASSUME StealingInv, stopping_' = stopping_,
         NEW w \in Indices, NEW v \in Indices, NEW x \in Tasks, Pops(w, v, x)
  PROVE  Counts'
<1> USE DEF StealingInv
<1>1. PICK to \in TakenAt : Stealing!Goto(w, pc[w], to)
  BY DEF Pops, Stealing!Goto
<1>2. /\ pc[w] \in {"own_locked", "steal_locked"} /\ pc'[w] = to /\ task'[w] = x
      /\ \A u \in Indices \ {w} : pc'[u] = pc[u] /\ task'[u] = task[u]
      /\ pc'[Main] = pc[Main]
  BY <1>1, StealingPeople DEF Pops, StealingTyped, Stealing!Goto
<1>3. x \in InQueues /\ InQueues' = InQueues \ {x}
  <2>1. x \in InQueues
    BY InQueuesAre DEF Pops
  <2>2. /\ x \notin Elements(tasks_)
        /\ \A u \in Indices \ {v} : x \notin Elements(local_tasks_[u])
    BY DEF Pops, StealingOnce, QueuedOnce, Global, Deque
  <2>3. \A y : y \in InQueues' <=> y \in InQueues /\ y # x
    BY <2>2, InQueuesAre DEF Pops
  <2> QED
    BY <2>1, <2>3
<1>4. Counted' = Counted
  <2>1. \A u \in Indices : pc[u] = "local_count" => x # Child[task[u]]
    BY DEF Pops, StealingOnce, HeldOnce, QueuedOnce, BusyAt, PushedAt, Global, Deque
  <2>2. \A u \in Indices :
          /\ pc'[u] = "local_count" <=> pc[u] = "local_count"
          /\ pc[u] = "local_count" => task'[u] = task[u]
          /\ pc'[u] \in TakenAt <=> pc[u] \in TakenAt \/ u = w
          /\ pc[u] \in TakenAt => task'[u] = task[u]
    BY <1>2 DEF TakenAt
  <2>3. \A y : y \in Counted' <=> y \in Counted
    BY <1>2, <1>3, <2>1, <2>2, CountedAre
  <2> QED
    BY <2>3
<1>5. CounterCounts'
  BY <1>4 DEF CounterCounts, Pops
<1>6. Drained'
  BY <1>2, <1>3 DEF Drained, TakenAt
<1>7. SearchersSuffice'
  <2>1. Cardinality(InQueues') = Cardinality(InQueues) + (-1)
    BY <1>3, InQueuesFinite, FS_RemoveElement, FS_CardinalityType
  <2>2. /\ SearchCount' = SearchCount + Change(SearchAt, pc[w], to)
        /\ ToNotifyCount' = ToNotifyCount + Change({"local_count", "notify"}, pc[w], to)
    BY <1>1, SearchCountsAfterGoto, StealingPeople
  <2>3. SearchCount' + ToNotifyCount' >= SearchCount + ToNotifyCount + (-1)
    BY <1>2, <2>2, SearchCountsAreNat DEF Change, SearchAt, TakenAt
  <2>4. \A u \in Indices : pc'[u] = "asleep" => pc[u] = "asleep"
    BY <1>2 DEF TakenAt
  <2> QED
    BY <2>1, <2>3, <2>4, SearchersStillSuffice
<1> QED
  BY <1>5, <1>6, <1>7 DEF Counts

(* Who has taken a task from a deque counts it as taken.                   *)
LEMMA CountsAfterCount ==
  ASSUME StealingInv, NEW w \in Indices, NEW from \in TakenAt,
         Stealing!Goto(w, from, "run"), tasks_' = tasks_, local_tasks_' = local_tasks_,
         all_queued_tasks_' = all_queued_tasks_ - 1, stopping_' = stopping_, task' = task
  PROVE  Counts'
<1> USE DEF StealingInv
<1> DEFINE x == task[w]
<1>1. /\ pc[w] = from /\ pc'[w] = "run" /\ \A u \in Indices \ {w} : pc'[u] = pc[u]
      /\ pc'[Main] = pc[Main]
  BY StealingPeople DEF StealingTyped, Stealing!Goto
<1>2. InQueues' = InQueues
  BY InQueuesAre
<1>3. x \in Counted /\ Counted' = Counted \ {x}
  <2>1. x \notin InQueues /\ \A u \in Indices : pc[u] \in TakenAt /\ task[u] = x => u = w
    BY <1>1, InQueuesAre DEF StealingOnce, HeldOnce, Global, Deque, BusyAt, TakenAt
  <2>2. \A u \in Indices : /\ pc'[u] = "local_count" <=> pc[u] = "local_count"
                           /\ pc'[u] \in TakenAt <=> pc[u] \in TakenAt /\ u # w
    BY <1>1 DEF TakenAt
  <2>3. x \in Counted
    BY <1>1, CountedAre
  <2>4. \A y : y \in Counted' <=> y \in Counted /\ y # x
    BY <1>1, <1>2, <2>1, <2>2, CountedAre
  <2> QED
    BY <2>3, <2>4
<1>4. CounterCounts'
  BY <1>3, InQueuesFinite, FS_RemoveElement DEF CounterCounts
<1>5. Drained'
  BY <1>1, <1>2 DEF Drained, TakenAt
<1>6. SearchersSuffice'
  <2>1. Cardinality(InQueues') = Cardinality(InQueues) + 0
    BY <1>2, InQueuesFinite, FS_CardinalityType
  <2>2. /\ SearchCount' = SearchCount + Change(SearchAt, from, "run")
        /\ ToNotifyCount' = ToNotifyCount + Change({"local_count", "notify"}, from, "run")
    BY SearchCountsAfterGoto, StealingPeople
  <2>3. SearchCount' + ToNotifyCount' >= SearchCount + ToNotifyCount + 0
    BY <2>2, SearchCountsAreNat DEF Change, SearchAt, TakenAt
  <2>4. \A u \in Indices : pc'[u] = "asleep" => pc[u] = "asleep"
    BY <1>1
  <2> QED
    BY <2>1, <2>3, <2>4, SearchersStillSuffice
<1> QED
  BY <1>4, <1>5, <1>6 DEF Counts

(* A submitter hands its place in the count to the worker that it wakes.   *)
LEMMA SearchCountsAfterWake ==
  ASSUME StealingTyped, NEW t \in Crew, pc[t] = "notify",
         NEW w \in Indices, pc[w] = "asleep",
         pc' = [pc EXCEPT ![t] = "submitted", ![w] = "relock"]
  PROVE  /\ SearchCount' = SearchCount + 1
         /\ ToNotifyCount' = ToNotifyCount - 1
<1> DEFINE g == [pc EXCEPT ![t] = "submitted"]
           L == {"local_count", "notify"}
<1>1. /\ DOMAIN pc = Crew /\ Moves(t, "submitted", pc, g)
      /\ DOMAIN g = Crew /\ Moves(w, "relock", g, pc') /\ g[w] = "asleep"
  BY StealingPeople DEF StealingTyped, Moves
<1> HIDE DEF g
<1>2. Indices \subseteq Crew /\ IsFiniteSet(Indices) /\ IsFiniteSet(Crew)
  BY StealingPeople
<1>3. /\ Count(Indices, g, SearchAt) = Count(Indices, pc, SearchAt)
      /\ Count(Indices, pc', SearchAt) = Count(Indices, g, SearchAt) + 1
  BY <1>1, <1>2, CountAfterMove, SearchCountsAreNat DEF SearchAt, SearchCount
<1>4. /\ Count(Crew, g, L) = Count(Crew, pc, L) - 1
      /\ Count(Crew, pc', L) = Count(Crew, g, L)
  BY <1>1, <1>2, CountAfterMove, SearchCountsAreNat, StealingPeople DEF ToNotifyCount
<1> QED
  BY <1>3, <1>4, SearchCountsAreNat DEF SearchCount, ToNotifyCount


LEMMA StealingCountsKept ==
  StealingInv /\ (Stealing!Next \/ UNCHANGED Stealing!vars) => Counts'
<1> SUFFICES ASSUME StealingInv, Stealing!Next \/ UNCHANGED Stealing!vars PROVE Counts'
  OBVIOUS
<1> USE StealingPeople
    DEF TakenAt, SearchAt, Stealing!queues, Stealing!stealVars, Stealing!unchangedByMain
<1>1. ASSUME NEW w \in Indices, Stealing!OwnLock(w) PROVE Counts'
  <2>1. /\ Stealing!Goto(w, "own", "own_locked")
        /\ tasks_' = tasks_ /\ local_tasks_' = local_tasks_
        /\ all_queued_tasks_' = all_queued_tasks_ /\ (stopping_ => stopping_')
        /\ \A u \in Indices \ {w} : task'[u] = task[u]
    BY <1>1 DEF Stealing!OwnLock, StealingInv, StealingTyped
  <2> QED
    BY <2>1, OrdinaryStep
<1>2. ASSUME NEW w \in Indices, Stealing!OwnPop(w) PROVE Counts'
  <2>1. stopping_' = stopping_
    BY <1>2 DEF Stealing!OwnPop
  <2> QED
    BY <1>2, <2>1, Popping, CountsAfterPop
<1>3. ASSUME NEW w \in Indices, Stealing!OwnCount(w) PROVE Counts'
  <2>1. /\ Stealing!Goto(w, "own_count", "run") /\ task' = task
        /\ tasks_' = tasks_ /\ local_tasks_' = local_tasks_
        /\ all_queued_tasks_' = all_queued_tasks_ - 1 /\ stopping_' = stopping_
    BY <1>3 DEF Stealing!OwnCount
  <2> QED
    BY <2>1, CountsAfterCount
<1>4. ASSUME NEW w \in Indices, Stealing!OwnEmpty(w) PROVE Counts'
  <2>1. /\ Stealing!Goto(w, "own_locked", "steal")
        /\ tasks_' = tasks_ /\ local_tasks_' = local_tasks_
        /\ all_queued_tasks_' = all_queued_tasks_ /\ (stopping_ => stopping_')
        /\ \A u \in Indices \ {w} : task'[u] = task[u]
    BY <1>4 DEF Stealing!OwnEmpty, StealingInv, StealingTyped
  <2> QED
    BY <2>1, OrdinaryStep
<1>5. ASSUME NEW w \in Indices, Stealing!StealSkipsSelf(w) PROVE Counts'
  <2>1. /\ Stealing!Goto(w, "steal", "steal")
        /\ tasks_' = tasks_ /\ local_tasks_' = local_tasks_
        /\ all_queued_tasks_' = all_queued_tasks_ /\ (stopping_ => stopping_')
        /\ \A u \in Indices \ {w} : task'[u] = task[u]
    BY <1>5 DEF Stealing!StealSkipsSelf, StealingInv, StealingTyped
  <2> QED
    BY <2>1, OrdinaryStep
<1>6. ASSUME NEW w \in Indices, Stealing!StealTryLock(w) PROVE Counts'
  <2>1. /\ Stealing!Goto(w, "steal", "steal_locked")
        /\ tasks_' = tasks_ /\ local_tasks_' = local_tasks_
        /\ all_queued_tasks_' = all_queued_tasks_ /\ (stopping_ => stopping_')
        /\ \A u \in Indices \ {w} : task'[u] = task[u]
    BY <1>6 DEF Stealing!StealTryLock, StealingInv, StealingTyped
  <2> QED
    BY <2>1, OrdinaryStep
<1>7. ASSUME NEW w \in Indices, Stealing!StealLockFails(w) PROVE Counts'
  <2>1. /\ Stealing!Goto(w, "steal", "steal")
        /\ tasks_' = tasks_ /\ local_tasks_' = local_tasks_
        /\ all_queued_tasks_' = all_queued_tasks_ /\ (stopping_ => stopping_')
        /\ \A u \in Indices \ {w} : task'[u] = task[u]
    BY <1>7 DEF Stealing!StealLockFails, StealingInv, StealingTyped
  <2> QED
    BY <2>1, OrdinaryStep
<1>8. ASSUME NEW w \in Indices, Stealing!StealNothing(w) PROVE Counts'
  <2>1. /\ Stealing!Goto(w, "steal_locked", "steal")
        /\ tasks_' = tasks_ /\ local_tasks_' = local_tasks_
        /\ all_queued_tasks_' = all_queued_tasks_ /\ (stopping_ => stopping_')
        /\ \A u \in Indices \ {w} : task'[u] = task[u]
    BY <1>8 DEF Stealing!StealNothing, StealingInv, StealingTyped
  <2> QED
    BY <2>1, OrdinaryStep
<1>9. ASSUME NEW w \in Indices, Stealing!StealPop(w) PROVE Counts'
  <2>1. stopping_' = stopping_
    BY <1>9 DEF Stealing!StealPop
  <2> QED
    BY <1>9, <2>1, Popping, CountsAfterPop
<1>10. ASSUME NEW w \in Indices, Stealing!StealCount(w) PROVE Counts'
  <2>1. /\ Stealing!Goto(w, "steal_count", "run") /\ task' = task
        /\ tasks_' = tasks_ /\ local_tasks_' = local_tasks_
        /\ all_queued_tasks_' = all_queued_tasks_ - 1 /\ stopping_' = stopping_
    BY <1>10 DEF Stealing!StealCount
  <2> QED
    BY <2>1, CountsAfterCount
<1>11. ASSUME NEW w \in Indices, Stealing!StealAgain(w) PROVE Counts'
  <2>1. /\ Stealing!Goto(w, "steal", "steal")
        /\ tasks_' = tasks_ /\ local_tasks_' = local_tasks_
        /\ all_queued_tasks_' = all_queued_tasks_ /\ (stopping_ => stopping_')
        /\ \A u \in Indices \ {w} : task'[u] = task[u]
    BY <1>11 DEF Stealing!StealAgain, StealingInv, StealingTyped
  <2> QED
    BY <2>1, OrdinaryStep
<1>12. ASSUME NEW w \in Indices, Stealing!StealGivesUp(w) PROVE Counts'
  <2>1. /\ Stealing!Goto(w, "steal", "global")
        /\ tasks_' = tasks_ /\ local_tasks_' = local_tasks_
        /\ all_queued_tasks_' = all_queued_tasks_ /\ (stopping_ => stopping_')
        /\ \A u \in Indices \ {w} : task'[u] = task[u]
    BY <1>12 DEF Stealing!StealGivesUp, StealingInv, StealingTyped
  <2> QED
    BY <2>1, OrdinaryStep
<1>13. ASSUME NEW w \in Indices, Stealing!GlobalLock(w) PROVE Counts'
  <2>1. /\ Stealing!Goto(w, "global", "global_locked")
        /\ tasks_' = tasks_ /\ local_tasks_' = local_tasks_
        /\ all_queued_tasks_' = all_queued_tasks_ /\ (stopping_ => stopping_')
        /\ \A u \in Indices \ {w} : task'[u] = task[u]
    BY <1>13 DEF Stealing!GlobalLock, StealingInv, StealingTyped
  <2> QED
    BY <2>1, OrdinaryStep
<1>14. ASSUME NEW w \in Indices, Stealing!GlobalTake(w) PROVE Counts'
  <2>1. /\ pc[w] = "global_locked" /\ pc'[w] = "run" /\ Stealing!Goto(w, "global_locked", "run")
        /\ pc'[Main] = pc[Main] /\ stopping_' = stopping_
        /\ \A u \in Indices \ {w} : pc'[u] = pc[u] /\ task'[u] = task[u]
    BY <1>14 DEF Stealing!GlobalTake, StealingInv, StealingTyped, Stealing!Goto
  <2> DEFINE x == Head(tasks_)
  <2>2. /\ x \in Elements(tasks_) /\ Elements(tasks_') = Elements(tasks_) \ {x}
        /\ local_tasks_' = local_tasks_ /\ task'[w] = x
        /\ all_queued_tasks_' = all_queued_tasks_ - 1
    <3>1. tasks_ \in Seq(Tasks) /\ tasks_ # << >> /\ Distinct(tasks_)
      BY <1>14 DEF Stealing!GlobalTake, StealingInv, StealingTyped, StealingOnce, QueuedOnce
    <3>2. x \in Elements(tasks_) /\ Elements(Tail(tasks_)) = Elements(tasks_) \ {x}
      BY <3>1, TailElements
    <3> QED
      BY <1>14, <3>2 DEF Stealing!GlobalTake, StealingInv, StealingTyped
  <2> HIDE DEF x
  <2>3. /\ \A u \in Indices : x \notin Elements(local_tasks_[u])
        /\ \A u \in Indices : pc[u] \in TakenAt => task[u] # x
        /\ \A u \in Indices : pc[u] = "local_count" => x # Child[task[u]]
    BY <2>2
    DEF StealingInv, StealingOnce, HeldOnce, QueuedOnce, BusyAt, PushedAt, Global, Deque
  <2>4. x \in InQueues /\ InQueues' = InQueues \ {x}
    <3>1. x \in InQueues /\ \A y : y \in InQueues' <=> y \in InQueues /\ y # x
      BY <2>2, <2>3, InQueuesAre
    <3> QED
      BY <3>1
  <2>5. x \in Counted /\ Counted' = Counted \ {x}
    <3>1. \A u \in Indices : /\ pc'[u] = "local_count" <=> pc[u] = "local_count"
                             /\ pc[u] = "local_count" => task'[u] = task[u]
                             /\ pc'[u] \in TakenAt <=> pc[u] \in TakenAt
                             /\ pc[u] \in TakenAt => task'[u] = task[u]
      BY <2>1
    <3>2. x \in Counted /\ \A y : y \in Counted' <=> y \in Counted /\ y # x
      BY <2>3, <2>4, <3>1, CountedAre
    <3> QED
      BY <3>2
  <2>6. CounterCounts'
    BY <2>2, <2>5, InQueuesFinite, FS_RemoveElement DEF CounterCounts, StealingInv
  <2>7. Drained'
    BY <2>1, <2>4 DEF Drained, StealingInv
  <2>8. SearchersSuffice'
    <3>1. Cardinality(InQueues') = Cardinality(InQueues) + (-1)
      BY <2>4, InQueuesFinite, FS_RemoveElement, FS_CardinalityType DEF StealingInv
    <3>2. /\ SearchCount' = SearchCount + Change(SearchAt, "global_locked", "run")
          /\ ToNotifyCount' =
               ToNotifyCount + Change({"local_count", "notify"}, "global_locked", "run")
      BY <2>1, SearchCountsAfterGoto DEF StealingInv
    <3>3. SearchCount' + ToNotifyCount' >= SearchCount + ToNotifyCount + (-1)
      BY <3>2, SearchCountsAreNat DEF Change
    <3>4. \A u \in Indices : pc'[u] = "asleep" => pc[u] = "asleep"
      BY <2>1
    <3> QED
      BY <3>1, <3>3, <3>4, SearchersStillSuffice
  <2> QED
    BY <2>6, <2>7, <2>8 DEF Counts
<1>15. ASSUME NEW w \in Indices, Stealing!GlobalEmpty(w) PROVE Counts'
  <2>1. /\ Stealing!Goto(w, "global_locked", "predicate")
        /\ tasks_' = tasks_ /\ local_tasks_' = local_tasks_
        /\ all_queued_tasks_' = all_queued_tasks_ /\ (stopping_ => stopping_')
        /\ \A u \in Indices \ {w} : task'[u] = task[u]
    BY <1>15 DEF Stealing!GlobalEmpty, StealingInv, StealingTyped
  <2> QED
    BY <2>1, OrdinaryStep
<1>16. ASSUME NEW w \in Indices, Stealing!WaitSleeps(w) PROVE Counts'
  <2>1. /\ pc[w] = "predicate" /\ pc'[w] = "asleep" /\ Stealing!Goto(w, "predicate", "asleep")
        /\ pc'[Main] = pc[Main] /\ stopping_' = stopping_
        /\ \A u \in Indices \ {w} : pc'[u] = pc[u] /\ task'[u] = task[u]
    BY <1>16 DEF Stealing!WaitSleeps, StealingInv, StealingTyped, Stealing!Goto
  <2>2. InQueues = {} /\ InQueues' = InQueues
    <3>1. all_queued_tasks_ = 0 /\ tasks_' = tasks_ /\ local_tasks_' = local_tasks_
      BY <1>16 DEF Stealing!WaitSleeps
    <3> QED
      BY <2>1, <3>1, NothingQueued, InQueuesAre
  <2>3. Counted' = Counted
    <3>1. \A u \in Indices : /\ pc'[u] = "local_count" <=> pc[u] = "local_count"
                             /\ pc'[u] \in TakenAt <=> pc[u] \in TakenAt
      BY <2>1
    <3>2. \A u \in Indices : task'[u] = task[u]
      BY <1>16 DEF Stealing!WaitSleeps
    <3>3. \A y : y \in Counted' <=> y \in Counted
      BY <2>2, <3>1, <3>2, CountedAre
    <3> QED
      BY <3>3
  <2>4. CounterCounts'
    BY <1>16, <2>3 DEF Stealing!WaitSleeps, CounterCounts, StealingInv
  <2>5. Drained'
    BY <1>16, <2>1, <2>2 DEF Stealing!WaitSleeps, Drained, StealingInv
  <2>6. SearchersSuffice'
    <3>1. Cardinality(InQueues') = 0 /\ SearchCount' + ToNotifyCount' >= 0
      BY <2>2, FS_EmptySet, SearchCountsAreNat
    <3> QED
      BY <3>1 DEF SearchersSuffice
  <2> QED
    BY <2>4, <2>5, <2>6 DEF Counts
<1>17. ASSUME NEW w \in Indices, Stealing!WorkerWakes(w) PROVE Counts'
  <2>1. /\ Stealing!Goto(w, "asleep", "relock")
        /\ tasks_' = tasks_ /\ local_tasks_' = local_tasks_
        /\ all_queued_tasks_' = all_queued_tasks_ /\ (stopping_ => stopping_')
        /\ \A u \in Indices \ {w} : task'[u] = task[u]
    BY <1>17 DEF Stealing!WorkerWakes, StealingInv, StealingTyped
  <2> QED
    BY <2>1, OrdinaryStep
<1>18. ASSUME NEW w \in Indices, Stealing!WaitRelocks(w) PROVE Counts'
  <2>1. /\ Stealing!Goto(w, "relock", "predicate")
        /\ tasks_' = tasks_ /\ local_tasks_' = local_tasks_
        /\ all_queued_tasks_' = all_queued_tasks_ /\ (stopping_ => stopping_')
        /\ \A u \in Indices \ {w} : task'[u] = task[u]
    BY <1>18 DEF Stealing!WaitRelocks, StealingInv, StealingTyped
  <2> QED
    BY <2>1, OrdinaryStep
<1>19. ASSUME NEW w \in Indices, Stealing!WaitEndsWithTask(w) PROVE Counts'
  <2>1. /\ Stealing!Goto(w, "predicate", "own")
        /\ tasks_' = tasks_ /\ local_tasks_' = local_tasks_
        /\ all_queued_tasks_' = all_queued_tasks_ /\ (stopping_ => stopping_')
        /\ \A u \in Indices \ {w} : task'[u] = task[u]
    BY <1>19 DEF Stealing!WaitEndsWithTask, StealingInv, StealingTyped
  <2> QED
    BY <2>1, OrdinaryStep
<1>20. ASSUME NEW w \in Indices, Stealing!WorkerExits(w) PROVE Counts'
  <2>1. /\ pc[w] = "predicate" /\ pc'[w] = "exited" /\ Stealing!Goto(w, "predicate", "exited")
        /\ pc'[Main] = pc[Main] /\ stopping_' = stopping_
        /\ \A u \in Indices \ {w} : pc'[u] = pc[u] /\ task'[u] = task[u]
    BY <1>20 DEF Stealing!WorkerExits, StealingInv, StealingTyped, Stealing!Goto
  <2>2. InQueues = {} /\ InQueues' = InQueues
    <3>1. all_queued_tasks_ = 0 /\ tasks_' = tasks_ /\ local_tasks_' = local_tasks_
      BY <1>20 DEF Stealing!WorkerExits
    <3> QED
      BY <2>1, <3>1, NothingQueued, InQueuesAre
  <2>3. Counted' = Counted
    <3>1. \A u \in Indices : /\ pc'[u] = "local_count" <=> pc[u] = "local_count"
                             /\ pc'[u] \in TakenAt <=> pc[u] \in TakenAt
      BY <2>1
    <3>2. \A u \in Indices : task'[u] = task[u]
      BY <1>20 DEF Stealing!WorkerExits
    <3>3. \A y : y \in Counted' <=> y \in Counted
      BY <2>2, <3>1, <3>2, CountedAre
    <3> QED
      BY <3>3
  <2>4. CounterCounts'
    BY <1>20, <2>3 DEF Stealing!WorkerExits, CounterCounts, StealingInv
  <2>5. Drained'
    BY <1>20, <2>1, <2>2 DEF Stealing!WorkerExits, Drained, StealingInv
  <2>6. SearchersSuffice'
    <3>1. Cardinality(InQueues') = 0 /\ SearchCount' + ToNotifyCount' >= 0
      BY <2>2, FS_EmptySet, SearchCountsAreNat
    <3> QED
      BY <3>1 DEF SearchersSuffice
  <2> QED
    BY <2>4, <2>5, <2>6 DEF Counts
<1>21. ASSUME NEW w \in Indices, Stealing!RunTask(w) PROVE Counts'
  <2>1. /\ Stealing!Goto(w, "run", "own")
        /\ tasks_' = tasks_ /\ local_tasks_' = local_tasks_
        /\ all_queued_tasks_' = all_queued_tasks_ /\ (stopping_ => stopping_')
        /\ \A u \in Indices \ {w} : task'[u] = task[u]
    BY <1>21 DEF Stealing!RunTask, StealingInv, StealingTyped
  <2> QED
    BY <2>1, OrdinaryStep
<1>22. ASSUME NEW w \in Indices, Stealing!TaskSubmits(w) PROVE Counts'
  <2>1. /\ Stealing!Goto(w, "run", "submit")
        /\ tasks_' = tasks_ /\ local_tasks_' = local_tasks_
        /\ all_queued_tasks_' = all_queued_tasks_ /\ (stopping_ => stopping_')
        /\ \A u \in Indices \ {w} : task'[u] = task[u]
    BY <1>22 DEF Stealing!TaskSubmits, StealingInv, StealingTyped
  <2> QED
    BY <2>1, OrdinaryStep
<1>23. ASSUME NEW w \in Indices, Stealing!TaskGetsChild(w) PROVE Counts'
  <2>1. /\ Stealing!Goto(w, "submitted", "own")
        /\ tasks_' = tasks_ /\ local_tasks_' = local_tasks_
        /\ all_queued_tasks_' = all_queued_tasks_ /\ (stopping_ => stopping_')
        /\ \A u \in Indices \ {w} : task'[u] = task[u]
    BY <1>23 DEF Stealing!TaskGetsChild, StealingInv, StealingTyped
  <2> QED
    BY <2>1, OrdinaryStep
<1>24. ASSUME NEW w \in Indices, Stealing!TaskDropsChild(w) PROVE Counts'
  <2>1. /\ Stealing!Goto(w, "submitted", "own")
        /\ tasks_' = tasks_ /\ local_tasks_' = local_tasks_
        /\ all_queued_tasks_' = all_queued_tasks_ /\ (stopping_ => stopping_')
        /\ \A u \in Indices \ {w} : task'[u] = task[u]
    BY <1>24 DEF Stealing!TaskDropsChild, StealingInv, StealingTyped
  <2> QED
    BY <2>1, OrdinaryStep
<1>25. ASSUME NEW w \in Indices, Stealing!SubmitThrows(w) PROVE Counts'
  <2>1. /\ Stealing!Goto(w, "submit_locked", "own")
        /\ tasks_' = tasks_ /\ local_tasks_' = local_tasks_
        /\ all_queued_tasks_' = all_queued_tasks_ /\ (stopping_ => stopping_')
        /\ \A u \in Indices \ {w} : task'[u] = task[u]
    BY <1>25 DEF Stealing!SubmitThrows, StealingInv, StealingTyped
  <2> QED
    BY <2>1, OrdinaryStep
<1>26. ASSUME NEW w \in Indices, Stealing!SubmitLocalLock(w) PROVE Counts'
  <2>1. /\ Stealing!Goto(w, "submit_locked", "local_locked")
        /\ tasks_' = tasks_ /\ local_tasks_' = local_tasks_
        /\ all_queued_tasks_' = all_queued_tasks_ /\ (stopping_ => stopping_')
        /\ \A u \in Indices \ {w} : task'[u] = task[u]
    BY <1>26 DEF Stealing!SubmitLocalLock, StealingInv, StealingTyped
  <2> QED
    BY <2>1, OrdinaryStep
<1>27. ASSUME NEW w \in Indices, Stealing!LocalPush(w) PROVE Counts'
  <2>1. /\ pc[w] = "local_locked" /\ pc'[w] = "local_count" /\ Stealing!Goto(w, "local_locked", "local_count")
        /\ pc'[Main] = pc[Main] /\ stopping_' = stopping_
        /\ \A u \in Indices \ {w} : pc'[u] = pc[u] /\ task'[u] = task[u]
    BY <1>27 DEF Stealing!LocalPush, StealingInv, StealingTyped, Stealing!Goto
  <2> DEFINE x == Child[task[w]]
  <2>2. /\ x \in Tasks /\ future[x] = "none"
        /\ Elements(local_tasks_'[w]) = Elements(local_tasks_[w]) \cup {x}
        /\ \A u \in Indices \ {w} : local_tasks_'[u] = local_tasks_[u]
        /\ tasks_' = tasks_ /\ task' = task /\ all_queued_tasks_' = all_queued_tasks_
        /\ ~stopping_
    BY <1>27, <2>1, Pushing DEF Stealing!LocalPush, StealingInv, StealingLocked
  <2>3. /\ x \notin InQueues
        /\ \A u \in Indices : pc[u] \in TakenAt => task[u] # x
    BY <2>2, InQueuesAre
    DEF StealingInv, StealingOnce, HeldOnce, QueuedOnce, BusyAt, Global, Deque
  <2>4. InQueues' = InQueues \cup {x}
    <3>1. \A y : y \in InQueues' <=> y \in InQueues \/ y = x
      BY <2>2, InQueuesAre
    <3> QED
      BY <3>1
  <2>5. Counted' = Counted
    <3>1. \A u \in Indices :
            /\ pc'[u] = "local_count" <=> pc[u] = "local_count" \/ u = w
            /\ pc'[u] \in TakenAt <=> pc[u] \in TakenAt
            /\ task'[u] = task[u]
      BY <2>1, <2>2
    <3>2. \A y : y \in Counted' <=> y \in Counted
      BY <2>3, <2>4, <3>1, CountedAre
    <3> QED
      BY <3>2
  <2>6. CounterCounts'
    BY <2>2, <2>5 DEF CounterCounts, StealingInv
  <2>7. Drained'
    BY <2>1, <2>2 DEF Drained, StealingInv
  <2>8. SearchersSuffice'
    <3>1. Cardinality(InQueues') = Cardinality(InQueues) + 1
      BY <2>3, <2>4, InQueuesFinite, FS_AddElement DEF StealingInv
    <3>2. /\ SearchCount' = SearchCount + Change(SearchAt, "local_locked", "local_count")
          /\ ToNotifyCount' =
               ToNotifyCount + Change({"local_count", "notify"}, "local_locked", "local_count")
      BY <2>1, SearchCountsAfterGoto DEF StealingInv
    <3>3. SearchCount' + ToNotifyCount' >= SearchCount + ToNotifyCount + 1
      BY <3>2, SearchCountsAreNat DEF Change
    <3>4. \A u \in Indices : pc'[u] = "asleep" => pc[u] = "asleep"
      BY <2>1
    <3> QED
      BY <3>1, <3>3, <3>4, SearchersStillSuffice
  <2> QED
    BY <2>6, <2>7, <2>8 DEF Counts
<1>28. ASSUME NEW w \in Indices, Stealing!LocalCount(w) PROVE Counts'
  <2>1. /\ pc[w] = "local_count" /\ pc'[w] = "notify" /\ Stealing!Goto(w, "local_count", "notify")
        /\ pc'[Main] = pc[Main] /\ stopping_' = stopping_
        /\ \A u \in Indices \ {w} : pc'[u] = pc[u] /\ task'[u] = task[u]
    BY <1>28 DEF Stealing!LocalCount, StealingInv, StealingTyped, Stealing!Goto
  <2> DEFINE x == Child[task[w]]
  <2>2. /\ tasks_' = tasks_ /\ local_tasks_' = local_tasks_ /\ task' = task
        /\ all_queued_tasks_' = all_queued_tasks_ + 1
    BY <1>28 DEF Stealing!LocalCount
  <2>3. InQueues' = InQueues
    BY <2>2, InQueuesAre
  <2>4. /\ x \in InQueues
        /\ \A u \in Indices : pc[u] \in TakenAt => task[u] # x
        /\ \A u \in Indices : pc[u] = "local_count" /\ Child[task[u]] = x => u = w
    <3> USE <2>1, InQueuesAre, Family
        DEF StealingInv, StealingOnce, HeldOnce, BusyAt, PushedAt, Deque, Global
    <3>1. x \in Elements(local_tasks_[w]) /\ x \in InQueues
      OBVIOUS
    <3>2. \A u \in Indices : pc[u] \in TakenAt => task[u] # x
      BY <3>1
    <3>3. ASSUME NEW u \in Indices, pc[u] = "local_count", Child[task[u]] = x PROVE u = w
      <4>1. /\ task[u] \in DOMAIN Child /\ task[w] \in DOMAIN Child
            /\ pc[u] \in BusyAt /\ pc[w] \in BusyAt
        BY <3>3
      <4>2. task[u] = task[w]
        BY <3>3, <4>1
      <4> QED
        BY <4>1, <4>2
    <3> QED
      BY <3>1, <3>2, <3>3
  <2>5. x \notin Counted /\ Counted' = Counted \cup {x}
    <3>1. \A u \in Indices :
            /\ pc'[u] = "local_count" <=> pc[u] = "local_count" /\ u # w
            /\ pc'[u] \in TakenAt <=> pc[u] \in TakenAt
            /\ task'[u] = task[u]
      BY <2>1, <2>2
    <3>2. x \notin Counted
      BY <2>1, <2>4, CountedAre
    <3>3. \A y : y \in Counted' <=> y \in Counted \/ y = x
      BY <2>1, <2>3, <2>4, <3>1, CountedAre
    <3> QED
      BY <3>2, <3>3
  <2>6. CounterCounts'
    BY <2>2, <2>5, InQueuesFinite, FS_AddElement DEF CounterCounts, StealingInv
  <2>7. Drained'
    BY <2>1, <2>3 DEF Drained, StealingInv
  <2>8. SearchersSuffice'
    <3>1. Cardinality(InQueues') = Cardinality(InQueues) + 0
      BY <2>3, InQueuesFinite, FS_CardinalityType DEF StealingInv
    <3>2. /\ SearchCount' = SearchCount + Change(SearchAt, "local_count", "notify")
          /\ ToNotifyCount' =
               ToNotifyCount + Change({"local_count", "notify"}, "local_count", "notify")
      BY <2>1, SearchCountsAfterGoto DEF StealingInv
    <3>3. SearchCount' + ToNotifyCount' >= SearchCount + ToNotifyCount + 0
      BY <3>2, SearchCountsAreNat DEF Change
    <3>4. \A u \in Indices : pc'[u] = "asleep" => pc[u] = "asleep"
      BY <2>1
    <3> QED
      BY <3>1, <3>3, <3>4, SearchersStillSuffice
  <2> QED
    BY <2>6, <2>7, <2>8 DEF Counts
<1>29. ASSUME NEW t \in Crew, Stealing!SubmitLock(t) PROVE Counts'
  <2>1. /\ Stealing!Goto(t, "submit", "submit_locked")
        /\ tasks_' = tasks_ /\ local_tasks_' = local_tasks_
        /\ all_queued_tasks_' = all_queued_tasks_ /\ (stopping_ => stopping_')
        /\ \A u \in Indices \ {t} : task'[u] = task[u]
    BY <1>29 DEF Stealing!SubmitLock, StealingInv, StealingTyped
  <2> QED
    BY <2>1, OrdinaryStep
<1>30. ASSUME NEW t \in Crew, Stealing!NotifyOne(t) PROVE Counts'
  <2>1. /\ tasks_' = tasks_ /\ local_tasks_' = local_tasks_ /\ task' = task
        /\ all_queued_tasks_' = all_queued_tasks_ /\ stopping_' = stopping_
        /\ stop_or_task_cv_ = {u \in Indices : pc[u] = "asleep"}
    BY <1>30 DEF Stealing!NotifyOne, StealingInv, StealingTyped
  <2>2. \A u \in Crew : \/ pc'[u] = pc[u]
                        \/ pc[u] = "notify" /\ pc'[u] = "submitted"
                        \/ pc[u] = "asleep" /\ pc'[u] = "relock"
    BY <1>30, <2>1 DEF Stealing!NotifyOne, Stealing!Goto, StealingInv, StealingTyped
  <2>3. InQueues' = InQueues
    BY <2>1, InQueuesAre
  <2>4. CounterCounts' /\ Drained'
    <3>1. \A y : y \in Counted' <=> y \in Counted
      BY <2>1, <2>2, <2>3, CountedAre
    <3>2. Counted' = Counted
      BY <3>1
    <3> QED
      BY <2>1, <2>2, <2>3, <3>2 DEF CounterCounts, Drained, StealingInv
  <2>5. CASE stop_or_task_cv_ = {}
    <3>1. \A u \in Indices : pc'[u] # "asleep"
      BY <2>1, <2>2, <2>5
    <3> QED
      BY <2>4, <3>1 DEF Counts, SearchersSuffice
  <2>6. CASE \E w \in stop_or_task_cv_ :
               pc[t] = "notify" /\ pc' = [pc EXCEPT ![t] = "submitted", ![w] = "relock"]
    <3>1. PICK w \in Indices :
            /\ pc[w] = "asleep" /\ pc[t] = "notify"
            /\ pc' = [pc EXCEPT ![t] = "submitted", ![w] = "relock"]
      BY <2>1, <2>6
    <3>2. SearchCount' = SearchCount + 1 /\ ToNotifyCount' = ToNotifyCount - 1
      BY <3>1, SearchCountsAfterWake DEF StealingInv
    <3>3. Cardinality(InQueues') = Cardinality(InQueues) + 0
      BY <2>3, InQueuesFinite, FS_CardinalityType DEF StealingInv
    <3>4. /\ SearchCount' + ToNotifyCount' >= SearchCount + ToNotifyCount + 0
          /\ \A u \in Indices : pc'[u] = "asleep" => pc[u] = "asleep"
      BY <2>2, <3>2, SearchCountsAreNat
    <3> QED
      BY <2>4, <3>3, <3>4, SearchersStillSuffice DEF Counts
  <2> QED
    BY <1>30, <2>5, <2>6 DEF Stealing!NotifyOne
<1>31. ASSUME NEW t \in MainTasks, Stealing!MainSubmits(t) PROVE Counts'
  <2>1. /\ Stealing!Goto(Main, "main", "submit")
        /\ tasks_' = tasks_ /\ local_tasks_' = local_tasks_
        /\ all_queued_tasks_' = all_queued_tasks_ /\ (stopping_ => stopping_')
        /\ \A u \in Indices \ {Main} : task'[u] = task[u]
    BY <1>31 DEF Stealing!MainSubmits, StealingInv, StealingTyped
  <2> QED
    BY <2>1, OrdinaryStep
<1>32. CASE Stealing!SubmitGlobal
  <2> DEFINE x == task[Main]
  <2>1. /\ Stealing!Goto(Main, "submit_locked", "notify") /\ task' = task
        /\ \A u \in Indices : pc'[u] = pc[u]
        /\ pc'[Main] = "notify" /\ stopping_' = stopping_ /\ ~stopping_
        /\ all_queued_tasks_' = all_queued_tasks_ + 1
    BY <1>32 DEF Stealing!SubmitGlobal, Stealing!Goto, StealingInv, StealingTyped
  <2>2. x \in Tasks /\ future[x] = "none"
    BY <1>32, Family
    DEF Stealing!SubmitGlobal, Stealing!Goto, StealingInv, StealingOnce, SubmittedOnce
  <2>3. Elements(tasks_') = Elements(tasks_) \cup {x} /\ local_tasks_' = local_tasks_
    BY <1>32, <2>2, AppendElement DEF Stealing!SubmitGlobal, StealingInv, StealingTyped
  <2> HIDE DEF x
  <2>4. /\ x \notin InQueues
        /\ \A u \in Indices : pc[u] \in TakenAt => task[u] # x
        /\ \A u \in Indices : pc[u] = "local_count" => x # Child[task[u]]
    BY <2>2, InQueuesAre
    DEF StealingInv, StealingOnce, HeldOnce, QueuedOnce, BusyAt, PushedAt, Global, Deque
  <2>5. InQueues' = InQueues \cup {x}
    <3>1. \A y : y \in InQueues' <=> y \in InQueues \/ y = x
      BY <2>3, InQueuesAre
    <3> QED
      BY <3>1
  <2>6. x \notin Counted /\ Counted' = Counted \cup {x}
    <3>1. x \notin Counted /\ \A y : y \in Counted' <=> y \in Counted \/ y = x
      BY <2>1, <2>4, <2>5, CountedAre
    <3> QED
      BY <3>1
  <2>7. CounterCounts'
    BY <2>1, <2>6, InQueuesFinite, FS_AddElement DEF CounterCounts, StealingInv
  <2>8. Drained'
    BY <2>1 DEF Drained, StealingInv
  <2>9. SearchersSuffice'
    <3>1. Cardinality(InQueues') = Cardinality(InQueues) + 1
      BY <2>4, <2>5, InQueuesFinite, FS_AddElement DEF StealingInv
    <3>2. /\ SearchCount' = SearchCount
          /\ ToNotifyCount' =
               ToNotifyCount + Change({"local_count", "notify"}, "submit_locked", "notify")
      <4>1. Main \in Crew /\ Main \notin Indices /\ StealingTyped
        BY DEF StealingInv
      <4>2. /\ SearchCount' = SearchCount +
                 (IF Main \in Indices THEN Change(SearchAt, "submit_locked", "notify") ELSE 0)
            /\ ToNotifyCount' = ToNotifyCount +
                 Change({"local_count", "notify"}, "submit_locked", "notify")
        BY <2>1, <4>1, SearchCountsAfterGoto
      <4> QED
        BY <4>1, <4>2, SearchCountsAreNat
    <3>3. SearchCount' + ToNotifyCount' >= SearchCount + ToNotifyCount + 1
      BY <3>2, SearchCountsAreNat DEF Change
    <3>4. \A u \in Indices : pc'[u] = "asleep" => pc[u] = "asleep"
      BY <2>1
    <3> QED
      BY <3>1, <3>3, <3>4, SearchersStillSuffice
  <2> QED
    BY <2>7, <2>8, <2>9 DEF Counts
<1>33. CASE Stealing!MainGetsFuture
  <2>1. /\ Stealing!Goto(Main, "submitted", "main")
        /\ tasks_' = tasks_ /\ local_tasks_' = local_tasks_
        /\ all_queued_tasks_' = all_queued_tasks_ /\ (stopping_ => stopping_')
        /\ \A u \in Indices \ {Main} : task'[u] = task[u]
    BY <1>33 DEF Stealing!MainGetsFuture, StealingInv, StealingTyped
  <2> QED
    BY <2>1, OrdinaryStep
<1>34. CASE Stealing!MainDropsFuture
  <2>1. /\ Stealing!Goto(Main, "submitted", "main")
        /\ tasks_' = tasks_ /\ local_tasks_' = local_tasks_
        /\ all_queued_tasks_' = all_queued_tasks_ /\ (stopping_ => stopping_')
        /\ \A u \in Indices \ {Main} : task'[u] = task[u]
    BY <1>34 DEF Stealing!MainDropsFuture, StealingInv, StealingTyped
  <2> QED
    BY <2>1, OrdinaryStep
<1>35. CASE Stealing!MainLeavesScope
  <2>1. /\ Stealing!Goto(Main, "main", "dtor")
        /\ tasks_' = tasks_ /\ local_tasks_' = local_tasks_
        /\ all_queued_tasks_' = all_queued_tasks_ /\ (stopping_ => stopping_')
        /\ \A u \in Indices \ {Main} : task'[u] = task[u]
    BY <1>35 DEF Stealing!MainLeavesScope, StealingInv, StealingTyped
  <2> QED
    BY <2>1, OrdinaryStep
<1>36. CASE Stealing!DtorLock
  <2>1. /\ Stealing!Goto(Main, "dtor", "dtor_locked")
        /\ tasks_' = tasks_ /\ local_tasks_' = local_tasks_
        /\ all_queued_tasks_' = all_queued_tasks_ /\ (stopping_ => stopping_')
        /\ \A u \in Indices \ {Main} : task'[u] = task[u]
    BY <1>36 DEF Stealing!DtorLock, StealingInv, StealingTyped
  <2> QED
    BY <2>1, OrdinaryStep
<1>37. CASE Stealing!DtorStops
  <2>1. /\ Stealing!Goto(Main, "dtor_locked", "notify_all")
        /\ tasks_' = tasks_ /\ local_tasks_' = local_tasks_
        /\ all_queued_tasks_' = all_queued_tasks_ /\ (stopping_ => stopping_')
        /\ \A u \in Indices \ {Main} : task'[u] = task[u]
    BY <1>37 DEF Stealing!DtorStops, StealingInv, StealingTyped
  <2> QED
    BY <2>1, OrdinaryStep
<1>38. CASE Stealing!DtorNotifyAll
  <2>1. /\ tasks_' = tasks_ /\ local_tasks_' = local_tasks_ /\ task' = task
        /\ all_queued_tasks_' = all_queued_tasks_ /\ stopping_' = stopping_
        /\ pc'[Main] = "join"
        /\ \A u \in Indices : pc'[u] = IF pc[u] = "asleep" THEN "relock" ELSE pc[u]
    BY <1>38 DEF Stealing!DtorNotifyAll, StealingInv, StealingTyped
  <2>2. InQueues' = InQueues
    BY <2>1, InQueuesAre
  <2>3. Counted' = Counted
    <3>1. \A y : y \in Counted' <=> y \in Counted
      BY <2>1, <2>2, CountedAre
    <3> QED
      BY <3>1
  <2>4. CounterCounts'
    BY <2>1, <2>3 DEF CounterCounts, StealingInv
  <2>5. Drained' /\ SearchersSuffice'
    BY <2>1, <2>2 DEF Drained, SearchersSuffice, StealingInv
  <2> QED
    BY <2>4, <2>5 DEF Counts
<1>39. CASE Stealing!DtorJoined
  <2>1. /\ tasks_' = tasks_ /\ local_tasks_' = local_tasks_ /\ task' = task
        /\ all_queued_tasks_' = all_queued_tasks_ /\ stopping_' = stopping_
        /\ \A u \in Indices : pc'[u] = pc[u] /\ pc[u] = "exited"
    BY <1>39 DEF Stealing!DtorJoined, Stealing!Goto, StealingInv, StealingTyped
  <2>2. InQueues' = InQueues
    BY <2>1, InQueuesAre
  <2>3. Counted' = Counted
    <3>1. \A y : y \in Counted' <=> y \in Counted
      BY <2>1, <2>2, CountedAre
    <3> QED
      BY <3>1
  <2>4. CounterCounts'
    BY <2>1, <2>3 DEF CounterCounts, StealingInv
  <2>5. Drained' /\ SearchersSuffice'
    BY <2>1, <2>2 DEF Drained, SearchersSuffice, StealingInv
  <2> QED
    BY <2>4, <2>5 DEF Counts
<1>40. CASE UNCHANGED Stealing!vars
  <2>1. /\ tasks_' = tasks_ /\ local_tasks_' = local_tasks_ /\ task' = task
        /\ all_queued_tasks_' = all_queued_tasks_ /\ stopping_' = stopping_ /\ pc' = pc
    BY <1>40 DEF Stealing!vars
  <2>2. InQueues' = InQueues
    BY <2>1, InQueuesAre
  <2>3. Counted' = Counted
    <3>1. \A y : y \in Counted' <=> y \in Counted
      BY <2>1, <2>2, CountedAre
    <3> QED
      BY <3>1
  <2>4. CounterCounts'
    BY <2>1, <2>3 DEF CounterCounts, StealingInv
  <2>5. Drained'
    BY <2>1, <2>2 DEF Drained, StealingInv
  <2>6. SearchersSuffice'
    BY <2>1, <2>2, SearchCountsAreNat
    DEF SearchersSuffice, SearchCount, ToNotifyCount, StealingInv
  <2> QED
    BY <2>4, <2>5, <2>6 DEF Counts
<1> QED
  BY <1>1, <1>2, <1>3, <1>4, <1>5, <1>6, <1>7, <1>8, <1>9, <1>10, <1>11, <1>12,
     <1>13, <1>14, <1>15, <1>16, <1>17, <1>18, <1>19, <1>20, <1>21, <1>22,
     <1>23, <1>24, <1>25, <1>26, <1>27, <1>28, <1>29, <1>30, <1>31, <1>32,
     <1>33, <1>34, <1>35, <1>36, <1>37, <1>38, <1>39, <1>40,
     StealingPeople
  DEF Stealing!Next, Stealing!worker, Stealing!main, Stealing!submit,
      Stealing!try_steal, Stealing!MainReturned

LEMMA StealingInvHolds == MCSpec => []StealingKept
<1>1. StealingKept /\ [MCNext]_allVars => StealingKept'
  <2> SUFFICES ASSUME StealingKept, [MCNext]_allVars, InStealing' PROVE StealingInv'
    BY DEF StealingKept
  <2>1. InStealing /\ StealingInv
    BY OneProgram DEF InStealing, StealingKept
  <2>2. Stealing!Next \/ UNCHANGED Stealing!vars
    BY <2>1, OneProgram DEF allVars, queueVars, lockVars, stealingOnly, Stealing!vars
  <2> QED
    BY <2>1, <2>2, StealingTypedKept, StealingLockedKept, StealingOnceKept,
       StealingCountsKept
    DEF StealingInv, Counts
<1> QED
  BY <1>1, StealingStarts, PTL DEF MCSpec



LEMMA ImageOfInjection ==
  ASSUME NEW S, IsFiniteSet(S), NEW g, DOMAIN g = S,
         \A v, w \in S : g[v] = g[w] => v = w
  PROVE  /\ IsFiniteSet({g[w] : w \in S})
         /\ Cardinality({g[w] : w \in S}) = Cardinality(S)
<1> DEFINE T == {g[w] : w \in S}
           h == [w \in S |-> g[w]]
<1>1. h \in Bijection(S, T)
  <2>1. h \in [S -> T] /\ \A t \in T : \E w \in S : h[w] = t
    OBVIOUS
  <2>2. \A v, w \in S : h[v] = h[w] => v = w
    OBVIOUS
  <2> HIDE DEF h, T
  <2> QED
    BY <2>1, <2>2 DEF Bijection, Injection, Surjection, IsInjective
<1>2. ExistsBijection(S, T)
  BY <1>1 DEF ExistsBijection
<1> HIDE DEF T, h
<1>3. IsFiniteSet(T) /\ Cardinality(T) = Cardinality(S)
  BY <1>2, FS_Bijection
<1> QED
  BY <1>3 DEF T

(* What was taken and not yet counted is in no queue; what was pushed and  *)
(* not yet counted still is.                                               *)
LEMMA CounterIsSum ==
  ASSUME StealingInv
  PROVE  all_queued_tasks_ = Cardinality(InQueues) + Count(Indices, pc, TakenAt)
                                                   - Count(Indices, pc, {"local_count"})
<1> DEFINE Takers == {v \in Indices : pc[v] \in TakenAt}
           Pushers == {v \in Indices : pc[v] = "local_count"}
           f == [w \in Takers |-> task[w]]
           g == [w \in Pushers |-> Child[task[w]]]
<1> USE DEF StealingInv
<1>1. IsFiniteSet(Takers) /\ IsFiniteSet(Pushers)
  BY StealingPeople, FS_Subset, Takers \in SUBSET Indices, Pushers \in SUBSET Indices
<1>2. IsFiniteSet(Taken) /\ Cardinality(Taken) = Cardinality(Takers)
  <2>1. \A v, w \in Takers : f[v] = f[w] => v = w
    BY DEF StealingOnce, HeldOnce, BusyAt
  <2>2. IsFiniteSet({f[w] : w \in Takers}) /\ Cardinality({f[w] : w \in Takers}) = Cardinality(Takers)
    <3> DOMAIN f = Takers
      OBVIOUS
    <3> HIDE DEF f, Takers
    <3> QED
      BY <1>1, <2>1, ImageOfInjection
  <2>3. {f[w] : w \in Takers} = Taken
    BY DEF Taken
  <2> QED
    BY <2>2, <2>3
<1>3. IsFiniteSet(Pushed) /\ Cardinality(Pushed) = Cardinality(Pushers)
  <2>1. \A v, w \in Pushers : g[v] = g[w] => v = w
    <3>1. \A v, w \in Pushers : task[v] = task[w] => v = w
      BY DEF StealingOnce, HeldOnce, BusyAt, PushedAt
    <3>2. \A v \in Pushers : mtx_ = v
      BY StealingPeople DEF StealingLocked
    <3> QED
      BY <3>2
  <2>2. IsFiniteSet({g[w] : w \in Pushers}) /\ Cardinality({g[w] : w \in Pushers}) = Cardinality(Pushers)
    <3> DOMAIN g = Pushers
      OBVIOUS
    <3> HIDE DEF g, Pushers
    <3> QED
      BY <1>1, <2>1, ImageOfInjection
  <2>3. {g[w] : w \in Pushers} = Pushed
    BY DEF Pushed
  <2> QED
    BY <2>2, <2>3
<1>4. Taken \cap InQueues = {}
  BY InQueuesAre DEF Taken, Global, Deque, StealingOnce, HeldOnce, BusyAt
<1>5. Pushed \subseteq InQueues
  BY InQueuesAre DEF Pushed, Deque, StealingOnce, HeldOnce, BusyAt, PushedAt
<1>6. IsFiniteSet(InQueues)
  BY InQueuesFinite
<1>7. /\ IsFiniteSet(InQueues \ Pushed)
      /\ Cardinality(InQueues \ Pushed) = Cardinality(InQueues) - Cardinality(Pushed)
  <2>1. InQueues \cap Pushed = Pushed
    BY <1>5
  <2> QED
    BY <1>6, <2>1, FS_Difference
<1>8. Cardinality(Counted) = Cardinality(InQueues \ Pushed) + Cardinality(Taken)
  <2>1. (InQueues \ Pushed) \cap Taken = {}
    BY <1>4
  <2>2. Cardinality(InQueues \ Pushed) \in Nat /\ Cardinality(Taken) \in Nat
    BY <1>2, <1>7, FS_CardinalityType
  <2>3. Cardinality((InQueues \ Pushed) \cap Taken) = 0
    BY <2>1, FS_EmptySet
  <2>4. Cardinality((InQueues \ Pushed) \cup Taken)
          = Cardinality(InQueues \ Pushed) + Cardinality(Taken)
              - Cardinality((InQueues \ Pushed) \cap Taken)
    BY <1>2, <1>7, FS_Union
  <2> QED
    BY <2>2, <2>3, <2>4 DEF Counted
<1>9. /\ Cardinality(Takers) = Count(Indices, pc, TakenAt)
      /\ Cardinality(Pushers) = Count(Indices, pc, {"local_count"})
  <2>1. /\ Standing(Indices, pc, TakenAt) = Takers
        /\ Standing(Indices, pc, {"local_count"}) = Pushers
    BY DEF Standing
  <2> QED
    BY <2>1 DEF Count
<1>10. /\ Count(Indices, pc, TakenAt) \in Nat /\ Count(Indices, pc, {"local_count"}) \in Nat
       /\ Cardinality(InQueues) \in Nat
  BY <1>6, StealingPeople, CountIsNat, FS_CardinalityType
<1> HIDE DEF Takers, Pushers, f, g
<1> QED
  BY <1>2, <1>3, <1>7, <1>8, <1>9, <1>10 DEF CounterCounts

LEMMA StealingCorrect == StealingInv => Stealing!PoolInv /\ Stealing!CounterFollowsQueues
<1> SUFFICES ASSUME StealingInv
             PROVE  Stealing!PoolInv /\ Stealing!CounterFollowsQueues
  OBVIOUS
<1> USE DEF StealingInv
<1>1. all_queued_tasks_ \in 0..Cardinality(Tasks)
  <2>1. IsFiniteSet(Counted) /\ Counted \subseteq Tasks
    BY InQueuesFinite
  <2>2. Cardinality(Counted) <= Cardinality(Tasks) /\ Cardinality(Tasks) \in Nat
    BY <2>1, People, FS_Subset, FS_CardinalityType
  <2>3. Cardinality(Counted) \in Nat
    BY <2>1, FS_CardinalityType
  <2> QED
    BY <2>2, <2>3 DEF CounterCounts
<1>2. Stealing!TypeOK
  <2>1. local_mutex_ \in [Indices -> Crew \cup {NoOne}] /\ mtx_ \in Crew \cup {NoOne}
    BY DEF StealingLocked, Crew
  <2>2. stop_or_task_cv_ \in SUBSET Indices
    BY DEF StealingTyped
  <2> QED
    BY <1>1, <2>1, <2>2, StealingPeople
    DEF StealingTyped, Stealing!TypeOK, Stealing!Cardinality, Cardinality
<1>3. \A S, L : Stealing!At(S, L) = Count(S, pc, L)
  BY DEF Stealing!At, Stealing!Cardinality, Cardinality, Count, Standing
<1>4. Stealing!Cardinality(Stealing!Queued) = Cardinality(InQueues)
  BY DEF Stealing!Cardinality, Cardinality, InQueues
<1>5. Stealing!NoTaskForgotten
  <2>1. stop_or_task_cv_ # {} => \E w \in Indices : pc[w] = "asleep"
    BY DEF StealingTyped
  <2> QED
    BY <1>3, <1>4, <2>1, StealingPeople
    DEF Stealing!NoTaskForgotten, SearchersSuffice, SearchCount, SearchAt, ToNotifyCount
<1>6. Stealing!NobodySleepsThroughStop
  BY StealingPeople DEF Stealing!NobodySleepsThroughStop, StealingLocked, StealingTyped
<1>7. Stealing!CounterFollowsQueues
  BY <1>3, <1>4, CounterIsSum, StealingPeople DEF Stealing!CounterFollowsQueues, TakenAt
<1> QED
  BY <1>2, <1>5, <1>6, <1>7 DEF Stealing!PoolInv

(* The counter on which a worker of the work-stealing pool decides between *)
(* sleeping, searching and leaving is at all times the number of tasks in  *)
(* the global queue and in all deques, but for the threads that are inside *)
(* a mutex between a queue and the counter; so it never passes below zero  *)
(* (7_thread_pool/4_work_stealing.cpp).                                    *)
THEOREM CounterIsExact == MCSpec => []CounterFollowsQueues
<1>1. StealingKept => CounterFollowsQueues
  BY StealingCorrect DEF StealingKept, CounterFollowsQueues
<1> QED
  BY <1>1, StealingInvHolds, PTL


-----------------------------------------------------------------------------
(* The pools as the service of PoolService                                 *)

Everything == Tasks \cup Submitters \cup 1..Total

(* What a step of the service may do to the queued, the running and the    *)
(* finished tasks, and to its phase.                                       *)
Accepted(t, q, r, f, p, q2, r2, f2, p2) ==
  /\ p = "open" /\ t \notin q \cup r \cup f
  /\ q2 = q \cup {t} /\ r2 = r /\ f2 = f /\ p2 = p
Started(t, q, r, f, p, q2, r2, f2, p2) ==
  /\ p # "gone" /\ t \in q
  /\ q2 = q \ {t} /\ r2 = r \cup {t} /\ f2 = f /\ p2 = p
Ended(t, q, r, f, p, q2, r2, f2, p2) ==
  /\ p # "gone" /\ t \in r
  /\ q2 = q /\ r2 = r \ {t} /\ f2 = f \cup {t} /\ p2 = p
Closed(q, r, f, p, q2, r2, f2, p2) ==
  \/ /\ p = "open" /\ p2 = "closed"
     /\ q2 = q /\ r2 = r /\ f2 = f
  \/ /\ p = "closed" /\ p2 = "gone" /\ q = {} /\ r = {}
     /\ q2 = q /\ r2 = r /\ f2 = f

Served(q, r, f, p, q2, r2, f2, p2) ==
  \/ q2 = q /\ r2 = r /\ f2 = f /\ p2 = p
  \/ \E t \in Everything :
       \/ Accepted(t, q, r, f, p, q2, r2, f2, p2)
       \/ Started(t, q, r, f, p, q2, r2, f2, p2)
       \/ Ended(t, q, r, f, p, q2, r2, f2, p2)
  \/ Closed(q, r, f, p, q2, r2, f2, p2)

(* The tasks that the workers in W carry, those at a location in L.        *)
Carried(W, f, L, x) == {x[w] : w \in {v \in W : f[v] \in L}}

CarrySame(W, f, g, L, x, y) ==
  \A v \in W : (f[v] \in L <=> g[v] \in L) /\ (f[v] \in L => y[v] = x[v])

CarrySameBut(w, W, f, g, L, x, y) ==
  \A v \in W : v # w => (f[v] \in L <=> g[v] \in L) /\ (f[v] \in L => y[v] = x[v])

LEMMA CarriedSame ==
  ASSUME NEW W, NEW f, NEW g, NEW L, NEW x, NEW y, CarrySame(W, f, g, L, x, y)
  PROVE  Carried(W, g, L, y) = Carried(W, f, L, x)
<1>1. \A t : t \in Carried(W, g, L, y) <=> t \in Carried(W, f, L, x)
  BY DEF Carried, CarrySame
<1> QED
  BY <1>1

LEMMA CarriedOneMore ==
  ASSUME NEW W, NEW f, NEW g, NEW L, NEW x, NEW y, NEW w \in W,
         CarrySameBut(w, W, f, g, L, x, y), f[w] \notin L, g[w] \in L
  PROVE  Carried(W, g, L, y) = Carried(W, f, L, x) \cup {y[w]}
<1>1. \A t : t \in Carried(W, g, L, y) <=> t \in Carried(W, f, L, x) \cup {y[w]}
  BY DEF Carried, CarrySameBut
<1> QED
  BY <1>1

LEMMA CarriedOneLess ==
  ASSUME NEW W, NEW f, NEW g, NEW L, NEW x, NEW y, NEW w \in W,
         CarrySameBut(w, W, f, g, L, x, y), f[w] \in L, g[w] \notin L,
         \A v \in W : f[v] \in L /\ x[v] = x[w] => v = w
  PROVE  /\ Carried(W, g, L, y) = Carried(W, f, L, x) \ {x[w]}
         /\ x[w] \in Carried(W, f, L, x)
<1>1. \A t : t \in Carried(W, g, L, y) <=> t \in Carried(W, f, L, x) \ {x[w]}
  BY DEF Carried, CarrySameBut
<1> QED
  BY <1>1 DEF Carried

-----------------------------------------------------------------------------
(* The pool with futures: a worker leaves only when no task is or will be  *)
(* queued.                                                                 *)
FuturesDrained ==
  /\ \A w \in Workers : pc[w] = "exited" => stopping_ /\ tasks_ = << >>
  /\ pc[Main] = "destroyed" => \A w \in Workers : pc[w] = "exited"

FuturesDone == InFutures => FuturesDrained

FuturesServed ==
  Served(Queued, Running, Finished, Phase, Queued', Running', Finished', Phase')

LEMMA FuturesCarry ==
  /\ Running = Carried(Workers, pc, ActiveAt, task)
  /\ Running' = Carried(Workers, pc', ActiveAt, task')
  /\ Queued = Elements(tasks_) /\ Queued' = Elements(tasks_')
  BY DEF Running, Active, ActiveAt, Carried, Queued, Elements

(* A step that starts, ends, accepts and stops nothing.                    *)
LEMMA FuturesStutter ==
  ASSUME FuturesInv, FuturesDrained, tasks_' = tasks_, future' = future,
         stopping_' = stopping_, CarrySame(Workers, pc, pc', ActiveAt, task, task'),
         pc'[Main] = "destroyed" <=> pc[Main] = "destroyed",
         \A w \in Workers : pc'[w] = "exited" <=> pc[w] = "exited"
  PROVE  FuturesDrained' /\ FuturesServed
<1>1. Running' = Running /\ Queued' = Queued
  BY FuturesCarry, CarriedSame
<1>2. Finished' = Finished /\ Phase' = Phase
  BY DEF Finished, Phase
<1> QED
  BY <1>1, <1>2 DEF FuturesDrained, FuturesServed, Served

(* A task ends, whatever it left in its future.                            *)
LEMMA FuturesEnd ==
  ASSUME FuturesInv, FuturesDrained, NEW w \in Workers, NEW outcome \in {"value", "error"},
         pc[w] \in ActiveAt, pc' = [pc EXCEPT ![w] = "loop"],
         future' = [future EXCEPT ![task[w]] = outcome],
         task' = [task EXCEPT ![w] = NoTask],
         tasks_' = tasks_, stopping_' = stopping_
  PROVE  FuturesDrained' /\ FuturesServed
<1>1. /\ task[w] \in Tasks /\ pc[w] \in ActiveAt
      /\ \A v \in Workers : pc[v] \in ActiveAt /\ task[v] = task[w] => v = w
  BY DEF FuturesInv, Once
<1>2. /\ CarrySameBut(w, Workers, pc, pc', ActiveAt, task, task')
      /\ pc'[w] \notin ActiveAt
      /\ pc'[Main] = pc[Main] /\ \A v \in Workers : pc'[v] = "exited" <=> pc[v] = "exited"
  BY People DEF FuturesInv, Typed, CarrySameBut, ActiveAt
<1>3. Running' = Running \ {task[w]} /\ task[w] \in Running
  <2>1. /\ Carried(Workers, pc', ActiveAt, task')
             = Carried(Workers, pc, ActiveAt, task) \ {task[w]}
        /\ task[w] \in Carried(Workers, pc, ActiveAt, task)
    BY ONLY <1>1, <1>2, CarriedOneLess, w \in Workers
  <2> QED
    BY <2>1, FuturesCarry
<1>4. Finished' = Finished \cup {task[w]}
  BY <1>1 DEF Finished, FuturesInv, Typed
<1>5. Queued' = Queued /\ Phase' = Phase
  BY <1>2, FuturesCarry DEF Phase
<1>6. Phase # "gone"
  BY DEF Phase, FuturesDrained, ActiveAt
<1>7. Ended(task[w], Queued, Running, Finished, Phase, Queued', Running', Finished', Phase')
  BY <1>3, <1>4, <1>5, <1>6 DEF Ended
<1>8. task[w] \in Everything
  BY <1>1 DEF Everything
<1> QED
  BY <1>2, <1>7, <1>8 DEF FuturesDrained, FuturesServed, Served

LEMMA FuturesServe ==
  FuturesInv /\ FuturesDrained /\ [Next]_vars => FuturesDrained' /\ FuturesServed
<1> SUFFICES ASSUME FuturesInv, FuturesDrained, [Next]_vars
             PROVE  FuturesDrained' /\ FuturesServed
  OBVIOUS
<1>t. FuturesInv /\ FuturesDrained
  OBVIOUS
<1> USE People DEF Typed, Goto
<1>1. ASSUME NEW w \in Workers, WorkerLock(w) PROVE FuturesDrained' /\ FuturesServed
  BY <1>1, FuturesStutter DEF WorkerLock, FuturesInv, CarrySame, ActiveAt
<1>2. ASSUME NEW w \in Workers, WorkerWait(w) PROVE FuturesDrained' /\ FuturesServed
  BY <1>2, FuturesStutter DEF WorkerWait, FuturesInv, CarrySame, ActiveAt
<1>3. ASSUME NEW w \in Workers, WorkerWakes(w) PROVE FuturesDrained' /\ FuturesServed
  BY <1>3, FuturesStutter DEF WorkerWakes, FuturesInv, CarrySame, ActiveAt
<1>4. ASSUME NEW w \in Workers, WorkerExits(w) PROVE FuturesDrained' /\ FuturesServed
  <2>1. /\ CarrySame(Workers, pc, pc', ActiveAt, task, task')
        /\ pc'[Main] = pc[Main]
        /\ \A v \in Workers : pc'[v] = "exited" => v = w \/ pc[v] = "exited"
        /\ pc'[w] = "exited" /\ pc[w] # "exited"
        /\ tasks_' = tasks_ /\ future' = future /\ stopping_' = stopping_
        /\ stopping_ /\ tasks_ = << >>
    BY <1>4 DEF WorkerExits, FuturesInv, CarrySame, ActiveAt
  <2>2. FuturesDrained'
    BY <2>1 DEF FuturesDrained
  <2>3. Running' = Running /\ Queued' = Queued
    BY <2>1, FuturesCarry, CarriedSame
  <2>4. Finished' = Finished /\ Phase' = Phase
    BY <2>1 DEF Finished, Phase
  <2> QED
    BY <2>2, <2>3, <2>4 DEF FuturesServed, Served
<1>5. ASSUME NEW w \in Workers, TakeTask(w) PROVE FuturesDrained' /\ FuturesServed
  <2>1. /\ Head(tasks_) \in Elements(tasks_)
        /\ Elements(tasks_') = Elements(tasks_) \ {Head(tasks_)}
    BY <1>5, TailElements DEF TakeTask, FuturesInv, Once
  <2>2. Elements(tasks_) \subseteq Tasks
    BY ElementsIn DEF FuturesInv
  <2>3. /\ CarrySameBut(w, Workers, pc, pc', ActiveAt, task, task')
        /\ pc[w] \notin ActiveAt /\ pc'[w] \in ActiveAt /\ task'[w] = Head(tasks_)
        /\ pc'[Main] = pc[Main] /\ future' = future /\ stopping_' = stopping_
        /\ \A v \in Workers : pc'[v] = "exited" => pc[v] = "exited"
        /\ pc[w] # "exited" /\ tasks_ # << >>
    BY <1>5 DEF TakeTask, FuturesInv, CarrySameBut, ActiveAt
  <2>4. Running' = Running \cup {Head(tasks_)}
    BY <2>3, CarriedOneMore, FuturesCarry
  <2>5. Finished' = Finished /\ Phase' = Phase /\ Phase # "gone"
    BY <2>3 DEF Finished, Phase, FuturesDrained
  <2>6. Started(Head(tasks_), Queued, Running, Finished, Phase,
                Queued', Running', Finished', Phase')
    BY <2>1, <2>4, <2>5, FuturesCarry DEF Started
  <2>7. Head(tasks_) \in Everything
    BY <2>1, <2>2 DEF Everything
  <2>8. FuturesDrained'
    BY <2>3 DEF FuturesDrained
  <2> QED
    BY <2>6, <2>7, <2>8 DEF FuturesServed, Served
<1>6. ASSUME NEW w \in Workers, RunTask(w) PROVE FuturesDrained' /\ FuturesServed
  <2>1. PICK outcome \in {"value", "error"} :
          future' = [future EXCEPT ![task[w]] = outcome]
    BY <1>6 DEF RunTask
  <2> QED
    BY <1>6, <2>1, FuturesEnd DEF RunTask, ActiveAt
<1>7. ASSUME NEW w \in Workers, TaskSubmits(w) PROVE FuturesDrained' /\ FuturesServed
  BY <1>7, FuturesStutter DEF TaskSubmits, FuturesInv, CarrySame, ActiveAt
<1>8. ASSUME NEW w \in Workers, TaskReturns(w) PROVE FuturesDrained' /\ FuturesServed
  BY <1>8, FuturesEnd DEF TaskReturns, ActiveAt
<1>9. ASSUME NEW w \in Workers, SubmitThrows(w) PROVE FuturesDrained' /\ FuturesServed
  BY <1>9, FuturesEnd DEF SubmitThrows, ActiveAt
<1>10. ASSUME NEW t \in Threads, SubmitLock(t) PROVE FuturesDrained' /\ FuturesServed
  BY <1>10, FuturesStutter DEF SubmitLock, FuturesInv, CarrySame, ActiveAt
<1>11. ASSUME NEW t \in Threads, Enqueue(t) PROVE FuturesDrained' /\ FuturesServed
  <2> DEFINE new == Submitted(t)
  <2>1. new \in Tasks /\ future[new] = "none"
    BY <1>11, Family DEF Enqueue, Submitted, FuturesInv, Once, ActiveAt
  <2>2. new \notin Elements(tasks_)
    BY <2>1 DEF FuturesInv, Once
  <2>3. Elements(tasks_') = Elements(tasks_) \cup {new}
    BY <1>11, <2>1, AppendElement DEF Enqueue, FuturesInv
  <2>4. /\ future' = [future EXCEPT ![new] = "pending"]
        /\ CarrySame(Workers, pc, pc', ActiveAt, task, task')
        /\ pc'[Main] # "destroyed" /\ stopping_' = stopping_ /\ ~stopping_
        /\ \A v \in Workers : pc'[v] = "exited" => pc[v] = "exited"
    BY <1>11 DEF Enqueue, FuturesInv, CarrySame, ActiveAt, Locked
  <2>5. pc[Main] # "destroyed"
    BY <2>4 DEF FuturesInv, Locked
  <2>6. new \notin Running /\ new \notin Finished
    BY <2>1, FuturesCarry DEF Finished, Carried, FuturesInv, Once
  <2>7. Running' = Running /\ Finished' = Finished
    BY <2>1, <2>4, FuturesCarry, CarriedSame DEF Finished, FuturesInv
  <2>8. Phase = "open" /\ Phase' = Phase
    BY <2>4, <2>5 DEF Phase
  <2>9. Accepted(new, Queued, Running, Finished, Phase,
                 Queued', Running', Finished', Phase')
    BY <2>2, <2>3, <2>6, <2>7, <2>8, FuturesCarry DEF Accepted
  <2>10. new \in Everything
    BY <2>1 DEF Everything
  <2>11. FuturesDrained'
    BY <2>4 DEF FuturesDrained
  <2> QED
    BY <2>9, <2>10, <2>11 DEF FuturesServed, Served
<1>12. ASSUME NEW t \in Threads, NotifyOne(t) PROVE FuturesDrained' /\ FuturesServed
  BY <1>12, FuturesStutter DEF NotifyOne, FuturesInv, CarrySame, ActiveAt
<1>13. ASSUME NEW t \in MainTasks, MainSubmits(t) PROVE FuturesDrained' /\ FuturesServed
  BY <1>13, FuturesStutter DEF MainSubmits, FuturesInv, CarrySame, ActiveAt
<1>14. ASSUME MainGetsFuture PROVE FuturesDrained' /\ FuturesServed
  BY <1>14, FuturesStutter DEF MainGetsFuture, FuturesInv, CarrySame, ActiveAt
<1>15. ASSUME MainDropsFuture PROVE FuturesDrained' /\ FuturesServed
  BY <1>15, FuturesStutter DEF MainDropsFuture, FuturesInv, CarrySame, ActiveAt
<1>16. ASSUME MainLeavesScope PROVE FuturesDrained' /\ FuturesServed
  BY <1>16, FuturesStutter DEF MainLeavesScope, FuturesInv, CarrySame, ActiveAt
<1>17. ASSUME DtorLock PROVE FuturesDrained' /\ FuturesServed
  BY <1>17, FuturesStutter DEF DtorLock, FuturesInv, CarrySame, ActiveAt
<1>18. ASSUME DtorStops PROVE FuturesDrained' /\ FuturesServed
  <2>1. /\ CarrySame(Workers, pc, pc', ActiveAt, task, task')
        /\ pc[Main] = "dtor_locked" /\ pc'[Main] = "notify_all"
        /\ \A v \in Workers : pc'[v] = pc[v]
        /\ tasks_' = tasks_ /\ future' = future /\ stopping_' /\ ~stopping_
    BY <1>18 DEF DtorStops, FuturesInv, CarrySame, Locked
  <2>2. Running' = Running /\ Queued' = Queued
    BY <2>1, FuturesCarry, CarriedSame
  <2>3. Finished' = Finished /\ Phase = "open" /\ Phase' = "closed"
    BY <2>1 DEF Finished, Phase
  <2>4. FuturesDrained'
    BY <2>1 DEF FuturesDrained
  <2> QED
    BY <2>2, <2>3, <2>4 DEF FuturesServed, Served, Closed
<1>19. ASSUME DtorNotifyAll PROVE FuturesDrained' /\ FuturesServed
  BY <1>19, FuturesStutter DEF DtorNotifyAll, FuturesInv, CarrySame, ActiveAt
<1>20. ASSUME DtorJoined PROVE FuturesDrained' /\ FuturesServed
  <2>1. /\ CarrySame(Workers, pc, pc', ActiveAt, task, task')
        /\ pc[Main] = "join" /\ pc'[Main] = "destroyed"
        /\ \A v \in Workers : pc'[v] = pc[v] /\ pc[v] = "exited"
        /\ tasks_' = tasks_ /\ future' = future /\ stopping_' = stopping_
    BY <1>20 DEF DtorJoined, FuturesInv, CarrySame
  <2>2. Running' = Running /\ Queued' = Queued
    BY <2>1, FuturesCarry, CarriedSame
  <2>3. PICK w : w \in Workers
    BY PoolAssumption
  <2>4. stopping_ /\ tasks_ = << >>
    BY <2>1, <2>3 DEF FuturesDrained
  <2>5. Queued = {} /\ Running = {}
    BY <2>1, <2>4, FuturesCarry DEF Elements, Carried, ActiveAt
  <2>6. Finished' = Finished /\ Phase = "closed" /\ Phase' = "gone"
    BY <2>1, <2>4 DEF Finished, Phase
  <2>7. FuturesDrained'
    BY <2>1, <2>4 DEF FuturesDrained
  <2> QED
    BY <2>2, <2>5, <2>6, <2>7 DEF FuturesServed, Served, Closed
<1>21. CASE UNCHANGED vars
  BY <1>21, FuturesStutter DEF vars, CarrySame
<1> QED
  BY <1>1, <1>2, <1>3, <1>4, <1>5, <1>6, <1>7, <1>8, <1>9, <1>10, <1>11, <1>12, <1>13,
     <1>14, <1>15, <1>16, <1>17, <1>18, <1>19, <1>20, <1>21
  DEF Next, worker, main, submit, MainReturned


-----------------------------------------------------------------------------
(* The bounded pool: a task, which is named after its submitter, is queued *)
(* or held by one worker, and its submit has queued it.                    *)
SubmittedAt == {"notify", "accepted"}
HeldAt == {"notify", "run"}

BoundedOnce ==
  /\ Distinct(tasks_)
  /\ \A s \in Elements(tasks_) : pc[s] \in SubmittedAt
  /\ \A w \in BoundedWorkers : pc[w] \in HeldAt =>
       /\ task[w] \in Submitters /\ pc[task[w]] \in SubmittedAt
       /\ task[w] \notin Elements(tasks_)
       /\ \A v \in BoundedWorkers : pc[v] \in HeldAt /\ task[v] = task[w] => v = w

BoundedDrained ==
  /\ \A w \in BoundedWorkers : pc[w] = "exited" => stopping_ /\ tasks_ = << >>
  /\ pc[Main] = "destroyed" => \A w \in BoundedWorkers : pc[w] = "exited"

BoundedOrder == BoundedOnce /\ BoundedDrained
BoundedDone == InBounded => BoundedOrder

BoundedServed ==
  Served(Bounded!Queued, Bounded!Running, Bounded!Finished, Bounded!Phase,
         Bounded!Queued', Bounded!Running', Bounded!Finished', Bounded!Phase')

LEMMA BoundedCarry ==
  /\ Bounded!Running = Carried(BoundedWorkers, pc, HeldAt, task)
  /\ Bounded!Running' = Carried(BoundedWorkers, pc', HeldAt, task')
  /\ Bounded!Queued = Elements(tasks_) /\ Bounded!Queued' = Elements(tasks_')
  /\ \A s : s \in Bounded!Finished <=>
       /\ s \in Submitters /\ pc[s] \in SubmittedAt
       /\ s \notin Bounded!Queued /\ s \notin Bounded!Running
  /\ \A s : s \in Bounded!Finished' <=>
       /\ s \in Submitters /\ pc'[s] \in SubmittedAt
       /\ s \notin Bounded!Queued' /\ s \notin Bounded!Running'
  BY DEF Bounded!Running, Bounded!Held, HeldAt, Carried, Bounded!Queued, Elements,
     Bounded!Finished, SubmittedAt

(* A step that starts, ends, accepts and stops nothing.                    *)
LEMMA BoundedStutter ==
  ASSUME BoundedInv, BoundedOrder, tasks_' = tasks_, task' = task,
         stopping_' = stopping_,
         CarrySame(BoundedWorkers, pc, pc', HeldAt, task, task'),
         \A s \in Submitters : pc'[s] \in SubmittedAt <=> pc[s] \in SubmittedAt,
         pc'[Main] = "destroyed" <=> pc[Main] = "destroyed",
         \A w \in BoundedWorkers : pc'[w] = "exited" <=> pc[w] = "exited"
  PROVE  BoundedOrder' /\ BoundedServed
<1>1. Elements(tasks_) \subseteq Submitters
  BY ElementsIn DEF BoundedInv, BoundedTyped
<1>2. BoundedOnce'
  BY <1>1 DEF BoundedOrder, BoundedOnce, CarrySame
<1>3. BoundedDrained'
  BY DEF BoundedOrder, BoundedDrained
<1>4. Bounded!Running' = Bounded!Running /\ Bounded!Queued' = Bounded!Queued
  BY BoundedCarry, CarriedSame
<1>5. Bounded!Finished' = Bounded!Finished
  <2>1. \A s : s \in Bounded!Finished' <=> s \in Bounded!Finished
    BY <1>4, BoundedCarry
  <2> QED
    BY <2>1
<1>6. Bounded!Phase' = Bounded!Phase
  BY DEF Bounded!Phase, Bounded!destroyed
<1> QED
  BY <1>2, <1>3, <1>4, <1>5, <1>6 DEF BoundedOrder, BoundedServed, Served

LEMMA BoundedServe ==
  BoundedInv /\ BoundedOrder /\ (Bounded!Next \/ UNCHANGED Bounded!vars) =>
    BoundedOrder' /\ BoundedServed
<1> SUFFICES ASSUME BoundedInv, BoundedOrder, Bounded!Next \/ UNCHANGED Bounded!vars
             PROVE  BoundedOrder' /\ BoundedServed
  OBVIOUS
<1> USE Clients DEF BoundedTyped, Bounded!Goto, Bounded!destroyed
<1>1. ASSUME NEW t \in Bounded!Threads \ {Main}, Bounded!Lock(t)
      PROVE  BoundedOrder' /\ BoundedServed
  BY <1>1, BoundedStutter
  DEF Bounded!Lock, BoundedInv, CarrySame, HeldAt, SubmittedAt
<1>2. ASSUME NEW w \in BoundedWorkers, Bounded!WorkerWait(w)
      PROVE  BoundedOrder' /\ BoundedServed
  BY <1>2, BoundedStutter
  DEF Bounded!WorkerWait, BoundedInv, CarrySame, HeldAt, SubmittedAt
<1>3. ASSUME NEW w \in BoundedWorkers, Bounded!WorkerWakes(w)
      PROVE  BoundedOrder' /\ BoundedServed
  BY <1>3, BoundedStutter
  DEF Bounded!WorkerWakes, BoundedInv, CarrySame, HeldAt, SubmittedAt
<1>4. ASSUME NEW w \in BoundedWorkers, Bounded!WorkerExits(w)
      PROVE  BoundedOrder' /\ BoundedServed
  <2>1. /\ CarrySame(BoundedWorkers, pc, pc', HeldAt, task, task')
        /\ pc[Main] # "destroyed" /\ pc'[Main] # "destroyed"
        /\ \A v \in BoundedWorkers : pc'[v] = "exited" => v = w \/ pc[v] = "exited"
        /\ \A s \in Submitters : pc'[s] = pc[s]
        /\ tasks_' = tasks_ /\ task' = task /\ stopping_' = stopping_
        /\ stopping_ /\ tasks_ = << >>
    BY <1>4 DEF Bounded!WorkerExits, BoundedInv, CarrySame, HeldAt
  <2>2. BoundedDrained'
    BY <2>1 DEF BoundedOrder, BoundedDrained
  <2>3. BoundedOnce'
    <3>1. Elements(tasks_) = {}
      BY <2>1 DEF Elements
    <3> QED
      BY <2>1, <3>1 DEF BoundedOrder, BoundedOnce, CarrySame
  <2>4. Bounded!Running' = Bounded!Running /\ Bounded!Queued' = Bounded!Queued
    BY <2>1, BoundedCarry, CarriedSame
  <2>5. Bounded!Finished' = Bounded!Finished
    <3>1. \A s : s \in Bounded!Finished' <=> s \in Bounded!Finished
      BY <2>1, <2>4, BoundedCarry
    <3> QED
      BY <3>1
  <2>6. Bounded!Phase' = Bounded!Phase
    BY <2>1 DEF Bounded!Phase
  <2> QED
    BY <2>2, <2>3, <2>4, <2>5, <2>6 DEF BoundedOrder, BoundedServed, Served
<1>5. ASSUME NEW w \in BoundedWorkers, Bounded!TakeTask(w)
      PROVE  BoundedOrder' /\ BoundedServed
  <2>1. /\ Head(tasks_) \in Elements(tasks_)
        /\ Elements(tasks_') = Elements(tasks_) \ {Head(tasks_)} /\ Distinct(tasks_')
    BY <1>5, TailElements DEF Bounded!TakeTask, BoundedInv, BoundedOrder, BoundedOnce
  <2>2. Elements(tasks_) \subseteq Submitters
    BY ElementsIn DEF BoundedInv
  <2>3. /\ CarrySameBut(w, BoundedWorkers, pc, pc', HeldAt, task, task')
        /\ pc[w] \notin HeldAt /\ pc'[w] \in HeldAt /\ task'[w] = Head(tasks_)
        /\ \A v \in BoundedWorkers \ {w} : pc'[v] = pc[v] /\ task'[v] = task[v]
        /\ \A s \in Submitters : pc'[s] = pc[s]
        /\ pc'[Main] = pc[Main] /\ pc[Main] # "destroyed" /\ stopping_' = stopping_
        /\ pc[w] # "exited" /\ pc'[w] # "exited" /\ tasks_ # << >>
    BY <1>5 DEF Bounded!TakeTask, BoundedInv, CarrySameBut, HeldAt
  <2>4. Bounded!Running' = Bounded!Running \cup {Head(tasks_)}
    BY <2>3, CarriedOneMore, BoundedCarry
  <2>5. BoundedOnce'
    BY <2>1, <2>2, <2>3 DEF BoundedOrder, BoundedOnce
  <2>6. BoundedDrained'
    BY <2>3 DEF BoundedOrder, BoundedDrained
  <2>7. Bounded!Phase' = Bounded!Phase /\ Bounded!Phase # "gone"
    BY <2>3 DEF Bounded!Phase
  <2>8. Bounded!Finished' = Bounded!Finished
    <3>1. \A s : s \in Bounded!Finished' <=> s \in Bounded!Finished
      BY <2>1, <2>3, <2>4, BoundedCarry
    <3> QED
      BY <3>1
  <2>9. Started(Head(tasks_), Bounded!Queued, Bounded!Running, Bounded!Finished,
                Bounded!Phase, Bounded!Queued', Bounded!Running', Bounded!Finished',
                Bounded!Phase')
    BY <2>1, <2>4, <2>7, <2>8, BoundedCarry DEF Started
  <2>10. Head(tasks_) \in Everything
    BY <2>1, <2>2 DEF Everything
  <2> QED
    BY <2>5, <2>6, <2>9, <2>10 DEF BoundedOrder, BoundedServed, Served
<1>6. ASSUME NEW w \in BoundedWorkers, Bounded!NotifySubmitter(w)
      PROVE  BoundedOrder' /\ BoundedServed
  BY <1>6, BoundedStutter
  DEF Bounded!NotifySubmitter, BoundedInv, CarrySame, HeldAt, SubmittedAt
<1>7. ASSUME NEW w \in BoundedWorkers, Bounded!RunTask(w)
      PROVE  BoundedOrder' /\ BoundedServed
  <2>1. /\ task[w] \in Submitters /\ pc[task[w]] \in SubmittedAt
        /\ task[w] \notin Elements(tasks_)
        /\ pc[w] \in HeldAt
        /\ \A v \in BoundedWorkers : pc[v] \in HeldAt /\ task[v] = task[w] => v = w
    BY <1>7 DEF Bounded!RunTask, BoundedOrder, BoundedOnce, HeldAt
  <2>2. /\ CarrySameBut(w, BoundedWorkers, pc, pc', HeldAt, task, task')
        /\ pc'[w] \notin HeldAt
        /\ \A v \in BoundedWorkers \ {w} : pc'[v] = pc[v] /\ task'[v] = task[v]
        /\ \A s \in Submitters : pc'[s] = pc[s]
        /\ pc'[Main] = pc[Main] /\ pc[Main] # "destroyed" /\ stopping_' = stopping_
        /\ pc'[w] # "exited" /\ tasks_' = tasks_
    BY <1>7 DEF Bounded!RunTask, BoundedInv, CarrySameBut, HeldAt
  <2>3. /\ Bounded!Running' = Bounded!Running \ {task[w]}
        /\ task[w] \in Bounded!Running
    <3>1. /\ Carried(BoundedWorkers, pc', HeldAt, task')
               = Carried(BoundedWorkers, pc, HeldAt, task) \ {task[w]}
          /\ task[w] \in Carried(BoundedWorkers, pc, HeldAt, task)
      BY ONLY <2>1, <2>2, CarriedOneLess, w \in BoundedWorkers
    <3> QED
      BY <3>1, BoundedCarry
  <2>4. BoundedOnce'
    <3>1. Elements(tasks_) \subseteq Submitters
      BY ElementsIn DEF BoundedInv
    <3> QED
      BY <2>2, <3>1 DEF BoundedOrder, BoundedOnce
  <2>5. BoundedDrained'
    BY <2>2 DEF BoundedOrder, BoundedDrained
  <2>6. Bounded!Phase' = Bounded!Phase /\ Bounded!Phase # "gone"
    BY <2>2 DEF Bounded!Phase
  <2>7. Bounded!Finished' = Bounded!Finished \cup {task[w]}
    <3>1. \A s : s \in Bounded!Finished' <=> s \in Bounded!Finished \cup {task[w]}
      BY <2>1, <2>2, <2>3, BoundedCarry
    <3> QED
      BY <3>1
  <2>8. Ended(task[w], Bounded!Queued, Bounded!Running, Bounded!Finished,
              Bounded!Phase, Bounded!Queued', Bounded!Running', Bounded!Finished',
              Bounded!Phase')
    BY <2>2, <2>3, <2>6, <2>7, BoundedCarry DEF Ended
  <2>9. task[w] \in Everything
    BY <2>1 DEF Everything
  <2> QED
    BY <2>4, <2>5, <2>8, <2>9 DEF BoundedOrder, BoundedServed, Served
<1>8. ASSUME NEW s \in Submitters, Bounded!Call(s)
      PROVE  BoundedOrder' /\ BoundedServed
  BY <1>8, BoundedStutter
  DEF Bounded!Call, BoundedInv, CarrySame, HeldAt, SubmittedAt
<1>9. ASSUME NEW s \in Submitters, Bounded!SubmitWait(s)
      PROVE  BoundedOrder' /\ BoundedServed
  BY <1>9, BoundedStutter
  DEF Bounded!SubmitWait, BoundedInv, CarrySame, HeldAt, SubmittedAt
<1>10. ASSUME NEW s \in Submitters, Bounded!SubmitterWakes(s)
       PROVE  BoundedOrder' /\ BoundedServed
  BY <1>10, BoundedStutter
  DEF Bounded!SubmitterWakes, BoundedInv, CarrySame, HeldAt, SubmittedAt
<1>11. ASSUME NEW s \in Submitters, Bounded!SubmitThrows(s)
       PROVE  BoundedOrder' /\ BoundedServed
  BY <1>11, BoundedStutter
  DEF Bounded!SubmitThrows, BoundedInv, CarrySame, HeldAt, SubmittedAt
<1>12. ASSUME NEW s \in Submitters, Bounded!Enqueue(s)
       PROVE  BoundedOrder' /\ BoundedServed
  <2>1. /\ pc[s] \notin SubmittedAt /\ pc'[s] \in SubmittedAt
        /\ \A u \in Submitters \ {s} : pc'[u] = pc[u]
        /\ \A v \in BoundedWorkers : pc'[v] = pc[v]
        /\ pc'[Main] = pc[Main] /\ pc[Main] # "destroyed" /\ task' = task
        /\ stopping_' = stopping_ /\ ~stopping_
    BY <1>12 DEF Bounded!Enqueue, BoundedInv, SubmittedAt
  <2>2. s \notin Elements(tasks_)
    BY <2>1 DEF BoundedOrder, BoundedOnce
  <2>3. Elements(tasks_') = Elements(tasks_) \cup {s} /\ Distinct(tasks_')
    BY <1>12, <2>2, AppendElement
    DEF Bounded!Enqueue, BoundedInv, BoundedOrder, BoundedOnce
  <2>4. \A w \in BoundedWorkers : pc[w] \in HeldAt => task[w] # s
    BY <2>1 DEF BoundedOrder, BoundedOnce
  <2>5. BoundedOnce'
    <3>1. Elements(tasks_) \subseteq Submitters
      BY ElementsIn DEF BoundedInv
    <3> QED
      BY <2>1, <2>3, <2>4, <3>1 DEF BoundedOrder, BoundedOnce
  <2>6. BoundedDrained'
    BY <2>1 DEF BoundedOrder, BoundedDrained
  <2>7. Bounded!Running' = Bounded!Running
    <3>1. CarrySame(BoundedWorkers, pc, pc', HeldAt, task, task')
      BY <2>1 DEF CarrySame
    <3> QED
      BY <3>1, BoundedCarry, CarriedSame
  <2>8. s \notin Bounded!Running /\ s \notin Bounded!Finished
    BY <2>1, <2>4, BoundedCarry DEF Carried
  <2>9. Bounded!Finished' = Bounded!Finished
    <3>1. \A u : u \in Bounded!Finished' <=> u \in Bounded!Finished
      BY <2>1, <2>3, <2>7, BoundedCarry
    <3> QED
      BY <3>1
  <2>10. Bounded!Phase' = Bounded!Phase /\ Bounded!Phase = "open"
    BY <2>1 DEF Bounded!Phase
  <2>11. Accepted(s, Bounded!Queued, Bounded!Running, Bounded!Finished,
                  Bounded!Phase, Bounded!Queued', Bounded!Running', Bounded!Finished',
                  Bounded!Phase')
    BY <2>2, <2>3, <2>7, <2>8, <2>9, <2>10, BoundedCarry DEF Accepted
  <2>12. s \in Everything
    BY DEF Everything
  <2> QED
    BY <2>5, <2>6, <2>11, <2>12 DEF BoundedOrder, BoundedServed, Served
<1>13. ASSUME NEW s \in Submitters, Bounded!NotifyWorker(s)
       PROVE  BoundedOrder' /\ BoundedServed
  BY <1>13, BoundedStutter
  DEF Bounded!NotifyWorker, BoundedInv, CarrySame, HeldAt, SubmittedAt
<1>14. ASSUME Bounded!DtorLock PROVE BoundedOrder' /\ BoundedServed
  BY <1>14, BoundedStutter
  DEF Bounded!DtorLock, BoundedInv, CarrySame, HeldAt, SubmittedAt
<1>15. ASSUME Bounded!DtorStops PROVE BoundedOrder' /\ BoundedServed
  <2>1. /\ \A t \in BoundedWorkers \cup Submitters : pc'[t] = pc[t]
        /\ pc[Main] # "destroyed" /\ pc'[Main] # "destroyed"
        /\ ~stopping_ /\ stopping_' /\ tasks_' = tasks_ /\ task' = task
    BY <1>15 DEF Bounded!DtorStops, BoundedInv, BoundedLocked
  <2>2. BoundedOnce'
    <3>1. Elements(tasks_) \subseteq Submitters
      BY ElementsIn DEF BoundedInv
    <3> QED
      BY <2>1, <3>1 DEF BoundedOrder, BoundedOnce
  <2>3. BoundedDrained'
    BY <2>1 DEF BoundedOrder, BoundedDrained
  <2>4. Bounded!Running' = Bounded!Running /\ Bounded!Queued' = Bounded!Queued
    <3>1. CarrySame(BoundedWorkers, pc, pc', HeldAt, task, task')
      BY <2>1 DEF CarrySame
    <3> QED
      BY <2>1, <3>1, BoundedCarry, CarriedSame
  <2>5. Bounded!Finished' = Bounded!Finished
    <3>1. \A s : s \in Bounded!Finished' <=> s \in Bounded!Finished
      BY <2>1, <2>4, BoundedCarry
    <3> QED
      BY <3>1
  <2>6. Bounded!Phase = "open" /\ Bounded!Phase' = "closed"
    BY <2>1 DEF Bounded!Phase
  <2> QED
    BY <2>2, <2>3, <2>4, <2>5, <2>6 DEF BoundedOrder, BoundedServed, Served, Closed
<1>16. ASSUME Bounded!DtorNotifyWorkers PROVE BoundedOrder' /\ BoundedServed
  BY <1>16, BoundedStutter
  DEF Bounded!DtorNotifyWorkers, Bounded!NotifyAll, BoundedInv, CarrySame, HeldAt,
      SubmittedAt
<1>17. ASSUME Bounded!DtorNotifySubmitters PROVE BoundedOrder' /\ BoundedServed
  BY <1>17, BoundedStutter
  DEF Bounded!DtorNotifySubmitters, Bounded!NotifyAll, BoundedInv, CarrySame, HeldAt,
      SubmittedAt
<1>18. ASSUME Bounded!DtorJoined PROVE BoundedOrder' /\ BoundedServed
  <2>1. /\ \A t \in BoundedWorkers \cup Submitters : pc'[t] = pc[t]
        /\ \A w \in BoundedWorkers : pc[w] = "exited"
        /\ pc[Main] # "destroyed" /\ pc'[Main] = "destroyed"
        /\ stopping_' = stopping_ /\ tasks_' = tasks_ /\ task' = task
    BY <1>18 DEF Bounded!DtorJoined, BoundedInv
  <2>2. PICK w : w \in BoundedWorkers
    BY PoolsAssumption
  <2>3. stopping_ /\ tasks_ = << >>
    BY <2>1, <2>2 DEF BoundedOrder, BoundedDrained
  <2>4. BoundedOnce'
    <3>1. Elements(tasks_) = {}
      BY <2>3 DEF Elements
    <3> QED
      BY <2>1, <3>1 DEF BoundedOrder, BoundedOnce
  <2>5. BoundedDrained'
    BY <2>1, <2>3 DEF BoundedDrained
  <2>6. Bounded!Running' = Bounded!Running /\ Bounded!Queued' = Bounded!Queued
    <3>1. CarrySame(BoundedWorkers, pc, pc', HeldAt, task, task')
      BY <2>1 DEF CarrySame
    <3> QED
      BY <2>1, <3>1, BoundedCarry, CarriedSame
  <2>7. Bounded!Finished' = Bounded!Finished
    <3>1. \A s : s \in Bounded!Finished' <=> s \in Bounded!Finished
      BY <2>1, <2>6, BoundedCarry
    <3> QED
      BY <3>1
  <2>8. Bounded!Phase = "closed" /\ Bounded!Phase' = "gone"
    BY <2>1, <2>3 DEF Bounded!Phase
  <2>9. Bounded!Queued = {} /\ Bounded!Running = {}
    BY <2>1, <2>3, BoundedCarry DEF Elements, Carried, HeldAt
  <2> QED
    BY <2>4, <2>5, <2>6, <2>7, <2>8, <2>9 DEF BoundedOrder, BoundedServed, Served, Closed
<1>19. CASE UNCHANGED Bounded!vars
  BY <1>19, BoundedStutter DEF Bounded!vars, CarrySame
<1> QED
  BY <1>1, <1>2, <1>3, <1>4, <1>5, <1>6, <1>7, <1>8, <1>9, <1>10, <1>11, <1>12, <1>13,
     <1>14, <1>15, <1>16, <1>17, <1>18, <1>19, Clients
  DEF Bounded!Next, Bounded!worker, Bounded!submit, Bounded!dtor, Bounded!Gone


-----------------------------------------------------------------------------
(* The work-stealing pool                                                  *)

StealingServed ==
  Served(InQueues, Stealing!Running, Stealing!Finished, Stealing!Phase,
         InQueues', Stealing!Running', Stealing!Finished', Stealing!Phase')

LEMMA StealingCarry ==
  /\ Stealing!Running = Carried(Indices, pc, BusyAt, task)
  /\ Stealing!Running' = Carried(Indices, pc', BusyAt, task')
<1>1. BusyAt = {"own_count", "steal_count", "run", "submit", "submit_locked",
                "local_locked", "local_count", "notify", "submitted"}
  BY DEF BusyAt, TakenAt, SubmittingAt, PushedAt
<1> QED
  BY <1>1 DEF Stealing!Running, Stealing!Active, Carried, Indices

(* A step that starts, ends, accepts and stops nothing.                    *)
LEMMA StealingStutter ==
  ASSUME StealingInv, tasks_' = tasks_, local_tasks_' = local_tasks_,
         future' = future, stopping_' = stopping_,
         CarrySame(Indices, pc, pc', BusyAt, task, task'),
         pc'[Main] = "destroyed" <=> pc[Main] = "destroyed"
  PROVE  StealingServed
<1>1. InQueues' = InQueues
  BY InQueuesAre
<1>2. Stealing!Running' = Stealing!Running
  BY StealingCarry, CarriedSame
<1>3. Stealing!Finished' = Stealing!Finished /\ Stealing!Phase' = Stealing!Phase
  BY DEF Stealing!Finished, Stealing!Phase
<1> QED
  BY <1>1, <1>2, <1>3 DEF StealingServed, Served

(* A worker starts the task x, from whichever queue.                       *)
LEMMA StealingStart ==
  ASSUME StealingInv, NEW w \in Indices, NEW x \in Tasks, NEW to \in BusyAt,
         pc[w] \in SearchAt, pc' = [pc EXCEPT ![w] = to],
         task' = [task EXCEPT ![w] = x], future' = future, stopping_' = stopping_,
         x \in InQueues, InQueues' = InQueues \ {x}
  PROVE  StealingServed
<1> USE StealingPeople DEF StealingInv, StealingTyped
<1>1. /\ CarrySameBut(w, Indices, pc, pc', BusyAt, task, task')
      /\ pc[w] \notin BusyAt /\ pc'[w] \in BusyAt /\ task'[w] = x
      /\ pc'[Main] = pc[Main]
  BY DEF CarrySameBut, SearchAt, BusyAt, TakenAt, SubmittingAt, PushedAt
<1>2. Stealing!Running' = Stealing!Running \cup {x}
  <2>1. Carried(Indices, pc', BusyAt, task')
          = Carried(Indices, pc, BusyAt, task) \cup {task'[w]}
    BY ONLY <1>1, CarriedOneMore, w \in Indices
  <2> QED
    BY <1>1, <2>1, StealingCarry
<1>3. pc[Main] # "destroyed"
  BY DEF Drained, SearchAt
<1>4. /\ Stealing!Finished' = Stealing!Finished
      /\ Stealing!Phase' = Stealing!Phase /\ Stealing!Phase # "gone"
  BY <1>1, <1>3 DEF Stealing!Finished, Stealing!Phase
<1>5. Started(x, InQueues, Stealing!Running, Stealing!Finished, Stealing!Phase,
              InQueues', Stealing!Running', Stealing!Finished', Stealing!Phase')
  BY <1>2, <1>4 DEF Started
<1> QED
  BY <1>5 DEF StealingServed, Served, Everything

(* A task ends, whatever it left in its future.                            *)
LEMMA StealingEnd ==
  ASSUME StealingInv, NEW w \in Indices, NEW outcome \in {"ready", "error"},
         pc[w] \in BusyAt, pc' = [pc EXCEPT ![w] = "own"],
         future' = [future EXCEPT ![task[w]] = outcome],
         task' = [task EXCEPT ![w] = NoTask],
         tasks_' = tasks_, local_tasks_' = local_tasks_, stopping_' = stopping_
  PROVE  StealingServed
<1>1. /\ task[w] \in Tasks /\ pc[w] \in BusyAt
      /\ \A v \in Indices : pc[v] \in BusyAt /\ task[v] = task[w] => v = w
  BY DEF StealingInv, StealingOnce, HeldOnce
<1>2. /\ CarrySameBut(w, Indices, pc, pc', BusyAt, task, task')
      /\ pc'[w] \notin BusyAt /\ pc'[Main] = pc[Main]
  BY StealingPeople
  DEF StealingInv, StealingTyped, CarrySameBut, BusyAt, TakenAt, SubmittingAt, PushedAt
<1>3. Stealing!Running' = Stealing!Running \ {task[w]} /\ task[w] \in Stealing!Running
  <2>1. /\ Carried(Indices, pc', BusyAt, task')
             = Carried(Indices, pc, BusyAt, task) \ {task[w]}
        /\ task[w] \in Carried(Indices, pc, BusyAt, task)
    BY ONLY <1>1, <1>2, CarriedOneLess, w \in Indices
  <2> QED
    BY <2>1, StealingCarry
<1>4. Stealing!Finished' = Stealing!Finished \cup {task[w]}
  BY <1>1, StealingPeople DEF Stealing!Finished, StealingInv, StealingTyped
<1>5. InQueues' = InQueues /\ Stealing!Phase' = Stealing!Phase
  BY <1>2, InQueuesAre DEF Stealing!Phase
<1>6. pc[Main] # "destroyed"
  BY DEF StealingInv, Drained, BusyAt, TakenAt, SubmittingAt, PushedAt
<1>7. Ended(task[w], InQueues, Stealing!Running, Stealing!Finished, Stealing!Phase,
            InQueues', Stealing!Running', Stealing!Finished', Stealing!Phase')
  BY <1>3, <1>4, <1>5, <1>6 DEF Ended, Stealing!Phase
<1> QED
  BY <1>1, <1>7 DEF StealingServed, Served, Everything

(* A task x is accepted, into whichever queue.                             *)
LEMMA StealingAccept ==
  ASSUME StealingInv, NEW t \in Crew, NEW x \in Tasks, future[x] = "none",
         NEW from, NEW to, from \in BusyAt <=> to \in BusyAt, to # "destroyed",
         Stealing!Goto(t, from, to), task' = task,
         future' = [future EXCEPT ![x] = "pending"],
         ~stopping_, stopping_' = stopping_,
         \A y : y \in InQueues' <=> y \in InQueues \/ y = x
  PROVE  StealingServed
<1>1. x \notin InQueues
  BY InQueuesAre DEF StealingInv, StealingOnce, QueuedOnce, Global, Deque
<1>2. InQueues' = InQueues \cup {x}
  OBVIOUS
<1>3. /\ CarrySame(Indices, pc, pc', BusyAt, task, task')
      /\ pc'[Main] = "destroyed" => pc[Main] = "destroyed"
  BY StealingPeople DEF StealingInv, StealingTyped, CarrySame, Stealing!Goto
<1>4. Stealing!Running' = Stealing!Running
  BY <1>3, StealingCarry, CarriedSame
<1>5. x \notin Stealing!Running /\ x \notin Stealing!Finished
  BY StealingCarry
  DEF Carried, Stealing!Finished, StealingInv, StealingOnce, HeldOnce
<1>6. Stealing!Finished' = Stealing!Finished
  BY StealingPeople DEF Stealing!Finished, StealingInv, StealingTyped
<1>7. Stealing!Phase = "open" /\ Stealing!Phase' = "open"
  BY <1>3 DEF Stealing!Phase, StealingInv, StealingLocked
<1>8. Accepted(x, InQueues, Stealing!Running, Stealing!Finished, Stealing!Phase,
               InQueues', Stealing!Running', Stealing!Finished', Stealing!Phase')
  BY <1>1, <1>2, <1>4, <1>5, <1>6, <1>7 DEF Accepted
<1> QED
  BY <1>8 DEF StealingServed, Served, Everything

LEMMA PoppedFromQueues ==
  ASSUME StealingInv, NEW w \in Indices, NEW v \in Indices, NEW x, Pops(w, v, x)
  PROVE  x \in InQueues /\ InQueues' = InQueues \ {x}
<1>1. x \in InQueues
  BY InQueuesAre DEF Pops
<1>2. /\ x \notin Elements(tasks_)
      /\ \A u \in Indices \ {v} : x \notin Elements(local_tasks_[u])
  BY DEF Pops, StealingInv, StealingOnce, QueuedOnce, Global, Deque
<1>3. \A y : y \in InQueues' <=> y \in InQueues /\ y # x
  BY <1>2, InQueuesAre DEF Pops
<1> QED
  BY <1>1, <1>3

LEMMA StealingServe ==
  StealingInv /\ (Stealing!Next \/ UNCHANGED Stealing!vars) => StealingServed
<1> SUFFICES ASSUME StealingInv, Stealing!Next \/ UNCHANGED Stealing!vars
             PROVE  StealingServed
  OBVIOUS
<1>b. BusyAt = {"own_count", "steal_count", "run", "submit", "submit_locked",
                "local_locked", "local_count", "notify", "submitted"}
  BY DEF BusyAt, TakenAt, SubmittingAt, PushedAt
<1> USE StealingPeople
    DEF StealingTyped, Stealing!Goto, Stealing!queues, Stealing!stealVars,
        Stealing!unchangedByMain
<1>1. ASSUME NEW w \in Indices, Stealing!OwnLock(w) PROVE StealingServed
  BY <1>b, <1>1, StealingStutter DEF Stealing!OwnLock, StealingInv, CarrySame
<1>2. ASSUME NEW w \in Indices, Stealing!OwnPop(w) PROVE StealingServed
  <2>1. PICK x \in Tasks : Pops(w, w, x)
    BY <1>2, Popping
  <2>2. PICK to \in TakenAt : pc' = [pc EXCEPT ![w] = to]
    BY <2>1 DEF Pops
  <2>3. x \in InQueues /\ InQueues' = InQueues \ {x}
    BY <2>1, PoppedFromQueues
  <2>4. stopping_' = stopping_
    BY <1>2 DEF Stealing!OwnPop
  <2> QED
    BY <2>1, <2>2, <2>3, <2>4, StealingStart DEF Pops, SearchAt, BusyAt
<1>3. ASSUME NEW w \in Indices, Stealing!OwnCount(w) PROVE StealingServed
  BY <1>b, <1>3, StealingStutter DEF Stealing!OwnCount, StealingInv, CarrySame
<1>4. ASSUME NEW w \in Indices, Stealing!OwnEmpty(w) PROVE StealingServed
  BY <1>b, <1>4, StealingStutter DEF Stealing!OwnEmpty, StealingInv, CarrySame
<1>5. ASSUME NEW w \in Indices, Stealing!StealSkipsSelf(w) PROVE StealingServed
  BY <1>b, <1>5, StealingStutter DEF Stealing!StealSkipsSelf, StealingInv, CarrySame
<1>6. ASSUME NEW w \in Indices, Stealing!StealTryLock(w) PROVE StealingServed
  BY <1>b, <1>6, StealingStutter DEF Stealing!StealTryLock, StealingInv, CarrySame
<1>7. ASSUME NEW w \in Indices, Stealing!StealLockFails(w) PROVE StealingServed
  BY <1>b, <1>7, StealingStutter DEF Stealing!StealLockFails, StealingInv, CarrySame
<1>8. ASSUME NEW w \in Indices, Stealing!StealNothing(w) PROVE StealingServed
  BY <1>b, <1>8, StealingStutter DEF Stealing!StealNothing, StealingInv, CarrySame
<1>9. ASSUME NEW w \in Indices, Stealing!StealPop(w) PROVE StealingServed
  <2>1. PICK x \in Tasks : victim[w] \in Indices /\ Pops(w, victim[w], x)
    BY <1>9, Popping
  <2>2. PICK to \in TakenAt : pc' = [pc EXCEPT ![w] = to]
    BY <2>1 DEF Pops
  <2>3. x \in InQueues /\ InQueues' = InQueues \ {x}
    BY <2>1, PoppedFromQueues
  <2>4. stopping_' = stopping_
    BY <1>9 DEF Stealing!StealPop
  <2> QED
    BY <2>1, <2>2, <2>3, <2>4, StealingStart DEF Pops, SearchAt, BusyAt
<1>10. ASSUME NEW w \in Indices, Stealing!StealCount(w) PROVE StealingServed
  BY <1>b, <1>10, StealingStutter DEF Stealing!StealCount, StealingInv, CarrySame
<1>11. ASSUME NEW w \in Indices, Stealing!StealAgain(w) PROVE StealingServed
  BY <1>b, <1>11, StealingStutter DEF Stealing!StealAgain, StealingInv, CarrySame
<1>12. ASSUME NEW w \in Indices, Stealing!StealGivesUp(w) PROVE StealingServed
  BY <1>b, <1>12, StealingStutter DEF Stealing!StealGivesUp, StealingInv, CarrySame
<1>13. ASSUME NEW w \in Indices, Stealing!GlobalLock(w) PROVE StealingServed
  BY <1>b, <1>13, StealingStutter DEF Stealing!GlobalLock, StealingInv, CarrySame
<1>14. ASSUME NEW w \in Indices, Stealing!GlobalTake(w) PROVE StealingServed
  <2> DEFINE x == Head(tasks_)
  <2>1. /\ x \in Elements(tasks_) /\ x \in Tasks
        /\ Elements(tasks_') = Elements(tasks_) \ {x}
    BY <1>14, TailElements, ElementsIn
    DEF Stealing!GlobalTake, StealingInv, StealingOnce, QueuedOnce
  <2>2. /\ task' = [task EXCEPT ![w] = x] /\ stopping_' = stopping_
        /\ pc[w] = "global_locked" /\ pc' = [pc EXCEPT ![w] = "run"]
        /\ local_tasks_' = local_tasks_ /\ future' = future
    BY <1>14 DEF Stealing!GlobalTake
  <2> HIDE DEF x
  <2>3. x \in InQueues /\ InQueues' = InQueues \ {x}
    <3>1. \A u \in Indices : x \notin Elements(local_tasks_[u])
      BY <2>1 DEF StealingInv, StealingOnce, QueuedOnce, Global, Deque
    <3>2. x \in InQueues /\ \A y : y \in InQueues' <=> y \in InQueues /\ y # x
      BY <2>1, <2>2, <3>1, InQueuesAre
    <3> QED
      BY <3>2
  <2> QED
    BY <1>b, <2>1, <2>2, <2>3, StealingStart DEF SearchAt
<1>15. ASSUME NEW w \in Indices, Stealing!GlobalEmpty(w) PROVE StealingServed
  BY <1>b, <1>15, StealingStutter DEF Stealing!GlobalEmpty, StealingInv, CarrySame
<1>16. ASSUME NEW w \in Indices, Stealing!WaitSleeps(w) PROVE StealingServed
  BY <1>b, <1>16, StealingStutter DEF Stealing!WaitSleeps, StealingInv, CarrySame
<1>17. ASSUME NEW w \in Indices, Stealing!WorkerWakes(w) PROVE StealingServed
  BY <1>b, <1>17, StealingStutter DEF Stealing!WorkerWakes, StealingInv, CarrySame
<1>18. ASSUME NEW w \in Indices, Stealing!WaitRelocks(w) PROVE StealingServed
  BY <1>b, <1>18, StealingStutter DEF Stealing!WaitRelocks, StealingInv, CarrySame
<1>19. ASSUME NEW w \in Indices, Stealing!WaitEndsWithTask(w) PROVE StealingServed
  BY <1>b, <1>19, StealingStutter DEF Stealing!WaitEndsWithTask, StealingInv, CarrySame
<1>20. ASSUME NEW w \in Indices, Stealing!WorkerExits(w) PROVE StealingServed
  BY <1>b, <1>20, StealingStutter DEF Stealing!WorkerExits, StealingInv, CarrySame
<1>21. ASSUME NEW w \in Indices, Stealing!RunTask(w) PROVE StealingServed
  BY <1>b, <1>21, StealingEnd DEF Stealing!RunTask
<1>22. ASSUME NEW w \in Indices, Stealing!TaskSubmits(w) PROVE StealingServed
  BY <1>b, <1>22, StealingStutter DEF Stealing!TaskSubmits, StealingInv, CarrySame
<1>23. ASSUME NEW w \in Indices, Stealing!TaskGetsChild(w) PROVE StealingServed
  BY <1>b, <1>23, StealingEnd DEF Stealing!TaskGetsChild
<1>24. ASSUME NEW w \in Indices, Stealing!TaskDropsChild(w) PROVE StealingServed
  BY <1>b, <1>24, StealingEnd DEF Stealing!TaskDropsChild
<1>25. ASSUME NEW w \in Indices, Stealing!SubmitThrows(w) PROVE StealingServed
  BY <1>b, <1>25, StealingEnd DEF Stealing!SubmitThrows
<1>26. ASSUME NEW w \in Indices, Stealing!SubmitLocalLock(w) PROVE StealingServed
  BY <1>b, <1>26, StealingStutter DEF Stealing!SubmitLocalLock, StealingInv, CarrySame
<1>27. ASSUME NEW w \in Indices, Stealing!LocalPush(w) PROVE StealingServed
  <2> DEFINE x == Child[task[w]]
  <2>1. /\ x \in Tasks /\ future[x] = "none"
        /\ Elements(local_tasks_'[w]) = Elements(local_tasks_[w]) \cup {x}
        /\ \A u \in Indices \ {w} : local_tasks_'[u] = local_tasks_[u]
    BY <1>27, Pushing
  <2>2. /\ future' = [future EXCEPT ![x] = "pending"] /\ stopping_' = stopping_
        /\ pc[w] = "local_locked" /\ pc' = [pc EXCEPT ![w] = "local_count"]
        /\ tasks_' = tasks_ /\ task' = task
    BY <1>27 DEF Stealing!LocalPush
  <2> HIDE DEF x
  <2>3. ~stopping_
    BY <2>2 DEF StealingInv, StealingLocked
  <2>4. \A y : y \in InQueues' <=> y \in InQueues \/ y = x
    BY <2>1, <2>2, InQueuesAre
  <2>5. Stealing!Goto(w, "local_locked", "local_count") /\ w \in Crew
    BY <2>2
  <2> QED
    BY <1>b, <2>1, <2>2, <2>3, <2>4, <2>5, StealingAccept
<1>28. ASSUME NEW w \in Indices, Stealing!LocalCount(w) PROVE StealingServed
  BY <1>b, <1>28, StealingStutter DEF Stealing!LocalCount, StealingInv, CarrySame
<1>29. ASSUME NEW t \in Crew, Stealing!SubmitLock(t) PROVE StealingServed
  BY <1>b, <1>29, StealingStutter DEF Stealing!SubmitLock, StealingInv, CarrySame
<1>30. ASSUME NEW t \in Crew, Stealing!NotifyOne(t) PROVE StealingServed
  BY <1>b, <1>30, StealingStutter DEF Stealing!NotifyOne, StealingInv, CarrySame
<1>31. ASSUME NEW t \in MainTasks, Stealing!MainSubmits(t) PROVE StealingServed
  BY <1>b, <1>31, StealingStutter DEF Stealing!MainSubmits, StealingInv, CarrySame
<1>32. CASE Stealing!SubmitGlobal
  <2> DEFINE x == task[Main]
  <2>1. x \in Tasks /\ future[x] = "none"
    BY <1>32, Family DEF Stealing!SubmitGlobal, StealingInv, StealingOnce, SubmittedOnce
  <2>2. Elements(tasks_') = Elements(tasks_) \cup {x}
    BY <1>32, <2>1, AppendElement DEF Stealing!SubmitGlobal, StealingInv
  <2>3. /\ future' = [future EXCEPT ![x] = "pending"] /\ stopping_' = stopping_ /\ ~stopping_
        /\ Stealing!Goto(Main, "submit_locked", "notify")
        /\ local_tasks_' = local_tasks_ /\ task' = task
    BY <1>32 DEF Stealing!SubmitGlobal
  <2> HIDE DEF x
  <2>4. \A y : y \in InQueues' <=> y \in InQueues \/ y = x
    BY <2>2, <2>3, InQueuesAre
  <2> QED
    BY <1>b, <2>1, <2>3, <2>4, StealingAccept
<1>33. CASE Stealing!MainGetsFuture
  BY <1>b, <1>33, StealingStutter DEF Stealing!MainGetsFuture, StealingInv, CarrySame
<1>34. CASE Stealing!MainDropsFuture
  BY <1>b, <1>34, StealingStutter DEF Stealing!MainDropsFuture, StealingInv, CarrySame
<1>35. CASE Stealing!MainLeavesScope
  BY <1>b, <1>35, StealingStutter DEF Stealing!MainLeavesScope, StealingInv, CarrySame
<1>36. CASE Stealing!DtorLock
  BY <1>b, <1>36, StealingStutter DEF Stealing!DtorLock, StealingInv, CarrySame
<1>37. CASE Stealing!DtorStops
  <2>1. /\ \A w \in Indices : pc'[w] = pc[w]
        /\ pc[Main] = "dtor_locked" /\ pc'[Main] = "notify_all"
        /\ ~stopping_ /\ stopping_' /\ tasks_' = tasks_ /\ local_tasks_' = local_tasks_
        /\ task' = task /\ future' = future
    BY <1>37 DEF Stealing!DtorStops, StealingInv, StealingLocked
  <2>2. InQueues' = InQueues
    BY <2>1, InQueuesAre
  <2>3. Stealing!Running' = Stealing!Running
    <3>1. CarrySame(Indices, pc, pc', BusyAt, task, task')
      BY <2>1 DEF CarrySame
    <3> QED
      BY <3>1, StealingCarry, CarriedSame
  <2>4. /\ Stealing!Finished' = Stealing!Finished
        /\ Stealing!Phase = "open" /\ Stealing!Phase' = "closed"
    BY <2>1 DEF Stealing!Finished, Stealing!Phase
  <2> QED
    BY <2>2, <2>3, <2>4 DEF StealingServed, Served, Closed
<1>38. CASE Stealing!DtorNotifyAll
  BY <1>b, <1>38, StealingStutter DEF Stealing!DtorNotifyAll, StealingInv, CarrySame
<1>39. CASE Stealing!DtorJoined
  <2>1. /\ \A w \in Indices : pc'[w] = pc[w] /\ pc[w] = "exited"
        /\ pc[Main] # "destroyed" /\ pc'[Main] = "destroyed"
        /\ stopping_' = stopping_ /\ tasks_' = tasks_ /\ local_tasks_' = local_tasks_
        /\ task' = task /\ future' = future
    BY <1>39 DEF Stealing!DtorJoined, StealingInv
  <2>2. PICK w : w \in Indices
    OBVIOUS
  <2>3. stopping_ /\ InQueues = {}
    BY <2>1, <2>2 DEF StealingInv, Drained
  <2>4. InQueues' = InQueues
    BY <2>1, InQueuesAre
  <2>5. Stealing!Running' = Stealing!Running
    <3>1. CarrySame(Indices, pc, pc', BusyAt, task, task')
      BY <2>1 DEF CarrySame
    <3> QED
      BY <3>1, StealingCarry, CarriedSame
  <2>6. Stealing!Running = {}
    BY <1>b, <2>1, StealingCarry DEF Carried
  <2>7. /\ Stealing!Finished' = Stealing!Finished
        /\ Stealing!Phase = "closed" /\ Stealing!Phase' = "gone"
    BY <2>1, <2>3 DEF Stealing!Finished, Stealing!Phase
  <2> QED
    BY <2>3, <2>4, <2>5, <2>6, <2>7 DEF StealingServed, Served, Closed
<1>40. CASE UNCHANGED Stealing!vars
  BY <1>40, StealingStutter DEF Stealing!vars, CarrySame
<1> QED
  BY <1>1, <1>2, <1>3, <1>4, <1>5, <1>6, <1>7, <1>8, <1>9, <1>10, <1>11, <1>12,
     <1>13, <1>14, <1>15, <1>16, <1>17, <1>18, <1>19, <1>20, <1>21, <1>22, <1>23,
     <1>24, <1>25, <1>26, <1>27, <1>28, <1>29, <1>30, <1>31, <1>32, <1>33, <1>34,
     <1>35, <1>36, <1>37, <1>38, <1>39, <1>40,
     StealingPeople
  DEF Stealing!Next, Stealing!worker, Stealing!main, Stealing!submit,
      Stealing!try_steal, Stealing!MainReturned


-----------------------------------------------------------------------------
(* The fire-and-forget pool: the tasks are numbered by their puts, and     *)
(* each is in the queue, run by one worker, or done.                       *)
ForgetOnce ==
  /\ task \in [Forget!threads_ -> Nat]
  /\ Distinct(tasks_)
  /\ Forget!PutCount \in 0..Total
  /\ \A i \in Elements(tasks_) : i \in 1..Forget!PutCount
  /\ \A w \in Forget!threads_ : pc[w] = "run" =>
       /\ task[w] \in 1..Forget!PutCount /\ task[w] \notin Elements(tasks_)
       /\ \A v \in Forget!threads_ : pc[v] = "run" /\ task[v] = task[w] => v = w

ForgetDrained ==
  /\ \A w \in Forget!threads_ : pc[w] = "returned" => stopping_ /\ tasks_ = << >>
  /\ ForgetMain = "joined" => \A w \in Forget!threads_ : pc[w] = "returned"

ForgetOrder == ForgetOnce /\ ForgetDrained
ForgetDone == InForget => ForgetOrder

ForgetServed ==
  Served(Forget!Queued, Forget!Running, Forget!Finished, Forget!Phase,
         Forget!Queued', Forget!Running', Forget!Finished', Forget!Phase')

LEMMA ForgetCarry ==
  /\ Forget!Running = Carried(Forget!threads_, pc, {"run"}, task)
  /\ Forget!Running' = Carried(Forget!threads_, pc', {"run"}, task')
  /\ Forget!Queued = Elements(tasks_) /\ Forget!Queued' = Elements(tasks_')
  /\ Forget!PutCount = completed + Cardinality(Forget!Running) + Len(tasks_)
  /\ Forget!PutCount' = completed' + Cardinality(Forget!Running') + Len(tasks_')
  /\ \A i : i \in Forget!Finished <=>
       /\ i \in 1..Forget!PutCount
       /\ i \notin Forget!Queued /\ i \notin Forget!Running
  /\ \A i : i \in Forget!Finished' <=>
       /\ i \in 1..(Forget!PutCount')
       /\ i \notin Forget!Queued' /\ i \notin Forget!Running'
<1>1. \A f, x : {x[w] : w \in {v \in Forget!threads_ : f[v] = "run"}}
                  = Carried(Forget!threads_, f, {"run"}, x)
  BY DEF Carried
<1>2. /\ Forget!Running = Carried(Forget!threads_, pc, {"run"}, task)
      /\ Forget!Running' = Carried(Forget!threads_, pc', {"run"}, task')
  BY <1>1 DEF Forget!Running
<1>3. /\ Forget!PutCount = completed + Cardinality(Forget!Running) + Len(tasks_)
      /\ Forget!PutCount' = completed' + Cardinality(Forget!Running') + Len(tasks_')
  BY DEF Forget!PutCount, Forget!Cardinality, Cardinality
<1> QED
  BY <1>2, <1>3 DEF Forget!Queued, Elements, Forget!Finished

LEMMA ForgetRunningFinite ==
  /\ IsFiniteSet(Forget!Running) /\ Cardinality(Forget!Running) \in Nat
<1> DEFINE V == {v \in Forget!threads_ : pc[v] = "run"}
           f == [v \in V |-> task[v]]
<1>1. f \in Surjection(V, Forget!Running)
  BY DEF Surjection, Forget!Running
<1>2. IsFiniteSet(V)
  BY ForgetPeople, FS_Subset
<1> QED
  BY <1>1, <1>2, FS_Surjection, FS_CardinalityType

(* A step that starts, ends, accepts and stops nothing.                    *)
LEMMA ForgetStutter ==
  ASSUME ForgetInv, ForgetOrder, tasks_' = tasks_, task' = task, stopping_' = stopping_,
         completed' = completed,
         \A w \in Forget!threads_ : pc'[w] = pc[w],
         ForgetMain' = "joined" <=> ForgetMain = "joined"
  PROVE  ForgetOrder' /\ ForgetServed
<1>1. CarrySame(Forget!threads_, pc, pc', {"run"}, task, task')
  BY DEF CarrySame
<1>2. Forget!Running' = Forget!Running /\ Forget!Queued' = Forget!Queued
  BY <1>1, ForgetCarry, CarriedSame
<1>3. Forget!PutCount' = Forget!PutCount
  BY <1>2, ForgetCarry
<1>4. Forget!Finished' = Forget!Finished
  <2>1. \A i : i \in Forget!Finished' <=> i \in Forget!Finished
    BY <1>2, <1>3, ForgetCarry
  <2> QED
    BY <2>1
<1>5. Forget!Phase' = Forget!Phase
  BY DEF Forget!Phase, Forget!joined_all, ForgetMain
<1>6. ForgetOnce'
  BY <1>3 DEF ForgetOrder, ForgetOnce
<1>7. ForgetDrained'
  BY DEF ForgetOrder, ForgetDrained
<1> QED
  BY <1>2, <1>4, <1>5, <1>6, <1>7 DEF ForgetOrder, ForgetServed, Served

LEMMA ForgetServe ==
  ASSUME ForgetInv, ForgetOrder,
         Forget!Spurious \/ \E t \in Forget!PoolThreads : Forget!Step(t)
  PROVE  ForgetOrder' /\ ForgetServed
<1> USE ForgetPeople
    DEF ForgetMain, Forget!Move, Forget!Goto, Forget!poolVars
<1>0. /\ Len(tasks_) \in Nat /\ completed \in Nat /\ Total \in Nat
      /\ Forget!PutCount \in 0..Total /\ tasks_ \in Seq(Nat)
      /\ DOMAIN pc = Forget!PoolThreads /\ Elements(tasks_) \subseteq Nat
      /\ task \in [Forget!threads_ -> Nat]
  BY PoolsAssumption, ElementsIn DEF ForgetInv, ForgetOrder, ForgetOnce
<1>1. ASSUME NEW w \in Forget!threads_, Forget!Wait(w) PROVE ForgetOrder' /\ ForgetServed
  BY <1>1, ForgetStutter DEF Forget!Wait, Forget!Sleep
<1>2. ASSUME NEW w \in Forget!threads_, Forget!Return(w) PROVE ForgetOrder' /\ ForgetServed
  <2>1. /\ pc[w] = "wait" /\ pc' = [pc EXCEPT ![w] = "returned"]
        /\ stopping_ /\ stopping_' = stopping_ /\ tasks_ = << >> /\ tasks_' = tasks_
        /\ task' = task /\ completed' = completed
    BY <1>2 DEF Forget!Return, Forget!At
  <2>2. /\ \A v \in Forget!threads_ \ {w} : pc'[v] = pc[v]
        /\ pc'[w] = "returned" /\ ForgetMain' = ForgetMain
    BY <1>0, <2>1
  <2>3. CarrySame(Forget!threads_, pc, pc', {"run"}, task, task')
    BY <2>1, <2>2 DEF CarrySame
  <2>4. Forget!Running' = Forget!Running /\ Forget!Queued' = Forget!Queued
    BY <2>1, <2>3, ForgetCarry, CarriedSame
  <2>5. Forget!PutCount' = Forget!PutCount
    BY <2>1, <2>4, ForgetCarry
  <2>6. Forget!Finished' = Forget!Finished
    <3>1. \A i : i \in Forget!Finished' <=> i \in Forget!Finished
      BY <2>4, <2>5, ForgetCarry
    <3> QED
      BY <3>1
  <2>7. Forget!Phase' = Forget!Phase
    BY <2>1, <2>2 DEF Forget!Phase, Forget!joined_all
  <2>8. ForgetOnce'
    <3>1. \A v \in Forget!threads_ : pc'[v] = "run" => pc[v] = "run"
      BY <2>1, <2>2
    <3> QED
      BY <2>1, <2>5, <3>1 DEF ForgetOrder, ForgetOnce
  <2>9. ForgetDrained'
    BY <2>1, <2>2 DEF ForgetOrder, ForgetDrained
  <2> QED
    BY <2>4, <2>6, <2>7, <2>8, <2>9 DEF ForgetOrder, ForgetServed, Served
<1>3. ASSUME NEW w \in Forget!threads_, Forget!Pick(w) PROVE ForgetOrder' /\ ForgetServed
  <2> DEFINE x == Head(tasks_)
  <2>1. /\ x \in Elements(tasks_) /\ tasks_ # << >> /\ x \in Nat
        /\ Elements(tasks_') = Elements(tasks_) \ {x} /\ Distinct(tasks_')
        /\ Len(tasks_') = Len(tasks_) - 1
    BY <1>0, <1>3, TailElements DEF Forget!Pick, ForgetOrder, ForgetOnce
  <2>2. /\ pc[w] = "wait" /\ pc' = [pc EXCEPT ![w] = "run"]
        /\ task' = [task EXCEPT ![w] = x]
        /\ stopping_' = stopping_ /\ completed' = completed
    BY <1>3 DEF Forget!Pick, Forget!At
  <2> HIDE DEF x
  <2>3. /\ \A v \in Forget!threads_ \ {w} : pc'[v] = pc[v] /\ task'[v] = task[v]
        /\ pc'[w] = "run" /\ task'[w] = x /\ ForgetMain' = ForgetMain
        /\ task' \in [Forget!threads_ -> Nat]
    BY <1>0, <2>1, <2>2
  <2>4. Forget!Running' = Forget!Running \cup {x}
    <3>1. /\ CarrySameBut(w, Forget!threads_, pc, pc', {"run"}, task, task')
          /\ pc[w] \notin {"run"} /\ pc'[w] \in {"run"}
      BY <2>2, <2>3 DEF CarrySameBut
    <3>2. Carried(Forget!threads_, pc', {"run"}, task')
            = Carried(Forget!threads_, pc, {"run"}, task) \cup {task'[w]}
      BY ONLY <3>1, CarriedOneMore, w \in Forget!threads_
    <3> QED
      BY <2>3, <3>2, ForgetCarry
  <2>5. x \notin Forget!Running
    BY <2>1, ForgetCarry DEF Carried, ForgetOrder, ForgetOnce
  <2>6. Forget!PutCount' = Forget!PutCount
    <3>1. Cardinality(Forget!Running') = Cardinality(Forget!Running) + 1
      BY <2>4, <2>5, ForgetRunningFinite, FS_AddElement
    <3> QED
      BY <1>0, <2>1, <2>2, <3>1, ForgetCarry, ForgetRunningFinite
  <2>7. Forget!Finished' = Forget!Finished
    <3>1. \A i : i \in Forget!Finished' <=> i \in Forget!Finished
      BY <2>1, <2>4, <2>6, ForgetCarry
    <3> QED
      BY <3>1
  <2>8. ForgetMain # "joined"
    BY <2>2 DEF ForgetOrder, ForgetDrained
  <2>9. Forget!Phase' = Forget!Phase /\ Forget!Phase # "gone"
    BY <2>2, <2>3, <2>8 DEF Forget!Phase, Forget!joined_all
  <2>10. ForgetOnce'
    BY <2>1, <2>3, <2>6 DEF ForgetOrder, ForgetOnce
  <2>11. ForgetDrained'
    BY <2>1, <2>2, <2>3 DEF ForgetOrder, ForgetDrained
  <2>12. Started(x, Forget!Queued, Forget!Running, Forget!Finished, Forget!Phase,
                 Forget!Queued', Forget!Running', Forget!Finished', Forget!Phase')
    BY <2>1, <2>4, <2>7, <2>9, ForgetCarry DEF Started
  <2>13. x \in Everything
    BY <1>0, <2>1 DEF Everything, ForgetOrder, ForgetOnce
  <2> QED
    BY <2>10, <2>11, <2>12, <2>13 DEF ForgetOrder, ForgetServed, Served
<1>4. ASSUME NEW w \in Forget!threads_, Forget!Run(w) PROVE ForgetOrder' /\ ForgetServed
  <2> DEFINE x == task[w]
  <2>1. /\ pc[w] = "run" /\ pc' = [pc EXCEPT ![w] = "wait"]
        /\ task' = [task EXCEPT ![w] = 0] /\ completed' = completed + 1
        /\ stopping_' = stopping_ /\ tasks_' = tasks_
    BY <1>4 DEF Forget!Run, Forget!At
  <2>2. /\ x \in 1..Forget!PutCount /\ x \notin Elements(tasks_)
        /\ \A v \in Forget!threads_ : pc[v] = "run" /\ task[v] = x => v = w
    BY <2>1 DEF ForgetOrder, ForgetOnce
  <2>3. /\ \A v \in Forget!threads_ \ {w} : pc'[v] = pc[v] /\ task'[v] = task[v]
        /\ pc'[w] = "wait" /\ ForgetMain' = ForgetMain
        /\ task' \in [Forget!threads_ -> Nat]
    BY <1>0, <2>1
  <2>4. Forget!Running' = Forget!Running \ {x} /\ x \in Forget!Running
    <3>1. /\ CarrySameBut(w, Forget!threads_, pc, pc', {"run"}, task, task')
          /\ pc[w] \in {"run"} /\ pc'[w] \notin {"run"}
          /\ \A v \in Forget!threads_ : pc[v] \in {"run"} /\ task[v] = task[w] => v = w
      BY <2>1, <2>2, <2>3 DEF CarrySameBut
    <3>2. /\ Carried(Forget!threads_, pc', {"run"}, task')
               = Carried(Forget!threads_, pc, {"run"}, task) \ {task[w]}
          /\ task[w] \in Carried(Forget!threads_, pc, {"run"}, task)
      BY ONLY <3>1, CarriedOneLess, w \in Forget!threads_
    <3> QED
      BY <3>2, ForgetCarry
  <2> HIDE DEF x
  <2>5. Forget!PutCount' = Forget!PutCount
    <3>1. Cardinality(Forget!Running') = Cardinality(Forget!Running) - 1
      BY <2>4, ForgetRunningFinite, FS_RemoveElement
    <3> QED
      BY <1>0, <2>1, <3>1, ForgetCarry, ForgetRunningFinite
  <2>6. Forget!Finished' = Forget!Finished \cup {x}
    <3>1. \A i : i \in Forget!Finished' <=> i \in Forget!Finished \cup {x}
      BY <2>1, <2>2, <2>4, <2>5, ForgetCarry
    <3> QED
      BY <3>1
  <2>7. ForgetMain # "joined"
    BY <2>1 DEF ForgetOrder, ForgetDrained
  <2>8. Forget!Phase' = Forget!Phase /\ Forget!Phase # "gone"
    BY <2>1, <2>3, <2>7 DEF Forget!Phase, Forget!joined_all
  <2>9. ForgetOnce'
    BY <2>1, <2>3, <2>5 DEF ForgetOrder, ForgetOnce
  <2>10. ForgetDrained'
    BY <2>1, <2>3 DEF ForgetOrder, ForgetDrained
  <2>11. Ended(x, Forget!Queued, Forget!Running, Forget!Finished, Forget!Phase,
               Forget!Queued', Forget!Running', Forget!Finished', Forget!Phase')
    BY <2>1, <2>4, <2>6, <2>8, ForgetCarry DEF Ended
  <2>12. x \in Everything
    BY <1>0, <2>2 DEF Everything
  <2> QED
    BY <2>9, <2>10, <2>11, <2>12 DEF ForgetOrder, ForgetServed, Served
<1>5. CASE Forget!put
  <2> DEFINE x == Forget!PutCount + 1
  <2>1. /\ x \in 1..Total /\ x \in Nat /\ x \notin Elements(tasks_)
        /\ \A w \in Forget!threads_ : pc[w] = "run" => task[w] # x
    BY <1>0, <1>5 DEF Forget!put, ForgetOrder, ForgetOnce
  <2>2. /\ ForgetMain = "put" /\ pc' = [pc EXCEPT ![Forget!main_thread] = "notify"]
        /\ tasks_' = Append(tasks_, x) /\ ~stopping_
        /\ stopping_' = stopping_ /\ task' = task /\ completed' = completed
    BY <1>5 DEF Forget!put, Forget!At
  <2>3. /\ Elements(tasks_') = Elements(tasks_) \cup {x} /\ Distinct(tasks_')
        /\ Len(tasks_') = Len(tasks_) + 1
    BY <1>0, <2>1, <2>2, AppendElement DEF ForgetOrder, ForgetOnce
  <2>4. /\ \A v \in Forget!threads_ : pc'[v] = pc[v] /\ task'[v] = task[v]
        /\ ForgetMain' = "notify"
    BY <1>0, <2>2
  <2>5. Forget!Running' = Forget!Running
    <3>1. CarrySame(Forget!threads_, pc, pc', {"run"}, task, task')
      BY <2>4 DEF CarrySame
    <3> QED
      BY <3>1, ForgetCarry, CarriedSame
  <2>6. Forget!PutCount' = x
    <3>1. /\ Forget!PutCount' = completed' + Cardinality(Forget!Running') + Len(tasks_')
          /\ Forget!PutCount = completed + Cardinality(Forget!Running) + Len(tasks_)
      BY ForgetCarry
    <3>2. completed' = completed /\ Len(tasks_') = Len(tasks_) + 1
      BY <2>2, <2>3
    <3> QED
      BY <1>0, <2>5, <3>1, <3>2, ForgetRunningFinite
  <2>7. x \notin Forget!Running /\ x \notin Forget!Finished
    <3>1. x \notin 1..Forget!PutCount
      BY <1>0
    <3>2. x \notin Forget!Finished
      BY <3>1, ForgetCarry
    <3>3. x \notin Forget!Running
      <4>1. ASSUME NEW w \in Forget!threads_, pc[w] = "run", task[w] = x PROVE FALSE
        BY <2>1, <4>1
      <4> HIDE DEF x
      <4> QED
        BY <4>1, ForgetCarry DEF Carried
    <3> QED
      BY <3>2, <3>3
  <2>8. Forget!Finished' = Forget!Finished
    <3>1. \A i : i \in 1..x <=> i \in 1..Forget!PutCount \/ i = x
      BY <1>0
    <3>2. \A i : i \in Forget!Finished' <=> i \in Forget!Finished
      BY <2>3, <2>5, <2>6, <2>7, <3>1, ForgetCarry
    <3> QED
      BY <3>2
  <2> HIDE DEF x
  <2>9. Forget!Phase = "open" /\ Forget!Phase' = "open"
    BY <2>2, <2>4 DEF Forget!Phase, Forget!joined_all
  <2>10. ForgetOnce'
    <3>1. \A i \in 1..Forget!PutCount : i \in 1..x
      BY <1>0 DEF x
    <3>2. x \in 0..Total /\ x \in 1..x
      BY <2>1
    <3> QED
      BY <1>0, <2>1, <2>2, <2>3, <2>4, <2>6, <3>1, <3>2 DEF ForgetOrder, ForgetOnce
  <2>11. ForgetDrained'
    BY <2>2, <2>4 DEF ForgetOrder, ForgetDrained
  <2>12. Accepted(x, Forget!Queued, Forget!Running, Forget!Finished, Forget!Phase,
                  Forget!Queued', Forget!Running', Forget!Finished', Forget!Phase')
    BY <2>1, <2>3, <2>5, <2>7, <2>8, <2>9, ForgetCarry DEF Accepted
  <2>13. x \in Everything
    BY <2>1 DEF Everything
  <2> QED
    BY <2>10, <2>11, <2>12, <2>13 DEF ForgetOrder, ForgetServed, Served
<1>6. CASE Forget!Notify
  <2>1. /\ ForgetMain = "notify" /\ pc' = [pc EXCEPT ![Forget!main_thread] = "put"]
        /\ UNCHANGED <<tasks_, stopping_, task, completed>>
    BY <1>6 DEF Forget!Notify, Forget!notify_one, Forget!At
  <2> QED
    BY <1>0, <2>1, ForgetStutter
<1>7. CASE Forget!Stop
  <2>1. /\ ForgetMain = "put" /\ pc' = [pc EXCEPT ![Forget!main_thread] = "notify_all"]
        /\ stopping_' = TRUE /\ UNCHANGED <<tasks_, task, completed>>
    BY <1>7 DEF Forget!Stop, Forget!At
  <2>2. ~stopping_
    BY <2>1 DEF ForgetInv
  <2>3. (\A v \in Forget!threads_ : pc'[v] = pc[v]) /\ ForgetMain' = "notify_all"
    BY <1>0, <2>1
  <2>4. Forget!Running' = Forget!Running /\ Forget!Queued' = Forget!Queued
    <3>1. CarrySame(Forget!threads_, pc, pc', {"run"}, task, task')
      BY <2>1, <2>3 DEF CarrySame
    <3> QED
      BY <2>1, <3>1, ForgetCarry, CarriedSame
  <2>5. Forget!PutCount' = Forget!PutCount
    BY <2>1, <2>4, ForgetCarry
  <2>6. Forget!Finished' = Forget!Finished
    <3>1. \A i : i \in Forget!Finished' <=> i \in Forget!Finished
      BY <2>4, <2>5, ForgetCarry
    <3> QED
      BY <3>1
  <2>7. Forget!Phase = "open" /\ Forget!Phase' = "closed"
    BY <2>1, <2>2, <2>3 DEF Forget!Phase, Forget!joined_all
  <2>8. ForgetOnce'
    BY <2>1, <2>3, <2>5 DEF ForgetOrder, ForgetOnce
  <2>9. ForgetDrained'
    BY <2>1, <2>3 DEF ForgetOrder, ForgetDrained
  <2> QED
    BY <2>4, <2>6, <2>7, <2>8, <2>9 DEF ForgetOrder, ForgetServed, Served, Closed
<1>8. CASE Forget!NotifyAll
  <2>1. /\ ForgetMain = "notify_all" /\ pc' = [pc EXCEPT ![Forget!main_thread] = "join"]
        /\ UNCHANGED <<tasks_, stopping_, task, completed>>
    BY <1>8 DEF Forget!NotifyAll, Forget!notify_all, Forget!At
  <2> QED
    BY <1>0, <2>1, ForgetStutter
<1>9. CASE Forget!Join
  <2>1. /\ ForgetMain = "join" /\ pc' = [pc EXCEPT ![Forget!main_thread] = "joined"]
        /\ \A v \in Forget!threads_ : pc[v] = "returned"
        /\ UNCHANGED <<tasks_, stopping_, task, completed>>
    BY <1>9 DEF Forget!Join, Forget!At
  <2>2. (\A v \in Forget!threads_ : pc'[v] = pc[v]) /\ ForgetMain' = "joined"
    BY <1>0, <2>1
  <2>3. stopping_ /\ tasks_ = << >>
    <3>1. <<"worker", 1>> \in Forget!threads_
      <4>1. 1 \in 1..ForgetWorkers
        BY PoolsAssumption
      <4> QED
        BY <4>1 DEF Forget!threads_
    <3> QED
      BY <2>1, <3>1 DEF ForgetOrder, ForgetDrained
  <2>4. Forget!Running' = Forget!Running /\ Forget!Queued' = Forget!Queued
    <3>1. CarrySame(Forget!threads_, pc, pc', {"run"}, task, task')
      BY <2>1, <2>2 DEF CarrySame
    <3> QED
      BY <2>1, <3>1, ForgetCarry, CarriedSame
  <2>5. Forget!PutCount' = Forget!PutCount
    BY <2>1, <2>4, ForgetCarry
  <2>6. Forget!Finished' = Forget!Finished
    <3>1. \A i : i \in Forget!Finished' <=> i \in Forget!Finished
      BY <2>4, <2>5, ForgetCarry
    <3> QED
      BY <3>1
  <2>7. Forget!Phase = "closed" /\ Forget!Phase' = "gone"
    BY <2>1, <2>2, <2>3 DEF Forget!Phase, Forget!joined_all
  <2>8. Forget!Queued = {} /\ Forget!Running = {}
    BY <2>1, <2>3, ForgetCarry DEF Elements, Carried
  <2>9. ForgetOnce'
    BY <2>1, <2>2, <2>5 DEF ForgetOrder, ForgetOnce
  <2>10. ForgetDrained'
    BY <2>1, <2>2, <2>3 DEF ForgetDrained
  <2> QED
    BY <2>4, <2>6, <2>7, <2>8, <2>9, <2>10 DEF ForgetOrder, ForgetServed, Served, Closed
<1>10. ASSUME NEW w \in Forget!threads_, Forget!WakesSpuriously(w, ForgetCV),
              UNCHANGED Forget!poolVars
       PROVE  ForgetOrder' /\ ForgetServed
  BY <1>10, ForgetStutter DEF Forget!WakesSpuriously
<1> QED
  BY <1>1, <1>2, <1>3, <1>4, <1>5, <1>6, <1>7, <1>8, <1>9, <1>10
  DEF Forget!Step, Forget!main, Forget!worker, Forget!Spurious, ForgetCV


-----------------------------------------------------------------------------
(* All pools together                                                      *)

ServiceQueued ==
  CASE InFutures -> Queued [] InBounded -> Bounded!Queued
    [] InStealing -> Stealing!Queued [] InForget -> Forget!Queued [] InCancel -> {}
ServiceRunning ==
  CASE InFutures -> Running [] InBounded -> Bounded!Running
    [] InStealing -> Stealing!Running [] InForget -> Forget!Running [] InCancel -> {}
ServiceFinished ==
  CASE InFutures -> Finished [] InBounded -> Bounded!Finished
    [] InStealing -> Stealing!Finished [] InForget -> Forget!Finished [] InCancel -> {}
ServicePhase ==
  CASE InFutures -> Phase [] InBounded -> Bounded!Phase
    [] InStealing -> Stealing!Phase [] InForget -> Forget!Phase [] InCancel -> "open"

PoolServed ==
  Served(ServiceQueued, ServiceRunning, ServiceFinished, ServicePhase,
         ServiceQueued', ServiceRunning', ServiceFinished', ServicePhase')

LEMMA ServedIsStep == PoolServed => [Service!ServiceNext]_Service!serviceVars
<1> SUFFICES ASSUME PoolServed PROVE [Service!ServiceNext]_Service!serviceVars
  OBVIOUS
<1>1. /\ Service!serviceVars
           = <<ServiceQueued, ServiceRunning, ServiceFinished, ServicePhase>>
      /\ Service!serviceVars'
           = <<ServiceQueued', ServiceRunning', ServiceFinished', ServicePhase'>>
  BY DEF Service!serviceVars, ServiceQueued, ServiceRunning, ServiceFinished, ServicePhase
<1>2. ASSUME NEW t \in Everything
      PROVE  /\ Accepted(t, ServiceQueued, ServiceRunning, ServiceFinished, ServicePhase,
                         ServiceQueued', ServiceRunning', ServiceFinished', ServicePhase')
                  => Service!Accept(t)
             /\ Started(t, ServiceQueued, ServiceRunning, ServiceFinished, ServicePhase,
                        ServiceQueued', ServiceRunning', ServiceFinished', ServicePhase')
                  => Service!Start(t)
             /\ Ended(t, ServiceQueued, ServiceRunning, ServiceFinished, ServicePhase,
                      ServiceQueued', ServiceRunning', ServiceFinished', ServicePhase')
                  => Service!Finish(t)
  BY DEF Accepted, Started, Ended, Service!Accept, Service!Start, Service!Finish,
     ServiceQueued, ServiceRunning, ServiceFinished, ServicePhase
<1>3. Closed(ServiceQueued, ServiceRunning, ServiceFinished, ServicePhase,
             ServiceQueued', ServiceRunning', ServiceFinished', ServicePhase')
        => Service!Close \/ Service!Vanish
  BY DEF Closed, Service!Close, Service!Vanish,
     ServiceQueued, ServiceRunning, ServiceFinished, ServicePhase
<1> QED
  BY <1>1, <1>2, <1>3 DEF PoolServed, Served, Service!ServiceNext, Everything

LEMMA ServiceIsOf ==
  /\ InFutures => /\ ServiceQueued = Queued /\ ServiceRunning = Running
                  /\ ServiceFinished = Finished /\ ServicePhase = Phase
  /\ InBounded => /\ ServiceQueued = Bounded!Queued
                  /\ ServiceRunning = Bounded!Running
                  /\ ServiceFinished = Bounded!Finished /\ ServicePhase = Bounded!Phase
  /\ InStealing => /\ ServiceQueued = InQueues /\ ServiceRunning = Stealing!Running
                   /\ ServiceFinished = Stealing!Finished
                   /\ ServicePhase = Stealing!Phase
  /\ InForget => /\ ServiceQueued = Forget!Queued /\ ServiceRunning = Forget!Running
                 /\ ServiceFinished = Forget!Finished /\ ServicePhase = Forget!Phase
  /\ InCancel => /\ ServiceQueued = {} /\ ServiceRunning = {}
                 /\ ServiceFinished = {} /\ ServicePhase = "open"
  BY DEF ServiceQueued, ServiceRunning, ServiceFinished, ServicePhase, InQueues,
     InFutures, InBounded, InStealing, InForget, InCancel

LEMMA NextServiceIsOf ==
  /\ InFutures' => /\ ServiceQueued' = Queued' /\ ServiceRunning' = Running'
                   /\ ServiceFinished' = Finished' /\ ServicePhase' = Phase'
  /\ InBounded' => /\ ServiceQueued' = Bounded!Queued'
                   /\ ServiceRunning' = Bounded!Running'
                   /\ ServiceFinished' = Bounded!Finished'
                   /\ ServicePhase' = Bounded!Phase'
  /\ InStealing' => /\ ServiceQueued' = InQueues'
                    /\ ServiceRunning' = Stealing!Running'
                    /\ ServiceFinished' = Stealing!Finished'
                    /\ ServicePhase' = Stealing!Phase'
  /\ InForget' => /\ ServiceQueued' = Forget!Queued'
                  /\ ServiceRunning' = Forget!Running'
                  /\ ServiceFinished' = Forget!Finished'
                  /\ ServicePhase' = Forget!Phase'
  /\ InCancel' => /\ ServiceQueued' = {} /\ ServiceRunning' = {}
                  /\ ServiceFinished' = {} /\ ServicePhase' = "open"
  BY DEF ServiceQueued, ServiceRunning, ServiceFinished, ServicePhase, InQueues,
     InFutures, InBounded, InStealing, InForget, InCancel

(* One of the five pools is run, and what is known of each.                *)
SomeProgram == InFutures \/ InBounded \/ InStealing \/ InForget \/ InCancel

PoolsOrdered ==
  /\ SomeProgram
  /\ FuturesKept /\ BoundedKept /\ StealingKept /\ ForgetKept
  /\ FuturesDone /\ BoundedDone /\ ForgetDone

LEMMA PoolsServe ==
  PoolsOrdered /\ [MCNext]_allVars =>
    /\ SomeProgram' /\ FuturesDone' /\ BoundedDone' /\ ForgetDone'
    /\ PoolServed
<1> SUFFICES ASSUME PoolsOrdered, [MCNext]_allVars
             PROVE  /\ SomeProgram' /\ FuturesDone' /\ BoundedDone' /\ ForgetDone'
                    /\ PoolServed
  OBVIOUS
<1>1. /\ InFutures' <=> InFutures
      /\ InBounded' <=> InBounded
      /\ InStealing' <=> InStealing
      /\ InForget' <=> InForget
      /\ InCancel' <=> InCancel
  BY OneProgram DEF InFutures, InBounded, InStealing, InForget, InCancel
<1>2. SomeProgram /\ SomeProgram'
  BY <1>1 DEF PoolsOrdered, SomeProgram
<1>3. InFutures => FuturesDrained' /\ FuturesServed
  BY OneProgram, FuturesServe DEF PoolsOrdered, FuturesKept, FuturesDone
<1>4. InBounded => BoundedOrder' /\ BoundedServed
  <2>1. InBounded => Bounded!Next \/ UNCHANGED Bounded!vars
    BY OneProgram DEF allVars, queueVars, lockVars, Bounded!vars
  <2> QED
    BY <2>1, BoundedServe DEF PoolsOrdered, BoundedKept, BoundedDone
<1>5. InStealing => StealingServed
  <2>1. InStealing => Stealing!Next \/ UNCHANGED Stealing!vars
    BY OneProgram DEF allVars, queueVars, lockVars, stealingOnly, Stealing!vars
  <2> QED
    BY <2>1, StealingServe DEF PoolsOrdered, StealingKept
<1>6. InForget => ForgetOrder' /\ ForgetServed
  <2>1. UNCHANGED allVars =>
          /\ pc' = pc /\ ForgetMain' = ForgetMain
          /\ UNCHANGED <<tasks_, task, stopping_, completed>>
    BY DEF allVars, queueVars, ForgetMain
  <2>2. InForget => ForgetInv /\ ForgetOrder
    BY DEF PoolsOrdered, ForgetKept, ForgetDone
  <2>3. InForget /\ UNCHANGED allVars => ForgetOrder' /\ ForgetServed
    BY <2>1, <2>2, ForgetStutter
  <2> QED
    BY <2>2, <2>3, OneProgram, ForgetServe
<1>7. InCancel => PoolServed
  BY <1>1, ServiceIsOf, NextServiceIsOf DEF PoolServed, Served
<1>8. PoolServed
  <2>1. InFutures => PoolServed
    BY <1>1, <1>3, ServiceIsOf, NextServiceIsOf DEF PoolServed, FuturesServed
  <2>2. InBounded => PoolServed
    BY <1>1, <1>4, ServiceIsOf, NextServiceIsOf DEF PoolServed, BoundedServed
  <2>3. InStealing => PoolServed
    BY <1>1, <1>5, ServiceIsOf, NextServiceIsOf DEF PoolServed, StealingServed
  <2>4. InForget => PoolServed
    BY <1>1, <1>6, ServiceIsOf, NextServiceIsOf DEF PoolServed, ForgetServed
  <2> QED
    BY <1>2, <1>7, <2>1, <2>2, <2>3, <2>4 DEF SomeProgram
<1> QED
  BY <1>1, <1>2, <1>3, <1>4, <1>6, <1>8 DEF FuturesDone, BoundedDone, ForgetDone

LEMMA PoolsStart ==
  MCInit => PoolsOrdered /\ Service!ServiceInit
<1> SUFFICES ASSUME MCInit PROVE PoolsOrdered /\ Service!ServiceInit
  OBVIOUS
<1> USE DEF InFutures, InBounded, InStealing, InForget, InCancel
<1>1. SomeProgram
  BY DEF MCInit, SomeProgram
<1>2. FuturesKept /\ BoundedKept /\ StealingKept /\ ForgetKept
  <2>1. InFutures => Init
    BY DEF MCInit
  <2> QED
    BY <2>1, FuturesStarts, BoundedStarts, StealingStarts, ForgetStarts DEF FuturesKept
<1>3. InFutures => /\ FuturesDrained
                   /\ Queued = {} /\ Running = {} /\ Finished = {} /\ Phase = "open"
  <2> SUFFICES ASSUME InFutures
               PROVE  /\ FuturesDrained
                      /\ Queued = {} /\ Running = {} /\ Finished = {} /\ Phase = "open"
    OBVIOUS
  <2>1. Init
    BY DEF MCInit
  <2>2. /\ tasks_ = << >> /\ ~stopping_ /\ pc[Main] = "main"
        /\ \A w \in Workers : pc[w] = "loop"
        /\ \A t \in Tasks : future[t] = "none"
    BY <2>1, People DEF Init
  <2> QED
    BY <2>2 DEF FuturesDrained, Queued, Running, Active, Finished, Phase
<1>4. InBounded => /\ BoundedOrder
                   /\ Bounded!Queued = {} /\ Bounded!Running = {}
                   /\ Bounded!Finished = {} /\ Bounded!Phase = "open"
  <2> SUFFICES ASSUME InBounded
               PROVE  /\ BoundedOrder
                      /\ Bounded!Queued = {} /\ Bounded!Running = {}
                      /\ Bounded!Finished = {} /\ Bounded!Phase = "open"
    OBVIOUS
  <2>1. Bounded!Init
    BY DEF MCInit
  <2>2. /\ tasks_ = << >> /\ ~stopping_ /\ pc[Main] = "dtor"
        /\ \A w \in BoundedWorkers : pc[w] = "lock"
        /\ \A s \in Submitters : pc[s] = "start"
    BY <2>1, Clients DEF Bounded!Init
  <2>3. Bounded!Queued = {} /\ Bounded!Running = {}
    BY <2>2 DEF Bounded!Queued, Bounded!Running, Bounded!Held
  <2>4. Bounded!Finished = {} /\ Bounded!Phase = "open"
    BY <2>2 DEF Bounded!Finished, Bounded!Phase, Bounded!destroyed
  <2>5. BoundedOrder
    BY <2>2 DEF BoundedOrder, BoundedOnce, BoundedDrained, HeldAt, Distinct, Elements
  <2> QED
    BY <2>3, <2>4, <2>5
<1>5. InStealing => /\ InQueues = {} /\ Stealing!Running = {}
                    /\ Stealing!Finished = {} /\ Stealing!Phase = "open"
  <2> SUFFICES ASSUME InStealing
               PROVE  /\ InQueues = {} /\ Stealing!Running = {}
                      /\ Stealing!Finished = {} /\ Stealing!Phase = "open"
    OBVIOUS
  <2>1. Stealing!Init
    BY DEF MCInit
  <2>2. /\ tasks_ = << >> /\ \A w \in Indices : local_tasks_[w] = << >>
        /\ ~stopping_ /\ pc[Main] = "main"
        /\ \A w \in Indices : pc[w] = "own"
        /\ \A t \in Tasks : future[t] = "none"
    BY <2>1, StealingPeople DEF Stealing!Init
  <2>3. InQueues = {}
    <3>1. \A t : t \notin InQueues
      BY <2>2, InQueuesAre DEF Elements
    <3> QED
      BY <3>1
  <2>4. Stealing!Running = {}
    BY <2>2, StealingPeople DEF Stealing!Running, Stealing!Active
  <2>5. Stealing!Finished = {} /\ Stealing!Phase = "open"
    BY <2>2, StealingPeople DEF Stealing!Finished, Stealing!Phase
  <2> QED
    BY <2>3, <2>4, <2>5
<1>6. InForget => /\ ForgetOrder
                  /\ Forget!Queued = {} /\ Forget!Running = {}
                  /\ Forget!Finished = {} /\ Forget!Phase = "open"
  <2> SUFFICES ASSUME InForget
               PROVE  /\ ForgetOrder
                      /\ Forget!Queued = {} /\ Forget!Running = {}
                      /\ Forget!Finished = {} /\ Forget!Phase = "open"
    OBVIOUS
  <2>1. Forget!Init
    BY DEF MCInit
  <2>2. /\ tasks_ = << >> /\ ~stopping_ /\ ForgetMain = "put" /\ completed = 0
        /\ \A w \in Forget!threads_ : pc[w] = "wait"
        /\ task \in [Forget!threads_ -> Nat]
    BY <2>1, ForgetPeople DEF Forget!Init, ForgetMain
  <2>3. Forget!Queued = {} /\ Forget!Running = {}
    BY <2>2 DEF Forget!Queued, Forget!Running
  <2>4. Forget!PutCount = 0
    <3>1. Forget!PutCount = completed + Cardinality(Forget!Running) + Len(tasks_)
      BY ForgetCarry
    <3>2. completed = 0 /\ tasks_ = << >>
      BY <2>2
    <3>3. Cardinality(Forget!Running) = 0
      BY ONLY <2>3, FS_EmptySet
    <3>4. Len(tasks_) = 0
      BY ONLY <3>2
    <3> QED
      BY ONLY <3>1, <3>2, <3>3, <3>4
  <2>5. Forget!Finished = {} /\ Forget!Phase = "open"
    BY <2>2, <2>4 DEF Forget!Finished, Forget!Phase, Forget!joined_all, ForgetMain
  <2>6. ForgetOrder
    BY <2>2, <2>4, PoolsAssumption
    DEF ForgetOrder, ForgetOnce, ForgetDrained, Distinct, Elements
  <2> QED
    BY <2>3, <2>5, <2>6
<1>7. /\ ServiceQueued = {} /\ ServiceRunning = {}
      /\ ServiceFinished = {} /\ ServicePhase = "open"
  BY <1>1, <1>3, <1>4, <1>5, <1>6, ServiceIsOf DEF SomeProgram
<1>8. Service!ServiceInit
  BY <1>7 DEF Service!ServiceInit, ServiceQueued, ServiceRunning, ServiceFinished,
     ServicePhase
<1> QED
  BY <1>1, <1>2, <1>3, <1>4, <1>6, <1>8
  DEF PoolsOrdered, FuturesDone, BoundedDone, ForgetDone

(* Every pool that queues tasks implements the service of PoolService, for *)
(* any number of workers, submitters and tasks and any capacity: what was  *)
(* accepted is run exactly once, through whichever queues it passes,       *)
(* nothing is accepted after the stop, and the destructor returns only     *)
(* when all have run (7_thread_pool).                                      *)
THEOREM PoolsRefined == MCSpec => RefinesService
<1>1. MCSpec => []PoolsOrdered
  <2> DEFINE Kept == FuturesKept /\ BoundedKept /\ StealingKept /\ ForgetKept
             Done == SomeProgram /\ FuturesDone /\ BoundedDone /\ ForgetDone
  <2>1. MCInit => Done
    BY PoolsStart DEF PoolsOrdered
  <2>2. Kept /\ Done /\ [MCNext]_allVars => Done'
    BY PoolsServe DEF PoolsOrdered
  <2>3. Kept /\ Done => PoolsOrdered
    BY DEF PoolsOrdered
  <2>4. MCSpec => []Kept
    BY FuturesInvHolds, BoundedInvHolds, StealingInvHolds, ForgetInvHolds, PTL
  <2> HIDE DEF Kept, Done
  <2> QED
    BY <2>1, <2>2, <2>3, <2>4, PTL DEF MCSpec
<1>2. PoolsOrdered /\ [MCNext]_allVars => [Service!ServiceNext]_Service!serviceVars
  BY PoolsServe, ServedIsStep
<1>3. MCInit => Service!ServiceInit
  BY PoolsStart
<1> QED
  BY <1>1, <1>2, <1>3, PTL DEF MCSpec, RefinesService, Service!ServiceSpec

-----------------------------------------------------------------------------
(* In every pool types and the capacity are kept, and no notification is   *)
(* missed, of a task, of a free place or of the stop, however many         *)
(* workers, submitters and tasks there are (7_thread_pool:                 *)
(* 1_fire_and_forget.cpp, 2_usual_futures_pool.cpp,                        *)
(* 3_bounded_blocking_pool.cpp, 4_work_stealing.cpp).                      *)
THEOREM NoNotificationMissed == MCSpec => []NobodySleepsOverWork
<1>1. MCSpec => []SomeProgram
  <2>1. MCInit => SomeProgram
    BY DEF MCInit, SomeProgram
  <2>2. SomeProgram /\ [MCNext]_allVars => SomeProgram'
    BY OneProgram
    DEF SomeProgram, InFutures, InBounded, InStealing, InForget, InCancel
  <2> QED
    BY <2>1, <2>2, PTL DEF MCSpec
<1>2. ASSUME SomeProgram, FuturesKept, BoundedKept, StealingKept, ForgetKept
      PROVE  NobodySleepsOverWork
  <2> USE DEF InFutures, InBounded, InStealing, InForget, InCancel, NobodySleepsOverWork
  <2>1. CASE InFutures
    BY <1>2, <2>1, FuturesCorrect DEF FuturesKept
  <2>2. CASE InBounded
    BY <1>2, <2>2, BoundedCorrect DEF BoundedKept
  <2>3. CASE InForget
    <3>1. Forget!NobodyForgotten
      BY <1>2, <2>3
      DEF ForgetKept, ForgetInv, ForgetCV, ForgetMain, Ready, Forget!NobodyForgotten,
          Forget!Cardinality, Cardinality
    <3> QED
      BY <2>3, <3>1
  <2>4. CASE InStealing
    BY <1>2, <2>4, StealingCorrect DEF StealingKept
  <2>5. CASE InCancel
    BY <2>5
  <2> QED
    BY <1>2, <2>1, <2>2, <2>3, <2>4, <2>5 DEF SomeProgram
<1> QED
  BY <1>1, <1>2, FuturesInvHolds, BoundedInvHolds, StealingInvHolds, ForgetInvHolds,
     PTL
=============================================================================
