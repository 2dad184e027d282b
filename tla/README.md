# TLA+ specifications of learning-concurrency

The repository is a collection of small concurrent C++ programs: bounded queues
from a mutex to lock-free rings, thread pools, a reader-writer lock, a reusable
barrier, and the puzzles of *The Little Book of Semaphores*. Each program is one
file with a component (a class, or a few globals) and its wiring (`main` and the
thread functions). No test exercises any of them; their correctness rests on
arguments in comments and notes. This directory states those arguments as
properties and checks them with TLC; every safety property that a passing run
checks is also proved with TLAPS, for any number of threads and any capacity.

Paths below are relative to `src/cpp/problems` unless they start with `src`.

## 1. Inventory

| Component | State | Operations | What is hard | What makes it correct |
|---|---|---|---|---|
| blocking queue, `3_sushi_chefs/1_mutex_cv.cpp` | `q_`, mutex, two condition variables | `push`, `pop` | notification after the unlock, stolen and spurious wake-ups | atomic bounded FIFO; no sleeper forgotten; both sides go on |
| semaphore queue, `2_sema.cpp` (`3_sema_spinlock.cpp` is a comment on it) | `q_`, `free_`, `taken_`, mutex | `push`, `pop` | tokens and queue change in separate steps; `pop` does not test for emptiness | tokens cover the queue; FIFO |
| ring queue, `4_sema_ringbuffer.cpp` | array, `head_`, `tail_`, semaphores, mutex | `push`, `pop` | index reaches `N` and is wrapped later; full looks like empty | implements the semaphore queue |
| SPSC ring, `5_spsc_atomics.cpp`, `6_spsc_atomic_wait.cpp` | array, two atomic indices | `try_push`/`try_pop`, `push`/`pop` | old values from acquire loads; no second look after `wait`; store and notify apart | no race on a slot; FIFO; nobody sleeps on |
| Vyukov MPMC, `7_vyukov_mpmc.cpp` | `head_`, `tail_`, `seq` and data per slot | `try_enq`, `try_dq` | old position against new slot; claim and publication apart | one thread per slot; FIFO; what a refusal means |
| Vyukov with generation counters, `8_gen_counter_vyukov_mpmc.cpp` | the same, two counters | the same, then `wait`/`notify_one` | window between refusal and wait | nobody parked over a dish or a place |
| thread pools, `7_thread_pool/1..4` | task queue(s), mutex(es), condition variables, `stopping_`, futures | worker loop, `submit`, destructor | stop against sleep; blocked submitters; steals; a counter under another mutex | each accepted task runs once before the destructor returns; destructor returns |
| cancellation pool, `7_thread_pool/5_cancellation.cpp` | two stop sources per worker, `jthread`s | `stop_one`, `stop_all`, destructor | who stops and joins whom | every worker joined once; data at rest when it is read or destroyed |
| reader-writer lock, `4_museum_decor.cpp` | three counters, mutex, two condition variables, `data_` | `read`, `write` | the copy is outside the mutex; who is notified | no torn copy; writers not starved; nobody forgotten |
| reusable barrier, `5_game_lobby.cpp` | `current_`, `gen_ctr_`, mutex, condition variable | `arrive_and_wait` | a fast player is back before the round has been left | no player a round ahead |
| ping-pong, `1_two_thread_ping_pong.cpp` | `turn`, `count` | `pinger`, `ponger` | termination of both | both end, whoever meets the final count first |
| horse race, `2_horse_race.cpp` | `positions`, `std::barrier` | `horse_jumps` | positions read outside the barrier; `lck` on line 54 locks nothing | nobody moves after the picture that shows a winner; the race ends for all |
| smokers, `from little book of semaphores/cigarette_smoker_*.cpp` | table, generations, semaphores, scoreboard | agent, pusher, smoker | items of several rounds at once | only a complete pair of one round is smoked; no item lost or used twice |
| savages, `dining_savages_1..4.cpp` | `meals` or servings | chef, diner | whom a notification reaches | pot refilled only when empty; never below zero |
| barbershops, `barbershop_0..2.cpp`, `hilzer_barbershop.cpp` | customers, queues, per-customer semaphores | barber, customer, usher | two-way signalling on one semaphore | capacity; each haircut belongs to one customer; FIFO |
| Santa, `santa_claus_1.cpp` | two barriers, two flags, semaphores | deer, elf, santa | both groups ready at once | groups stay together; elves are not forgotten |
| spinlock, `src/cpp/libs/spinlock.cpp` | one flag | `lock`, `unlock` | relaxed read loop | no increment under the lock is lost |

The programs do not call each other. The components interact inside each
program: threads call the component, the component blocks them on its mutexes,
condition variables, semaphores or atomics, and another thread's call lets them
go. `8_gen_counter_vyukov_mpmc.cpp` repeats the class of `7_vyukov_mpmc.cpp`.

Nothing is persistent and nothing is sent over a network, so there are no
crashes, restarts or lost messages to model. Every hard behaviour is one of:
interleaving, a notification that is late, stolen or spurious, an old value used
after it was read, a stop or a destructor at an awkward moment, or progress.
`PROJECT.json` lists the hazards line by line.

## 2. Modules

| Module | Models | Abstract specification |
|---|---|---|
| `BlockingQueue` | `1_mutex_cv.cpp` | `BoundedFIFO` |
| `SushiCounter` | what the two semaphore queues share: semaphores, locations, hands | |
| `SemaQueue` | `2_sema.cpp` | `BoundedFIFO` |
| `RingQueue` | `4_sema_ringbuffer.cpp` | `SemaQueue` |
| `SPSC` | the single-producer ring, and the program of `5_spsc_atomics.cpp` that spins on it (`SpinNext`) | `BoundedFIFO` |
| `SPSCWait` | `6_spsc_atomic_wait.cpp`: the same ring, its ends sleep (extends `SPSC`) | `BoundedFIFO` |
| `Vyukov` | `7_vyukov_mpmc.cpp`: class `MPMC` and the threads that spin on it (`SpinNext`) | `BoundedFIFO` |
| `GenCounter` | `8_gen_counter_vyukov_mpmc.cpp`: the same class, its threads park (extends `Vyukov`) | |
| `FuturesPool`, `BoundedPool`, `WorkStealing` | `7_thread_pool/2`, `3` and `4` | `PoolService` |
| `FireAndForget` | `7_thread_pool/1_fire_and_forget.cpp` | `PoolService` |
| `CancellationPool` | `7_thread_pool/5_cancellation.cpp` | |
| `GameLobby` | `5_game_lobby.cpp` | `RoundBarrier` |
| `RWLock` | `4_museum_decor.cpp` | |
| `Threading` | the library's semaphores, condition variables, atomics' `wait` and `std::barrier`, used by the modules below | |
| `PingPong`, `HorseRace`, `Spinlock` | `1_two_thread_ping_pong.cpp`, `2_horse_race.cpp`, `src/cpp/libs/spinlock.cpp` | |
| `DiningSavages` | `dining_savages_1..4.cpp` | `Pot` |
| `CigaretteSmokers` | `cigarette_smoker_1.cpp`, `_2.cpp`: smokers that look at the table themselves | `SmokersTable` |
| `SmokerPushers` | `cigarette_smoker_3.cpp`, `_3_1.cpp`, `_hard.cpp`: a pusher per ingredient | `SmokersTable` |
| `SmokerScoreboard` | `cigarette_smoker_hard_atomics.cpp` | `SmokersTable` |
| `Barbershop` | `barbershop_0..2.cpp` | `Shop` |
| `HilzerBarbershop` | `hilzer_barbershop.cpp` | |
| `SantaClaus` | `santa_claus_1.cpp` | |
| `...Proofs`, `SharedLemmas` | theorems, see section 4 | |
| `MCSushi`, `MCVyukov`, `MCPools`, `MCSync`, `MCLittleBook` | compositions for TLC, see below | |

An MC module puts programs of one family into one specification: a variable
`program` (`wiring` in `MCVyukov`) is chosen in the initial state and never
changes, and the next-state relation and the fairness conditions of each program
are guarded by it. The state space is the disjoint union; the programs do not
interact, and the variables of the others keep their initial values. What all
members of a family promise is then stated and checked once: four programs
implement one `Pot`, six one `SmokersTable`, three one `Shop`, four pools one
`PoolService`, the five queues of `MCSushi` one `BoundedFIFO`, and
`RefinesSemaQueue` is checked of the ring next to the program it implements. Modules whose program is one of several small ones
(`DiningSavages`, `SmokerPushers`, `Barbershop`, ...) do the same inside.

Conventions shared by all modules:

* Variables and actions bear the names of the code where TLA+ allows it. `pc[t]`
  is the statement thread `t` stands at; `Goto(t, from, to)` moves it. One action
  is one step that other threads can observe: taking a mutex, a block executed
  under it, an atomic operation, a notification. The operator named after a
  function (`push`, `worker`, `try_steal`) is the disjunction of its steps.
* A condition variable is the set of threads asleep on it. `notify_one` removes
  any member, or does nothing; `notify_all` empties the set. A woken thread has
  to take the mutex again before it looks at its predicate. A separate action
  wakes a thread spuriously at any time. `std::atomic::wait` compares and falls
  asleep in one step and compares again when woken.
* A mutex is free or owned. Where an action both takes and releases it, the
  block in between is invisible to others (`SemaQueue`, `RWLock`'s `Leave`).
  The programs on `Threading` keep only the mutexes that are held across a wait
  (`savages_4`'s `mtx`, Hilzer's three, `barbershop_0`'s chair); a shorter block
  is one step, which finds its mutex free where the mutex is modelled.
* `std::barrier`: the arrival that completes a phase runs the completion function,
  opens the next phase and lets the others go, in one step. The others cannot see
  anything in between: they sleep in the barrier, and Santa or the screen sees
  only what the completion does.
* Payloads are model values or small numbers. Sleeping, printing and random
  numbers are left out; a random dish is any dish.
* An action marked `faulty` is not part of the specification: it is the form a
  plausible mistake in that line would take. Substituted for the real action it
  makes the property under test fail, which shows that the property can fail.

### Memory order

In the mutex and semaphore programs every shared access is synchronised, so
interleaving is all there is. The two lock-free queues need a word.

* `SPSC`, `SPSCWait`: an acquire load of the other thread's index may return an
  old value, but not one older than the thread has seen. The index only moves
  forward round the ring, so the load returns any value on the *arc* from the
  last value seen to the current one (`Arc`). The array accesses are ordered by
  the acquire/release pairs and therefore need no old values of their own.
* `Vyukov`: a relaxed load of `head_` or `tail_` may be old, and so may be the
  acquire load of `seq` that follows. In the model each load is a separate step
  and any number of other threads' steps may come between them and before the
  CAS, so an old position, or an old position together with a slot read at the
  same old time, is the behaviour of a thread that was suspended. The CAS always
  sees the newest value. Not represented is a fresh position with a `seq` that is
  older than what the slot held when the position was read: the slot then looks
  behind, so `try_enq` or `try_dq` refuses without having claimed anything, and the
  C++ model allows it a refusal that is not exact. `RefusalExactWhenQuiet` is
  therefore a statement about interleavings; the other properties are not touched,
  since a refusal changes nothing in the queue.
* `GenCounter`: the counter is loaded before the queue is tried. Loads of a
  counter and bumps of it are sequentially consistent in the code, so a thread that
  loads a version also sees the publication that came before the bump to it: the
  old `seq` just described cannot make it sleep past its notification.
* `DiningSavages` (second program), `SmokerScoreboard`, `Spinlock`: every relaxed
  operation works on one atomic, and no other memory is read on the strength of
  it, so the order of that atomic's modifications is all that matters. Loads and
  exchanges are separate steps. A `compare_exchange_weak` that fails for no reason
  only brings the thread back to its load and is left out.
* `HorseRace`: `positions` is written and read without a lock. A read sees the
  old or the new number; the look for a winner stands for its last read.
* `WorkStealing`: `all_queued_tasks_` is read in the predicate and again in the
  test that follows it, with the global mutex held. `stopping_` cannot change in
  between, and the counter can only fall, so one read decides as the two do: the
  first if the pool is not stopping, the second if it is.

## 3. Runs

Bounds are in the `.cfg` files. `pass` runs explore the whole state space of the
instance.

| Run | Shows | Instance and why it is enough |
|---|---|---|
| `sushi` | `ArraysWellUsed` (capacity of the `std::queue`; indices inside the array, no two threads on a slot), `NobodyForgotten`, `TokensCoverQueue`, `NoLostWakeup`, refinement of `SemaQueue` by the ring and of `BoundedFIFO` by all five, `CounterKeepsMoving`, `DishesKeepMoving` | counter: 2 chefs, 2 customers, 2 places, so a second thread of a side can steal, oversleep or be overlooked, and the ring wraps after every second push, fills and empties; SPSC: 4 slots and 20 elements, the values of `main` |
| `vyukov_safety` | `ExclusiveSlot`, `RefusalExactWhenQuiet`, `NobodyOverlooked`, refinement | 2 + 2 threads, 2 slots, 3 dishes: a slot reaches its second generation; both sides are refused; threads of a side are interchangeable |
| `vyukov_live` | `EveryDishEaten` | 2 chefs, 1 customer, 4 dishes on 2 slots: both chefs sleep at once, so `notify_one` has to choose, and a chef left asleep keeps its dish |
| `vyukov_refusal` | **violation**, see below | 2 chefs, 1 customer |
| `pools` | `NobodySleepsOverWork`, `CounterFollowsQueues`, `StoppedMeansStopped`, refinement of `PoolService`, `PoolsStop` | futures: 3 workers, 3 tasks, one submitted by a running task, also while stopping; bounded: 2 workers, one place, 3 submitters, two blocked at once; stealing: 2 workers, each the other's only thief, a parent that waits for its child; fire and forget: `main`'s 3 workers and 10 tasks; cancellation: `main`'s 2 workers, stopped one by one, all, or by the destructors |
| `bounded_pool_destroyed` | **violation**, see below | 1 worker, 3 submitters |
| `sync` | lobby: refinement of `RoundBarrier`, `NobodyLeftBehind`, `CurrentCountsWaiters`; `LockInv` (no reader or writer forgotten), `NoDataRace`, `RaceOver`, `EverybodyGetsThere` | 3 players, 3 rounds: one may be a round ahead of the slowest; 2 readers that return for ever, 2 writers; ping-pong to 10; 3 horses that jump 1 or 2 of 3: one can win while another has yet to move; 3 spinning workers, the counter modulo 4 |
| `race_screen` | **violation**, see below | the same race |
| `tables` | `TakenForGranted` (asserts, binary semaphores), refinement of `Pot` and `SmokersTable`, `TablesGoRound` | 3 diners, 2 servings: diners of two pots meet; 3 generations: one placed and consumed while a smoker waits for its second item; 3 pairs on the table at once, 2 with the scoreboard |
| `shops` | refinement of `Shop`, `BinarySemaphores`, `InOrder`, `GroupsStayTogether`, `ShopsKeepServing` | 3 customers on 2 chairs: one walks out; Hilzer: 3 customers, at most 2 inside, with 2 ushers and 1 barber or the reverse; 2 deer, 3 elves in groups of 2: one elf has to wait for the next group |
| `sofa` | `SofaAndRegister`, `ShopsKeepServing` | Hilzer's shop with 1 place on the sofa and 2 of 3 customers inside: the sofa is full while another customer stands and an usher waits at line 89; 2 ushers and 1 barber or the reverse |
| `hilzer_tokens` | **violation**, see below | 1 usher, 1 barber, 2 customers |

The largest instances are `vyukov_safety` (691 000 distinct states), `vyukov_live`
(194 000), `shops` (151 000), `tables` (129 000), `pools` (123 000) and `sofa`
(95 000). Hilzer's shop with two ushers *and* two barbers has some millions of
states and does not finish; the two halves do, and barbers and ushers meet only
through the sofa queue and its semaphores.

`CHECK_DEADLOCK` is never switched off. Programs that end have an explicit
stuttering step (`Joined`, `AllJoined`, `MainReturned`, `Returned`, `Finished`,
`Gone`, `NothingLeft`) whose guard is that all is done, and bounded ones a step
`RoundsOver` whose guard is that the bound is reached, so that a deadlock
anywhere else is reported. `RefinesX` properties state `INSTANCE X WITH ...`
refinement mappings.

### Fairness

* Default: weak fairness of each thread's own steps. The operating system runs
  every runnable thread; nothing is assumed of the order in which a mutex is
  handed over or which waiter is notified. Spurious wake-ups are never assumed to
  happen; where an endless storm of them could keep a mutex busy, the property
  says so as an alternative (`[]<><<Spurious>>_vars`).
* `Vyukov`: strong fairness of the two CAS claims. `compare_exchange_weak` is not
  modelled as failing for ever with the expected value in place.
* `SPSC`: strong fairness of the load that returns the current index: a store
  becomes visible to a loop of loads in the end, as the C++ standard asks of
  implementations.
* `WorkStealing`: strong fairness of every thread. Idle workers spin on
  `try_lock` and the global mutex while a task is queued that its owner has yet
  to reach; a mutex that always prefers the spinners would keep the owner out.
  `std::mutex` gives no guarantee against that, so `PoolsStop` holds there under
  this stronger assumption only. It also excludes failing `try_lock`s that never
  end: with three workers TLC finds a behaviour in which the idle ones meet on
  each other's empty deques for ever, each making the next begin its round anew
  (lines 94-116; `src/cpp/docs/Thread pool.md:197-201` knows the busy wait). With
  the two workers of the instance this cannot happen.
* `RWLock`: nothing makes a reader come or a write be requested again; only
  threads inside `read` and writers are scheduled.
* `BoundedPool`: nothing makes the destructor be called; once begun it goes on.
* `SmokerPushers` (hard), `SmokerScoreboard`: their rounds are bounded, and it is
  enough that some thread that can run does. The patient variants and the
  savages need weak fairness of each thread.
* `SantaClaus`: the deer may stay on vacation for ever. If they keep coming the
  elves may wait for ever, as the code prefers deer (line 70), and
  `ShopsKeepServing` says so.
* `HilzerBarbershop`: a shop that has lost somebody to a token taken back
  (`Stranded`) may stop; any other goes on.

### Where the code and its notes differ

* `vyukov_refusal`. `try_dq` answers `nullopt` when the slot at `head_` is behind
  and calls that empty (`7_vyukov_mpmc.cpp:97`, `Producer Consumer.md:155`). With
  one chef between its CAS and its publication and a second chef whose dish is
  complete in the next slot, the answer is `nullopt` though a dish was enqueued
  before the call began. `RefusalExactWhenQuiet` (checked in `vyukov_safety`)
  says when the answer is exact.
* `bounded_pool_destroyed`. A submitter that is blocked when the stop is sent is
  to throw (`src/cpp/docs/Thread pool.md:168`, `3_bounded_blocking_pool.cpp:55`).
  The destructor waits for the workers only; it can return while the notified
  submitter has still to take the mutex, which is then destroyed.
* `race_screen`. The header of `2_horse_race.cpp` (lines 3-4) wants the screen
  updated when all horses have moved. A horse looks for a winner while others may
  have moved in the same round; it then leaves with `arrive_and_drop`, which
  completes the phase without its move. (The `unique_lock` on line 54 locks
  nothing, but it is not the cause: the look comes before it.)
  No harm follows: `RaceOver` shows that nobody moves after the picture with the
  winner, and all horses end.
* `hilzer_tokens`. The usher releases a customer's ticket and acquires the same
  binary semaphore to wait until the customer has sat down (lines 93-102). Nothing
  keeps it from acquiring its own token. It then goes on, and the customer, no
  longer in the queue, stands for ever, with a place on the sofa reserved.
The barber's exchange with the customer it calls (55-58) and the customer's with
the barber (143-147) are of the same kind, and the model has all their steps. A
barber that takes back its token cuts the hair of a customer that is still on the
sofa, who gets up at the release that ends the cut; a customer that takes its own
token leaves the barber waiting inside `sofa_mtx`. `SofaAndRegister` and `InOrder`
hold whatever becomes of the tokens, and `ShopsKeepServing` shows that nothing
but this (`Stranded`) stops the shop. These properties say nothing of the
exchanges themselves; `hilzer_tokens` does, for the usher's.

Smaller differences met while modelling, which break no property: in
`cigarette_smoker_1` and `_2` the agent may place the next pair before the smoker
has finished smoking, since the table is freed first; `barbershop_0`'s
`barber_chair_free_cv` never waits, because the chair's mutex is held throughout
the cut; in `barbershop_2` the barber may begin the cut before the called customer
has taken its signal.

## 4. Proofs

| Module | About | Theorems |
|---|---|---|
| `SharedLemmas` | what the other modules cite: threads counted by location, remainders, sequences as queues of distinct elements, what a ring contains | |
| `SemaQueueProofs` | `SemaQueue` | `TypeCorrect`, `TokensAlwaysCover`, `Refinement` |
| `SushiProofs` | `MCSushi` | `NobodyIsForgotten`, `BlockingRefinement`, `RingIsSemaQueue`, `TokensCover`, `CounterIsFIFO`, `ArraysAreWellUsed`, `NobodyOversleeps`, `SpscIsFIFO` |
| `VyukovProofs` | `MCVyukov` | `TypeCorrect`, `SlotsAreExclusive`, `RefusalsAreExact`, `NobodyIsOverlooked`, `Refinement` |
| `PoolsProofs` | `MCPools` | `PoolsRefined`, `NoNotificationMissed`, `CounterIsExact`, `StoppedIsStopped` |
| `SyncProofs` | `MCSync` and, for the barrier, `GameLobby` | `NobodyIsForgotten`, `NothingRaces`, `RaceEnds`; `TypeCorrect`, `NobodyIsLeftBehind`, `CurrentIsExact`, `Refinement` |
| `LittleBookProofs` | `MCLittleBook` | `PotRefined`, `TableRefined`, `GrantedThroughout` |
| `ShopsProofs` | `MCLittleBook` | `ShopRefined`, `BinarySemaphoresHold`, `SofaAndRegisterHolds`, `InOrderHolds`, `GroupsStayTogetherHolds` |

Each theorem holds for every value of the constants that satisfies the `ASSUME`
of its module: finite, disjoint sets of threads, positive capacities, any number
of dishes, tasks, rounds. `Vyukov` needs at least two slots, since with one a
full slot and a free one bear the same number, and a customer: without one,
dishes would wait for nobody and `NobodyOverlooked` would be false. The theorems
are about the specifications that TLC runs (`MCSpec`), or about a component's own
`Spec`, of which the run is an instance (`LobbyAlone`).

Hardly any property is inductive by itself. What each proof adds:

**Blocking queue.** `CVBase` adds to the types that a thread on its way to push
carries a dish and that the sleepers are exactly the wait sets. The two counting
invariants of `NobodyForgotten` are inductive with it: a push adds a dish and an
announcer; the announcer leaves only by waking a sleeper, or when none is asleep;
a customer that falls asleep has seen an empty queue while it held the mutex.
Every step is then a step of `BoundedFIFO` or a stutter.

**Semaphore queue.** `TokensCoverQueue` is inductive with the types and "a chef
in `push` carries a dish". It says where every place is: a token, a dish, or a
thread between a semaphore and the queue. Hence `pop` never meets an empty queue,
although it does not test.

**Ring and semaphores.** `RingInv` accounts for the `N` places in the same way
(`RingCovered`), puts `tail_` where the last dish ends modulo `N`, and allows the
one statement under the mutex at which an index equals `N`. Full and empty both
have `head_ = tail_`; the accounting tells them apart. With it each step of the
ring is a step of `SemaQueue` or a stutter, and the theorems of `SemaQueueProofs`
carry over through the refinement mapping instead of being proved twice.

**SPSC rings.** `SpscOrdered` says that the four indices, those stored and those
last loaded by the other side, lie in the order *chef's view of head, head,
customer's view of tail, tail* round the ring (`InOrder`). An acquire load, which
may return any value on the arc between the old view and the stored index, keeps
that order, and it is all that is needed: a stale view makes an end see the ring
fuller, or emptier, than it is, never the reverse. `NoLostWakeup` is inductive
with it: an end sleeps on a value that is current, or the other end has still to
notify. The refinement needs what a ring contains after a store and a load
(`RingPut`, `RingTake`).

**Vyukov.** `Window` describes the `N` positions from `head_` on, which fall into
different slots: below `tail_` each is published or owned by one chef, above it
each is free or still owned by the customer of the previous round.
`EnqueueOwns` and `DequeueOwns` say that a thread between its CAS and its
publication owns its slot; `EnqueueLoaded` and `DequeueLoaded` that whatever a
thread loaded, however long ago, is still true if its CAS can succeed: the
numbers only grow, so there is no ABA. `SlotsAreExclusive`, `RefusalsAreExact`
and the refinement follow. `CounterInv` relates the generation counters to the
positions, `WakeInv` adds who is about to announce a dish or a place when all on
the other side are parked.

**Pools.** Futures: besides who holds the mutex and that the stop is the
destructor's (`Locked`), each task is queued or run at most once (`Once`), and
while a worker sleeps there are no more tasks than workers awake and submitters
about to notify (`Notified`). Bounded: the same on both of its condition
variables. Fire and forget: a worker that finds the stop set does not go to
sleep. Cancellation: whoever has been joined has returned for good.

**Work stealing.** `StealingInv` says who holds each mutex and that nobody pushes
to a deque once the stop is set (`StealingLocked`), that each task is in one
queue or with one worker and is submitted once (`StealingOnce`), and that the
counter is the number of queued tasks, less the one that a submitter has pushed
and not yet counted, plus those that takers hold and have not yet taken off
(`CounterCounts`). So the counter is never too small while the global mutex is
free, and a worker that reads zero under it may sleep: `SearchersSuffice` says
that while one sleeps there are no more queued tasks than workers that search and
submitters about to notify. A worker leaves only when no task is queued and, as
the stop is set, none will be (`Drained`). `CounterFollowsQueues` counts the
tasks as one set, `Queued`, whose cardinality changes by one with each push and
take; the sum of the lengths of the deques would need induction over the workers.

**One service.** The refinement of `PoolService` needs two facts more for each
pool: whatever tells a task apart (its future, its submitter, its
number) also tells whether it is queued, run by one worker or done
(`BoundedOnce`, `ForgetOnce`), and workers leave, and the destructor returns, only
when nothing is queued (`FuturesDrained`, `BoundedDrained`, `ForgetDrained`,
`Drained`). Each step is then shown to accept a task, start it, finish it, close
the service or end it (`Vanish`), or to stutter; a task that changes its queue or
passes through a thief's hands stutters.

**Barrier.** `IInv` says what each player knows of the generation: one outside
has passed as many rounds as there were openings, one inside is at most one
generation behind. With `CurrentCountsWaiters`, `current_ = total_` then means
that all wait in this generation, which is why opening is right although a fast
player may be a round ahead.

**Reader-writer lock, spinlock, horse race.** `Counters` makes each of the lock's
counters equal to the number of threads at certain statements, so none goes below
zero; `Remembered` says that a sleeping reader has a writer that will leave and a
sleeping writer somebody who will notify it. The copy outside the mutex is safe
because a reader is counted meanwhile. The spinlock's flag is set exactly while
one thread is between `lock` and `unlock`, and what it read is then current. In
the race the barrier counts exactly the horses it waits for: when the last one
arrives all others sleep in it or are gone, so a winner then shown is found by
every horse that looks afterwards.

**Savages.** The first program is safe by its mutex alone. In the second
(`PotOfAtomics`) a chef that has loaded an empty pot still finds it empty, since
nobody else raises `meals`. In the third (`PotOfBarrier`) each serving is in the
pot, with a diner that has not yet arrived at the barrier, or counted there, so
the chef is let go when the pot is empty. In the fourth (`PotOfSemaphores`) the
mutex and the two signals are accounted for: whoever is between the two
semaphores is alone with the pot.

**Smokers.** With one table under a mutex there is one pair or nothing
(`OnePair`). With generations (`Generated`) no more than two items bear the same
one, the current, and the generation that a smoker waits for a second item with is that of
no later pair: this is what the `assert` in the code takes for granted. The
patient pushers keep to one round, which `BySemaphores` follows from the agent
to the pusher that finds the pair and to its smoker. In the hard variant the
items of many rounds mix: `Lies` and `Taken` count an item wherever it is, on
the table, with a pusher or in a signal, and pairs leave the table as soon as
they are complete, so at most one kind lies there (`OneKind`). The scoreboard's
refinement needs its types only.

**Barbershops.** `ChairByMutex` and `ChairBySemaphore` say that one customer
holds the chair, and that its request, the cut and the answer follow one another.
`ChairByQueue` is about the customers in the shop: all but the one that the barber
attends to are in `queue`, once each (`QueueLine`); the tokens of the two-way
signals go to that one (`QueueTokens`); and each customer queued has a token of
`customer_ready`, is about to release it, or is the one that the barber is about to
pop (`QueueCounted`), so the queue is never popped empty.

**Hilzer's barbershop.** `HilzerInv` has a part for each of its resources: the
three mutexes (`HMutexes`), payments and receipts (`HRegister`), tokens and the
standing queue (`HStanding`), tokens and the sofa's queue (`SofaCounted`), the
tickets of the customer that an usher or a barber meets (`HLine`, `HChair`), the
places on the sofa (`HPlaces`). The tickets are binary semaphores because each
says exactly when it holds a token, tokens taken back included. A place that an
usher loses with its own token only lowers the count, which is why `HPlaces` is
an inequality. Neither an usher nor a barber looks whether the queue it pops is
empty; `HStanding` and `SofaCounted` show that it is not. `HOrder` relates the
two queues to a history variable, `ahead`, the customers inside that came in
before one: those on the sofa are ahead of the one being called, and that one of
those who stand.

**Santa.** A thread is at a statement or asleep at a barrier (`Whereabouts`), and
`ElvesAdd` and `DeerAdd` add up a group: tokens that let elves in plus elves
inside are `Group`, and while help is pending none of the group has left and
nobody else has come in.

### What the theorems leave to TLC

Every safety property of a passing run, invariant, action property or
refinement, is stated by a theorem, for every value of the constants. The bounds
that the runs need (`Rounds`, `BoardRounds`, `Draws`, and `LeftOut`, the threads of
Hilzer's shop that do not run) are constants too: the theorems hold for any of
them, so also for Hilzer's shop with all its threads, which TLC cannot finish.

Only model-checked is all liveness (`CounterKeepsMoving`, `DishesKeepMoving`,
`EveryDishEaten`, `PoolsStop`, `EverybodyGetsThere`, `TablesGoRound`,
`ShopsKeepServing`), which rests on fairness and `ENABLED`. The properties of the
`violation` runs are false, and each is a counterexample of one instance.

## 5. Not modelled

* Counter wrap-around at 2^64 (`head_`, `tail_`, `seq` of 7 and 8, which
  `Producer Consumer.md:170` names as unhandled) and at 2^32 (the generation
  counters of 8, between two adjacent statements of one thread).
* Tasks that throw in `1_fire_and_forget.cpp`, which end the process.
* A pool whose every worker waits in `get()` for a child: `4_work_stealing.cpp`
  deadlocks then by design; the instance has fewer parents than workers.
* The order in which `std::vector` destroys `5_cancellation.cpp`'s jthreads: any.
* `6_dining_philosophers.cpp` is a compiled executable, not source.
* `src/cpp/libs` demonstrations of standard classes have no state of their own;
  notes, reviews and solutions inside Markdown are prose or fragments.

## 6. Plan

All programs of the repository that exist as source are modelled, and the safety
of each is proved. What could still be added is an argument for the liveness of
the work-stealing pool under a weaker fairness than that of every thread: a
measure of the tasks that remain would show which lock must be handed on.
