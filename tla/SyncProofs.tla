----------------------------- MODULE SyncProofs -----------------------------
(***************************************************************************)
(* Proofs about the reusable barrier, the museum's reader-writer lock, the *)
(* spinlock and the horse race, as MCSync runs them, for any finite sets   *)
(* of players, readers and writers and any number of rounds, writes,       *)
(* workers and horses.                                                     *)
(***************************************************************************)
EXTENDS MCSync, SharedLemmas

(* What the step of a thread from one location to another adds to the      *)
(* number of threads at locs.                                              *)
Change(locs, from, to) ==
  IF from \in locs <=> to \in locs THEN 0 ELSE IF to \in locs THEN 1 ELSE -1

-----------------------------------------------------------------------------
(* The reader-writer lock                                                  *)

WaitingAt == {"predicate", "asleep", "relock"}
WritingAt == {"writing", "written"}
ReadingAt == {"copying", "leave"}

(* Every counter counts threads by where they stand: that is why none of   *)
(* them falls below zero.                                                  *)
Waiting == Count(Writers, lock_pc, WaitingAt)
Writing == Count(Writers, lock_pc, WritingAt)
Reading == Count(Readers, lock_pc, ReadingAt)

Counters ==
  readers_ = Reading /\ writers_ = Writing /\ waiting_writers_ = Waiting

MuseumTyped ==
  /\ data_ \in [Writers -> 0..Writes]
  /\ lock_mtx \in Museum!Threads \cup {NoOne}
  /\ lock_pc \in [Museum!Threads -> Museum!Locations]
  /\ \A r \in Readers : lock_pc[r] \notin WritingAt
  /\ \A w \in Writers : lock_pc[w] \notin ReadingAt
  /\ \A w \in Writers : lock_pc[w] \notin {"idle", "written"} => data_[w] < Writes
  /\ wait_to_read_ = {r \in Readers : lock_pc[r] = "asleep"}
  /\ wait_to_write_ = {w \in Writers : lock_pc[w] = "asleep"}

(* A writer holds the mutex from the end of its wait to its last           *)
(* statement, a reader only while it looks at the predicate.               *)
MuseumHolding ==
  \A t \in Museum!Threads :
    lock_pc[t] \in {"predicate", "writing", "written"} <=> lock_mtx = t

(* A writer writes alone.                                                  *)
WritesAlone == writers_ \in {0, 1} /\ (writers_ = 1 => readers_ = 0)

WriterUnderWay ==
  \E w \in Writers : lock_pc[w] \in {"relock", "predicate", "writing", "written"}

Remembered ==
  /\ wait_to_read_ # {} => waiting_writers_ > 0 \/ writers_ > 0
  /\ wait_to_write_ # {} => readers_ > 0 \/ WriterUnderWay

MuseumInv ==
  MuseumTyped /\ MuseumHolding /\ Counters /\ WritesAlone /\ Remembered

(* Nobody is both a reader and a writer.                                   *)
LEMMA Visitors ==
  /\ \A r \in Readers : r \in Museum!Threads /\ r \notin Writers
  /\ \A w \in Writers : w \in Museum!Threads /\ w \notin Readers
  /\ NoOne \notin Museum!Threads
  /\ Museum!Threads = Readers \cup Writers
  /\ Writes \in Nat
  BY SyncAssumption DEF Museum!Threads

LEMMA CountsAreNat ==
  /\ Reading \in Nat /\ Reading <= Cardinality(Readers)
  /\ Writing \in Nat
  /\ Waiting \in Nat /\ Waiting <= Cardinality(Writers)
  BY SyncAssumption, CountIsNat DEF Reading, Writing, Waiting

(* A thread steps, and may wake others.                                    *)
Steps(t, from, to) ==
  /\ lock_pc[t] = from
  /\ \A u \in Museum!Threads :
       lock_pc'[u] = IF u = t THEN to
                     ELSE IF lock_pc[u] = "asleep" /\ lock_pc'[u] = "relock"
                       THEN "relock" ELSE lock_pc[u]

LEMMA CountsAfterStep ==
  ASSUME MuseumTyped, NEW from, NEW to, NEW t \in Museum!Threads, Steps(t, from, to)
  PROVE  /\ Reading' = Reading + (IF t \in Readers THEN Change(ReadingAt, from, to) ELSE 0)
         /\ Writing' = Writing + (IF t \in Writers THEN Change(WritingAt, from, to) ELSE 0)
         /\ Waiting' = Waiting + (IF t \in Writers THEN Change(WaitingAt, from, to) ELSE 0)
<1> DEFINE g == [lock_pc EXCEPT ![t] = to]
<1>1. /\ DOMAIN lock_pc = Museum!Threads /\ Moves(t, to, lock_pc, g) /\ lock_pc[t] = from
      /\ \A u \in Museum!Threads : g[u] = IF u = t THEN to ELSE lock_pc[u]
  BY DEF MuseumTyped, Steps, Moves
<1>2. \A S \in {Readers, Writers} : S \subseteq Museum!Threads /\ IsFiniteSet(S)
  BY SyncAssumption DEF Museum!Threads
<1>3. ASSUME NEW S \in {Readers, Writers}, NEW L \in {ReadingAt, WritingAt, WaitingAt}
      PROVE  Count(S, lock_pc', L) = Count(S, lock_pc, L) +
               (IF t \in S THEN Change(L, from, to) ELSE 0)
  <2>1. Count(S, g, L) =
          Count(S, lock_pc, L) +
            (IF t \notin S \/ (lock_pc[t] \in L <=> to \in L) THEN 0
             ELSE IF to \in L THEN 1 ELSE -1)
    BY <1>1, <1>2, CountAfterMove
  <2>2. \A u \in S : g[u] \in L <=> lock_pc'[u] \in L
    BY <1>1, <1>2 DEF Steps, ReadingAt, WritingAt, WaitingAt
  <2> HIDE DEF g
  <2>3. Count(S, lock_pc', L) = Count(S, g, L)
    BY <2>2, CountSame
  <2> QED
    BY <1>1, <2>1, <2>3 DEF Change
<1>4. /\ Reading' = Count(Readers, lock_pc', ReadingAt)
      /\ Writing' = Count(Writers, lock_pc', WritingAt)
      /\ Waiting' = Count(Writers, lock_pc', WaitingAt)
  BY DEF Reading, Writing, Waiting, Count, Standing
<1> QED
  BY <1>3, <1>4 DEF Reading, Writing, Waiting

LEMMA CountsNextAreNat == Reading' \in Nat /\ Writing' \in Nat /\ Waiting' \in Nat
<1>1. /\ Reading' = Count(Readers, lock_pc', ReadingAt)
      /\ Writing' = Count(Writers, lock_pc', WritingAt)
      /\ Waiting' = Count(Writers, lock_pc', WaitingAt)
  BY DEF Reading, Writing, Waiting, Count, Standing
<1> QED
  BY <1>1, SyncAssumption, CountIsNat

LEMMA MuseumStarts == Museum!Init => MuseumInv
<1> SUFFICES ASSUME Museum!Init PROVE MuseumInv
  OBVIOUS
<1> USE Visitors DEF Museum!Init
<1>1. MuseumTyped /\ MuseumHolding
  BY DEF MuseumTyped, MuseumHolding, Museum!Locations, WritingAt, ReadingAt
<1>2. Reading = 0 /\ Writing = 0 /\ Waiting = 0
  BY SyncAssumption, CountZero
  DEF Reading, Writing, Waiting, ReadingAt, WritingAt, WaitingAt
<1> QED
  BY <1>1, <1>2 DEF MuseumInv, Counters, WritesAlone, Remembered

LEMMA ReaderKeeps ==
  ASSUME MuseumInv, NEW r \in Readers, Museum!reader(r) \/ Museum!ReaderWakes(r)
  PROVE  MuseumInv'
<1> USE Visitors, CountsAreNat, CountsNextAreNat
    DEF MuseumInv, MuseumTyped, MuseumHolding, Counters, WritesAlone, Remembered,
        WriterUnderWay, Museum!Locations, ReadingAt, WritingAt, WaitingAt,
        Museum!Acquire, Museum!Release, Museum!counters
<1>1. CASE Museum!ReadCall(r)
  <2>1. Steps(r, "idle", "enter")
    BY <1>1 DEF Museum!ReadCall, Museum!Goto, Steps
  <2>2. Reading' = Reading /\ Writing' = Writing /\ Waiting' = Waiting
    BY <2>1, CountsAfterStep DEF Change
  <2> QED
    BY <1>1, <2>1, <2>2 DEF Museum!ReadCall, Museum!Goto, Steps
<1>2. CASE Museum!ReadLock(r)
  <2>1. Steps(r, "enter", "predicate")
    BY <1>2 DEF Museum!ReadLock, Museum!Goto, Steps
  <2>2. Reading' = Reading /\ Writing' = Writing /\ Waiting' = Waiting
    BY <2>1, CountsAfterStep DEF Change
  <2> QED
    BY <1>2, <2>1, <2>2 DEF Museum!ReadLock, Museum!Goto, Steps
<1>3. CASE Museum!ReadSleeps(r)
  <2>1. Steps(r, "predicate", "asleep")
    BY <1>3 DEF Museum!ReadSleeps, Museum!Goto, Steps
  <2>2. Reading' = Reading /\ Writing' = Writing /\ Waiting' = Waiting
    BY <2>1, CountsAfterStep DEF Change
  <2> QED
    BY <1>3, <2>1, <2>2 DEF Museum!ReadSleeps, Museum!Goto, Museum!MayRead, Steps
<1>4. CASE Museum!Relock(r)
  <2>1. Steps(r, "relock", "predicate")
    BY <1>4 DEF Museum!Relock, Museum!Goto, Steps
  <2>2. Reading' = Reading /\ Writing' = Writing /\ Waiting' = Waiting
    BY <2>1, CountsAfterStep DEF Change
  <2> QED
    BY <1>4, <2>1, <2>2 DEF Museum!Relock, Museum!Goto, Steps
<1>5. CASE Museum!Enter(r)
  <2>1. Steps(r, "predicate", "copying")
    BY <1>5 DEF Museum!Enter, Museum!Goto, Steps
  <2>2. Reading' = Reading + 1 /\ Writing' = Writing /\ Waiting' = Waiting
    BY <2>1, CountsAfterStep DEF Change
  <2>4. MuseumTyped' /\ MuseumHolding'
    BY <1>5 DEF Museum!Enter, Museum!Goto, Museum!MayRead
  <2>v. readers_' = readers_ + 1 /\ writers_ = 0 /\ UNCHANGED <<writers_, waiting_writers_>>
    BY <1>5 DEF Museum!Enter, Museum!MayRead
  <2>5. Counters' /\ WritesAlone'
    BY <2>2, <2>v
  <2>6. Remembered'
    BY <1>5, <2>1, <2>2 DEF Museum!Enter, Museum!Goto, Museum!MayRead, Steps
  <2> QED
    BY <2>4, <2>5, <2>6
<1>6. CASE Museum!Copy(r)
  <2>1. Steps(r, "copying", "leave")
    BY <1>6 DEF Museum!Copy, Museum!Goto, Steps
  <2>2. Reading' = Reading /\ Writing' = Writing /\ Waiting' = Waiting
    BY <2>1, CountsAfterStep DEF Change
  <2> QED
    BY <1>6, <2>1, <2>2 DEF Museum!Copy, Museum!Goto, Steps
<1>7. CASE Museum!Leave(r)
  <2>1. Steps(r, "leave", "idle")
    BY <1>7 DEF Museum!Leave, Museum!Goto, Steps
  <2>2. Reading' = Reading - 1 /\ Writing' = Writing /\ Waiting' = Waiting
    BY <2>1, CountsAfterStep DEF Change
  <2> QED
    BY <1>7, <2>1, <2>2 DEF Museum!Leave, Museum!Goto, Steps
<1>8. CASE Museum!ReaderWakes(r)
  <2>1. Steps(r, "asleep", "relock")
    BY <1>8 DEF Museum!ReaderWakes, Museum!Goto, Steps
  <2>2. Reading' = Reading /\ Writing' = Writing /\ Waiting' = Waiting
    BY <2>1, CountsAfterStep DEF Change
  <2> QED
    BY <1>8, <2>1, <2>2 DEF Museum!ReaderWakes, Museum!Goto, Steps
<1> QED
  BY <1>1, <1>2, <1>3, <1>4, <1>5, <1>6, <1>7, <1>8 DEF Museum!reader, Museum!read

LEMMA WriterKeeps ==
  ASSUME MuseumInv, NEW w \in Writers, Museum!writer(w) \/ Museum!WriterWakes(w)
  PROVE  MuseumInv'
<1> USE Visitors, CountsAreNat, CountsNextAreNat
    DEF MuseumInv, MuseumTyped, MuseumHolding, Counters, WritesAlone, Remembered,
        WriterUnderWay, Museum!Locations, ReadingAt, WritingAt, WaitingAt,
        Museum!Acquire, Museum!Release, Museum!counters
<1>1. CASE Museum!WriteCall(w)
  <2>1. Steps(w, "idle", "enter")
    BY <1>1 DEF Museum!WriteCall, Museum!Goto, Steps
  <2>2. Reading' = Reading /\ Writing' = Writing /\ Waiting' = Waiting
    BY <2>1, CountsAfterStep DEF Change
  <2> QED
    BY <1>1, <2>1, <2>2 DEF Museum!WriteCall, Museum!Goto, Steps
<1>2. CASE Museum!WriteLock(w)
  <2>1. Steps(w, "enter", "predicate")
    BY <1>2 DEF Museum!WriteLock, Museum!Goto, Steps
  <2>2. Reading' = Reading /\ Writing' = Writing /\ Waiting' = Waiting + 1
    BY <2>1, CountsAfterStep DEF Change
  <2> QED
    BY <1>2, <2>1, <2>2 DEF Museum!WriteLock, Museum!Goto, Steps
<1>3. CASE Museum!WriteSleeps(w)
  <2>1. Steps(w, "predicate", "asleep")
    BY <1>3 DEF Museum!WriteSleeps, Museum!Goto, Steps
  <2>2. Reading' = Reading /\ Writing' = Writing /\ Waiting' = Waiting
    BY <2>1, CountsAfterStep DEF Change
  <2>3. ~\E v \in Writers : lock_pc[v] \in WritingAt
    BY <1>3 DEF Museum!WriteSleeps, Museum!Goto
  <2>4. MuseumTyped' /\ MuseumHolding'
    BY <1>3, <2>3 DEF Museum!WriteSleeps, Museum!Goto, Museum!MayWrite
  <2>v. UNCHANGED <<readers_, writers_, waiting_writers_>>
    BY <1>3 DEF Museum!WriteSleeps, Museum!MayWrite
  <2>5. Counters' /\ WritesAlone'
    BY <2>2, <2>v
  <2>6. Remembered'
    <3>1. Count(Writers, lock_pc, WritingAt) = 0
      BY <2>3, SyncAssumption, CountZero
    <3>2. readers_ > 0 /\ wait_to_read_' = wait_to_read_
      BY <1>3, <3>1 DEF Museum!WriteSleeps, Museum!MayWrite, Writing
    <3> QED
      BY <2>v, <3>2
  <2> QED
    BY <2>4, <2>5, <2>6
<1>4. CASE Museum!Relock(w)
  <2>1. Steps(w, "relock", "predicate")
    BY <1>4 DEF Museum!Relock, Museum!Goto, Steps
  <2>2. Reading' = Reading /\ Writing' = Writing /\ Waiting' = Waiting
    BY <2>1, CountsAfterStep DEF Change
  <2> QED
    BY <1>4, <2>1, <2>2 DEF Museum!Relock, Museum!Goto, Steps
<1>5. CASE Museum!StartWrite(w)
  <2>1. Steps(w, "predicate", "writing")
    BY <1>5 DEF Museum!StartWrite, Museum!Goto, Steps
  <2>2. Reading' = Reading /\ Writing' = Writing + 1 /\ Waiting' = Waiting - 1
    BY <2>1, CountsAfterStep DEF Change
  <2>4. MuseumTyped' /\ MuseumHolding'
    BY <1>5 DEF Museum!StartWrite, Museum!Goto, Museum!MayWrite
  <2>v. /\ readers_ = 0 /\ writers_ = 0 /\ readers_' = readers_
        /\ writers_' = writers_ + 1 /\ waiting_writers_' = waiting_writers_ - 1
    BY <1>5 DEF Museum!StartWrite, Museum!MayWrite
  <2>5. Counters' /\ WritesAlone'
    BY <2>2, <2>v
  <2>6. Remembered'
    BY <1>5, <2>1, <2>2 DEF Museum!StartWrite, Museum!Goto, Museum!MayWrite, Steps
  <2> QED
    BY <2>4, <2>5, <2>6
<1>6. CASE Museum!Assign(w)
  <2>1. Steps(w, "writing", "written")
    BY <1>6 DEF Museum!Assign, Museum!Goto, Steps
  <2>2. Reading' = Reading /\ Writing' = Writing /\ Waiting' = Waiting
    BY <2>1, CountsAfterStep DEF Change
  <2> QED
    BY <1>6, <2>1, <2>2 DEF Museum!Assign, Museum!Goto, Steps
<1>7. CASE Museum!NotifyWriter(w)
  <2>1. Steps(w, "written", "idle")
    BY <1>7 DEF Museum!NotifyWriter, Museum!Goto, Steps
  <2>2. Reading' = Reading /\ Writing' = Writing - 1 /\ Waiting' = Waiting
    BY <2>1, CountsAfterStep DEF Change
  <2> QED
    BY <1>7, <2>1, <2>2 DEF Museum!NotifyWriter, Museum!Goto, Steps
<1>8. CASE Museum!NotifyReaders(w)
  <2>1. Steps(w, "written", "idle")
    BY <1>8 DEF Museum!NotifyReaders, Museum!Goto, Steps
  <2>2. Reading' = Reading /\ Writing' = Writing - 1 /\ Waiting' = Waiting
    BY <2>1, CountsAfterStep DEF Change
  <2>3. wait_to_write_ = {}
    <3>1. Count(Writers, lock_pc, WaitingAt) = 0
      BY <1>8 DEF Museum!NotifyReaders, Waiting
    <3>2. \A v \in Writers : lock_pc[v] \notin WaitingAt
      BY <3>1, SyncAssumption, CountZero
    <3> QED
      BY <3>2
  <2>4. MuseumTyped' /\ MuseumHolding'
    BY <1>8, <2>3 DEF Museum!NotifyReaders, Museum!Goto
  <2>v. writers_' = writers_ - 1 /\ UNCHANGED <<readers_, waiting_writers_>>
    BY <1>8 DEF Museum!NotifyReaders
  <2>5. Counters' /\ WritesAlone'
    BY <2>2, <2>v
  <2>6. Remembered'
    BY <1>8, <2>1, <2>2, <2>3 DEF Museum!NotifyReaders, Museum!Goto, Steps
  <2> QED
    BY <2>4, <2>5, <2>6
<1>9. CASE Museum!WriterWakes(w)
  <2>1. Steps(w, "asleep", "relock")
    BY <1>9 DEF Museum!WriterWakes, Museum!Goto, Steps
  <2>2. Reading' = Reading /\ Writing' = Writing /\ Waiting' = Waiting
    BY <2>1, CountsAfterStep DEF Change
  <2> QED
    BY <1>9, <2>1, <2>2 DEF Museum!WriterWakes, Museum!Goto, Steps
<1> QED
  BY <1>1, <1>2, <1>3, <1>4, <1>5, <1>6, <1>7, <1>8, <1>9 DEF Museum!writer, Museum!write

(* What a step of MCSync does to the museum.                               *)
LEMMA MuseumAlone == [MCNext]_allVars => [Museum!Next]_(Museum!vars)
<1> SUFFICES ASSUME [MCNext]_allVars PROVE [Museum!Next]_(Museum!vars)
  OBVIOUS
<1> USE DEF museumVars, Museum!vars, allVars
<1> QED
  BY DEF MCNext, Lobby, MuseumRuns, PingRuns, RaceRuns, SpinRuns

LEMMA MuseumInvHolds == MCSpec => []MuseumInv
<1>1. MCInit => MuseumInv
  BY MuseumStarts DEF MCInit
<1>2. MuseumInv /\ [MCNext]_allVars => MuseumInv'
  <2> SUFFICES ASSUME MuseumInv, [Museum!Next]_(Museum!vars) PROVE MuseumInv'
    BY MuseumAlone
  <2>1. CASE UNCHANGED Museum!vars
    BY <2>1 DEF Museum!vars, MuseumInv, MuseumTyped, MuseumHolding, Counters,
       WritesAlone, Remembered, WriterUnderWay, Reading, Writing, Waiting
  <2> QED
    BY <2>1, ReaderKeeps, WriterKeeps DEF Museum!Next
<1> QED
  BY <1>1, <1>2, PTL DEF MCSpec

(* The counters stay in their ranges, no reader sleeps unless a writer is  *)
(* counted, and no writer unless somebody inside or under way will notify  *)
(* it (4_museum_decor.cpp, read and write).                                *)
THEOREM NobodyIsForgotten == MCSpec => []LockInv
<1>1. MuseumInv => LockInv
  <2> SUFFICES ASSUME MuseumInv PROVE LockInv
    OBVIOUS
  <2> USE DEF MuseumInv, MuseumTyped
  <2>1. /\ readers_ \in 0..Cardinality(Readers)
        /\ waiting_writers_ \in 0..Cardinality(Writers)
        /\ writers_ \in 0..1
    BY CountsAreNat, SyncAssumption, FS_CardinalityType DEF Counters, WritesAlone
  <2>2. Museum!TypeOK
    BY <2>1 DEF Museum!TypeOK, Museum!Cardinality, Cardinality
  <2>3. Museum!NoReaderForgotten
    BY DEF Museum!NoReaderForgotten, Remembered
  <2>4. Museum!NoWriterForgotten
    BY DEF Museum!NoWriterForgotten, Remembered, WriterUnderWay, Museum!At
  <2> QED
    BY <2>2, <2>3, <2>4 DEF LockInv, Museum!LockInv
<1> QED
  BY <1>1, MuseumInvHolds, PTL

-----------------------------------------------------------------------------
(* The spinlock                                                            *)

(* The flag is set exactly while one worker is between test_and_set and    *)
(* clear, and what that worker has read is still the counter.              *)
SpinInv ==
  /\ thread_pc \in [Spin!SpinThreads -> {"set", "spin", "read", "write", "clear"}]
  /\ asleep = [x \in {} |-> {}]
  /\ read \in [Spin!SpinThreads -> Nat]
  /\ ctr \in Nat
  /\ \A t \in Spin!SpinThreads :
       /\ thread_pc[t] \in {"read", "write", "clear"} => flag_ = TRUE
       /\ thread_pc[t] = "write" => read[t] = ctr
  /\ \A t, u \in Spin!SpinThreads :
       {thread_pc[t], thread_pc[u]} \subseteq {"read", "write", "clear"} => t = u

SpinKept == InSpin => SpinInv

LEMMA SpinStarts == MCInit => SpinKept
  BY DEF MCInit, SpinKept, InSpin, SpinInv, Spin!Init

LEMMA SpinStep ==
  ASSUME SpinInv, NEW t \in Spin!SpinThreads, Spin!Step(t)
  PROVE  SpinInv'
<1> USE SyncAssumption
    DEF SpinInv, Spin!Move, Spin!Goto, Spin!At, Spin!lockVars
<1>1. CASE Spin!test_and_set(t)
  BY <1>1 DEF Spin!test_and_set
<1>2. CASE Spin!SeenClear(t)
  BY <1>2 DEF Spin!SeenClear
<1>3. CASE Spin!ReadCtr(t)
  BY <1>3 DEF Spin!ReadCtr
<1>4. CASE Spin!WriteCtr(t)
  <2>1. (read[t] + 1) % Wrap \in Nat
    <3>1. Wrap \in Nat \ {0} /\ read[t] + 1 \in Int
      OBVIOUS
    <3> QED
      BY <3>1, RemainderType
  <2> QED
    BY <1>4, <2>1 DEF Spin!WriteCtr
<1>5. CASE Spin!Clear(t)
  BY <1>5 DEF Spin!Clear
<1> QED
  BY <1>1, <1>2, <1>3, <1>4, <1>5 DEF Spin!Step

LEMMA SpinInvHolds == MCSpec => []SpinKept
<1>1. SpinKept /\ [MCNext]_allVars => SpinKept'
  <2> SUFFICES ASSUME SpinKept, [MCNext]_allVars PROVE SpinKept'
    OBVIOUS
  <2>1. CASE UNCHANGED allVars
    BY <2>1 DEF allVars, spinVars, SpinKept, InSpin, SpinInv
  <2>2. ASSUME NEW t \in Spin!SpinThreads, SpinRuns(Spin!Step(t)) PROVE SpinKept'
    BY <2>2, SpinStep DEF SpinRuns, SpinKept, InSpin
  <2>3. CASE ~InSpin
    BY <2>3 DEF MCNext, Lobby, MuseumRuns, PingRuns, RaceRuns, SpinRuns, InSpin,
       allVars, SpinKept
  <2>4. CASE InSpin
    <3>1. \/ UNCHANGED allVars
          \/ \E t \in Spin!SpinThreads : SpinRuns(Spin!Step(t))
      BY <2>4 DEF MCNext, Lobby, MuseumRuns, PingRuns, RaceRuns, SpinRuns, InSpin,
         InLobby, InMuseum, InPing, InRace, Finished
    <3> QED
      BY <2>1, <2>2, <3>1
  <2> QED
    BY <2>3, <2>4
<1> QED
  BY <1>1, SpinStarts, PTL DEF MCSpec

(* No reader copies data_ while a writer assigns to it, no two writers     *)
(* assign to it at once (4_museum_decor.cpp), and no increment made under  *)
(* the spinlock is lost (spinlock.cpp).                                    *)
THEOREM NothingRaces == MCSpec => []NoDataRace
<1>1. MuseumInv /\ SpinKept => NoDataRace
  <2> SUFFICES ASSUME MuseumInv, SpinKept PROVE NoDataRace
    OBVIOUS
  <2>1. ASSUME NEW w \in Writers, lock_pc[w] = "writing",
               NEW r \in Readers, lock_pc[r] = "copying"
        PROVE  FALSE
    <3>1. Writing >= 1 /\ Reading >= 1
      BY <2>1, SyncAssumption, CountPositive
      DEF Writing, Reading, WritingAt, ReadingAt
    <3> QED
      BY <3>1, CountsAreNat DEF MuseumInv, Counters, WritesAlone
  <2>2. \A v, w \in Writers :
          lock_pc[v] = "writing" /\ lock_pc[w] = "writing" => v = w
    BY Visitors DEF MuseumInv, MuseumHolding
  <2>3. Museum!NoDataRace
    BY <2>1, <2>2 DEF Museum!NoDataRace, Museum!At
  <2>4. InSpin => Spin!NoIncrementLost
    BY DEF SpinKept, SpinInv, Spin!NoIncrementLost
  <2> QED
    BY <2>3, <2>4 DEF NoDataRace
<1> QED
  BY <1>1, MuseumInvHolds, SpinInvHolds, PTL

-----------------------------------------------------------------------------
(* The horse race                                                          *)

Sleepers == asleep["barrier"]

(* The horses that take part, and those the barrier still waits for.       *)
Racing == {h \in Race!Horses : thread_pc[h] # "done"}
Arriving == Racing \ Sleepers

(* The barrier counts exactly the horses that it waits for.  So when the   *)
(* last one arrives all others sleep or are gone, and a winner on the      *)
(* track then shown is found by every horse that looks afterwards.         *)
RaceInv ==
  /\ thread_pc \in [Race!Horses -> {"start", "jump", "arrive", "drop", "done"}]
  /\ asleep \in [{"barrier"} -> SUBSET Race!Horses]
  /\ sem = [x \in {"barrier"} |-> Cardinality(Arriving)]
  /\ expected = Cardinality(Racing)
  /\ positions \in [Race!Horses -> Nat]
  /\ shown \in [Race!Horses -> Nat]
  /\ moved = {h \in Race!Horses : thread_pc[h] = "arrive" \/ h \in Sleepers}
  /\ \A h \in Sleepers : thread_pc[h] = "start"
  /\ Race!winner(shown) =>
       /\ positions = shown
       /\ Sleepers = {}
       /\ \A h \in Race!Horses : thread_pc[h] \notin {"jump", "arrive"}

RaceKept == InRace => RaceInv

LEMMA HorsesCounted == IsFiniteSet(Race!Horses) /\ Cardinality(Race!Horses) = horses
<1> DEFINE f == [i \in 1..horses |-> <<"horse", i>>]
<1>0. horses \in Int /\ horses >= 1 /\ 1 \in Int
  BY SyncAssumption
<1>1. IsFiniteSet(1..horses) /\ Cardinality(1..horses) = horses
  <2>1. Cardinality(1..horses) = IF 1 > horses THEN 0 ELSE horses - 1 + 1
    BY <1>0, FS_Interval
  <2> QED
    BY <1>0, <2>1, FS_Interval
<1>2. /\ f \in [1..horses -> Race!Horses]
      /\ \A i, j \in 1..horses : f[i] = f[j] => i = j
      /\ \A h \in Race!Horses : \E i \in 1..horses : f[i] = h
  <2>1. f \in [1..horses -> Race!Horses]
    BY DEF Race!Horses
  <2>2. \A i, j \in 1..horses : f[i] = f[j] => i = j
    OBVIOUS
  <2>3. ASSUME NEW h \in Race!Horses PROVE \E i \in 1..horses : f[i] = h
    <3>1. PICK i \in 1..horses : h = <<"horse", i>>
      BY DEF Race!Horses
    <3> QED
      BY <3>1
  <2> QED
    BY <2>1, <2>2, <2>3
<1> HIDE DEF f
<1>3. ExistsBijection(1..horses, Race!Horses)
  BY <1>2 DEF ExistsBijection, Bijection, Injection, Surjection, IsInjective
<1> QED
  BY <1>1, <1>3, FS_Bijection

LEMMA RacingFinite == IsFiniteSet(Racing) /\ IsFiniteSet(Arriving)
<1>1. Racing \in SUBSET Race!Horses /\ Arriving \in SUBSET Race!Horses
  BY DEF Racing, Arriving
<1> QED
  BY <1>1, HorsesCounted, FS_Subset

LEMMA RaceStarts == Race!Init => RaceInv
<1> SUFFICES ASSUME Race!Init PROVE RaceInv
  OBVIOUS
<1> USE DEF Race!Init
<1>1. Racing = Race!Horses /\ Arriving = Race!Horses
  BY DEF Racing, Arriving, Sleepers
<1>2. ~Race!winner(shown)
  BY SyncAssumption DEF Race!winner
<1> QED
  BY <1>1, <1>2, HorsesCounted, SyncAssumption DEF RaceInv, Sleepers

(* The arrival that completes the phase comes from the only horse that the *)
(* barrier waits for.                                                      *)
LEMMA LastArrival ==
  ASSUME RaceInv, NEW h \in Arriving, Race!CompletesPhase("barrier")
  PROVE  \A u \in Race!Horses : u = h \/ u \in Sleepers \/ thread_pc[u] = "done"
<1>1. Cardinality(Arriving) = 1
  BY DEF RaceInv, Race!CompletesPhase
<1>2. PICK x : Arriving = {x}
  BY <1>1, RacingFinite, FS_Singleton
<1> QED
  BY <1>2 DEF Arriving, Racing

LEMMA RaceStep ==
  ASSUME RaceInv, NEW h \in Race!Horses, Race!Step(h)
  PROVE  RaceInv'
<1> USE SyncAssumption DEF RaceInv, Sleepers
<1>1. CASE Race!LookForWinner(h)
  <2>1. Race!Move(h, "start", IF Race!winner(positions) THEN "drop" ELSE "jump")
    BY <1>1 DEF Race!LookForWinner
  <2>2. UNCHANGED <<sem, asleep, positions, expected, shown, moved>>
    BY <1>1 DEF Race!LookForWinner, Race!Move, Race!raceVars
  <2>3. Racing' = Racing /\ Arriving' = Arriving
    BY <2>1, <2>2 DEF Racing, Arriving, Race!Move, Race!Goto, Race!At
  <2>4. Race!winner(shown)' <=> Race!winner(shown)
    BY <2>2 DEF Race!winner
  <2> QED
    BY <2>1, <2>2, <2>3, <2>4 DEF Race!Move, Race!Goto, Race!At, Race!Awake
<1>2. CASE Race!Jump(h)
  <2>1. /\ Race!Move(h, "jump", "arrive")
        /\ UNCHANGED <<sem, asleep, expected, shown>>
        /\ moved' = moved \cup {h}
        /\ positions' \in [Race!Horses -> Nat]
    BY <1>2 DEF Race!Jump, Race!Move, Race!Capped
  <2>2. Racing' = Racing /\ Arriving' = Arriving
    BY <2>1 DEF Racing, Arriving, Race!Move, Race!Goto, Race!At
  <2>3. Race!winner(shown)' <=> Race!winner(shown)
    BY <2>1 DEF Race!winner
  <2> QED
    BY <2>1, <2>2, <2>3 DEF Race!Move, Race!Goto, Race!At, Race!Awake
<1>3. CASE Race!ArriveAndWait(h)
  <2>1. /\ thread_pc[h] = "arrive" /\ h \notin Sleepers
        /\ thread_pc' = [thread_pc EXCEPT ![h] = "start"]
        /\ expected' = expected /\ positions' = positions
    BY <1>3 DEF Race!ArriveAndWait, Race!arrive_and_wait, Race!Goto, Race!At,
       Race!Awake, Race!Show
  <2>2. h \in Arriving /\ Racing' = Racing
    BY <2>1 DEF Racing, Arriving
  <2>3. CASE Race!CompletesPhase("barrier")
    <3>1. /\ sem' = [sem EXCEPT !["barrier"] = expected]
          /\ asleep' = [asleep EXCEPT !["barrier"] = {}]
          /\ shown' = positions /\ moved' = {}
      BY <1>3, <2>3 DEF Race!ArriveAndWait, Race!arrive_and_wait, Race!OpenPhase,
         Race!WakeAll, Race!Show
    <3>2. Sleepers' = {} /\ Arriving' = Racing
      BY <2>2, <3>1 DEF Arriving
    <3>3. \A u \in Race!Horses : thread_pc'[u] \in {"start", "done"}
      BY <2>1, <2>2, <2>3, LastArrival
    <3> QED
      BY <2>1, <2>2, <3>1, <3>2, <3>3
  <2>4. CASE ~Race!CompletesPhase("barrier")
    <3>1. /\ sem' = [sem EXCEPT !["barrier"] = @ - 1]
          /\ asleep' = [asleep EXCEPT !["barrier"] = @ \cup {h}]
          /\ shown' = shown /\ moved' = moved
      BY <1>3, <2>4 DEF Race!ArriveAndWait, Race!arrive_and_wait, Race!AwaitPhase,
         Race!Show
    <3>2. Sleepers' = Sleepers \cup {h} /\ Arriving' = Arriving \ {h}
      BY <2>2, <3>1 DEF Arriving
    <3>3. Cardinality(Arriving') = Cardinality(Arriving) - 1
      BY <2>2, <3>2, RacingFinite, FS_RemoveElement
    <3>4. ~Race!winner(shown)' /\ ~Race!winner(shown)
      BY <2>1, <3>1 DEF Race!winner
    <3>5. sem' = [x \in {"barrier"} |-> Cardinality(Arriving')]
      BY <3>1, <3>3
    <3>6. moved' = {u \in Race!Horses : thread_pc'[u] = "arrive" \/ u \in Sleepers'}
      BY <2>1, <3>1, <3>2
    <3>7. asleep' \in [{"barrier"} -> SUBSET Race!Horses]
      BY <3>1
    <3>8. \A u \in Sleepers' : thread_pc'[u] = "start"
      BY <2>1, <3>2
    <3>9. shown' \in [Race!Horses -> Nat] /\ expected' = Cardinality(Racing')
      BY <2>1, <2>2, <3>1
    <3>10. thread_pc' \in [Race!Horses -> {"start", "jump", "arrive", "drop", "done"}]
      BY <2>1
    <3>11. positions' \in [Race!Horses -> Nat]
      BY <2>1
    <3> QED
      BY <3>4, <3>5, <3>6, <3>7, <3>8, <3>9, <3>10, <3>11
  <2> QED
    BY <2>3, <2>4
<1>4. CASE Race!ArriveAndDrop(h)
  <2>1. /\ thread_pc[h] = "drop" /\ h \notin Sleepers
        /\ thread_pc' = [thread_pc EXCEPT ![h] = "done"]
        /\ expected' = expected - 1 /\ positions' = positions
    BY <1>4 DEF Race!ArriveAndDrop, Race!arrive, Race!Goto, Race!At, Race!Awake,
       Race!Show
  <2>2. h \in Racing /\ h \in Arriving /\ Racing' = Racing \ {h}
    BY <2>1 DEF Racing, Arriving
  <2>3. Cardinality(Racing') = Cardinality(Racing) - 1
    BY <2>2, RacingFinite, FS_RemoveElement
  <2>4. CASE Race!CompletesPhase("barrier")
    <3>1. /\ sem' = [sem EXCEPT !["barrier"] = expected - 1]
          /\ asleep' = [asleep EXCEPT !["barrier"] = {}]
          /\ shown' = positions /\ moved' = {}
      BY <1>4, <2>4 DEF Race!ArriveAndDrop, Race!arrive, Race!OpenPhase,
         Race!WakeAll, Race!Show
    <3>2. Sleepers' = {} /\ Arriving' = Racing'
      BY <3>1 DEF Arriving
    <3>3. \A u \in Race!Horses : thread_pc'[u] \in {"start", "done"}
      BY <2>1, <2>2, <2>4, LastArrival
    <3>4. expected - 1 = Cardinality(Racing')
      BY <2>1, <2>3
    <3>5. sem' = [x \in {"barrier"} |-> Cardinality(Arriving')]
      BY <3>1, <3>2, <3>4
    <3>6. Race!winner(shown)' => positions' = shown'
      BY <2>1, <3>1
    <3> QED
      BY <2>1, <2>3, <3>1, <3>2, <3>3, <3>5, <3>6
  <2>5. CASE ~Race!CompletesPhase("barrier")
    <3>1. /\ sem' = [sem EXCEPT !["barrier"] = @ - 1]
          /\ UNCHANGED <<asleep, shown, moved>>
      BY <1>4, <2>5 DEF Race!ArriveAndDrop, Race!arrive, Race!Show
    <3>2. Arriving' = Arriving \ {h}
      BY <2>2, <3>1 DEF Arriving
    <3>3. Cardinality(Arriving') = Cardinality(Arriving) - 1
      BY <2>2, <3>2, RacingFinite, FS_RemoveElement
    <3>4. Race!winner(shown)' <=> Race!winner(shown)
      BY <3>1 DEF Race!winner
    <3> QED
      BY <2>1, <2>3, <3>1, <3>3, <3>4
  <2> QED
    BY <2>4, <2>5
<1> QED
  BY <1>1, <1>2, <1>3, <1>4 DEF Race!Step

LEMMA RaceInvHolds == MCSpec => []RaceKept
<1>1. MCInit => RaceKept
  BY RaceStarts DEF MCInit, RaceKept, InRace
<1>2. RaceKept /\ [MCNext]_allVars => RaceKept'
  <2> SUFFICES ASSUME RaceKept, [MCNext]_allVars PROVE RaceKept'
    OBVIOUS
  <2>1. CASE UNCHANGED allVars
    BY <2>1 DEF allVars, raceVars, RaceKept, InRace, RaceInv, Sleepers, Racing,
       Arriving, Race!winner
  <2>2. ASSUME NEW h \in Race!Horses, RaceRuns(Race!Step(h)) PROVE RaceKept'
    BY <2>2, RaceStep DEF RaceRuns, RaceKept, InRace
  <2>3. CASE ~InRace
    BY <2>3 DEF MCNext, Lobby, MuseumRuns, PingRuns, RaceRuns, SpinRuns, InRace,
       allVars, RaceKept
  <2>4. CASE InRace
    <3>1. \/ UNCHANGED allVars
          \/ \E h \in Race!Horses : RaceRuns(Race!Step(h))
      BY <2>4 DEF MCNext, Lobby, MuseumRuns, PingRuns, RaceRuns, SpinRuns, InRace,
         InLobby, InMuseum, InPing, InSpin, Finished
    <3> QED
      BY <2>1, <2>2, <3>1
  <2> QED
    BY <2>3, <2>4
<1> QED
  BY <1>1, <1>2, PTL DEF MCSpec

(* After the picture that shows a winner no horse moves, although every    *)
(* horse looks for itself and at its own time (2_horse_race.cpp, main).    *)
THEOREM RaceEnds == MCSpec => []RaceOver
<1>1. RaceKept => RaceOver
  BY DEF RaceKept, RaceInv, RaceOver, Race!RaceOver, Sleepers
<1> QED
  BY <1>1, RaceInvHolds, PTL

-----------------------------------------------------------------------------
(* The reusable barrier                                                    *)
(*                                                                         *)
(* The key of the inductive invariant is what each player knows of the     *)
(* generation: one that is outside has passed exactly as many rounds as    *)
(* generations were opened, one that waits is at most one generation       *)
(* behind.  All players being counted then means all have arrived.         *)

Types ==
  /\ current_ \in Nat
  /\ gen_ctr_ \in Nat
  /\ mtx_ \in Players \cup {NoOne}
  /\ cv_ \in SUBSET Players
  /\ pc \in [Players -> Locations]
  /\ orig_gen \in [Players -> Nat]
  /\ round \in [Players -> Nat]
  /\ gen_ctr_ <= rounds

(* The mutex is held exactly between the steps that take and release it,   *)
(* and a player is in the wait set exactly while it sleeps.                *)
Holding ==
  /\ \A p \in Players : pc[p] \in {"counted", "predicate", "leave"} <=> mtx_ = p
  /\ cv_ = {p \in Players : pc[p] = "asleep"}

(* What each player knows of the generation, wherever it stands.           *)
Generation ==
  \A p \in Players :
    /\ 1 <= round[p] /\ round[p] <= rounds + 1
    /\ pc[p] \notin {"loop", "done"} => round[p] <= rounds
    /\ pc[p] \in {"loop", "arrive", "done"} => gen_ctr_ = round[p] - 1
    /\ pc[p] = "leave" => gen_ctr_ = round[p] /\ orig_gen[p] = round[p] - 1
    /\ p \in Inside => /\ orig_gen[p] = round[p] - 1
                       /\ gen_ctr_ \in {orig_gen[p], orig_gen[p] + 1}
    /\ pc[p] \in {"counted", "asleep"} => orig_gen[p] = gen_ctr_
    /\ orig_gen[p] <= rounds

Waiters == {p \in Inside : orig_gen[p] = gen_ctr_}

IInv == Types /\ Holding /\ Generation /\ CurrentCountsWaiters

LEMMA WaitersFinite == IsFiniteSet(Players) /\ IsFiniteSet(Waiters)
BY LobbyAssumption, FS_Subset DEF Waiters, Inside

(* When current_ reaches total_, every player has arrived for the          *)
(* generation that is about to be closed.                                  *)
LEMMA AllHaveArrived == IInv /\ current_ = total_ => Waiters = Players
<1> SUFFICES ASSUME IInv, current_ = total_ PROVE Waiters = Players
  OBVIOUS
<1>1. Waiters \in SUBSET Players
  BY DEF Waiters, Inside
<1>2. Cardinality(Players) = Cardinality(Waiters)
  BY DEF IInv, CurrentCountsWaiters, Waiters, total_
<1> QED
  BY <1>1, <1>2, WaitersFinite, FS_Subset

LEMMA InitIInv == Init => IInv
<1> SUFFICES ASSUME Init PROVE IInv
  OBVIOUS
<1>1. Waiters = {}
  BY DEF Init, Waiters, Inside
<1>2. Cardinality({}) = 0
  BY FS_EmptySet
<1>3. CurrentCountsWaiters
  BY <1>1, <1>2 DEF Init, CurrentCountsWaiters, Waiters
<1> QED
  BY <1>3, LobbyAssumption
  DEF Init, IInv, Types, Holding, Generation, Inside, Locations

LEMMA StepIInv == IInv /\ [Next]_vars => IInv'
<1> SUFFICES ASSUME IInv, [Next]_vars PROVE IInv'
  OBVIOUS
<1> USE LobbyAssumption
    DEF IInv, Types, Holding, Generation, Inside, Locations, Goto
<1>c. CurrentCountsWaiters <=> current_ = Cardinality(Waiters)
  BY DEF CurrentCountsWaiters, Waiters
<1>d. CurrentCountsWaiters' <=> current_' = Cardinality(Waiters')
  BY DEF CurrentCountsWaiters, Waiters
<1>1. ASSUME NEW p \in Players, Arrive(p) PROVE IInv'
  <2>1. p \notin Waiters /\ Waiters' = Waiters \cup {p}
    BY <1>1 DEF Arrive, Waiters
  <2>2. Cardinality(Waiters') = Cardinality(Waiters) + 1
    BY <2>1, WaitersFinite, FS_AddElement
  <2>3. CurrentCountsWaiters'
    BY <1>1, <2>2, <1>c, <1>d DEF Arrive
  <2>4. Types' /\ Holding' /\ Generation'
    BY <1>1 DEF Arrive
  <2> QED
    BY <2>3, <2>4
<1>2. ASSUME NEW p \in Players, Open(p) PROVE IInv'
  <2>1. \A q \in Players : q \in Inside /\ orig_gen[q] = gen_ctr_
    BY <1>2, AllHaveArrived DEF Open, Waiters
  <2>2. gen_ctr_' = gen_ctr_ + 1 /\ orig_gen' = orig_gen /\ round' = round
    BY <1>2 DEF Open
  <2>3. Waiters' = {}
    BY <2>1, <2>2 DEF Waiters
  <2>4. CurrentCountsWaiters'
    BY <1>2, <2>3, <1>d, FS_EmptySet DEF Open
  <2>5. Types'
    BY <1>2, <2>1, <2>2 DEF Open
  <2>6. Holding'
    BY <1>2, <2>1 DEF Open
  <2>7. Generation'
    BY <1>2, <2>1, <2>2 DEF Open
  <2> QED
    BY <2>4, <2>5, <2>6, <2>7
<1>3. ASSUME NEW p \in Players, BeginWait(p) PROVE IInv'
  <2>1. Waiters' = Waiters
    BY <1>3 DEF BeginWait, Waiters
  <2> QED
    BY <1>3, <2>1, <1>c, <1>d DEF BeginWait
<1>4. ASSUME NEW p \in Players, Sleep(p) PROVE IInv'
  <2>1. Waiters' = Waiters
    BY <1>4 DEF Sleep, Waiters
  <2> QED
    BY <1>4, <2>1, <1>c, <1>d DEF Sleep
<1>5. ASSUME NEW p \in Players, Wake(p) PROVE IInv'
  <2>1. Waiters' = Waiters
    BY <1>5 DEF Wake, Waiters
  <2> QED
    BY <1>5, <2>1, <1>c, <1>d DEF Wake
<1>6. ASSUME NEW p \in Players, Relock(p) PROVE IInv'
  <2>1. Waiters' = Waiters
    BY <1>6 DEF Relock, Waiters
  <2> QED
    BY <1>6, <2>1, <1>c, <1>d DEF Relock
<1>7. ASSUME NEW p \in Players, EndWait(p) PROVE IInv'
  <2>1. Waiters' = Waiters
    BY <1>7 DEF EndWait, Waiters
  <2> QED
    BY <1>7, <2>1, <1>c, <1>d DEF EndWait
<1>8. ASSUME NEW p \in Players, NextRound(p) PROVE IInv'
  <2>1. Waiters' = Waiters
    BY <1>8 DEF NextRound, Waiters
  <2> QED
    BY <1>8, <2>1, <1>c, <1>d DEF NextRound
<1>9. ASSUME NEW p \in Players, Leave(p) PROVE IInv'
  <2>1. Waiters' = Waiters
    BY <1>9 DEF Leave, Waiters
  <2> QED
    BY <1>9, <2>1, <1>c, <1>d DEF Leave
<1>10. ASSUME NEW p \in Players, PlayerEnds(p) PROVE IInv'
  <2>1. Waiters' = Waiters
    BY <1>10 DEF PlayerEnds, Waiters
  <2> QED
    BY <1>10, <2>1, <1>c, <1>d DEF PlayerEnds
<1>11. CASE UNCHANGED vars
  <2>1. Waiters' = Waiters
    BY <1>11 DEF vars, Waiters
  <2> QED
    BY <1>11, <2>1, <1>c, <1>d DEF vars
<1> QED
  BY <1>1, <1>2, <1>3, <1>4, <1>5, <1>6, <1>7, <1>8, <1>9, <1>10, <1>11
  DEF Next, player, arrive_and_wait, AllJoined

LEMMA IInvHolds == Spec => []IInv
  BY InitIInv, StepIInv, PTL DEF Spec

(* Every variable stays in its range: in particular current_ never passes  *)
(* the number of players, beyond which the barrier would never open        *)
(* (5_game_lobby.cpp, arrive_and_wait).                                    *)
THEOREM TypeCorrect == Spec => []TypeOK
<1>1. IInv => TypeOK
  <2> SUFFICES ASSUME IInv PROVE TypeOK
    OBVIOUS
  <2>1. Waiters \in SUBSET Players
    BY DEF Waiters, Inside
  <2>2. Cardinality(Waiters) <= Cardinality(Players) /\ Cardinality(Players) \in Nat
    BY <2>1, WaitersFinite, FS_Subset, FS_CardinalityType
  <2>3. current_ \in 0..total_
    BY <2>2 DEF IInv, Types, CurrentCountsWaiters, Waiters, total_
  <2>4. \A p \in Players : orig_gen[p] \in 0..rounds /\ round[p] \in 1..(rounds + 1)
    BY LobbyAssumption DEF IInv, Types, Generation
  <2> QED
    BY <2>3, <2>4, LobbyAssumption DEF IInv, Types, TypeOK
<1> QED
  BY <1>1, IInvHolds, PTL

(* No player sleeps through the opening of its generation, although a      *)
(* faster one may already be waiting for the next.                         *)
THEOREM NobodyIsLeftBehind == Spec => []NobodyLeftBehind
<1>1. IInv => NobodyLeftBehind
  BY DEF IInv, Types, Holding, Generation, NobodyLeftBehind
<1> QED
  BY <1>1, IInvHolds, PTL

(* current_ counts the players waiting for the open generation, no others. *)
THEOREM CurrentIsExact == Spec => []CurrentCountsWaiters
<1>1. IInv => CurrentCountsWaiters
  BY DEF IInv
<1> QED
  BY <1>1, IInvHolds, PTL

-----------------------------------------------------------------------------
(* arrive_and_wait implements the barrier for any number of players: a     *)
(* round's work starts only after everybody's arrival for it.              *)
THEOREM Refinement == Spec => RefinesBarrier
<1> USE LobbyAssumption DEF Arrived, Passed
<1>1. Init => Abstract!BarrierInit
  BY DEF Init, Inside, Abstract!BarrierInit
<1>2. IInv /\ [Next]_vars => [Abstract!BarrierNext]_Abstract!barrierVars
  <2> SUFFICES ASSUME IInv, [Next]_vars
               PROVE [Abstract!BarrierNext]_Abstract!barrierVars
    OBVIOUS
  <2> USE DEF IInv, Types, Holding, Generation, Inside, Locations, Goto
  <2>1. ASSUME NEW p \in Players, Arrive(p) PROVE Abstract!Arrive(p)
    <3>1. /\ Arrived(p) = Passed(p) /\ Arrived(p)' = Arrived(p) + 1
          /\ \A q \in Players \ {p} : Arrived(q)' = Arrived(q)
          /\ \A q \in Players : Passed(q)' = Passed(q)
      BY <2>1 DEF Arrive
    <3> QED
      BY <3>1 DEF Abstract!Arrive
  <2>2. ASSUME NEW p \in Players, Open(p) PROVE Abstract!Pass(p)
    <3>1. \A q \in Players : q \in Inside /\ orig_gen[q] = gen_ctr_
      BY <2>2, AllHaveArrived DEF Open, Waiters
    <3>2. \A q \in Players : Arrived(q) = gen_ctr_ + 1 /\ Arrived(q)' = Arrived(q)
      BY <2>2, <3>1 DEF Open
    <3>3. /\ Passed(p) < Arrived(p) /\ Passed(p)' = Passed(p) + 1
          /\ \A q \in Players \ {p} : Passed(q)' = Passed(q)
      BY <2>2, <3>1 DEF Open
    <3> QED
      BY <3>2, <3>3 DEF Abstract!Pass
  <2>3. ASSUME NEW p \in Players, EndWait(p) PROVE Abstract!Pass(p)
    <3>1. \A q \in Players : Arrived(p) <= Arrived(q) /\ Arrived(q)' = Arrived(q)
      BY <2>3 DEF EndWait
    <3>2. /\ Passed(p) < Arrived(p) /\ Passed(p)' = Passed(p) + 1
          /\ \A q \in Players \ {p} : Passed(q)' = Passed(q)
      BY <2>3 DEF EndWait
    <3> QED
      BY <3>1, <3>2 DEF Abstract!Pass
  <2>4. ASSUME NEW p \in Players,
               BeginWait(p) \/ Sleep(p) \/ Wake(p) \/ Relock(p) \/ NextRound(p)
                 \/ Leave(p) \/ PlayerEnds(p)
        PROVE  UNCHANGED Abstract!barrierVars
    <3>1. \A q \in Players : Arrived(q)' = Arrived(q) /\ Passed(q)' = Passed(q)
      BY <2>4 DEF BeginWait, Sleep, Wake, Relock, NextRound, Leave, PlayerEnds
    <3> QED
      BY <3>1 DEF Abstract!barrierVars
  <2>5. CASE UNCHANGED vars
    BY <2>5 DEF vars, Abstract!barrierVars
  <2> QED
    BY <2>1, <2>2, <2>3, <2>4, <2>5
    DEF Next, player, arrive_and_wait, AllJoined, Abstract!BarrierNext
<1> QED
  BY <1>1, <1>2, IInvHolds, PTL DEF Spec, RefinesBarrier, Abstract!BarrierSpec

(* What is proved of the lobby alone holds of it among the programs that   *)
(* MCSync runs: the others leave its variables as they are.                *)
LEMMA LobbyAlone == MCSpec => Spec
<1>1. MCInit => Init
  BY DEF MCInit
<1>2. [MCNext]_allVars => [Next]_vars
  BY DEF MCNext, allVars, Lobby, MuseumRuns, PingRuns, RaceRuns, SpinRuns
<1> QED
  BY <1>1, <1>2, PTL DEF MCSpec, Spec
=============================================================================
