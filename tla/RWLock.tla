------------------------------- MODULE RWLock -------------------------------
(***************************************************************************)
(* cpp/problems/4_museum_decor.cpp: the write-preferring reader-writer     *)
(* lock around data_.  A reader holds the mutex only while it enters and   *)
(* while it leaves; between the two it copies data_ unprotected.  A writer *)
(* holds the mutex from the end of its wait until its write is over.       *)
(*                                                                         *)
(* main lets each reader read three times and each writer write twice.     *)
(* Here a reader may come back any number of times or stop, which covers   *)
(* that and the visitors of PROBLEMS.md that keep on arriving.             *)
(***************************************************************************)
EXTENDS Naturals, FiniteSets

CONSTANTS
  Readers, Writers,
  Writes,      \* how often each writer writes
  NoOne

Threads == Readers \cup Writers

VARIABLES
  data_,                             \* [writer -> how often it has written]
  mtx_,
  wait_to_read_, wait_to_write_,     \* the threads asleep
  readers_, writers_, waiting_writers_,
  pc

vars == <<data_, mtx_, wait_to_read_, wait_to_write_, readers_, writers_,
          waiting_writers_, pc>>

counters == <<readers_, writers_, waiting_writers_>>

Locations ==
  {"idle", "enter", "predicate", "asleep", "relock", "copying", "leave",
   "writing", "written"}

(* The types, and the ranges: a counter that fell below zero would read as *)
(* true in the predicates and shut the lock for ever.                      *)
TypeOK ==
  /\ data_ \in [Writers -> 0..Writes]
  /\ mtx_ \in Threads \cup {NoOne}
  /\ wait_to_read_ \in SUBSET Readers
  /\ wait_to_write_ \in SUBSET Writers
  /\ readers_ \in 0..Cardinality(Readers)
  /\ writers_ \in 0..1
  /\ waiting_writers_ \in 0..Cardinality(Writers)
  /\ pc \in [Threads -> Locations]

Init ==
  /\ data_ = [w \in Writers |-> 0]
  /\ mtx_ = NoOne
  /\ wait_to_read_ = {} /\ wait_to_write_ = {}
  /\ readers_ = 0 /\ writers_ = 0 /\ waiting_writers_ = 0
  /\ pc = [t \in Threads |-> "idle"]

Goto(t, from, to) == pc[t] = from /\ pc' = [pc EXCEPT ![t] = to]

Acquire(t) == mtx_ = NoOne /\ mtx_' = t

Release == mtx_' = NoOne

Relock(t) ==              \* the end of a wait, before its predicate
  /\ Goto(t, "relock", "predicate")
  /\ Acquire(t)
  /\ UNCHANGED <<data_, wait_to_read_, wait_to_write_, counters>>

-----------------------------------------------------------------------------
(* read                                                                    *)

ReadCall(r) ==
  /\ Goto(r, "idle", "enter")
  /\ UNCHANGED <<data_, mtx_, wait_to_read_, wait_to_write_, counters>>

ReadLock(r) ==
  /\ Goto(r, "enter", "predicate")
  /\ Acquire(r)
  /\ UNCHANGED <<data_, wait_to_read_, wait_to_write_, counters>>

MayRead == waiting_writers_ = 0 /\ writers_ = 0

ReadSleeps(r) ==
  /\ Goto(r, "predicate", "asleep")
  /\ ~MayRead
  /\ wait_to_read_' = wait_to_read_ \cup {r}
  /\ Release
  /\ UNCHANGED <<data_, wait_to_write_, counters>>

ReaderWakes(r) ==         \* spurious
  /\ Goto(r, "asleep", "relock")
  /\ wait_to_read_' = wait_to_read_ \ {r}
  /\ UNCHANGED <<data_, mtx_, wait_to_write_, counters>>

EnterPastWriters(r) ==    \* faulty: only a running write keeps readers out
  /\ Goto(r, "predicate", "copying")
  /\ writers_ = 0
  /\ readers_' = readers_ + 1
  /\ Release
  /\ UNCHANGED <<data_, wait_to_read_, wait_to_write_, writers_, waiting_writers_>>

Enter(r) ==
  /\ Goto(r, "predicate", "copying")
  /\ MayRead
  /\ readers_' = readers_ + 1
  /\ Release
  /\ UNCHANGED <<data_, wait_to_read_, wait_to_write_, writers_, waiting_writers_>>

Copy(r) ==                \* T ret = data_; the value is not recorded
  /\ Goto(r, "copying", "leave")
  /\ UNCHANGED <<data_, mtx_, wait_to_read_, wait_to_write_, counters>>

(* The second locked block: the last reader notifies one writer.           *)
LeaveSilently(r) ==       \* faulty: no notification
  /\ Goto(r, "leave", "idle")
  /\ mtx_ = NoOne
  /\ readers_' = readers_ - 1
  /\ UNCHANGED <<data_, mtx_, wait_to_read_, wait_to_write_, writers_,
                 waiting_writers_>>

Leave(r) ==
  /\ pc[r] = "leave"
  /\ mtx_ = NoOne
  /\ readers_' = readers_ - 1
  /\ IF readers_ = 1 /\ wait_to_write_ # {}
       THEN \E w \in wait_to_write_ :
              /\ pc' = [pc EXCEPT ![r] = "idle", ![w] = "relock"]
              /\ wait_to_write_' = wait_to_write_ \ {w}
       ELSE /\ pc' = [pc EXCEPT ![r] = "idle"]
            /\ UNCHANGED wait_to_write_
  /\ UNCHANGED <<data_, mtx_, wait_to_read_, writers_, waiting_writers_>>

-----------------------------------------------------------------------------
(* write                                                                   *)

WriteCall(w) ==
  /\ data_[w] < Writes
  /\ Goto(w, "idle", "enter")
  /\ UNCHANGED <<data_, mtx_, wait_to_read_, wait_to_write_, counters>>

WriteLock(w) ==
  /\ Goto(w, "enter", "predicate")
  /\ Acquire(w)
  /\ waiting_writers_' = waiting_writers_ + 1
  /\ UNCHANGED <<data_, wait_to_read_, wait_to_write_, readers_, writers_>>

MayWrite == readers_ = 0 /\ writers_ = 0

WriteSleeps(w) ==
  /\ Goto(w, "predicate", "asleep")
  /\ ~MayWrite
  /\ wait_to_write_' = wait_to_write_ \cup {w}
  /\ Release
  /\ UNCHANGED <<data_, wait_to_read_, counters>>

WriterWakes(w) ==         \* spurious
  /\ Goto(w, "asleep", "relock")
  /\ wait_to_write_' = wait_to_write_ \ {w}
  /\ UNCHANGED <<data_, mtx_, wait_to_read_, counters>>

StartWriteUnchecked(w) == \* faulty: wait without its predicate
  /\ Goto(w, "predicate", "writing")
  /\ waiting_writers_' = waiting_writers_ - 1
  /\ writers_' = writers_ + 1
  /\ UNCHANGED <<data_, mtx_, wait_to_read_, wait_to_write_, readers_>>

StartWrite(w) ==
  /\ Goto(w, "predicate", "writing")
  /\ MayWrite
  /\ waiting_writers_' = waiting_writers_ - 1
  /\ writers_' = writers_ + 1
  /\ UNCHANGED <<data_, mtx_, wait_to_read_, wait_to_write_, readers_>>

Assign(w) ==              \* data_ = std::move(data)
  /\ Goto(w, "writing", "written")
  /\ data_' = [data_ EXCEPT ![w] = @ + 1]
  /\ UNCHANGED <<mtx_, wait_to_read_, wait_to_write_, counters>>

(* The last statements: the next writer if one waits, else all readers.    *)
NotifyWriter(w) ==
  /\ pc[w] = "written"
  /\ waiting_writers_ > 0
  /\ writers_' = writers_ - 1
  /\ IF wait_to_write_ # {}
       THEN \E v \in wait_to_write_ :
              /\ pc' = [pc EXCEPT ![w] = "idle", ![v] = "relock"]
              /\ wait_to_write_' = wait_to_write_ \ {v}
       ELSE /\ pc' = [pc EXCEPT ![w] = "idle"]
            /\ UNCHANGED wait_to_write_
  /\ Release
  /\ UNCHANGED <<data_, wait_to_read_, readers_, waiting_writers_>>

NotifyReaders(w) ==
  /\ pc[w] = "written"
  /\ waiting_writers_ = 0
  /\ writers_' = writers_ - 1
  /\ pc' = [t \in Threads |-> IF t = w THEN "idle"
                              ELSE IF t \in wait_to_read_ THEN "relock" ELSE pc[t]]
  /\ wait_to_read_' = {}
  /\ Release
  /\ UNCHANGED <<data_, wait_to_write_, readers_, waiting_writers_>>

-----------------------------------------------------------------------------

read(r) ==
  \/ ReadLock(r) \/ ReadSleeps(r) \/ Relock(r) \/ Enter(r) \/ Copy(r) \/ Leave(r)

write(w) ==
  \/ WriteLock(w) \/ WriteSleeps(w) \/ Relock(w) \/ StartWrite(w) \/ Assign(w)
  \/ NotifyWriter(w) \/ NotifyReaders(w)

reader(r) == ReadCall(r) \/ read(r)

writer(w) == WriteCall(w) \/ write(w)

Next ==
  \/ \E r \in Readers : reader(r) \/ ReaderWakes(r)
  \/ \E w \in Writers : writer(w) \/ WriterWakes(w)

Spec == Init /\ [][Next]_vars
-----------------------------------------------------------------------------
(* Properties                                                              *)

At(S, locs) == {t \in S : pc[t] \in locs}

(* The unprotected copy of data_ never overlaps a write, nor do two writes *)
(* overlap.                                                                *)
NoDataRace ==
  /\ At(Writers, {"writing"}) # {} => At(Readers, {"copying"}) = {}
  /\ \A v, w \in At(Writers, {"writing"}) : v = w

(* A reader sleeps only while a writer is counted as waiting or writing:   *)
(* the last writer of a row has woken all readers, and those that came     *)
(* later did not sleep.                                                    *)
NoReaderForgotten ==
  wait_to_read_ # {} => waiting_writers_ > 0 \/ writers_ > 0

(* While a writer sleeps, a reader is still inside, or some writer is      *)
(* awake and will notify the next one.                                     *)
NoWriterForgotten ==
  wait_to_write_ # {} =>
    readers_ > 0 \/ At(Writers, {"relock", "predicate", "writing", "written"}) # {}

(* The state is well typed, at most one writer is counted as writing, and  *)
(* no sleeping reader or writer is forgotten.                              *)
LockInv == TypeOK /\ NoReaderForgotten /\ NoWriterForgotten

Counted(w) == pc[w] \in {"predicate", "asleep", "relock"}
=============================================================================
