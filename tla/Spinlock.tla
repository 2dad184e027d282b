------------------------------- MODULE Spinlock -------------------------------
(***************************************************************************)
(* cpp/libs/spinlock.cpp: a test-and-test-and-set lock and the workers     *)
(* that count under it.  test_and_set acquires what clear released, so the *)
(* counter needs no more than the lock; the relaxed test in between only   *)
(* decides when to try again.                                              *)
(***************************************************************************)
EXTENDS Threading

CONSTANTS
  Workers,     \* how many (4)
  Wrap         \* bound: ctr is counted modulo Wrap

VARIABLES
  flag_,
  ctr,
  read         \* [worker -> what ctr++ has read]

lockVars == <<flag_, ctr, read>>
vars == <<threadVars, lockVars>>

SpinThreads == {"worker"} \X (1..Workers)

Init ==
  /\ pc = [t \in SpinThreads |-> "set"]
  /\ sem = [s \in {} |-> 0]
  /\ asleep = [c \in {} |-> {}]
  /\ flag_ = FALSE /\ ctr = 0
  /\ read = [t \in SpinThreads |-> 0]

test_and_set(t) ==
  /\ Move(t, "set", IF flag_ THEN "spin" ELSE "read")
  /\ flag_' = TRUE
  /\ UNCHANGED <<ctr, read>>

EntersOnTest(t) ==     \* faulty: enters once the flag was seen clear
  ~flag_ /\ Move(t, "spin", "read") /\ UNCHANGED lockVars

SeenClear(t) == ~flag_ /\ Move(t, "spin", "set") /\ UNCHANGED lockVars

ReadCtr(t) ==          \* ctr++ under the guard
  /\ Move(t, "read", "write")
  /\ read' = [read EXCEPT ![t] = ctr]
  /\ UNCHANGED <<flag_, ctr>>

WriteCtr(t) ==
  /\ Move(t, "write", "clear")
  /\ ctr' = (read[t] + 1) % Wrap
  /\ read' = [read EXCEPT ![t] = 0]
  /\ UNCHANGED flag_

Clear(t) ==
  /\ Move(t, "clear", "set")
  /\ flag_' = FALSE
  /\ UNCHANGED <<ctr, read>>

Step(t) ==
  /\ t \in SpinThreads
  /\ test_and_set(t) \/ SeenClear(t) \/ ReadCtr(t) \/ WriteCtr(t) \/ Clear(t)

-----------------------------------------------------------------------------
(* No increment is lost: nobody writes ctr between a worker's read and its *)
(* write.                                                                  *)
NoIncrementLost ==
  \A t \in DOMAIN read : pc[t] = "write" => read[t] = ctr
=============================================================================
