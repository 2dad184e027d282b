--------------------------- MODULE CancellationPool ---------------------------
(***************************************************************************)
(* cpp/problems/7_thread_pool/5_cancellation.cpp: one jthread per task,    *)
(* which runs its task again and again until its own stop token or the     *)
(* pool's is stopped.  main stops some workers one by one, perhaps all     *)
(* that are left, reads the counters that the tasks of stopped workers     *)
(* count in, and leaves the rest to the destructors: of threads_ first,    *)
(* each jthread stopping and joining its thread, then of global_stop_ and  *)
(* of tasks_.                                                              *)
(***************************************************************************)
EXTENDS Threading

CONSTANT size          \* (2) workers, of one task each

VARIABLES
  local_stop,          \* workers whose own stop was requested
  global_stop_,
  joined               \* threads that are no longer joinable

cancelVars == <<local_stop, global_stop_, joined>>

main_thread == <<"main", 0>>
threads_ == {"worker"} \X (1..size)
CancelThreads == threads_ \cup {main_thread}

Init ==
  /\ pc = [t \in CancelThreads |-> IF t = main_thread THEN "stop" ELSE "loop"]
  /\ sem = [s \in {} |-> 0] /\ asleep = [c \in {} |-> {}]
  /\ local_stop = {} /\ global_stop_ = FALSE /\ joined = {}

joinable == threads_ \ joined

-----------------------------------------------------------------------------
(* worker: the two tokens are tested one after the other                   *)

worker(w) ==
  /\ UNCHANGED cancelVars
  /\ \/ Move(w, "loop", IF w \in local_stop THEN "returned" ELSE "global")
     \/ Move(w, "global", IF global_stop_ THEN "returned" ELSE "run")
     \/ Move(w, "run", "loop")

-----------------------------------------------------------------------------
(* main                                                                    *)

Join(w, from, to) ==
  /\ w \in joinable /\ pc[w] = "returned"
  /\ joined' = joined \cup {w}
  /\ Move(main_thread, from, to)

(* stop_one: request_stop, then join; the index is main's to choose.       *)
RequestStop(w) ==
  /\ w \in joinable
  /\ Move(main_thread, "stop", "join_one")
  /\ local_stop' = local_stop \cup {w}
  /\ UNCHANGED <<global_stop_, joined>>

JoinOne(w) ==
  /\ w \in local_stop
  /\ Join(w, "join_one", "stop")
  /\ UNCHANGED <<local_stop, global_stop_>>

(* stop_all: the pool's stop, then a join of each thread that is left.     *)
RequestStopAll ==
  /\ Move(main_thread, "stop", "join_all")
  /\ global_stop_' = TRUE
  /\ UNCHANGED <<local_stop, joined>>

JoinEach(w) == Join(w, "join_all", "join_all") /\ UNCHANGED <<local_stop, global_stop_>>

JoinsNobody ==         \* faulty: a requested stop is taken for a stop
  Move(main_thread, "join_all", "read") /\ UNCHANGED cancelVars

JoinedAll ==
  joinable = {} /\ Move(main_thread, "join_all", "read") /\ UNCHANGED cancelVars

ReadCounters == Move(main_thread, "read", "dtor") /\ UNCHANGED cancelVars

(* The destructors, at the end of main's scope, stop_all called or not.    *)
LeaveScope == Move(main_thread, "stop", "dtor") /\ UNCHANGED cancelVars

DtorStopsNobody(w) ==  \* faulty: std::thread's destructor, with a join
  /\ w \in joinable
  /\ Move(main_thread, "dtor", "dtor_join")
  /\ UNCHANGED cancelVars

DtorStops(w) ==
  /\ w \in joinable
  /\ Move(main_thread, "dtor", "dtor_join")
  /\ local_stop' = local_stop \cup {w}
  /\ UNCHANGED <<global_stop_, joined>>

DtorJoins(w) == Join(w, "dtor_join", "dtor") /\ UNCHANGED <<local_stop, global_stop_>>

DtorReturns ==
  joinable = {} /\ Move(main_thread, "dtor", "destroyed") /\ UNCHANGED cancelVars

main ==
  \/ \E w \in threads_ :
       RequestStop(w) \/ JoinOne(w) \/ JoinEach(w) \/ DtorStops(w) \/ DtorJoins(w)
  \/ RequestStopAll \/ JoinedAll \/ ReadCounters \/ LeaveScope \/ DtorReturns

Step(t) == IF t = main_thread THEN main ELSE worker(t)

destroyed == pc[main_thread] = "destroyed"

-----------------------------------------------------------------------------
(* "The stops do a join instead otherwise the data may still be changing   *)
(* while we read it" (lines 83-84): no task runs while main reads the      *)
(* counters after stop_all, nor once tasks_ is destroyed, nor ever again   *)
(* for a worker that stop_one has stopped.                                 *)
StoppedMeansStopped ==
  \A w \in threads_ :
    pc[w] # "returned" => /\ pc[main_thread] # "read" /\ ~destroyed
                          /\ w \in joinable
=============================================================================
