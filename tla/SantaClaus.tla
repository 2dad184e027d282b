------------------------------ MODULE SantaClaus ------------------------------
(***************************************************************************)
(* cpp/problems/from little book of semaphores/santa_claus_1.cpp: two      *)
(* barriers whose completions wake Santa, semaphores that send the helped  *)
(* on, and a barrier at which the elves of a group leave together.         *)
(***************************************************************************)
EXTENDS Threading

CONSTANTS
  Deer,        \* threads (9)
  Elves,       \* threads (5)
  Group        \* elves to a group (3)

VARIABLES elves_ready, deer_ready

northVars == <<elves_ready, deer_ready>>
vars == <<threadVars, northVars>>

santa == <<"santa", 0>>
DeerThreads == {"deer"} \X (1..Deer)
ElfThreads == {"elf"} \X (1..Elves)
NorthThreads == {santa} \cup DeerThreads \cup ElfThreads

NorthIdle == elves_ready = FALSE /\ deer_ready = FALSE

Init ==
  /\ pc = [t \in NorthThreads |-> "start"]
  /\ sem = [s \in {"deers_helped", "elves_helped", "elf_help_req",
                   "elf_sync", "elf_leave_sync", "deer_sync"} |->
              CASE s \in {"deers_helped", "elves_helped"} -> 0
                [] s = "deer_sync" -> Deer [] OTHER -> Group]
  /\ asleep = [c \in {"santa_wake", "elf_sync", "elf_leave_sync", "deer_sync"} |-> {}]
  /\ NorthIdle

-----------------------------------------------------------------------------
(* An arrival at deer_sync or elf_sync: the last one runs the completion,  *)
(* which sets the flag under mtx and notifies Santa, before it opens the   *)
(* next phase.                                                             *)
LastOfAll(t, b, n, from, to) ==
  /\ Goto(t, from, to) /\ CompletesPhase(b)
  /\ sem' = [sem EXCEPT ![b] = n]
  /\ asleep' = [asleep EXCEPT ![b] = {}, !["santa_wake"] = {}]

OneOfMany(t, b, from, to) ==
  Goto(t, from, to) /\ ~CompletesPhase(b) /\ AwaitPhase(t, b)

deer(d) ==
  \/ LastOfAll(d, "deer_sync", Deer, "start", "helped")
     /\ deer_ready' = TRUE /\ UNCHANGED elves_ready
  \/ OneOfMany(d, "deer_sync", "start", "helped") /\ UNCHANGED northVars
  \/ acquire(d, "deers_helped", "helped", "start") /\ UNCHANGED northVars

LeaveAlone(e) ==          \* faulty: does not wait for the rest of the group
  Move(e, "leave", "release")

LeaveTogether(e) ==
  arrive_and_wait(e, "elf_leave_sync", Group, "leave", "release")

elf(e) ==
  \/ LastOfAll(e, "elf_sync", Group, "sync", "helped")
     /\ elves_ready' = TRUE /\ UNCHANGED deer_ready
  \/ /\ \/ acquire(e, "elf_help_req", "start", "sync")
        \/ OneOfMany(e, "elf_sync", "sync", "helped")
        \/ acquire(e, "elves_helped", "helped", "leave")
        \/ LeaveTogether(e)
        \/ release(e, "elf_help_req", 1, "release", "start")
     /\ UNCHANGED northVars

HelpOneElf ==             \* faulty: releases one instead of the group
  /\ elves_ready /\ release(santa, "elves_helped", 1, "start", "start")
  /\ elves_ready' = FALSE /\ UNCHANGED deer_ready

HelpElves ==
  /\ elves_ready /\ release(santa, "elves_helped", Group, "start", "start")
  /\ elves_ready' = FALSE /\ UNCHANGED deer_ready

HelpDeer ==
  /\ deer_ready /\ release(santa, "deers_helped", Deer, "start", "start")
  /\ deer_ready' = FALSE /\ UNCHANGED elves_ready

santa_loop ==
  \/ HelpDeer
  \/ ~deer_ready /\ HelpElves
  \/ /\ ~deer_ready /\ ~elves_ready /\ Sleep(santa, "start", "santa_wake")
     /\ UNCHANGED northVars

Step(t) ==
  \/ t = santa /\ santa_loop
  \/ t \in DeerThreads /\ deer(t)
  \/ t \in ElfThreads /\ elf(t)

Spurious == WakesSpuriously(santa, "santa_wake") /\ UNCHANGED northVars

Next == Spurious \/ \E t \in NorthThreads : Step(t)

-----------------------------------------------------------------------------
Helped(S) == {t \in S : pc[t] = "helped" /\ Awake(t)}

(* "No new elf cannot signal help till ALL the current ones are helped"    *)
(* (problems.md:384), and no group takes the help of another: from the     *)
(* moment a group is complete until its last elf has been helped, nobody   *)
(* else stands at the barrier; what Santa releases is for those who wait.  *)
GroupsStayTogether ==
  /\ elves_ready \/ sem["elves_helped"] > 0 =>
       /\ \A e \in ElfThreads : pc[e] # "sync" /\ e \notin asleep["elf_sync"]
       /\ sem["elves_helped"] <= Cardinality(Helped(ElfThreads))
  /\ sem["deers_helped"] <= Cardinality(Helped(DeerThreads))
  /\ elves_ready => sem["elves_helped"] = 0
  /\ deer_ready => sem["deers_helped"] = 0
=============================================================================
