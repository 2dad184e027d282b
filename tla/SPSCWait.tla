------------------------------ MODULE SPSCWait ------------------------------
(***************************************************************************)
(* cpp/problems/3_sushi_chefs/6_spsc_atomic_wait.cpp: the single-producer  *)
(* single-consumer ring whose push and pop block in atomic wait until the  *)
(* other side's index changes.                                             *)
(*                                                                         *)
(* push waits once and then writes without looking at the indices again:   *)
(* the only evidence that a slot is free is that head_ differs from the    *)
(* value loaded.  That value may itself be old (see SPSC on acquire        *)
(* loads); wait compares it with the current one and goes to sleep in one  *)
(* step, wakes spuriously or by notify_one, and compares again.            *)
(***************************************************************************)
EXTENDS SPSC

(* The types, and the ranges of the indices (see SPSC).                    *)
TypeOK ==
  RingTypeOK(
    {"loop", "load", "loaded", "wait", "asleep", "write", "publish", "notify",
     "done"},
    {"loop", "load", "loaded", "wait", "asleep", "read", "publish", "notify",
     "done"})

(* notify_one on the index the other thread may be waiting for.            *)
Notified(pcOther) == IF pcOther = "asleep" THEN "wait" ELSE pcOther

-----------------------------------------------------------------------------
(* The producer's loop and push                                            *)

FindsFull ==
  /\ Full
  /\ ProducerGoes("loaded", "wait")
  /\ UNCHANGED <<array_, head_, tail_, pi, phead, cvars>>

NotFull ==
  /\ ~Full
  /\ ProducerGoes("loaded", "write")
  /\ UNCHANGED <<array_, head_, tail_, pi, phead, cvars>>

HeadUnchanged ==
  /\ head_ = phead
  /\ ProducerGoes("wait", "asleep")
  /\ UNCHANGED <<array_, head_, tail_, pi, phead, cvars>>

(* wait returns once it has seen another value, which later loads by this  *)
(* thread then never precede.                                              *)
HeadChangedUnchecked(h) ==   \* faulty: a woken push does not compare again
  /\ ProducerGoes("wait", "write")
  /\ phead' = h
  /\ UNCHANGED <<array_, head_, tail_, pi, cvars>>

HeadChanged(h) ==
  /\ h # phead
  /\ ProducerGoes("wait", "write")
  /\ phead' = h
  /\ UNCHANGED <<array_, head_, tail_, pi, cvars>>

ProducerWakes ==          \* spurious
  /\ ProducerGoes("asleep", "wait")
  /\ UNCHANGED <<array_, head_, tail_, pi, phead, cvars>>

PublishTail ==
  /\ ProducerGoes("publish", "notify")
  /\ tail_' = NextIndex(tail_)
  /\ UNCHANGED <<array_, head_, pi, phead, cvars>>

NotifyConsumer ==         \* tail_.notify_one(), return, i++
  /\ ProducerGoes("notify", "loop")
  /\ cpc' = Notified(cpc)
  /\ pi' = pi + 1
  /\ UNCHANGED <<array_, head_, tail_, phead, ci, ctail, elem>>

-----------------------------------------------------------------------------
(* The consumer's loop and pop                                             *)

FindsEmpty ==
  /\ Empty
  /\ ConsumerGoes("loaded", "wait")
  /\ UNCHANGED <<array_, head_, tail_, ci, ctail, elem, pvars>>

NotEmpty ==
  /\ ~Empty
  /\ ConsumerGoes("loaded", "read")
  /\ UNCHANGED <<array_, head_, tail_, ci, ctail, elem, pvars>>

TailUnchanged ==
  /\ tail_ = ctail
  /\ ConsumerGoes("wait", "asleep")
  /\ UNCHANGED <<array_, head_, tail_, ci, ctail, elem, pvars>>

TailChanged(t) ==
  /\ t # ctail
  /\ ConsumerGoes("wait", "read")
  /\ ctail' = t
  /\ UNCHANGED <<array_, head_, tail_, ci, elem, pvars>>

ConsumerWakes ==          \* spurious
  /\ ConsumerGoes("asleep", "wait")
  /\ UNCHANGED <<array_, head_, tail_, ci, ctail, elem, pvars>>

PublishHead ==
  /\ ConsumerGoes("publish", "notify")
  /\ head_' = NextIndex(head_)
  /\ UNCHANGED <<array_, tail_, ci, ctail, elem, pvars>>

NotifyNobody ==           \* faulty: pop returns without notify_one
  /\ ConsumerGoes("notify", "loop")
  /\ ci' = ci + 1
  /\ elem' = Nothing
  /\ UNCHANGED <<array_, head_, tail_, ctail, pvars>>

NotifyProducer ==         \* head_.notify_one(), return elem, i++
  /\ ConsumerGoes("notify", "loop")
  /\ ppc' = Notified(ppc)
  /\ ci' = ci + 1
  /\ elem' = Nothing
  /\ UNCHANGED <<array_, head_, tail_, ctail, pi, phead>>

-----------------------------------------------------------------------------

Producer ==
  \/ PushCall \/ FindsFull \/ NotFull \/ HeadUnchanged \/ Write
  \/ PublishTail \/ NotifyConsumer \/ ProducerEnds
  \/ \E h \in Arc(phead, head_) : LoadHead(h) \/ HeadChanged(h)

Consumer ==
  \/ PopCall \/ FindsEmpty \/ NotEmpty \/ TailUnchanged \/ Read
  \/ PublishHead \/ NotifyProducer \/ ConsumerEnds
  \/ \E t \in Arc(ctail, tail_) : LoadTail(t) \/ TailChanged(t)

Next == Producer \/ Consumer \/ ProducerWakes \/ ConsumerWakes \/ Joined

Spec == Init /\ [][Next]_vars
-----------------------------------------------------------------------------
(* Properties                                                              *)

(* A thread sleeps on a changed index only until the notify_one that the   *)
(* other thread is about to make: the window between the store and the     *)
(* notification never leaves a sleeper behind.                             *)
NoLostWakeup ==
  /\ ppc = "asleep" /\ head_ # phead => cpc = "notify"
  /\ cpc = "asleep" /\ tail_ # ctail => ppc = "notify"
=============================================================================
