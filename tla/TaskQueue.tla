----------------------------- MODULE TaskQueue -----------------------------
(***************************************************************************)
(* What LockFreeQueue promises to Scheduler, its only user in src/src: a   *)
(* FIFO with an element counter that is brought up to date after the       *)
(* element has been linked.  m_size_ may therefore understate what is in   *)
(* the queue while an EnQueue is between LockFreeQueue.h:54 and :55, and   *)
(* must never overstate it, because the consumer takes Size() > 0 as the   *)
(* licence to call Dequeue (Scheduler.cpp:160).                            *)
(*                                                                         *)
(* LockFreeQueue.tla is shown to implement Spec; Scheduler.tla is built    *)
(* from the actions of this module.                                        *)
(***************************************************************************)
EXTENDS Integers, Sequences

CONSTANT Element            \* the tasks; each is put at most once

VARIABLES queue,            \* linked and not yet taken, oldest first
          size,             \* m_size_
          taken             \* handed out by Dequeue, in order

queueVars == <<queue, size, taken>>

Contents(s) == {s[i] : i \in DOMAIN s}

QueueInit == /\ queue = <<>>
             /\ size = 0
             /\ taken = <<>>

(* The successful compare-and-swap of EnQueue. *)
Put(e) == /\ e \notin Contents(queue) \cup Contents(taken)
          /\ queue' = Append(queue, e)
          /\ UNCHANGED <<size, taken>>

(* fetch_add(1): the element becomes visible to Size(). *)
Count == /\ size < Len(queue)
         /\ size' = size + 1
         /\ UNCHANGED <<queue, taken>>

(* Broken variant of Take, not part of QueueNext: m_head_ is not moved. *)
TakeLeavesElement == /\ size > 0
                     /\ queue # <<>>
                     /\ taken' = Append(taken, Head(queue))
                     /\ size' = size - 1
                     /\ UNCHANGED queue

(* A Dequeue by the consumer, which has seen Size() > 0. *)
Take == /\ size > 0
        /\ queue # <<>>
        /\ taken' = Append(taken, Head(queue))
        /\ queue' = Tail(queue)
        /\ size' = size - 1

(* An EnQueue by the consumer's own thread: nobody sees it half done. *)
PutCounted(e) == /\ e \notin Contents(queue) \cup Contents(taken)
                 /\ queue' = Append(queue, e)
                 /\ size' = size + 1
                 /\ UNCHANGED taken

QueueNext == \/ \E e \in Element : Put(e) \/ PutCounted(e)
             \/ Count
             \/ Take

Spec == QueueInit /\ [][QueueNext]_queueVars

-----------------------------------------------------------------------------

QueueTypeOK == /\ queue \in Seq(Element)
               /\ size \in Nat
               /\ taken \in Seq(Element)

(* Size() never promises an element that is not there (Scheduler.cpp:160-161
   dequeues, and calls the result, on the strength of Size() alone). *)
SizeNeverOverstates == size <= Len(queue)

(* No task is handed out twice, and none is both handed out and still queued. *)
TakenOnce ==
    LET all == taken \o queue
    IN  \A i, j \in DOMAIN all : all[i] = all[j] => i = j

=============================================================================
