-------------------------- MODULE MCLockFreeQueue --------------------------
(* Instances of LockFreeQueue for TLC; the .cfg files give the values. *)
EXTENDS LockFreeQueue, TLC

CONSTANTS p1, p2, p3

Calls(a, b, c) == [p \in Producer |-> IF p = p1 THEN a ELSE IF p = p2 THEN b ELSE c]

(* test/common/test_lockfreequeue.cpp: the producers are joined before the first
   Dequeue, which may also find the queue empty. *)
JoinedFirst == [ops |-> Calls(1, 1, 1), joined |-> TRUE, polls |-> TRUE]

(* Scheduler: while (0 < Size()) Dequeue(), while others may still enqueue. *)
Draining(ops) == [ops |-> ops, joined |-> FALSE, polls |-> FALSE]

(* The two in which a producer meets no deleted node: joined, or a single one. *)
Safe == {JoinedFirst, Draining(Calls(4, 0, 0))}

TwoProducers == {Draining(Calls(2, 2, 0))}

(* The addresses new returns are interchangeable, and so are two producers.
   Only for a run that checks no liveness. *)
Symmetric == Permutations(Addr) \cup Permutations({p1, p2})
=============================================================================
