--------------------------- MODULE LockFreeQueue ---------------------------
(***************************************************************************)
(* include/common/LockFreeQueue.h: the linked list with a dummy node that  *)
(* Scheduler keeps its deferred tasks in.  Every access to a shared word   *)
(* is a step of its own, so that EnQueue calls interleave with each other  *)
(* and with Dequeue the way the threads do.                                *)
(*                                                                         *)
(* Memory is modelled, because Dequeue deletes nodes that EnQueue may      *)
(* still be looking at: new returns any address that is not allocated,     *)
(* delete gives the address back and leaves its contents behind, and the   *)
(* next new may return the same address (the ABA case).                    *)
(*                                                                         *)
(* There is one consumer: m_extra_tasks_ is drained only by the thread in  *)
(* Scheduler::Start and by the destructor.  The second reads of m_head_ in *)
(* lines 72, 73 and 80 then always return cur_head and are not steps.      *)
(***************************************************************************)
EXTENDS Integers, Sequences, FiniteSets

CONSTANTS Producer,         \* the threads that call EnQueue
          Addr,             \* the addresses new can return
          NULL,             \* nullptr
          Disciplines       \* ways to use the queue, of which one is chosen at the start

(* ops bounds the EnQueue calls of each producer; joined: Dequeue only after the
   producers were joined; polls: Dequeue is also called when Size() is 0. *)
ASSUME ConstantsAssumption ==
    /\ NULL \notin Addr
    /\ Disciplines \subseteq [ops : [Producer -> Nat], joined : BOOLEAN, polls : BOOLEAN]

VARIABLES
    discipline,                     \* never changes
    head, tail, size,               \* m_head_, m_tail_, m_size_
    next, elem,                     \* m_next_ and m_element_ of each node
    alloc,                          \* addresses that are allocated
    pc, node, curTail, curNext,     \* EnQueue: position and its locals
    sent,                           \* EnQueue calls made by each producer
    cpc, curHead, succ, seenTail,   \* Dequeue: position and its locals
    chain,                          \* history: the linked nodes, dummy first
    taken                           \* history: what Dequeue has returned

mem    == <<next, elem, alloc>>
shared == <<head, tail, size, mem>>
prod   == <<discipline, pc, node, curTail, curNext, sent>>
cons   == <<cpc, curHead, succ, seenTail>>
hist   == <<chain, taken>>
vars   == <<shared, prod, cons, hist>>

(* The k-th EnQueue of producer p. *)
Elements(d) == UNION {{p} \X (1..d.ops[p]) : p \in Producer}
Element == UNION {Elements(d) : d \in Disciplines}

(* Both loops are straight-line code between these positions. *)
Step(p, from, to) == pc[p] = from /\ pc' = [pc EXCEPT ![p] = to]
Consume(from, to) == cpc = from /\ cpc' = to

Last(s) == s[Len(s)]
Nodes(s) == {s[i] : i \in DOMAIN s}

Init ==
    /\ discipline \in Disciplines
    /\ \E dummy \in Addr :
          /\ head = dummy /\ tail = dummy
          /\ alloc = {dummy} /\ chain = <<dummy>>
    /\ size = 0
    /\ next = [a \in Addr |-> NULL]
    /\ elem = [a \in Addr |-> NULL]
    /\ pc = [p \in Producer |-> "idle"]
    /\ node = [p \in Producer |-> NULL]
    /\ curTail = [p \in Producer |-> NULL]
    /\ curNext = [p \in Producer |-> NULL]
    /\ sent = [p \in Producer |-> 0]
    /\ cpc = "idle" /\ curHead = NULL /\ succ = NULL /\ seenTail = NULL
    /\ taken = <<>>

-----------------------------------------------------------------------------
(* Broken variants of single actions.  None is part of Next: each stands in   *)
(* for the action it is named after to show that a property notices.          *)

RecheckWithoutNullTest(p) ==
    /\ pc[p] = "recheck"
    /\ pc' = [pc EXCEPT ![p] = IF tail # curTail[p] THEN "loadTail" ELSE "help"]
    /\ UNCHANGED <<shared, discipline, node, curTail, curNext, sent, cons, hist>>

LinkByPlainStore(p) ==
    /\ pc[p] = "link"
    /\ next' = [next EXCEPT ![curTail[p]] = node[p]]
    /\ chain' = IF curTail[p] = Last(chain) THEN Append(chain, node[p]) ELSE chain
    /\ pc' = [pc EXCEPT ![p] = "count"]
    /\ UNCHANGED <<head, tail, size, elem, alloc, discipline, node, curTail, curNext, sent, cons, taken>>

LinkFailureIgnored(p) ==
    /\ Step(p, "link", "count")
    /\ next[curTail[p]] # NULL
    /\ UNCHANGED <<shared, discipline, node, curTail, curNext, sent, cons, hist>>

LinkFailureRetriesSameTail(p) ==
    /\ pc[p] = "link"
    /\ next[curTail[p]] # NULL
    /\ UNCHANGED vars

LoadSeenTailWithoutHelp ==
    /\ cpc = "loadSeenTail"
    /\ seenTail' = tail
    /\ cpc' = IF tail # curHead THEN "swingHead" ELSE "empty"
    /\ UNCHANGED <<shared, prod, curHead, succ, hist>>

ReadElementOfHead ==
    /\ cpc = "read"
    /\ taken' = Append(taken, elem[curHead])
    /\ cpc' = "uncount"
    /\ UNCHANGED <<shared, prod, curHead, succ, seenTail, chain>>

DeleteSuccessor ==
    /\ Consume("delete", "idle")
    /\ alloc' = alloc \ {succ}
    /\ UNCHANGED <<head, tail, size, next, elem, prod, curHead, succ, seenTail, hist>>

DestroyKeepsDummy ==
    /\ cpc = "idle" /\ (\A p \in Producer : pc[p] = "idle" /\ sent[p] = discipline.ops[p])
    /\ size = 0
    /\ cpc' = "destroyed"
    /\ UNCHANGED <<shared, prod, curHead, succ, seenTail, hist>>

-----------------------------------------------------------------------------
(* EnQueue.                                                                *)

NewNode(p) ==
    /\ pc[p] = "idle" /\ cpc # "destroyed"
    /\ sent[p] < discipline.ops[p]
    /\ \E a \in Addr \ alloc :
          /\ alloc' = alloc \cup {a}
          /\ next' = [next EXCEPT ![a] = NULL]
          /\ elem' = [elem EXCEPT ![a] = <<p, sent[p] + 1>>]
          /\ node' = [node EXCEPT ![p] = a]
    /\ sent' = [sent EXCEPT ![p] = @ + 1]
    /\ pc' = [pc EXCEPT ![p] = "loadTail"]
    /\ UNCHANGED <<head, tail, size, discipline, curTail, curNext, cons, hist>>

LoadTail(p) ==
    /\ Step(p, "loadTail", "loadNext")
    /\ curTail' = [curTail EXCEPT ![p] = tail]
    /\ UNCHANGED <<shared, discipline, node, curNext, sent, cons, hist>>

LoadNext(p) ==
    /\ Step(p, "loadNext", "recheck")
    /\ curNext' = [curNext EXCEPT ![p] = next[curTail[p]]]
    /\ UNCHANGED <<shared, discipline, node, curTail, sent, cons, hist>>

Recheck(p) ==
    /\ pc[p] = "recheck"
    /\ pc' = [pc EXCEPT ![p] = IF tail # curTail[p] THEN "loadTail"
                               ELSE IF curNext[p] = NULL THEN "link"
                               ELSE "help"]
    /\ UNCHANGED <<shared, discipline, node, curTail, curNext, sent, cons, hist>>

(* The list grows when the node written is the last of it; with a stale
   cur_tail the write may land in a node that is not in the list at all. *)
LinkSucceeds(p) ==
    /\ pc[p] = "link"
    /\ next[curTail[p]] = NULL
    /\ next' = [next EXCEPT ![curTail[p]] = node[p]]
    /\ chain' = IF curTail[p] = Last(chain) THEN Append(chain, node[p]) ELSE chain
    /\ pc' = [pc EXCEPT ![p] = "count"]
    /\ UNCHANGED <<head, tail, size, elem, alloc, discipline, node, curTail, curNext, sent, cons, taken>>

LinkFails(p) ==
    /\ Step(p, "link", "loadTail")
    /\ next[curTail[p]] # NULL
    /\ UNCHANGED <<shared, discipline, node, curTail, curNext, sent, cons, hist>>

CountIn(p) ==
    /\ Step(p, "count", "swing")
    /\ size' = size + 1
    /\ UNCHANGED <<head, tail, mem, discipline, node, curTail, curNext, sent, cons, hist>>

SwingTail(p) ==
    /\ Step(p, "swing", "idle")
    /\ tail' = IF tail = curTail[p] THEN node[p] ELSE tail
    /\ UNCHANGED <<head, size, mem, discipline, node, curTail, curNext, sent, cons, hist>>

HelpTail(p) ==
    /\ Step(p, "help", "loadTail")
    /\ tail' = IF tail = curTail[p] THEN curNext[p] ELSE tail
    /\ UNCHANGED <<head, size, mem, discipline, node, curTail, curNext, sent, cons, hist>>

-----------------------------------------------------------------------------
(* Dequeue and the loops around it.                                        *)

Joined == \A p \in Producer : pc[p] = "idle" /\ sent[p] = discipline.ops[p]

(* while (0 < Size()) Dequeue(): in Scheduler::Start, in the destructor and
   in the test; polls drops the test of Size(). *)
Enter ==
    /\ Consume("idle", "loadHead")
    /\ discipline.joined => Joined
    /\ discipline.polls \/ size > 0
    /\ UNCHANGED <<shared, prod, curHead, succ, seenTail, hist>>

LoadHead ==
    /\ Consume("loadHead", "loadSucc")
    /\ curHead' = head
    /\ UNCHANGED <<shared, prod, succ, seenTail, hist>>

LoadSucc ==
    /\ Consume("loadSucc", "loadSeenTail")
    /\ succ' = next[curHead]
    /\ UNCHANGED <<shared, prod, curHead, seenTail, hist>>

LoadSeenTail ==
    /\ cpc = "loadSeenTail"
    /\ seenTail' = tail
    /\ cpc' = IF tail # curHead THEN "swingHead"
              ELSE IF succ # NULL THEN "helpTail" ELSE "empty"
    /\ UNCHANGED <<shared, prod, curHead, succ, hist>>

ConsumerHelps ==
    /\ cpc = "helpTail"
    /\ tail' = IF tail = seenTail THEN succ ELSE tail
    /\ cpc' = "loadHead"
    /\ UNCHANGED <<head, size, mem, prod, curHead, succ, seenTail, hist>>

(* return Element{}: an empty function object, that Scheduler would call. *)
ReturnEmpty ==
    /\ Consume("empty", "idle")
    /\ UNCHANGED <<shared, prod, curHead, succ, seenTail, hist>>

SwingHead ==
    /\ Consume("swingHead", "read")
    /\ head' = succ
    /\ chain' = Tail(chain)
    /\ UNCHANGED <<tail, size, mem, prod, curHead, succ, seenTail, taken>>

ReadElement ==
    /\ Consume("read", "uncount")
    /\ taken' = Append(taken, elem[succ])
    /\ UNCHANGED <<shared, prod, curHead, succ, seenTail, chain>>

CountOut ==
    /\ Consume("uncount", "delete")
    /\ size' = size - 1
    /\ UNCHANGED <<head, tail, mem, prod, curHead, succ, seenTail, hist>>

DeleteHead ==
    /\ Consume("delete", "idle")
    /\ alloc' = alloc \ {curHead}
    /\ UNCHANGED <<head, tail, size, next, elem, prod, curHead, succ, seenTail, hist>>

(* ~LockFreeQueue, once its loop has seen m_size_ = 0. *)
Destroy ==
    /\ cpc = "idle" /\ Joined /\ size = 0
    /\ alloc' = alloc \ {head}
    /\ cpc' = "destroyed"
    /\ UNCHANGED <<head, tail, size, next, elem, prod, curHead, succ, seenTail, hist>>

-----------------------------------------------------------------------------

EnQueue(p) ==
    \/ NewNode(p) \/ LoadTail(p) \/ LoadNext(p) \/ Recheck(p) \/ LinkSucceeds(p)
    \/ LinkFails(p) \/ CountIn(p) \/ SwingTail(p) \/ HelpTail(p)

Dequeue ==
    \/ Enter \/ LoadHead \/ LoadSucc \/ LoadSeenTail \/ ConsumerHelps
    \/ ReturnEmpty \/ SwingHead \/ ReadElement \/ CountOut \/ DeleteHead

(* The queue is gone; nothing more happens to it. *)
Gone == cpc = "destroyed" /\ UNCHANGED vars

Next == \/ \E p \in Producer : EnQueue(p)
        \/ Dequeue
        \/ Destroy
        \/ Gone

Spec == Init /\ [][Next]_vars

(* The operating system runs every thread that can take a step. *)
Fairness == /\ \A p \in Producer : WF_vars(EnQueue(p))
            /\ WF_vars(Dequeue)
            /\ WF_vars(Destroy)

FairSpec == Spec /\ Fairness

-----------------------------------------------------------------------------
(* What is checked.                                                        *)

EnQueuePC == {"idle", "loadTail", "loadNext", "recheck", "link", "count",
              "swing", "help"}
DequeuePC == {"idle", "loadHead", "loadSucc", "loadSeenTail", "helpTail", "empty",
              "swingHead", "read", "uncount", "delete", "destroyed"}
Pointer == Addr \cup {NULL}

(* Every variable holds a value of its type; m_head_ and m_tail_ are never null. *)
TypeOK ==
    /\ head \in Addr /\ tail \in Addr /\ size \in Int
    /\ next \in [Addr -> Pointer]
    /\ elem \in [Addr -> Element \cup {NULL}]
    /\ alloc \subseteq Addr
    /\ pc \in [Producer -> EnQueuePC]
    /\ node \in [Producer -> Pointer]
    /\ curTail \in [Producer -> Pointer]
    /\ curNext \in [Producer -> Pointer]
    /\ discipline \in Disciplines
    /\ \A p \in Producer : sent[p] \in 0..discipline.ops[p]
    /\ cpc \in DequeuePC
    /\ curHead \in Pointer /\ succ \in Pointer /\ seenTail \in Pointer
    /\ chain \in Seq(Addr)
    /\ taken \in Seq(Element)

(* No thread is about to read or write through a pointer to a deleted node, or
   through nullptr: cur_tail in lines 50 and 54, cur_head in 69 and 83, next in
   81.  Dequeue deletes nodes without any reclamation scheme, so this rests
   entirely on who may run at the same time. *)
NoUseAfterFree ==
    /\ \A p \in Producer : pc[p] \in {"loadNext", "link"} => curTail[p] \in alloc
    /\ cpc \in {"loadSucc", "delete"} => curHead \in alloc
    /\ cpc = "read" => succ \in alloc

(* The list is what the head, the tail and the next pointers say it is: it
   starts at m_head_, is null terminated, consists of allocated nodes, and
   m_tail_ is its last node or the one before. *)
ListShape ==
    cpc # "destroyed" =>
        /\ chain # <<>>
        /\ head = chain[1]
        /\ Nodes(chain) \subseteq alloc
        /\ \A i \in 1..Len(chain)-1 : next[chain[i]] = chain[i+1]
        /\ next[Last(chain)] = NULL
        /\ \E i \in {Len(chain) - 1, Len(chain)} \cap DOMAIN chain : tail = chain[i]

(* m_size_ lags the list by exactly the EnQueue calls between lines 54 and 55
   and the Dequeue between 80 and 82; the test asserts it after a join. *)
SizeExact ==
    size = Len(chain) - 1 - Cardinality({p \in Producer : pc[p] = "count"})
                          + (IF cpc \in {"read", "uncount"} THEN 1 ELSE 0)

(* Dequeue hands back Element{} only when the list holds nothing: Scheduler
   would call it as a function. *)
EmptyHandedOnlyWhenEmpty == cpc = "empty" => Len(chain) = 1

(* After the destructor no node is left allocated, and every element that was
   enqueued has come out. *)
NothingLost ==
    cpc = "destroyed" =>
        /\ alloc = {}
        /\ Nodes(taken) = Elements(discipline)
        /\ Len(taken) = Cardinality(Elements(discipline))

(* A Dequeue entered because the queue was not Empty() returns an element that
   was enqueued and has not come out before: what test_lockfreequeue.cpp:31-34
   asserts of each value it dequeues. *)
DequeuedWasEnqueued ==
    cpc = "read" =>
        /\ succ \in Addr
        /\ elem[succ] \in {e \in Element : e[2] <= sent[e[1]]} \ Nodes(taken)

(* The queue implements the FIFO with a lagging counter that Scheduler is built
   on.  An element leaves at the compare-and-swap of m_head_, although its node
   is read, and m_size_ reduced, only later. *)
Fifo == INSTANCE TaskQueue WITH
    queue <- [i \in 1..Len(chain)-1 |-> elem[chain[i+1]]],
    size  <- IF cpc \in {"read", "uncount"} THEN size - 1 ELSE size,
    taken <- IF cpc = "read" THEN Append(taken, elem[succ]) ELSE taken

ImplementsTaskQueue == Fifo!Spec

(* The compare-and-swap loops end, so that every EnQueue returns; and whatever was
   enqueued is dequeued and the queue can be torn down, unless the consumer keeps on
   polling it. *)
EveryCallEnds == <>(Joined /\ (discipline.polls \/ cpc = "destroyed"))

=============================================================================
