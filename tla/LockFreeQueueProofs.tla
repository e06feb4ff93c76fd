------------------------ MODULE LockFreeQueueProofs ------------------------
(***************************************************************************)
(* Proofs about LockFreeQueue, for any set of threads, addresses and        *)
(* numbers of calls: in which use the queue is safe, and that in that use   *)
(* it is the FIFO of TaskQueue.                                             *)
(***************************************************************************)
EXTENDS LockFreeQueue, SequenceTheorems, FiniteSetTheorems, TLAPS

(* Nodes are deleted without a reclamation scheme, so that not every use is safe: with
   two threads in EnQueue while another dequeues, one of them may hold a pointer to a
   deleted node.  Either all threads are joined before the first Dequeue, or a single
   one calls EnQueue and Dequeue is called only when Size() > 0. *)
OneCaller(d) == \A p, q \in Producer : d.ops[p] > 0 /\ d.ops[q] > 0 => p = q

SafelyUsed == discipline.joined \/ (OneCaller(discipline) /\ ~discipline.polls)

-----------------------------------------------------------------------------
(* The inductive invariant. *)

(* Positions of EnQueue between new and the compare-and-swap that links the node, and
   after it; positions of Dequeue before and after m_head_ has moved. *)
Unlinked == {"loadTail", "loadNext", "recheck", "link", "help"}
Linked   == {"count", "swing"}
Looking  == {"loadSucc", "loadSeenTail", "helpTail", "swingHead", "empty"}
Unhooked == {"read", "uncount", "delete"}

(* Who may run at the same time. *)
Turns ==
    /\ SafelyUsed
    /\ sent \in [Producer -> Nat]
    /\ \A p \in Producer : pc[p] # "idle" => sent[p] > 0
    /\ (discipline.joined /\ cpc # "idle") \/ cpc = "destroyed" => Joined

(* The linked list; a node is in it once. *)
ListOK ==
    /\ chain # <<>> /\ head = chain[1]
    /\ \A i, j \in 1..Len(chain) : chain[i] = chain[j] => i = j
    /\ \A i \in 1..Len(chain)-1 : next[chain[i]] = chain[i+1]
    /\ next[chain[Len(chain)]] = NULL
    /\ \/ tail = chain[Len(chain)]
       \/ Len(chain) > 1 /\ tail = chain[Len(chain) - 1]

(* What is allocated: the list, the nodes about to be linked, and the old dummy. *)
MemoryOK ==
    /\ cpc # "destroyed" =>
          \A a \in Addr : a \in alloc <=>
              \/ a \in Nodes(chain)
              \/ \E p \in Producer : pc[p] \in Unlinked /\ node[p] = a
              \/ cpc \in Unhooked /\ curHead = a
    /\ cpc = "destroyed" => alloc = {} /\ Len(chain) = 1
    /\ cpc \in Unhooked => curHead \in Addr \ Nodes(chain)
    /\ \A p \in Producer : pc[p] \in Unlinked =>
          /\ node[p] \in Addr \ Nodes(chain)
          /\ next[node[p]] = NULL
          /\ elem[node[p]] = <<p, sent[p]>>
          /\ cpc \in Unhooked => node[p] # curHead
          /\ \A q \in Producer : pc[q] \in Unlinked /\ node[q] = node[p] => q = p

(* What a thread in EnQueue knows.  Nothing is removed before the join, so that its
   cur_tail stays in the list; and m_tail_ never moves back before it. *)
AtTail ==
    \A p \in Producer :
        /\ pc[p] \in {"loadNext", "recheck", "link", "help"} => curTail[p] \in Nodes(chain)
        /\ pc[p] \in {"loadNext", "recheck", "link"} /\ curTail[p] = chain[Len(chain)]
              => tail = chain[Len(chain)]
        /\ pc[p] = "recheck" /\ curNext[p] # NULL => curNext[p] = next[curTail[p]]
        /\ pc[p] = "help" => curNext[p] # NULL /\ curNext[p] = next[curTail[p]]
        /\ pc[p] \in Linked => node[p] \in Addr
        /\ discipline.joined /\ pc[p] \in Linked =>
              curTail[p] \in Nodes(chain) /\ next[curTail[p]] = node[p]

(* A single producer finds m_tail_ at the last node: only itself appends. *)
AloneAtTail ==
    ~discipline.joined =>
        /\ tail = chain[Len(chain)] \/ \E p \in Producer : pc[p] \in Linked
        /\ \A p \in Producer :
              /\ pc[p] \in {"loadNext", "recheck", "link"} => curTail[p] = chain[Len(chain)]
              /\ pc[p] = "recheck" => curNext[p] = NULL
              /\ pc[p] # "help"
              /\ pc[p] \in Linked => node[p] = chain[Len(chain)]
              /\ pc[p] \in Linked /\ tail # curTail[p] => tail = chain[Len(chain)]

(* What the thread in Dequeue knows.  Entered on Size() > 0, it finds an element. *)
AtHead ==
    /\ cpc \in Looking => curHead = head
    /\ cpc \in Looking \ {"loadSucc"} => succ = next[head]
    /\ cpc = "helpTail" => succ # NULL /\ seenTail = head
    /\ cpc = "swingHead" => tail # head
    /\ cpc = "read" => succ = head
    /\ cpc \in Looking \cup {"loadHead"} => discipline.joined \/ Len(chain) > 1
    /\ cpc = "empty" => discipline.joined /\ Len(chain) = 1

Counting == {p \in Producer : pc[p] = "count"}

Counted == IsFiniteSet(Counting) /\ SizeExact

(* Every element that has been linked is in the list or has come out, and once. *)
Stored(p) == IF pc[p] \in Unlinked THEN sent[p] - 1 ELSE sent[p]

Arrived == UNION {{p} \X (1..Stored(p)) : p \in Producer}

Out == IF cpc = "read" THEN Append(taken, elem[succ]) ELSE taken

Conserved ==
    /\ Out \in Seq(Element)
    /\ \A i, j \in 1..Len(Out) : Out[i] = Out[j] => i = j
    /\ Nodes(Out) \subseteq Arrived
    /\ \A i \in 2..Len(chain) : elem[chain[i]] \in Arrived \ Nodes(Out)
    /\ \A i, j \in 2..Len(chain) : elem[chain[i]] = elem[chain[j]] => i = j
    /\ \A e \in Arrived : e \in Nodes(Out) \/ \E i \in 2..Len(chain) : e = elem[chain[i]]

QueueInv ==
    /\ TypeOK /\ Turns
    /\ ListOK /\ MemoryOK
    /\ AtTail /\ AloneAtTail /\ AtHead
    /\ Counted /\ Conserved

-----------------------------------------------------------------------------
(* Lemmas about sequences and about the constants. *)

(* The nodes of a list by position. *)
LEMMA NodesOf ==
  ASSUME NEW S, NEW s \in Seq(S)
  PROVE  /\ Nodes(s) = {s[i] : i \in 1..Len(s)}
         /\ Nodes(s) \subseteq S
  BY LenProperties DEF Nodes

(* Appending adds one node. *)
LEMMA NodesAppend ==
  ASSUME NEW S, NEW s \in Seq(S), NEW x \in S
  PROVE  Nodes(Append(s, x)) = Nodes(s) \cup {x}
<1> DEFINE t == Append(s, x)
<1>1. /\ t \in Seq(S) /\ Len(t) = Len(s) + 1 /\ Len(s) \in Nat
      /\ \A i \in 1..Len(s) : t[i] = s[i]
      /\ t[Len(s) + 1] = x
  BY AppendProperties, LenProperties
<1> HIDE DEF t
<1>2. Nodes(t) = {t[i] : i \in 1..Len(t)} /\ Nodes(s) = {s[i] : i \in 1..Len(s)}
  BY <1>1, NodesOf
<1>3. QED BY <1>1, <1>2 DEF t

(* Moving the head past the first node of a list removes just that node. *)
LEMMA NodesTail ==
  ASSUME NEW S, NEW s \in Seq(S), s # <<>>,
         \A i, j \in 1..Len(s) : s[i] = s[j] => i = j
  PROVE  Nodes(Tail(s)) = Nodes(s) \ {s[1]}
<1> DEFINE t == Tail(s)
<1>1. /\ t \in Seq(S) /\ Len(t) = Len(s) - 1 /\ Len(s) \in Nat \ {0}
      /\ \A i \in 1..Len(t) : t[i] = s[i+1]
  BY HeadTailProperties, EmptySeq
<1> HIDE DEF t
<1>2. Nodes(t) = {t[i] : i \in 1..Len(t)} /\ Nodes(s) = {s[i] : i \in 1..Len(s)}
  BY <1>1, NodesOf
<1>3. ASSUME NEW x \in Nodes(s), x # s[1] PROVE x \in Nodes(t)
  <2>1. PICK i \in 1..Len(s) : x = s[i]
    BY <1>2
  <2>2. i - 1 \in 1..Len(t) /\ x = t[i-1]
    BY <2>1, <1>1, <1>3
  <2>3. QED BY <2>2, <1>2
<1>4. ASSUME NEW x \in Nodes(t) PROVE x \in Nodes(s) \ {s[1]}
  BY <1>1, <1>2
<1>5. QED BY <1>3, <1>4 DEF t

(* A call of EnQueue that was begun has a number the discipline allows. *)
LEMMA ElementOf ==
  ASSUME NEW d \in Disciplines, NEW p \in Producer, NEW k \in 1..d.ops[p]
  PROVE  <<p, k>> \in Elements(d) /\ <<p, k>> \in Element
  BY DEF Elements, Element

(* Each discipline says how often a producer calls EnQueue. *)
LEMMA OpsAreNat ==
  ASSUME NEW d \in Disciplines, NEW p \in Producer
  PROVE  d.ops[p] \in Nat
  BY ConstantsAssumption

(* The ends of the list, and the successors of its nodes. *)
LEMMA ListFacts ==
  ASSUME QueueInv
  PROVE  /\ chain \in Seq(Addr) /\ Len(chain) \in Nat \ {0}
         /\ Nodes(chain) = {chain[i] : i \in 1..Len(chain)} /\ Nodes(chain) \subseteq Addr
         /\ head \in Nodes(chain) /\ tail \in Nodes(chain)
         /\ Last(chain) = chain[Len(chain)] /\ Last(chain) \in Nodes(chain)
         /\ next[Last(chain)] = NULL
         /\ \A a \in Nodes(chain) : a # Last(chain) => next[a] \in Nodes(chain) /\ next[a] # NULL
<1>1. chain \in Seq(Addr) /\ chain # <<>>
  BY DEF QueueInv, TypeOK, ListOK
<1>2. /\ Len(chain) \in Nat \ {0}
      /\ Nodes(chain) = {chain[i] : i \in 1..Len(chain)} /\ Nodes(chain) \subseteq Addr
  BY <1>1, EmptySeq, NodesOf
<1>3. head \in Nodes(chain) /\ tail \in Nodes(chain)
  BY <1>2 DEF QueueInv, ListOK
<1>4. Last(chain) = chain[Len(chain)] /\ Last(chain) \in Nodes(chain) /\ next[Last(chain)] = NULL
  BY <1>2 DEF Last, QueueInv, ListOK
<1>5. ASSUME NEW a \in Nodes(chain), a # Last(chain)
      PROVE  next[a] \in Nodes(chain) /\ next[a] # NULL
  <2>1. PICK i \in 1..Len(chain) : a = chain[i]
    BY <1>2
  <2>2. i \in 1..Len(chain)-1 /\ i + 1 \in 1..Len(chain)
    BY <2>1, <1>2, <1>4, <1>5
  <2>3. next[a] = chain[i+1]
    BY <2>1, <2>2 DEF QueueInv, ListOK
  <2>4. QED BY <2>2, <2>3, <1>2, ConstantsAssumption
<1>6. QED BY <1>1, <1>2, <1>3, <1>4, <1>5

(* While a thread is in EnQueue, or will be, the queue exists; nobody dequeues if all
   are joined first, and nobody else enqueues otherwise. *)
LEMMA Exclusive ==
  ASSUME QueueInv, NEW p \in Producer, pc[p] # "idle" \/ sent[p] < discipline.ops[p]
  PROVE  /\ cpc # "destroyed"
         /\ discipline.joined => cpc = "idle"
         /\ ~discipline.joined => \A q \in Producer : pc[q] # "idle" => q = p
<1>1. \A q \in Producer : discipline.ops[q] \in Nat /\ sent[q] \in 0..discipline.ops[q]
  BY OpsAreNat DEF QueueInv, TypeOK
<1>2. ~Joined
  BY <1>1 DEF Joined
<1>3. cpc # "destroyed" /\ (discipline.joined => cpc = "idle")
  BY <1>2 DEF QueueInv, Turns
<1>4. discipline.ops[p] > 0
  BY <1>1 DEF QueueInv, Turns
<1>5. ASSUME ~discipline.joined, NEW q \in Producer, pc[q] # "idle" PROVE q = p
  BY <1>1, <1>4, <1>5 DEF QueueInv, Turns, SafelyUsed, OneCaller
<1>6. QED BY <1>3, <1>5

(* How many elements of each producer have been linked. *)
LEMMA StoredType ==
  ASSUME QueueInv, NEW p \in Producer
  PROVE  Stored(p) \in Nat /\ Stored(p) <= discipline.ops[p] /\ discipline.ops[p] \in Nat
<1>1. discipline.ops[p] \in Nat /\ sent[p] \in 0..discipline.ops[p]
  BY OpsAreNat DEF QueueInv, TypeOK
<1>2. pc[p] \in Unlinked => sent[p] > 0
  BY DEF QueueInv, Turns, Unlinked
<1>3. QED BY <1>1, <1>2 DEF Stored

(* What has arrived is an element. *)
LEMMA ArrivedAreElements ==
  ASSUME QueueInv
  PROVE  Arrived \subseteq Elements(discipline) /\ Arrived \subseteq Element
<1> SUFFICES ASSUME NEW e \in Arrived PROVE e \in Elements(discipline) /\ e \in Element
  OBVIOUS
<1>1. PICK p \in Producer : \E k \in 1..Stored(p) : e = <<p, k>>
  BY DEF Arrived
<1>2. \A k \in 1..Stored(p) : k \in 1..discipline.ops[p]
  BY StoredType
<1>3. discipline \in Disciplines
  BY DEF QueueInv, TypeOK
<1>4. QED BY <1>1, <1>2, <1>3, ElementOf

(* m_size_ and the threads that still have to count their element. *)
LEMMA SizeByCounting ==
  Counted <=> /\ IsFiniteSet(Counting)
              /\ size = Len(chain) - 1 - Cardinality(Counting)
                                      + (IF cpc \in {"read", "uncount"} THEN 1 ELSE 0)
  BY DEF Counted, SizeExact, Counting

(* In the initial state. *)
LEMMA QueueInvInit == Init /\ SafelyUsed => QueueInv
<1> SUFFICES ASSUME Init, SafelyUsed PROVE QueueInv
  OBVIOUS
<1>1. PICK dummy \in Addr : head = dummy /\ tail = dummy /\ alloc = {dummy} /\ chain = <<dummy>>
  BY DEF Init
<1>2. chain \in Seq(Addr) /\ Len(chain) = 1 /\ chain[1] = head /\ chain # <<>>
  BY <1>1
<1>3. Nodes(chain) = {head}
  BY <1>2, NodesOf
<1>4. taken = <<>> /\ taken \in Seq(Element) /\ Len(taken) = 0 /\ Nodes(taken) = {}
  <2>1. taken = <<>> /\ taken \in Seq(Element) /\ Len(taken) = 0
    BY EmptySeq DEF Init
  <2>2. QED BY <2>1 DEF Nodes
<1>5. \A p \in Producer : discipline.ops[p] \in Nat
  BY OpsAreNat DEF Init
<1>6. TypeOK
  BY <1>1, <1>2, <1>4, <1>5 DEF Init, TypeOK, Pointer, EnQueuePC, DequeuePC
<1>7. Turns
  BY DEF Init, Turns
<1>8. ListOK
  BY <1>1, <1>2, <1>3 DEF Init, ListOK
<1>9. MemoryOK
  BY <1>1, <1>2, <1>3 DEF Init, MemoryOK, Unlinked, Unhooked
<1>10. AtTail
  BY DEF Init, AtTail, Linked
<1>11. AloneAtTail
  BY <1>1, <1>2 DEF Init, AloneAtTail, Linked
<1>12. AtHead
  BY DEF Init, AtHead, Looking
<1>13. Counted
  <2>1. Counting = {}
    BY DEF Init, Counting
  <2>2. IsFiniteSet(Counting) /\ Cardinality(Counting) = 0
    BY <2>1, FS_EmptySet
  <2>3. size = 0 /\ cpc = "idle"
    BY DEF Init
  <2>4. QED BY <2>2, <2>3, <1>2, SizeByCounting
<1>14. Conserved
  <2>1. Out = taken
    BY DEF Init, Out
  <2>2. Arrived = {}
    BY DEF Init, Arrived, Stored, Unlinked
  <2>3. QED BY <2>1, <2>2, <1>2, <1>4 DEF Conserved
<1>15. QED
  BY <1>6, <1>7, <1>8, <1>9, <1>10, <1>11, <1>12, <1>13, <1>14 DEF QueueInv

-----------------------------------------------------------------------------
(* EnQueue before its node is linked: a step that only looks at the list, or helps
   m_tail_, leaves alone what is linked, allocated and counted. *)
LEMMA OnlyLooks ==
  ASSUME QueueInv, NEW p \in Producer, pc[p] \in Unlinked, NEW c \in Unlinked,
         pc' = [pc EXCEPT ![p] = c],
         UNCHANGED <<discipline, head, size, next, elem, alloc, node, sent, cpc, curHead,
                     succ, chain, taken>>
  PROVE  Turns' /\ MemoryOK' /\ Counted' /\ Conserved'
<1>1. \A q \in Producer : pc'[q] = IF q = p THEN c ELSE pc[q]
  BY DEF QueueInv, TypeOK
<1>2. /\ \A q \in Producer : pc'[q] \in Unlinked <=> pc[q] \in Unlinked
      /\ \A q \in Producer : pc'[q] = "count" <=> pc[q] = "count"
      /\ \A q \in Producer : pc'[q] = "idle" <=> pc[q] = "idle"
  BY <1>1 DEF Unlinked
<1>3. Turns'
  BY <1>2 DEF QueueInv, Turns, Joined, SafelyUsed, OneCaller
<1>4. MemoryOK'
  BY <1>2 DEF QueueInv, MemoryOK, Nodes
<1>5. Counted'
  <2>1. Counting' = Counting
    BY <1>2 DEF Counting
  <2>2. QED BY <2>1 DEF QueueInv, Counted, SizeExact, Counting
<1>6. Conserved'
  <2>1. \A q \in Producer : Stored(q)' = Stored(q)
    BY <1>2 DEF Stored
  <2>2. Arrived' = Arrived /\ Out' = Out
    BY <2>1 DEF Arrived, Out
  <2>3. QED BY <2>2 DEF QueueInv, Conserved, Nodes
<1>7. QED BY <1>3, <1>4, <1>5, <1>6

(* The consumer's knowledge, when neither its locals nor the list changes. *)
LEMMA HeadUndisturbed ==
  ASSUME QueueInv, UNCHANGED <<discipline, head, next, cpc, curHead, succ, seenTail, chain>>,
         cpc = "swingHead" => tail' # head
  PROVE  AtHead'
  BY DEF QueueInv, AtHead

LEMMA LoadTailStep ==
  ASSUME QueueInv, NEW p \in Producer, LoadTail(p)
  PROVE  QueueInv'
<1>1. /\ pc[p] = "loadTail" /\ pc' = [pc EXCEPT ![p] = "loadNext"]
      /\ curTail' = [curTail EXCEPT ![p] = tail]
      /\ UNCHANGED <<shared, discipline, node, curNext, sent, cons, hist>>
  BY DEF LoadTail, Step
<1>2. TypeOK'
  BY <1>1 DEF QueueInv, TypeOK, EnQueuePC, Pointer, shared, mem, cons, hist
<1>3. Turns' /\ MemoryOK' /\ Counted' /\ Conserved'
  BY <1>1, OnlyLooks DEF Unlinked, shared, mem, cons, hist
<1>4. ListOK'
  BY <1>1 DEF QueueInv, ListOK, shared, mem, cons, hist
<1>5. /\ pc'[p] = "loadNext" /\ curTail'[p] = tail
      /\ \A q \in Producer \ {p} : pc'[q] = pc[q] /\ curTail'[q] = curTail[q]
  BY <1>1 DEF QueueInv, TypeOK
<1>6. AtTail'
  BY <1>1, <1>5, ListFacts DEF QueueInv, AtTail, Linked, shared, mem, cons, hist, Nodes
<1>7. AloneAtTail'
  <2> SUFFICES ASSUME ~discipline.joined PROVE AloneAtTail'
    BY <1>1 DEF AloneAtTail
  <2>1. \A q \in Producer : pc[q] # "idle" => q = p
    BY <1>1, Exclusive
  <2>2. tail = chain[Len(chain)]
    BY <2>1, <1>1 DEF QueueInv, AloneAtTail, Linked
  <2>3. QED
    BY <1>1, <1>5, <2>2 DEF QueueInv, AloneAtTail, Linked, shared, mem, cons, hist
<1>8. AtHead'
  BY <1>1, HeadUndisturbed DEF QueueInv, AtHead, shared, mem, cons, hist
<1>9. QED
  BY <1>2, <1>3, <1>4, <1>6, <1>7, <1>8 DEF QueueInv

LEMMA LoadNextStep ==
  ASSUME QueueInv, NEW p \in Producer, LoadNext(p)
  PROVE  QueueInv'
<1>1. /\ pc[p] = "loadNext" /\ pc' = [pc EXCEPT ![p] = "recheck"]
      /\ curNext' = [curNext EXCEPT ![p] = next[curTail[p]]]
      /\ UNCHANGED <<shared, discipline, node, curTail, sent, cons, hist>>
  BY DEF LoadNext, Step
<1>2. curTail[p] \in Nodes(chain) /\ next[curTail[p]] \in Pointer
  BY <1>1, ListFacts DEF QueueInv, AtTail, TypeOK
<1>3. TypeOK'
  BY <1>1, <1>2 DEF QueueInv, TypeOK, EnQueuePC, shared, mem, cons, hist
<1>4. Turns' /\ MemoryOK' /\ Counted' /\ Conserved'
  BY <1>1, OnlyLooks DEF Unlinked, shared, mem, cons, hist
<1>5. ListOK'
  BY <1>1 DEF QueueInv, ListOK, shared, mem, cons, hist
<1>6. /\ pc'[p] = "recheck" /\ curNext'[p] = next[curTail[p]]
      /\ \A q \in Producer \ {p} : pc'[q] = pc[q] /\ curNext'[q] = curNext[q]
  BY <1>1 DEF QueueInv, TypeOK
<1>7. AtTail'
  BY <1>1, <1>2, <1>6 DEF QueueInv, AtTail, Linked, shared, mem, cons, hist, Nodes
<1>8. AloneAtTail'
  <2> SUFFICES ASSUME ~discipline.joined PROVE AloneAtTail'
    BY <1>1 DEF AloneAtTail
  <2>1. curTail[p] = chain[Len(chain)] /\ next[curTail[p]] = NULL
    BY <1>1 DEF QueueInv, AloneAtTail, ListOK
  <2>2. QED
    BY <1>1, <1>6, <2>1 DEF QueueInv, AloneAtTail, Linked, shared, mem, cons, hist
<1>9. AtHead'
  BY <1>1, HeadUndisturbed DEF QueueInv, AtHead, shared, mem, cons, hist
<1>10. QED
  BY <1>3, <1>4, <1>5, <1>7, <1>8, <1>9 DEF QueueInv

(* The second test of m_tail_, and the compare-and-swap that fails. *)
LEMMA RecheckStep ==
  ASSUME QueueInv, NEW p \in Producer, Recheck(p) \/ LinkFails(p)
  PROVE  QueueInv'
<1>1. PICK c \in {"loadTail", "link", "help"} :
         /\ pc' = [pc EXCEPT ![p] = c]
         /\ pc[p] \in {"recheck", "link"}
         /\ c = "link" => pc[p] = "recheck"
         /\ c = "help" => pc[p] = "recheck" /\ curNext[p] # NULL
  BY DEF Recheck, LinkFails, Step
<1>2. UNCHANGED <<shared, discipline, node, curTail, curNext, sent, cons, hist>>
  BY DEF Recheck, LinkFails
<1>3. TypeOK'
  BY <1>1, <1>2 DEF QueueInv, TypeOK, EnQueuePC, shared, mem, cons, hist
<1>4. Turns' /\ MemoryOK' /\ Counted' /\ Conserved'
  BY <1>1, <1>2, OnlyLooks DEF Unlinked, shared, mem, cons, hist
<1>5. ListOK'
  BY <1>2 DEF QueueInv, ListOK, shared, mem, cons, hist
<1>6. pc'[p] = c /\ \A q \in Producer \ {p} : pc'[q] = pc[q]
  BY <1>1 DEF QueueInv, TypeOK
<1>7. AtTail'
  BY <1>1, <1>2, <1>6 DEF QueueInv, AtTail, Linked, shared, mem, cons, hist, Nodes
<1>8. AloneAtTail'
  BY <1>1, <1>2, <1>6 DEF QueueInv, AloneAtTail, Linked, shared, mem, cons, hist
<1>9. AtHead'
  BY <1>2, HeadUndisturbed DEF QueueInv, AtHead, shared, mem, cons, hist
<1>10. QED
  BY <1>3, <1>4, <1>5, <1>7, <1>8, <1>9 DEF QueueInv

(* The thread that finds m_tail_ behind moves it to the last node; it never does when
   it is the only one. *)
LEMMA HelpTailStep ==
  ASSUME QueueInv, NEW p \in Producer, HelpTail(p)
  PROVE  QueueInv'
<1>1. /\ pc[p] = "help" /\ pc' = [pc EXCEPT ![p] = "loadTail"]
      /\ tail' = IF tail = curTail[p] THEN curNext[p] ELSE tail
      /\ UNCHANGED <<head, size, mem, discipline, node, curTail, curNext, sent, cons, hist>>
  BY DEF HelpTail, Step
<1>2. discipline.joined /\ cpc = "idle"
  BY <1>1, Exclusive DEF QueueInv, AloneAtTail
<1>3. tail = curTail[p] => Len(chain) > 1 /\ tail' = chain[Len(chain)]
  BY <1>1, ListFacts DEF QueueInv, AtTail, ListOK
<1>4. tail' \in Addr
  BY <1>1, <1>3, ListFacts DEF QueueInv, TypeOK
<1>5. TypeOK'
  BY <1>1, <1>4 DEF QueueInv, TypeOK, EnQueuePC, mem, cons, hist
<1>6. Turns' /\ MemoryOK' /\ Counted' /\ Conserved'
  BY <1>1, OnlyLooks DEF Unlinked, mem, cons, hist
<1>7. ListOK'
  BY <1>1, <1>3 DEF QueueInv, ListOK, mem, cons, hist
<1>8. pc'[p] = "loadTail" /\ \A q \in Producer \ {p} : pc'[q] = pc[q]
  BY <1>1 DEF QueueInv, TypeOK
<1>9. AtTail'
  <2>1. tail = chain[Len(chain)] => tail' = chain[Len(chain)]
    BY <1>1, <1>3
  <2>2. QED
    BY <1>1, <1>8, <2>1 DEF QueueInv, AtTail, Linked, mem, cons, hist, Nodes
<1>10. AloneAtTail'
  BY <1>1, <1>2 DEF AloneAtTail
<1>11. AtHead'
  BY <1>1, <1>2, HeadUndisturbed DEF mem, cons, hist
<1>12. QED
  BY <1>5, <1>6, <1>7, <1>9, <1>10, <1>11 DEF QueueInv

-----------------------------------------------------------------------------
(* EnQueue: the new node.  new returns an address that is in no list, and that no
   other thread holds in order to link it. *)
LEMMA NewNodeStep ==
  ASSUME QueueInv, NEW p \in Producer, NewNode(p)
  PROVE  QueueInv'
<1>1. PICK a \in Addr \ alloc :
         /\ alloc' = alloc \cup {a}
         /\ next' = [next EXCEPT ![a] = NULL]
         /\ elem' = [elem EXCEPT ![a] = <<p, sent[p] + 1>>]
         /\ node' = [node EXCEPT ![p] = a]
  BY DEF NewNode
<1>2. /\ pc[p] = "idle" /\ sent[p] < discipline.ops[p]
      /\ sent' = [sent EXCEPT ![p] = @ + 1]
      /\ pc' = [pc EXCEPT ![p] = "loadTail"]
      /\ UNCHANGED <<head, tail, size, discipline, curTail, curNext, cons, hist>>
  BY DEF NewNode
<1>3. discipline \in Disciplines /\ sent[p] \in Nat /\ discipline.ops[p] \in Nat
  BY OpsAreNat DEF QueueInv, TypeOK
<1>4. <<p, sent[p] + 1>> \in Element
  BY <1>2, <1>3, ElementOf
<1>5. /\ cpc # "destroyed" /\ (discipline.joined => cpc = "idle")
      /\ ~discipline.joined => \A q \in Producer : pc[q] = "idle"
  BY <1>2, Exclusive
<1>6. sent'[p] = sent[p] + 1 /\ \A q \in Producer \ {p} : sent'[q] = sent[q]
  BY <1>2 DEF QueueInv, Turns
<1>7. /\ pc'[p] = "loadTail" /\ node'[p] = a
      /\ \A q \in Producer \ {p} : pc'[q] = pc[q] /\ node'[q] = node[q]
      /\ next'[a] = NULL /\ elem'[a] = <<p, sent[p] + 1>>
      /\ \A b \in Addr \ {a} : next'[b] = next[b] /\ elem'[b] = elem[b]
  BY <1>1, <1>2 DEF QueueInv, TypeOK
<1>8. a \notin Nodes(chain) /\ \A q \in Producer : pc[q] \in Unlinked => node[q] # a
  BY <1>1, <1>5 DEF QueueInv, MemoryOK
<1>9. TypeOK'
  <2>1. next' \in [Addr -> Pointer] /\ elem' \in [Addr -> Element \cup {NULL}]
    BY <1>1, <1>4 DEF QueueInv, TypeOK, Pointer
  <2>2. pc' \in [Producer -> EnQueuePC] /\ node' \in [Producer -> Pointer]
    BY <1>1, <1>2 DEF QueueInv, TypeOK, Pointer, EnQueuePC
  <2>3. \A q \in Producer : sent'[q] \in 0..discipline'.ops[q]
    BY <1>2, <1>3, <1>6 DEF QueueInv, TypeOK
  <2>4. QED
    BY <1>1, <1>2, <2>1, <2>2, <2>3 DEF QueueInv, TypeOK, cons, hist
<1>10. Turns'
  <2>1. (discipline.joined /\ cpc # "idle") \/ cpc = "destroyed" => FALSE
    BY <1>5
  <2>2. sent' \in [Producer -> Nat] /\ \A q \in Producer : pc'[q] # "idle" => sent'[q] > 0
    BY <1>2, <1>3, <1>6, <1>7 DEF QueueInv, Turns
  <2>3. QED BY <1>2, <2>1, <2>2 DEF QueueInv, Turns, SafelyUsed, OneCaller, cons
<1>11. ListOK'
  <2>1. \A i \in 1..Len(chain) : next'[chain[i]] = next[chain[i]]
    BY <1>7, <1>8, ListFacts
  <2>2. QED BY <2>1, <1>2, ListFacts DEF QueueInv, ListOK, hist
<1>12. MemoryOK'
  <2>1. \A b \in Addr : b \in alloc' <=>
              \/ b \in Nodes(chain)
              \/ \E q \in Producer : pc'[q] \in Unlinked /\ node'[q] = b
              \/ cpc \in Unhooked /\ curHead = b
    BY <1>1, <1>2, <1>5, <1>7 DEF QueueInv, MemoryOK, Unlinked
  <2>2. ASSUME NEW q \in Producer, pc'[q] \in Unlinked
        PROVE  /\ node'[q] \in Addr \ Nodes(chain)
               /\ next'[node'[q]] = NULL
               /\ elem'[node'[q]] = <<q, sent'[q]>>
               /\ cpc \in Unhooked => node'[q] # curHead
               /\ \A r \in Producer : pc'[r] \in Unlinked /\ node'[r] = node'[q] => r = q
    <3>1. CASE q = p
      <4>1. cpc \in Unhooked => a # curHead
        BY <1>1, <1>5 DEF QueueInv, MemoryOK
      <4>2. \A r \in Producer \ {p} : pc'[r] \in Unlinked => node'[r] # a
        BY <1>7, <1>8
      <4>3. QED BY <3>1, <4>1, <4>2, <1>1, <1>6, <1>7, <1>8
    <3>2. CASE q # p
      <4>1. pc[q] \in Unlinked /\ node'[q] = node[q] /\ sent'[q] = sent[q]
        BY <2>2, <3>2, <1>6, <1>7
      <4>2. /\ node[q] \in Addr \ Nodes(chain)
            /\ next[node[q]] = NULL
            /\ elem[node[q]] = <<q, sent[q]>>
            /\ cpc \in Unhooked => node[q] # curHead
            /\ \A r \in Producer : pc[r] \in Unlinked /\ node[r] = node[q] => r = q
        BY <4>1, <1>5 DEF QueueInv, MemoryOK
      <4>3. node[q] # a
        BY <4>1, <1>8
      <4>4. next'[node[q]] = NULL /\ elem'[node[q]] = <<q, sent[q]>>
        BY <4>2, <4>3, <1>7
      <4>5. \A r \in Producer : pc'[r] \in Unlinked /\ node'[r] = node[q] => r = q
        BY <4>2, <4>3, <1>7
      <4>6. QED BY <4>1, <4>2, <4>4, <4>5
    <3>3. QED BY <3>1, <3>2
  <2>3. cpc' = cpc /\ curHead' = curHead /\ chain' = chain /\ cpc # "destroyed"
    BY <1>2, <1>5 DEF cons, hist
  <2>4. cpc \in Unhooked => curHead \in Addr \ Nodes(chain)
    BY DEF QueueInv, MemoryOK
  <2>5. QED BY <2>1, <2>2, <2>3, <2>4 DEF MemoryOK, Nodes
<1>13. AtTail'
  <2>1. \A b \in Nodes(chain) : next'[b] = next[b]
    BY <1>7, <1>8, ListFacts
  <2>2. QED BY <1>2, <1>7, <2>1 DEF QueueInv, AtTail, Linked, hist, Nodes
<1>14. AloneAtTail'
  BY <1>2, <1>5, <1>7 DEF QueueInv, AloneAtTail, Linked, hist
<1>15. AtHead'
  <2>1. next'[head] = next[head]
    BY <1>7, <1>8, ListFacts
  <2>2. QED BY <1>2, <2>1 DEF QueueInv, AtHead, cons, hist
<1>16. Counted'
  <2>1. Counting' = Counting
    BY <1>2, <1>7 DEF Counting
  <2>2. QED BY <1>2, <2>1 DEF QueueInv, Counted, SizeExact, Counting, cons, hist
<1>17. Conserved'
  <2>1. \A q \in Producer : Stored(q)' = Stored(q)
    BY <1>2, <1>3, <1>6, <1>7 DEF Stored, Unlinked
  <2>2. Arrived' = Arrived
    BY <2>1 DEF Arrived
  <2>3. \A b \in Nodes(chain) : elem'[b] = elem[b]
    BY <1>7, <1>8, ListFacts
  <2>4. Out' = Out
    BY <1>2, <2>3, ListFacts DEF Out, QueueInv, AtHead, cons, hist
  <2>5. \A i \in 2..Len(chain) : elem'[chain[i]] = elem[chain[i]]
    BY <2>3, ListFacts
  <2>6. QED BY <1>2, <2>2, <2>4, <2>5 DEF QueueInv, Conserved, Nodes, hist
<1>18. QED
  BY <1>9, <1>10, <1>11, <1>12, <1>13, <1>14, <1>15, <1>16, <1>17 DEF QueueInv

-----------------------------------------------------------------------------
(* EnQueue: the compare-and-swap that links the node.  It can only have hit the last
   node of the list, which m_tail_ then points to. *)
LEMMA LinkAppends ==
  ASSUME QueueInv, NEW p \in Producer, LinkSucceeds(p)
  PROVE  /\ curTail[p] = Last(chain) /\ tail = Last(chain)
         /\ node[p] \in Addr \ Nodes(chain)
         /\ chain' = Append(chain, node[p]) /\ chain' \in Seq(Addr)
         /\ Len(chain') = Len(chain) + 1
         /\ \A i \in 1..Len(chain) : chain'[i] = chain[i]
         /\ chain'[Len(chain) + 1] = node[p]
         /\ Nodes(chain)' = Nodes(chain) \cup {node[p]}
         /\ next'[curTail[p]] = node[p]
         /\ \A a \in Addr \ {curTail[p]} : next'[a] = next[a]
<1>1. pc[p] = "link" /\ next[curTail[p]] = NULL
      /\ next' = [next EXCEPT ![curTail[p]] = node[p]]
      /\ chain' = IF curTail[p] = Last(chain) THEN Append(chain, node[p]) ELSE chain
  BY DEF LinkSucceeds
<1>2. curTail[p] \in Nodes(chain)
  BY <1>1 DEF QueueInv, AtTail
<1>3. curTail[p] = Last(chain) /\ tail = Last(chain)
  BY <1>1, <1>2, ListFacts DEF QueueInv, AtTail
<1>4. node[p] \in Addr \ Nodes(chain)
  BY <1>1 DEF QueueInv, MemoryOK, Unlinked
<1>5. /\ chain' = Append(chain, node[p]) /\ chain' \in Seq(Addr)
      /\ Len(chain') = Len(chain) + 1
      /\ \A i \in 1..Len(chain) : chain'[i] = chain[i]
      /\ chain'[Len(chain) + 1] = node[p]
  BY <1>1, <1>3, <1>4, ListFacts, AppendProperties
<1>6. Nodes(chain)' = Nodes(chain) \cup {node[p]}
  <2>1. Nodes(chain') = Nodes(chain) \cup {node[p]}
    BY <1>4, <1>5, ListFacts, NodesAppend
  <2>2. QED BY <2>1 DEF Nodes
<1>7. next'[curTail[p]] = node[p] /\ \A a \in Addr \ {curTail[p]} : next'[a] = next[a]
  BY <1>1, <1>2, ListFacts DEF QueueInv, TypeOK
<1>8. QED BY <1>3, <1>4, <1>5, <1>6, <1>7

LEMMA LinkSucceedsStep ==
  ASSUME QueueInv, NEW p \in Producer, LinkSucceeds(p)
  PROVE  QueueInv'
<1> DEFINE L == Len(chain)
<1>1. /\ pc[p] = "link" /\ pc' = [pc EXCEPT ![p] = "count"]
      /\ UNCHANGED <<head, tail, size, elem, alloc, discipline, node, curTail, curNext,
                     sent, cons, taken>>
      /\ next' = [next EXCEPT ![curTail[p]] = node[p]]
  BY DEF LinkSucceeds
<1>2. /\ curTail[p] = chain[L] /\ tail = chain[L]
      /\ node[p] \in Addr \ Nodes(chain)
      /\ chain' \in Seq(Addr) /\ Len(chain') = L + 1 /\ L \in Nat \ {0}
      /\ \A i \in 1..L : chain'[i] = chain[i]
      /\ chain'[L + 1] = node[p]
      /\ Nodes(chain)' = Nodes(chain) \cup {node[p]}
      /\ next'[curTail[p]] = node[p]
      /\ \A a \in Addr \ {curTail[p]} : next'[a] = next[a]
  BY LinkAppends, ListFacts
<1>3. \A i \in 1..L : chain[i] \in Nodes(chain) /\ chain[i] \in Addr /\ chain[i] # node[p]
  BY <1>2, ListFacts
<1>4. /\ pc'[p] = "count"
      /\ \A q \in Producer \ {p} : pc'[q] = pc[q]
  BY <1>1 DEF QueueInv, TypeOK
<1>5. /\ cpc # "destroyed" /\ (discipline.joined => cpc = "idle")
      /\ ~discipline.joined => \A q \in Producer : pc[q] # "idle" => q = p
  BY <1>1, Exclusive
<1> HIDE DEF L
<1>6. TypeOK'
  BY <1>1, <1>2 DEF QueueInv, TypeOK, EnQueuePC, Pointer, cons
<1>7. Turns'
  BY <1>1, <1>4, <1>5 DEF QueueInv, Turns, SafelyUsed, OneCaller, cons
<1>8. ListOK'
  <2>1. \A i, j \in 1..L+1 : chain'[i] = chain'[j] => i = j
    BY <1>2, <1>3 DEF QueueInv, ListOK, L
  <2>2. \A i \in 1..L : next'[chain'[i]] = chain'[i+1]
    <3> SUFFICES ASSUME NEW i \in 1..L PROVE next'[chain[i]] = chain'[i+1]
      BY <1>2
    <3>1. CASE i = L
      BY <3>1, <1>2
    <3>2. CASE i # L
      <4>1. i \in 1..L-1 /\ i+1 \in 1..L /\ chain[i] # chain[L]
        BY <3>2, <1>2 DEF QueueInv, ListOK, L
      <4>2. QED BY <4>1, <1>2, <1>3 DEF QueueInv, ListOK, L
    <3>3. QED BY <3>1, <3>2
  <2>3. next'[node[p]] = NULL
    BY <1>1, <1>2, <1>3 DEF QueueInv, MemoryOK, Unlinked
  <2>4. chain' # <<>> /\ head' = chain'[1] /\ tail' = chain'[L]
    BY <1>1, <1>2, EmptySeq DEF QueueInv, ListOK
  <2>5. QED BY <1>2, <2>1, <2>2, <2>3, <2>4 DEF ListOK
<1>9. MemoryOK'
  <2>1. \A b \in Addr : b \in alloc' <=>
              \/ b \in Nodes(chain)'
              \/ \E q \in Producer : pc'[q] \in Unlinked /\ node[q] = b
              \/ cpc \in Unhooked /\ curHead = b
    BY <1>1, <1>2, <1>4, <1>5 DEF QueueInv, MemoryOK, Unlinked
  <2>2. cpc \in Unhooked => curHead \in Addr \ Nodes(chain)'
    BY <1>1, <1>2 DEF QueueInv, MemoryOK, Unlinked
  <2>3. ASSUME NEW q \in Producer, pc'[q] \in Unlinked
        PROVE  /\ node[q] \in Addr \ Nodes(chain)'
               /\ next'[node[q]] = NULL
               /\ elem[node[q]] = <<q, sent[q]>>
               /\ cpc \in Unhooked => node[q] # curHead
               /\ \A r \in Producer : pc'[r] \in Unlinked /\ node[r] = node[q] => r = q
    <3>1. pc[q] \in Unlinked /\ q # p
      BY <2>3, <1>4 DEF Unlinked
    <3>2. node[q] # node[p] /\ node[q] # curTail[p]
      BY <3>1, <1>1, <1>2, <1>3 DEF QueueInv, MemoryOK, Unlinked
    <3>3. QED
      BY <3>1, <3>2, <1>1, <1>2, <1>4 DEF QueueInv, MemoryOK, Unlinked
  <2>4. QED
    BY <2>1, <2>2, <2>3, <1>1, <1>5 DEF QueueInv, MemoryOK, cons
<1>10. AtTail'
  <2> SUFFICES ASSUME NEW q \in Producer
               PROVE  /\ pc'[q] \in {"loadNext", "recheck", "link", "help"}
                           => curTail[q] \in Nodes(chain)'
                      /\ pc'[q] \in {"loadNext", "recheck", "link"} =>
                           curTail[q] # node[p]
                      /\ pc'[q] = "recheck" /\ curNext[q] # NULL
                           => curNext[q] = next'[curTail[q]]
                      /\ pc'[q] = "help" => curNext[q] # NULL /\ curNext[q] = next'[curTail[q]]
                      /\ pc'[q] \in Linked => node[q] \in Addr
                      /\ discipline.joined /\ pc'[q] \in Linked =>
                            curTail[q] \in Nodes(chain)' /\ next'[curTail[q]] = node[q]
    BY <1>1, <1>2 DEF AtTail
  <2>1. CASE q = p
    BY <2>1, <1>2, <1>3, <1>4
  <2>2. CASE q # p
    <3>1. pc'[q] = pc[q]
      BY <2>2, <1>4
    <3>2. \A a \in Nodes(chain) : next[a] # NULL => next'[a] = next[a]
      BY <1>1, <1>2, ListFacts DEF LinkSucceeds
    <3>3. QED
      BY <3>1, <3>2, <1>2, ConstantsAssumption DEF QueueInv, AtTail, Linked
  <2>3. QED BY <2>1, <2>2
<1>11. AloneAtTail'
  BY <1>1, <1>2, <1>4, <1>5 DEF QueueInv, AloneAtTail, Linked, L
<1>12. AtHead'
  <2>1. cpc \in Looking => Len(chain) > 1 /\ ~discipline.joined
    BY <1>5 DEF QueueInv, AtHead, Looking
  <2>2. cpc \in Looking => next'[head] = next[head]
    BY <2>1, <1>2, <1>3 DEF QueueInv, ListOK, L
  <2>3. QED
    BY <2>1, <2>2, <1>1, <1>2, <1>5 DEF QueueInv, AtHead, Looking, L, cons
<1>13. Counted'
  <2>1. Counting' = Counting \cup {p} /\ p \notin Counting
    BY <1>1, <1>4 DEF Counting
  <2>2. IsFiniteSet(Counting) /\ Cardinality(Counting) \in Nat
    BY FS_CardinalityType DEF QueueInv, Counted
  <2>3. IsFiniteSet(Counting') /\ Cardinality(Counting') = Cardinality(Counting) + 1
    BY <2>1, <2>2, FS_AddElement
  <2>4. QED
    BY <2>2, <2>3, <1>1, <1>2 DEF QueueInv, Counted, SizeExact, Counting, L, cons
<1>14. Conserved'
  <2> DEFINE x == <<p, sent[p]>>
  <2>1. sent[p] \in Nat /\ sent[p] > 0
    BY <1>1 DEF QueueInv, Turns
  <2>2. Stored(p) = sent[p] - 1 /\ Stored(p)' = sent[p]
    BY <1>1, <1>4 DEF Stored, Unlinked
  <2>3. \A q \in Producer \ {p} : Stored(q)' = Stored(q)
    BY <1>1, <1>4 DEF Stored, Unlinked
  <2>4. 1..sent[p] = (1..(sent[p]-1)) \cup {sent[p]} /\ sent[p] \notin 1..(sent[p]-1)
    BY <2>1
  <2>5. Arrived' = Arrived \cup {x} /\ x \notin Arrived
    BY <2>2, <2>3, <2>4 DEF Arrived
  <2>6. elem[node[p]] = x
    BY <1>1 DEF QueueInv, MemoryOK, Unlinked
  <2>7. Out' = Out
    BY <1>1 DEF Out, cons
  <2> HIDE DEF x
  <2>8. x \notin Nodes(Out) /\ \A i \in 2..L : elem[chain[i]] # x
    BY <2>5 DEF QueueInv, Conserved, L
  <2>9. /\ \A i \in 2..L : chain'[i] = chain[i]
        /\ \A i \in 2..L+1 : i \in 2..L \/ i = L+1
        /\ L+1 \in 2..L+1
    BY <1>2
  <2>10. Out' \in Seq(Element) /\ (\A i, j \in 1..Len(Out') : Out'[i] = Out'[j] => i = j)
         /\ Nodes(Out)' = Nodes(Out) /\ Nodes(Out) \subseteq Arrived'
    BY <2>5, <2>7 DEF QueueInv, Conserved, Nodes
  <2>11. \A i \in 2..L+1 : elem[chain'[i]] \in Arrived' \ Nodes(Out)
    BY <2>5, <2>6, <2>8, <2>9, <1>2 DEF QueueInv, Conserved, L
  <2>12. \A i, j \in 2..L+1 : elem[chain'[i]] = elem[chain'[j]] => i = j
    BY <2>6, <2>8, <2>9, <1>2 DEF QueueInv, Conserved, L
  <2>13. \A e \in Arrived' : e \in Nodes(Out) \/ \E i \in 2..L+1 : e = elem[chain'[i]]
    BY <2>5, <2>6, <2>9, <1>2 DEF QueueInv, Conserved, L
  <2>14. QED
    BY <2>10, <2>11, <2>12, <2>13, <1>1, <1>2 DEF Conserved
<1>15. QED
  BY <1>6, <1>7, <1>8, <1>9, <1>10, <1>11, <1>12, <1>13, <1>14 DEF QueueInv

-----------------------------------------------------------------------------
(* EnQueue after its node is linked. *)
LEMMA CountInStep ==
  ASSUME QueueInv, NEW p \in Producer, CountIn(p)
  PROVE  QueueInv'
<1>1. /\ pc[p] = "count" /\ pc' = [pc EXCEPT ![p] = "swing"] /\ size' = size + 1
      /\ UNCHANGED <<head, tail, mem, discipline, node, curTail, curNext, sent, cons, hist>>
  BY DEF CountIn, Step
<1>2. pc'[p] = "swing" /\ \A q \in Producer \ {p} : pc'[q] = pc[q]
  BY <1>1 DEF QueueInv, TypeOK
<1>3. \A q \in Producer : /\ pc'[q] \in Unlinked <=> pc[q] \in Unlinked
                          /\ pc'[q] \in Linked <=> pc[q] \in Linked
  BY <1>1, <1>2 DEF Unlinked, Linked
<1>4. TypeOK'
  BY <1>1 DEF QueueInv, TypeOK, EnQueuePC, mem, cons, hist
<1>5. Turns'
  BY <1>1, <1>2, Exclusive DEF QueueInv, Turns, SafelyUsed, OneCaller, cons
<1>6. ListOK'
  BY <1>1 DEF QueueInv, ListOK, mem, hist
<1>7. MemoryOK'
  BY <1>1, <1>3 DEF QueueInv, MemoryOK, mem, cons, hist, Nodes
<1>8. AtTail'
  BY <1>1, <1>2, <1>3 DEF QueueInv, AtTail, mem, cons, hist, Nodes
<1>9. AloneAtTail'
  BY <1>1, <1>2, <1>3 DEF QueueInv, AloneAtTail, mem, cons, hist
<1>10. AtHead'
  BY <1>1, HeadUndisturbed DEF QueueInv, AtHead, mem, cons, hist
<1>11. Counted'
  <2>1. Counting' = Counting \ {p} /\ p \in Counting
    BY <1>1, <1>2 DEF Counting
  <2>2. IsFiniteSet(Counting) /\ Cardinality(Counting) \in Nat
    BY FS_CardinalityType DEF QueueInv, Counted
  <2>3. IsFiniteSet(Counting') /\ Cardinality(Counting') = Cardinality(Counting) - 1
    BY <2>1, <2>2, FS_RemoveElement
  <2>4. size = Len(chain) - 1 - Cardinality(Counting)
                              + (IF cpc \in {"read", "uncount"} THEN 1 ELSE 0)
    BY DEF QueueInv, Counted, SizeExact, Counting
  <2>5. size' = Len(chain) - 1 - Cardinality(Counting')
                               + (IF cpc \in {"read", "uncount"} THEN 1 ELSE 0)
    BY <2>2, <2>3, <2>4, <1>1, ListFacts
  <2>6. QED
    BY <2>3, <2>5, <1>1 DEF Counted, SizeExact, Counting, cons, hist
<1>12. Conserved'
  <2>1. \A q \in Producer : Stored(q)' = Stored(q)
    BY <1>1, <1>3 DEF Stored
  <2>2. Arrived' = Arrived /\ Out' = Out
    BY <2>1, <1>1 DEF Arrived, Out, mem, cons, hist
  <2>3. QED BY <2>2, <1>1 DEF QueueInv, Conserved, Nodes, mem, hist
<1>13. QED
  BY <1>4, <1>5, <1>6, <1>7, <1>8, <1>9, <1>10, <1>11, <1>12 DEF QueueInv

(* m_tail_ moves only if nobody else has helped it, and then to the last node. *)
LEMMA SwingTailStep ==
  ASSUME QueueInv, NEW p \in Producer, SwingTail(p)
  PROVE  QueueInv'
<1>1. /\ pc[p] = "swing" /\ pc' = [pc EXCEPT ![p] = "idle"]
      /\ tail' = IF tail = curTail[p] THEN node[p] ELSE tail
      /\ UNCHANGED <<head, size, mem, discipline, node, curTail, curNext, sent, cons, hist>>
  BY DEF SwingTail, Step
<1>2. /\ cpc # "destroyed" /\ (discipline.joined => cpc = "idle")
      /\ ~discipline.joined => \A q \in Producer : pc[q] # "idle" => q = p
  BY <1>1, Exclusive
<1>3. pc'[p] = "idle" /\ \A q \in Producer \ {p} : pc'[q] = pc[q]
  BY <1>1 DEF QueueInv, TypeOK
<1>4. \A q \in Producer : /\ pc'[q] \in Unlinked <=> pc[q] \in Unlinked
                          /\ pc'[q] \in Linked => pc[q] \in Linked
                          /\ pc'[q] = "count" <=> pc[q] = "count"
  BY <1>1, <1>3 DEF Unlinked, Linked
<1>5. node[p] \in Addr
  BY <1>1 DEF QueueInv, AtTail, Linked
<1>6. tail = curTail[p] => tail' = chain[Len(chain)]
  <2>1. CASE discipline.joined
    BY <2>1, <1>1, <1>5, ListFacts, ConstantsAssumption DEF QueueInv, AtTail, ListOK, Linked
  <2>2. CASE ~discipline.joined
    BY <2>2, <1>1 DEF QueueInv, AloneAtTail, Linked
  <2>3. QED BY <2>1, <2>2
<1>7. /\ tail' = tail \/ tail' = chain[Len(chain)]
      /\ ~discipline.joined => tail' = chain[Len(chain)]
      /\ tail = chain[Len(chain)] => tail' = chain[Len(chain)]
  BY <1>1, <1>6 DEF QueueInv, AloneAtTail, Linked
<1>8. TypeOK'
  BY <1>1, <1>5 DEF QueueInv, TypeOK, EnQueuePC, mem, cons, hist
<1>9. Turns'
  <2>1. ~((discipline.joined /\ cpc # "idle") \/ cpc = "destroyed")
    BY <1>2
  <2>2. \A q \in Producer : pc'[q] # "idle" => sent[q] > 0
    BY <1>3 DEF QueueInv, Turns
  <2>3. QED
    BY <2>1, <2>2, <1>1 DEF QueueInv, Turns, SafelyUsed, OneCaller, cons
<1>10. ListOK'
  BY <1>1, <1>7 DEF QueueInv, ListOK, mem, hist
<1>11. MemoryOK'
  BY <1>1, <1>4 DEF QueueInv, MemoryOK, mem, cons, hist, Nodes
<1>12. AtTail'
  BY <1>1, <1>3, <1>7 DEF QueueInv, AtTail, mem, cons, hist, Nodes, Linked
<1>13. AloneAtTail'
  BY <1>1, <1>2, <1>3, <1>7 DEF QueueInv, AloneAtTail, mem, cons, hist, Linked
<1>14. AtHead'
  <2>1. cpc = "swingHead" => tail' # head
    BY <1>2, <1>7, ListFacts DEF QueueInv, AtHead, ListOK, Looking
  <2>2. QED BY <2>1, <1>1, HeadUndisturbed DEF mem, cons, hist
<1>15. Counted'
  <2>1. Counting' = Counting
    BY <1>4 DEF Counting
  <2>2. QED BY <2>1, <1>1 DEF QueueInv, Counted, SizeExact, Counting, cons, hist
<1>16. Conserved'
  <2>1. \A q \in Producer : Stored(q)' = Stored(q)
    BY <1>1, <1>4 DEF Stored
  <2>2. Arrived' = Arrived /\ Out' = Out
    BY <2>1, <1>1 DEF Arrived, Out, mem, cons, hist
  <2>3. QED BY <2>2, <1>1 DEF QueueInv, Conserved, Nodes, mem, hist
<1>17. QED
  BY <1>8, <1>9, <1>10, <1>11, <1>12, <1>13, <1>14, <1>15, <1>16 DEF QueueInv

-----------------------------------------------------------------------------
(* Dequeue before m_head_ moves: nothing is unlinked, freed or counted. *)
LEMMA NothingDequeued ==
  ASSUME QueueInv, cpc \notin Unhooked \cup {"destroyed"},
         cpc' \in DequeuePC \ (Unhooked \cup {"destroyed"}),
         discipline.joined /\ cpc = "idle" => cpc' = "idle" \/ Joined,
         UNCHANGED <<head, size, mem, prod, hist>>
  PROVE  Turns' /\ MemoryOK' /\ Counted' /\ Conserved'
<1>1. Turns'
  BY DEF QueueInv, Turns, SafelyUsed, OneCaller, Joined, prod
<1>2. MemoryOK'
  BY DEF QueueInv, MemoryOK, Nodes, mem, prod, hist
<1>3. Counted'
  <2>1. Counting' = Counting
    BY DEF Counting, prod
  <2>2. QED
    BY <2>1 DEF QueueInv, Counted, SizeExact, Counting, prod, hist, Unhooked
<1>4. Conserved'
  <2>1. \A q \in Producer : Stored(q)' = Stored(q)
    BY DEF Stored, prod
  <2>2. Arrived' = Arrived /\ Out' = Out
    BY <2>1 DEF Arrived, Out, hist, Unhooked
  <2>3. QED BY <2>2 DEF QueueInv, Conserved, Nodes, mem, hist
<1>5. QED BY <1>1, <1>2, <1>3, <1>4

(* With one producer Dequeue is entered on Size() > 0 only, which never promises an
   element that is not in the list. *)
LEMMA EnterStep ==
  ASSUME QueueInv, Enter
  PROVE  QueueInv'
<1>1. /\ cpc = "idle" /\ cpc' = "loadHead"
      /\ discipline.joined => Joined
      /\ discipline.polls \/ size > 0
      /\ UNCHANGED <<shared, prod, curHead, succ, seenTail, hist>>
  BY DEF Enter, Consume
<1>2. discipline.joined \/ Len(chain) > 1
  <2>1. ~discipline.joined => size > 0
    BY <1>1 DEF QueueInv, Turns, SafelyUsed
  <2>2. Cardinality(Counting) \in Nat
    BY FS_CardinalityType DEF QueueInv, Counted
  <2>3. size = Len(chain) - 1 - Cardinality(Counting)
    BY <1>1, <2>2, ListFacts DEF QueueInv, Counted, SizeExact, Counting
  <2>4. QED BY <2>1, <2>2, <2>3, ListFacts
<1>3. TypeOK'
  BY <1>1 DEF QueueInv, TypeOK, DequeuePC, shared, mem, prod, hist
<1>4. Turns' /\ MemoryOK' /\ Counted' /\ Conserved'
  BY <1>1, NothingDequeued DEF Unhooked, DequeuePC, shared
<1>5. ListOK'
  BY <1>1 DEF QueueInv, ListOK, shared, mem, hist
<1>6. AtTail' /\ AloneAtTail'
  BY <1>1 DEF QueueInv, AtTail, AloneAtTail, Nodes, shared, mem, prod, hist
<1>7. AtHead'
  BY <1>1, <1>2 DEF AtHead, Looking, prod, hist
<1>8. QED
  BY <1>3, <1>4, <1>5, <1>6, <1>7 DEF QueueInv

(* m_head_, its successor and m_tail_ are read one after the other; producers append
   in between, behind the successor. *)
LEMMA LookStep ==
  ASSUME QueueInv, LoadHead \/ LoadSucc \/ LoadSeenTail \/ ReturnEmpty
  PROVE  QueueInv'
<1>1. /\ cpc \in {"loadHead", "loadSucc", "loadSeenTail", "empty"}
      /\ cpc' \in {"loadSucc", "loadSeenTail", "swingHead", "helpTail", "empty", "idle"}
      /\ UNCHANGED <<shared, prod, hist>>
  BY DEF LoadHead, LoadSucc, LoadSeenTail, ReturnEmpty, Consume
<1>2. head \in Addr /\ next[head] \in Pointer
  BY DEF QueueInv, TypeOK
<1>3. curHead' \in Pointer /\ succ' \in Pointer /\ seenTail' \in Pointer
  BY <1>2 DEF QueueInv, TypeOK, AtHead, Looking, Pointer, LoadHead, LoadSucc, LoadSeenTail,
              ReturnEmpty, Consume
<1>4. TypeOK'
  BY <1>1, <1>3 DEF QueueInv, TypeOK, DequeuePC, shared, mem, prod, hist
<1>5. Turns' /\ MemoryOK' /\ Counted' /\ Conserved'
  BY <1>1, NothingDequeued DEF Unhooked, DequeuePC, shared
<1>6. ListOK'
  BY <1>1 DEF QueueInv, ListOK, shared, mem, hist
<1>7. AtTail' /\ AloneAtTail'
  BY <1>1 DEF QueueInv, AtTail, AloneAtTail, Nodes, shared, mem, prod, hist
<1>8. AtHead'
  <2>1. CASE LoadHead
    BY <2>1 DEF LoadHead, Consume, QueueInv, AtHead, Looking, shared, mem, prod, hist
  <2>2. CASE LoadSucc
    BY <2>2 DEF LoadSucc, Consume, QueueInv, AtHead, Looking, shared, mem, prod, hist
  <2>3. CASE LoadSeenTail
    <3>1. /\ curHead = head /\ succ = next[head] /\ seenTail' = tail
          /\ cpc' = IF tail # head THEN "swingHead"
                    ELSE IF succ # NULL THEN "helpTail" ELSE "empty"
          /\ discipline.joined \/ Len(chain) > 1
          /\ UNCHANGED <<discipline, head, next, tail, chain, curHead, succ>>
      BY <2>3 DEF LoadSeenTail, QueueInv, AtHead, Looking, shared, mem, prod, hist
    <3>2. next[head] = NULL => Len(chain) = 1
      <4>1. next[head] = NULL => head = chain[Len(chain)] /\ head = chain[1]
        BY ListFacts DEF QueueInv, ListOK
      <4>2. 1 \in 1..Len(chain) /\ Len(chain) \in 1..Len(chain)
        BY ListFacts
      <4>3. QED BY <4>1, <4>2 DEF QueueInv, ListOK
    <3>3. CASE tail # head
      BY <3>1, <3>3 DEF AtHead, Looking
    <3>4. CASE tail = head /\ succ # NULL
      BY <3>1, <3>4 DEF AtHead, Looking
    <3>5. CASE tail = head /\ succ = NULL
      <4>1. cpc' = "empty" /\ Len(chain) = 1 /\ ~(Len(chain) > 1)
        BY <3>1, <3>2, <3>5
      <4>2. discipline.joined
        BY <3>1, <4>1
      <4>3. QED BY <3>1, <3>5, <4>1, <4>2 DEF AtHead, Looking
    <3>6. QED BY <3>3, <3>4, <3>5
  <2>4. CASE ReturnEmpty
    BY <2>4 DEF ReturnEmpty, Consume, AtHead, Looking
  <2>5. QED BY <2>1, <2>2, <2>3, <2>4
<1>9. QED
  BY <1>4, <1>5, <1>6, <1>7, <1>8 DEF QueueInv

LEMMA ConsumerHelpsStep ==
  ASSUME QueueInv, ConsumerHelps
  PROVE  QueueInv'
<1>1. /\ cpc = "helpTail" /\ cpc' = "loadHead"
      /\ tail' = IF tail = seenTail THEN succ ELSE tail
      /\ UNCHANGED <<head, size, mem, prod, curHead, succ, seenTail, hist>>
  BY DEF ConsumerHelps
<1>2. succ = next[head] /\ succ # NULL /\ seenTail = head
      /\ (discipline.joined \/ Len(chain) > 1)
  BY <1>1 DEF QueueInv, AtHead, Looking
<1>3. tail = seenTail => Len(chain) > 1 /\ tail' = chain[Len(chain)]
  BY <1>1, <1>2, ListFacts DEF QueueInv, ListOK
<1>4. /\ tail' \in Addr
      /\ tail' = tail \/ tail' = chain[Len(chain)]
      /\ tail = chain[Len(chain)] => tail' = chain[Len(chain)]
  BY <1>1, <1>3, ListFacts DEF QueueInv, TypeOK
<1>5. TypeOK'
  BY <1>1, <1>4 DEF QueueInv, TypeOK, DequeuePC, mem, prod, hist
<1>6. Turns' /\ MemoryOK' /\ Counted' /\ Conserved'
  BY <1>1, NothingDequeued DEF Unhooked, DequeuePC
<1>7. ListOK'
  BY <1>1, <1>3, <1>4 DEF QueueInv, ListOK, mem, hist
<1>8. AtTail' /\ AloneAtTail'
  BY <1>1, <1>4 DEF QueueInv, AtTail, AloneAtTail, Nodes, mem, prod, hist
<1>9. AtHead'
  BY <1>1, <1>2 DEF AtHead, Looking, mem, prod, hist
<1>10. QED
  BY <1>5, <1>6, <1>7, <1>8, <1>9 DEF QueueInv

-----------------------------------------------------------------------------
(* Dequeue from the compare-and-swap of m_head_ on.  There is a node behind the dummy,
   and m_tail_ has left the dummy. *)
LEMMA HeadMoves ==
  ASSUME QueueInv, SwingHead
  PROVE  /\ Len(chain) > 1 /\ succ = chain[2] /\ head' = chain[2] /\ curHead = head
         /\ chain' \in Seq(Addr) /\ Len(chain') = Len(chain) - 1
         /\ \A i \in 1..Len(chain') : chain'[i] = chain[i+1]
         /\ Nodes(chain)' = Nodes(chain) \ {head}
         /\ chain'[Len(chain')] = chain[Len(chain)]
<1>1. cpc = "swingHead" /\ head' = succ /\ chain' = Tail(chain)
  BY DEF SwingHead, Consume
<1>2. tail # head /\ succ = next[head] /\ curHead = head
  BY <1>1 DEF QueueInv, AtHead, Looking
<1>3. Len(chain) > 1 /\ Len(chain) \in Nat
  BY <1>2, ListFacts DEF QueueInv, ListOK
<1>4. succ = chain[2]
  BY <1>2, <1>3 DEF QueueInv, ListOK
<1>5. /\ chain' \in Seq(Addr) /\ Len(chain') = Len(chain) - 1
      /\ \A i \in 1..Len(chain') : chain'[i] = chain[i+1]
  BY <1>1, ListFacts, HeadTailProperties DEF QueueInv, ListOK
<1>6. Nodes(chain)' = Nodes(chain) \ {head}
  <2>1. chain[1] = head /\ chain # <<>> /\ \A i, j \in 1..Len(chain) : chain[i] = chain[j] => i = j
    BY DEF QueueInv, ListOK
  <2>2. Nodes(Tail(chain)) = Nodes(chain) \ {head}
    BY <2>1, ListFacts, NodesTail
  <2>3. QED BY <2>2, <1>1 DEF Nodes
<1>7. chain'[Len(chain')] = chain[Len(chain)]
  BY <1>3, <1>5
<1>8. QED BY <1>1, <1>2, <1>3, <1>4, <1>5, <1>6, <1>7

LEMMA SwingHeadStep ==
  ASSUME QueueInv, SwingHead
  PROVE  QueueInv'
<1> DEFINE L == Len(chain)
<1>1. /\ cpc = "swingHead" /\ cpc' = "read"
      /\ UNCHANGED <<tail, size, mem, prod, curHead, succ, seenTail, taken>>
  BY DEF SwingHead, Consume
<1>2. /\ L > 1 /\ L \in Nat /\ succ = chain[2] /\ head' = chain[2] /\ curHead = head
      /\ chain' \in Seq(Addr) /\ Len(chain') = L - 1
      /\ \A i \in 1..L-1 : chain'[i] = chain[i+1]
      /\ Nodes(chain)' = Nodes(chain) \ {head}
      /\ chain'[Len(chain')] = chain[L]
  BY HeadMoves, ListFacts
<1>3. head = chain[1] /\ head \in Nodes(chain) /\ chain[2] \in Nodes(chain)
      /\ \A i \in 2..L : chain[i] # head
  BY <1>2, ListFacts DEF QueueInv, ListOK
<1>4. discipline.joined => \A p \in Producer : pc[p] = "idle"
  BY <1>1 DEF QueueInv, Turns, Joined
<1> HIDE DEF L
<1>5. TypeOK'
  <2>1. head' \in Addr
    BY <1>2, <1>3, ListFacts
  <2>2. QED
    BY <2>1, <1>1, <1>2 DEF QueueInv, TypeOK, DequeuePC, mem, prod
<1>6. Turns'
  BY <1>1 DEF QueueInv, Turns, SafelyUsed, OneCaller, Joined, prod
<1>7. ListOK'
  <2>1. chain' # <<>>
    BY <1>2, EmptySeq
  <2>2. chain'[1] = head'
    BY <1>2
  <2>3. \A i, j \in 1..L-1 : chain'[i] = chain'[j] => i = j
    <3> SUFFICES ASSUME NEW i \in 1..L-1, NEW j \in 1..L-1, chain[i+1] = chain[j+1]
                 PROVE  i = j
      BY <1>2
    <3>1. i + 1 \in 1..L /\ j + 1 \in 1..L
      BY <1>2
    <3>2. i + 1 = j + 1
      BY <3>1 DEF QueueInv, ListOK, L
    <3>3. QED BY <3>2
  <2>4. ASSUME NEW i \in 1..L-2 PROVE next[chain'[i]] = chain'[i+1]
    <3>1. i+1 \in 1..L-1 /\ i \in 1..L-1
      BY <1>2
    <3>2. next[chain[i+1]] = chain[i+2]
      BY <3>1 DEF QueueInv, ListOK, L
    <3>3. QED BY <3>1, <3>2, <1>2
  <2>5. next[chain'[L-1]] = NULL
    BY <1>2 DEF QueueInv, ListOK, L
  <2>6. tail = chain'[L-1] \/ (L-1 > 1 /\ tail = chain'[L-2])
    <3>1. tail # chain[1]
      BY <1>1, <1>3 DEF QueueInv, AtHead
    <3>2. tail = chain[L] \/ (L > 2 /\ tail = chain[L-1])
      BY <1>2, <3>1 DEF QueueInv, ListOK, L
    <3>3. L > 2 => chain'[L-2] = chain[L-1]
      BY <1>2
    <3>4. QED BY <1>2, <3>2, <3>3
  <2>7. L - 1 - 1 = L - 2 /\ L - 1 \in Nat
    BY <1>2
  <2>8. QED
    BY <1>1, <1>2, <2>1, <2>2, <2>3, <2>4, <2>5, <2>6, <2>7 DEF ListOK, mem
<1>8. MemoryOK'
  <2>1. \A b \in Addr : b \in alloc <=>
              \/ b \in Nodes(chain)'
              \/ \E q \in Producer : pc[q] \in Unlinked /\ node[q] = b
              \/ curHead = b
    BY <1>1, <1>2, <1>3 DEF QueueInv, MemoryOK, Unhooked
  <2>2. curHead \in Addr \ Nodes(chain)'
    BY <1>2, <1>3, ListFacts
  <2>3. \A p \in Producer : pc[p] \in Unlinked =>
          /\ node[p] \in Addr \ Nodes(chain)'
          /\ next[node[p]] = NULL
          /\ elem[node[p]] = <<p, sent[p]>>
          /\ node[p] # curHead
          /\ \A q \in Producer : pc[q] \in Unlinked /\ node[q] = node[p] => q = p
    BY <1>2, <1>3 DEF QueueInv, MemoryOK
  <2>4. QED
    BY <2>1, <2>2, <2>3, <1>1 DEF MemoryOK, Unhooked, mem, prod
<1>9. AtTail'
  <2> SUFFICES ASSUME NEW p \in Producer
               PROVE  /\ pc[p] \in {"loadNext", "recheck", "link", "help"}
                           => curTail[p] \in Nodes(chain)'
                      /\ discipline.joined => pc[p] = "idle"
    BY <1>1, <1>2 DEF QueueInv, AtTail, L, mem, prod, Linked
  <2>1. CASE discipline.joined
    BY <2>1, <1>4
  <2>2. CASE ~discipline.joined
    <3>1. pc[p] \in {"loadNext", "recheck", "link", "help"} => curTail[p] = chain[L]
      BY <2>2 DEF QueueInv, AloneAtTail, L
    <3>2. chain[L] \in Nodes(chain) /\ L \in 2..L
      BY <1>2, ListFacts DEF L
    <3>3. QED BY <2>2, <3>1, <3>2, <1>2, <1>3
  <2>3. QED BY <2>1, <2>2
<1>10. AloneAtTail'
  BY <1>1, <1>2 DEF QueueInv, AloneAtTail, L, prod
<1>11. AtHead'
  BY <1>1, <1>2 DEF AtHead, Looking
<1>12. Counted'
  <2>1. Counting' = Counting /\ Cardinality(Counting) \in Nat
    BY <1>1, FS_CardinalityType DEF QueueInv, Counted, Counting, prod
  <2>2. size = L - 1 - Cardinality(Counting)
    BY <2>1, <1>1, <1>2 DEF QueueInv, Counted, SizeExact, Counting, L
  <2>3. size' = Len(chain') - 1 - Cardinality(Counting) + 1
    BY <2>1, <2>2, <1>1, <1>2
  <2>4. QED
    BY <2>1, <2>3, <1>1 DEF QueueInv, Counted, SizeExact, Counting
<1>13. Conserved'
  <2> DEFINE x == elem[chain[2]]
  <2>1. Out = taken /\ Out' = Append(taken, x)
    BY <1>1, <1>2 DEF Out, mem
  <2>2. Arrived' = Arrived
    BY <1>1 DEF Arrived, Stored, prod
  <2>3. x \in Arrived \ Nodes(Out) /\ \A i \in 3..L : elem[chain[i]] # x
    BY <1>2 DEF QueueInv, Conserved, L
  <2>4. x \in Element
    BY <2>3, ArrivedAreElements
  <2> HIDE DEF x
  <2>5. /\ Out' \in Seq(Element) /\ Len(Out') = Len(Out) + 1 /\ Len(Out) \in Nat
        /\ \A i \in 1..Len(Out) : Out'[i] = Out[i]
        /\ Out'[Len(Out) + 1] = x
    BY <2>1, <2>4, AppendProperties, LenProperties DEF QueueInv, Conserved
  <2>6. Nodes(Out)' = Nodes(Out) \cup {x}
    <3>1. Nodes(Append(taken, x)) = Nodes(taken) \cup {x}
      BY <2>1, <2>4, NodesAppend DEF QueueInv, Conserved
    <3>2. QED BY <3>1, <2>1 DEF Nodes
  <2>7. \A i, j \in 1..Len(Out') : Out'[i] = Out'[j] => i = j
    <3>1. \A i \in 1..Len(Out) : Out[i] \in Nodes(Out)
      BY NodesOf DEF QueueInv, Conserved
    <3>2. \A i \in 1..Len(Out') : i \in 1..Len(Out) \/ i = Len(Out) + 1
      BY <2>5
    <3>3. QED
      BY <2>3, <2>5, <3>1, <3>2 DEF QueueInv, Conserved
  <2>8. \A i \in 2..L-1 : i+1 \in 3..L /\ i+1 \in 2..L /\ chain'[i] = chain[i+1]
    BY <1>2
  <2>9. \A i \in 2..L-1 : elem[chain'[i]] \in Arrived \ (Nodes(Out) \cup {x})
    BY <2>3, <2>8 DEF QueueInv, Conserved, L
  <2>10. \A i, j \in 2..L-1 : elem[chain'[i]] = elem[chain'[j]] => i = j
    <3> SUFFICES ASSUME NEW i \in 2..L-1, NEW j \in 2..L-1,
                        elem[chain[i+1]] = elem[chain[j+1]]
                 PROVE  i = j
      BY <2>8
    <3>1. i + 1 = j + 1
      BY <2>8 DEF QueueInv, Conserved, L
    <3>2. QED BY <3>1
  <2>11. ASSUME NEW e \in Arrived, e \notin Nodes(Out) \cup {x}
         PROVE  \E i \in 2..L-1 : e = elem[chain'[i]]
    <3>1. PICK i \in 2..L : e = elem[chain[i]]
      BY <2>11 DEF QueueInv, Conserved, L
    <3>2. i # 2
      BY <3>1, <2>11 DEF x
    <3>3. i-1 \in 2..L-1 /\ chain'[i-1] = chain[i]
      BY <3>1, <3>2, <1>2
    <3>4. QED BY <3>1, <3>3
  <2>12. Nodes(Out)' \subseteq Arrived
    BY <2>3, <2>6 DEF QueueInv, Conserved
  <2>13. QED
    BY <2>2, <2>5, <2>6, <2>7, <2>9, <2>10, <2>11, <2>12, <1>1, <1>2 DEF Conserved, mem
<1>14. QED
  BY <1>5, <1>6, <1>7, <1>8, <1>9, <1>10, <1>11, <1>12, <1>13 DEF QueueInv

LEMMA ReadElementStep ==
  ASSUME QueueInv, ReadElement
  PROVE  QueueInv'
<1>1. /\ cpc = "read" /\ cpc' = "uncount" /\ taken' = Append(taken, elem[succ])
      /\ UNCHANGED <<shared, prod, curHead, succ, seenTail, chain>>
  BY DEF ReadElement, Consume
<1>2. Out = taken' /\ Out' = Out
  BY <1>1 DEF Out
<1>3. taken' \in Seq(Element)
  BY <1>2 DEF QueueInv, Conserved
<1>4. TypeOK'
  BY <1>1, <1>3 DEF QueueInv, TypeOK, DequeuePC, shared, mem, prod
<1>5. Turns'
  BY <1>1 DEF QueueInv, Turns, SafelyUsed, OneCaller, Joined, prod
<1>6. ListOK'
  BY <1>1 DEF QueueInv, ListOK, shared, mem
<1>7. MemoryOK'
  BY <1>1 DEF QueueInv, MemoryOK, Unhooked, Nodes, shared, mem, prod
<1>8. AtTail' /\ AloneAtTail'
  BY <1>1 DEF QueueInv, AtTail, AloneAtTail, Nodes, shared, mem, prod
<1>9. AtHead'
  BY <1>1 DEF AtHead, Looking
<1>10. Counted'
  BY <1>1 DEF QueueInv, Counted, SizeExact, Counting, shared, prod
<1>11. Conserved'
  <2>1. Arrived' = Arrived
    BY <1>1 DEF Arrived, Stored, prod
  <2>2. QED BY <2>1, <1>1, <1>2 DEF QueueInv, Conserved, Nodes, shared, mem
<1>12. QED
  BY <1>4, <1>5, <1>6, <1>7, <1>8, <1>9, <1>10, <1>11 DEF QueueInv

LEMMA CountOutStep ==
  ASSUME QueueInv, CountOut
  PROVE  QueueInv'
<1>1. /\ cpc = "uncount" /\ cpc' = "delete" /\ size' = size - 1
      /\ UNCHANGED <<head, tail, mem, prod, curHead, succ, seenTail, hist>>
  BY DEF CountOut, Consume
<1>2. TypeOK'
  BY <1>1 DEF QueueInv, TypeOK, DequeuePC, mem, prod, hist
<1>3. Turns'
  BY <1>1 DEF QueueInv, Turns, SafelyUsed, OneCaller, Joined, prod
<1>4. ListOK'
  BY <1>1 DEF QueueInv, ListOK, mem, hist
<1>5. MemoryOK'
  BY <1>1 DEF QueueInv, MemoryOK, Unhooked, Nodes, mem, prod, hist
<1>6. AtTail' /\ AloneAtTail'
  BY <1>1 DEF QueueInv, AtTail, AloneAtTail, Nodes, mem, prod, hist
<1>7. AtHead'
  BY <1>1 DEF AtHead, Looking
<1>8. Counted'
  <2>1. Counting' = Counting /\ Cardinality(Counting) \in Nat
    BY <1>1, FS_CardinalityType DEF QueueInv, Counted, Counting, prod
  <2>2. size = Len(chain) - 1 - Cardinality(Counting) + 1
    BY <1>1 DEF QueueInv, Counted, SizeExact, Counting
  <2>3. size' = Len(chain) - 1 - Cardinality(Counting) + 0
    BY <2>1, <2>2, <1>1, ListFacts
  <2>4. QED
    BY <2>1, <2>3, <1>1 DEF QueueInv, Counted, SizeExact, Counting, hist
<1>9. Conserved'
  <2>1. Arrived' = Arrived /\ Out' = Out
    BY <1>1 DEF Arrived, Stored, Out, prod, hist
  <2>2. QED BY <2>1, <1>1 DEF QueueInv, Conserved, Nodes, mem, hist
<1>10. QED
  BY <1>2, <1>3, <1>4, <1>5, <1>6, <1>7, <1>8, <1>9 DEF QueueInv

(* The old dummy is in no list and nobody is about to link it. *)
LEMMA DeleteHeadStep ==
  ASSUME QueueInv, DeleteHead
  PROVE  QueueInv'
<1>1. /\ cpc = "delete" /\ cpc' = "idle" /\ alloc' = alloc \ {curHead}
      /\ UNCHANGED <<head, tail, size, next, elem, prod, curHead, succ, seenTail, hist>>
  BY DEF DeleteHead, Consume
<1>2. TypeOK'
  BY <1>1 DEF QueueInv, TypeOK, DequeuePC, prod, hist
<1>3. Turns'
  BY <1>1 DEF QueueInv, Turns, SafelyUsed, OneCaller, Joined, prod
<1>4. ListOK'
  BY <1>1 DEF QueueInv, ListOK, hist
<1>5. MemoryOK'
  <2>1. curHead \notin Nodes(chain) /\ \A p \in Producer : pc[p] \in Unlinked => node[p] # curHead
    BY <1>1 DEF QueueInv, MemoryOK, Unhooked
  <2>2. \A a \in Addr : a \in alloc <=>
              \/ a \in Nodes(chain)
              \/ \E p \in Producer : pc[p] \in Unlinked /\ node[p] = a
              \/ curHead = a
    BY <1>1 DEF QueueInv, MemoryOK, Unhooked
  <2>3. \A a \in Addr : a \in alloc' <=>
              \/ a \in Nodes(chain)
              \/ \E p \in Producer : pc[p] \in Unlinked /\ node[p] = a
    BY <2>1, <2>2, <1>1
  <2>4. QED
    BY <2>3, <1>1 DEF QueueInv, MemoryOK, Unhooked, Nodes, prod, hist
<1>6. AtTail' /\ AloneAtTail'
  BY <1>1 DEF QueueInv, AtTail, AloneAtTail, Nodes, prod, hist
<1>7. AtHead'
  BY <1>1 DEF AtHead, Looking
<1>8. Counted'
  <2>1. Counting' = Counting
    BY <1>1 DEF Counting, prod
  <2>2. QED
    BY <2>1, <1>1 DEF QueueInv, Counted, SizeExact, Counting, prod, hist
<1>9. Conserved'
  <2>1. Arrived' = Arrived /\ Out' = Out
    BY <1>1 DEF Arrived, Stored, Out, prod, hist
  <2>2. QED BY <2>1, <1>1 DEF QueueInv, Conserved, Nodes, hist
<1>10. QED
  BY <1>2, <1>3, <1>4, <1>5, <1>6, <1>7, <1>8, <1>9 DEF QueueInv

(* The destructor finds the dummy alone, once everybody has returned and m_size_ is 0. *)
LEMMA DestroyStep ==
  ASSUME QueueInv, Destroy
  PROVE  QueueInv'
<1>1. /\ cpc = "idle" /\ cpc' = "destroyed" /\ Joined /\ size = 0
      /\ alloc' = alloc \ {head}
      /\ UNCHANGED <<head, tail, size, next, elem, prod, curHead, succ, seenTail, hist>>
  BY DEF Destroy
<1>2. \A p \in Producer : pc[p] = "idle"
  BY <1>1 DEF Joined
<1>3. Len(chain) = 1 /\ Nodes(chain) = {head}
  <2>1. Counting = {}
    BY <1>2 DEF Counting
  <2>2. size = Len(chain) - 1 - Cardinality(Counting) + 0
    BY <1>1 DEF QueueInv, Counted, SizeExact, Counting
  <2>3. Cardinality(Counting) = 0
    BY <2>1, FS_EmptySet
  <2>4. Len(chain) = 1
    BY <2>2, <2>3, <1>1, ListFacts
  <2>5. QED BY <2>4, ListFacts DEF QueueInv, ListOK
<1>4. TypeOK'
  BY <1>1 DEF QueueInv, TypeOK, DequeuePC, prod, hist
<1>5. Turns'
  BY <1>1 DEF QueueInv, Turns, SafelyUsed, OneCaller, Joined, prod
<1>6. ListOK'
  BY <1>1 DEF QueueInv, ListOK, hist
<1>7. MemoryOK'
  <2>1. alloc = {head}
    <3>1. alloc \subseteq Addr /\ head \in Addr
      BY DEF QueueInv, TypeOK
    <3>2. \A a \in Addr : a \in alloc <=>
              \/ a \in Nodes(chain)
              \/ \E p \in Producer : pc[p] \in Unlinked /\ node[p] = a
              \/ cpc \in Unhooked /\ curHead = a
      BY <1>1 DEF QueueInv, MemoryOK
    <3>3. \A a \in Addr : a \in alloc <=> a = head
      BY <3>2, <1>1, <1>2, <1>3 DEF Unlinked, Unhooked
    <3>4. QED BY <3>1, <3>3
  <2>2. alloc' = {}
    BY <2>1, <1>1
  <2>3. QED
    BY <2>2, <1>1, <1>2, <1>3 DEF MemoryOK, Unlinked, Unhooked, prod, hist
<1>8. AtTail' /\ AloneAtTail'
  BY <1>1 DEF QueueInv, AtTail, AloneAtTail, Nodes, prod, hist
<1>9. AtHead'
  BY <1>1 DEF AtHead, Looking
<1>10. Counted'
  <2>1. Counting' = Counting
    BY <1>1 DEF Counting, prod
  <2>2. QED
    BY <2>1, <1>1 DEF QueueInv, Counted, SizeExact, Counting, prod, hist
<1>11. Conserved'
  <2>1. Arrived' = Arrived /\ Out' = Out
    BY <1>1 DEF Arrived, Stored, Out, prod, hist
  <2>2. QED BY <2>1, <1>1 DEF QueueInv, Conserved, Nodes, hist
<1>12. QED
  BY <1>4, <1>5, <1>6, <1>7, <1>8, <1>9, <1>10, <1>11 DEF QueueInv

-----------------------------------------------------------------------------
(* A stuttering step. *)
LEMMA QueueInvUnchanged == QueueInv /\ UNCHANGED vars => QueueInv'
<1> SUFFICES ASSUME QueueInv, UNCHANGED vars PROVE QueueInv'
  OBVIOUS
<1> USE DEF QueueInv, vars, shared, mem, prod, cons, hist
<1>1. TypeOK' /\ Turns' /\ ListOK'
  BY DEF TypeOK, Turns, SafelyUsed, OneCaller, Joined, ListOK
<1>2. MemoryOK' /\ AtTail' /\ AloneAtTail' /\ AtHead'
  BY DEF MemoryOK, AtTail, AloneAtTail, AtHead, Nodes
<1>3. Counted'
  BY DEF Counted, SizeExact, Counting
<1>4. Conserved'
  BY DEF Conserved, Out, Arrived, Stored, Nodes
<1>5. QED
  BY <1>1, <1>2, <1>3, <1>4

(* Every step of a producer, the consumer or the destructor keeps the invariant. *)
LEMMA QueueInvStep == QueueInv /\ [Next]_vars => QueueInv'
<1> SUFFICES ASSUME QueueInv, [Next]_vars PROVE QueueInv'
  OBVIOUS
<1>1. ASSUME NEW p \in Producer, EnQueue(p) PROVE QueueInv'
  BY <1>1, NewNodeStep, LoadTailStep, LoadNextStep, RecheckStep, LinkSucceedsStep,
     CountInStep, SwingTailStep, HelpTailStep DEF EnQueue
<1>2. CASE Dequeue
  BY <1>2, EnterStep, LookStep, ConsumerHelpsStep, SwingHeadStep, ReadElementStep,
     CountOutStep, DeleteHeadStep DEF Dequeue
<1>3. CASE Destroy
  BY <1>3, DestroyStep
<1>4. CASE UNCHANGED vars
  BY <1>4, QueueInvUnchanged
<1>5. QED
  BY <1>1, <1>2, <1>3, <1>4 DEF Next, Gone

(* The inductive invariant holds throughout, for every queue that is used safely. *)
LEMMA QueueInvariant == Spec /\ SafelyUsed => []QueueInv
<1>1. Init /\ SafelyUsed => QueueInv
  BY QueueInvInit
<1>2. QueueInv /\ [Next]_vars => QueueInv'
  BY QueueInvStep
<1>3. QED
  BY <1>1, <1>2, PTL DEF Spec

-----------------------------------------------------------------------------
(* The properties of LockFreeQueue, for any number of threads, calls and addresses. *)

(* m_head_ and m_tail_ point to nodes; every variable has its type. *)
THEOREM QueueTypeCorrect == Spec /\ SafelyUsed => []TypeOK
<1>1. QueueInv => TypeOK
  BY DEF QueueInv
<1>2. QED BY <1>1, QueueInvariant, PTL

(* What the invariant says of the pointers in use. *)
LEMMA PointersAllocated ==
  ASSUME QueueInv
  PROVE  NoUseAfterFree
<1>1. cpc # "destroyed" => Nodes(chain) \subseteq alloc
  BY ListFacts DEF QueueInv, MemoryOK
<1>2. ASSUME NEW p \in Producer, pc[p] \in {"loadNext", "link"} PROVE curTail[p] \in alloc
  <2>1. cpc # "destroyed"
    BY <1>2, Exclusive
  <2>2. QED BY <1>1, <1>2, <2>1 DEF QueueInv, AtTail
<1>3. cpc = "loadSucc" => curHead \in alloc
  BY <1>1, ListFacts DEF QueueInv, AtHead, Looking
<1>4. cpc = "delete" => curHead \in alloc
  BY DEF QueueInv, MemoryOK, Unhooked
<1>5. cpc = "read" => succ \in alloc
  BY <1>1, ListFacts DEF QueueInv, AtHead
<1>6. QED BY <1>2, <1>3, <1>4, <1>5 DEF NoUseAfterFree

(* No thread reads or writes a deleted node, although Dequeue deletes nodes at once
   and new returns their addresses again. *)
THEOREM NeverUsesFreed == Spec /\ SafelyUsed => []NoUseAfterFree
<1>1. QueueInv => NoUseAfterFree
  BY PointersAllocated
<1>2. QED BY <1>1, QueueInvariant, PTL

(* What it says of the list. *)
LEMMA ShapeFromInv ==
  ASSUME QueueInv
  PROVE  ListShape
<1> SUFFICES ASSUME cpc # "destroyed"
             PROVE  /\ chain # <<>> /\ head = chain[1]
                    /\ Nodes(chain) \subseteq alloc
                    /\ \A i \in 1..Len(chain)-1 : next[chain[i]] = chain[i+1]
                    /\ next[Last(chain)] = NULL
                    /\ \E i \in {Len(chain) - 1, Len(chain)} \cap DOMAIN chain : tail = chain[i]
  BY DEF ListShape
<1>1. Nodes(chain) \subseteq alloc
  BY ListFacts DEF QueueInv, MemoryOK
<1>2. DOMAIN chain = 1..Len(chain)
  BY ListFacts, LenProperties
<1>3. \E i \in {Len(chain) - 1, Len(chain)} \cap DOMAIN chain : tail = chain[i]
  <2>1. CASE tail = chain[Len(chain)]
    <3>1. Len(chain) \in {Len(chain) - 1, Len(chain)} \cap DOMAIN chain
      BY <1>2, ListFacts
    <3>2. QED BY <2>1, <3>1
  <2>2. CASE Len(chain) > 1 /\ tail = chain[Len(chain) - 1]
    <3>1. Len(chain) - 1 \in {Len(chain) - 1, Len(chain)} \cap DOMAIN chain
      BY <1>2, <2>2, ListFacts
    <3>2. QED BY <2>2, <3>1
  <2>3. QED BY <2>1, <2>2 DEF QueueInv, ListOK
<1>4. QED BY <1>1, <1>3, ListFacts DEF QueueInv, ListOK

(* The list, the head and the tail agree. *)
THEOREM ListKeepsShape == Spec /\ SafelyUsed => []ListShape
<1>1. QueueInv => ListShape
  BY ShapeFromInv
<1>2. QED BY <1>1, QueueInvariant, PTL

(* m_size_ is the number of elements but for the calls that are between the list and
   the counter. *)
THEOREM SizeIsExact == Spec /\ SafelyUsed => []SizeExact
<1>1. QueueInv => SizeExact
  BY DEF QueueInv, Counted
<1>2. QED BY <1>1, QueueInvariant, PTL

(* Dequeue returns the empty Element{} only from an empty queue. *)
THEOREM EmptyHandedFromEmpty == Spec /\ SafelyUsed => []EmptyHandedOnlyWhenEmpty
<1>1. QueueInv => EmptyHandedOnlyWhenEmpty
  BY DEF QueueInv, AtHead, EmptyHandedOnlyWhenEmpty
<1>2. QED BY <1>1, QueueInvariant, PTL

(* What it says of the element about to be read. *)
LEMMA FreshFromInv ==
  ASSUME QueueInv
  PROVE  DequeuedWasEnqueued
<1> SUFFICES ASSUME cpc = "read"
             PROVE  /\ succ \in Addr
                    /\ elem[succ] \in {e \in Element : e[2] <= sent[e[1]]} \ Nodes(taken)
  BY DEF DequeuedWasEnqueued
<1> DEFINE x == elem[succ]
           n == Len(taken)
<1>1. Out = Append(taken, x) /\ succ \in Addr
  BY ListFacts DEF Out, QueueInv, AtHead
<1>2. x \in Element \cup {NULL}
  BY <1>1 DEF QueueInv, TypeOK
<1>3. taken \in Seq(Element) /\ n \in Nat
  BY LenProperties DEF QueueInv, TypeOK
<1> HIDE DEF x
<1>4. /\ Len(Out) = n + 1 /\ Out[n + 1] = x /\ Out \in Seq(Element)
      /\ \A i \in 1..n : Out[i] = taken[i]
  <2>1. taken \in Seq(Element \cup {NULL}) /\ x \in Element \cup {NULL}
    BY <1>2, <1>3, SeqMonotonic
  <2>2. QED BY <1>1, <2>1, AppendProperties DEF QueueInv, Conserved
<1>5. x \notin Nodes(taken)
  <2>1. \A i \in 1..n : i \in 1..Len(Out) /\ n + 1 \in 1..Len(Out) /\ i # n + 1
    BY <1>3, <1>4
  <2>2. \A i \in 1..n : taken[i] # x
    BY <1>4, <2>1 DEF QueueInv, Conserved
  <2>3. QED BY <1>3, <2>2, NodesOf
<1>6. x \in Nodes(Out)
  BY <1>3, <1>4, NodesOf
<1>7. x \in Arrived /\ x \in Element
  BY <1>6, ArrivedAreElements DEF QueueInv, Conserved
<1>8. PICK p \in Producer : \E k \in 1..Stored(p) : x = <<p, k>>
  BY <1>7 DEF Arrived
<1>9. Stored(p) <= sent[p] /\ Stored(p) \in Nat /\ sent[p] \in Nat
  BY StoredType DEF Stored, QueueInv, Turns
<1>10. x[1] = p /\ x[2] <= sent[x[1]]
  BY <1>8, <1>9
<1>11. QED BY <1>1, <1>5, <1>7, <1>10 DEF x

(* What Dequeue returns was enqueued and was not returned before.  A run shows that
   this fails in the use that Scheduler makes of the queue. *)
THEOREM DequeuesWhatWasEnqueued == Spec /\ SafelyUsed => []DequeuedWasEnqueued
<1>1. QueueInv => DequeuedWasEnqueued
  BY FreshFromInv
<1>2. QED BY <1>1, QueueInvariant, PTL

(* What it says of a queue that was destroyed. *)
LEMMA AllOutFromInv ==
  ASSUME QueueInv
  PROVE  NothingLost
<1> SUFFICES ASSUME cpc = "destroyed"
             PROVE  /\ alloc = {} /\ Nodes(taken) = Elements(discipline)
                    /\ Len(taken) = Cardinality(Elements(discipline))
  BY DEF NothingLost
<1>1. alloc = {} /\ Len(chain) = 1 /\ Joined
  BY DEF QueueInv, MemoryOK, Turns
<1>2. Out = taken
  BY DEF Out
<1>3. \A p \in Producer : Stored(p) = discipline.ops[p]
  BY <1>1 DEF Joined, Stored, Unlinked
<1>4. Arrived = Elements(discipline)
  BY <1>3 DEF Arrived, Elements
<1>5. Nodes(taken) = Arrived
  <2>1. Arrived \subseteq Nodes(taken)
    BY <1>1, <1>2 DEF QueueInv, Conserved
  <2>2. QED BY <2>1, <1>2 DEF QueueInv, Conserved
<1>6. Len(taken) = Cardinality(Nodes(taken))
  <2> DEFINE n == Len(taken)
  <2>1. taken \in [1..n -> Element] /\ n \in Nat /\ Nodes(taken) = {taken[i] : i \in 1..n}
    BY NodesOf, LenProperties DEF QueueInv, TypeOK
  <2>2. taken \in Bijection(1..n, Nodes(taken))
    <3>1. taken \in [1..n -> Nodes(taken)]
      BY <2>1
    <3>2. taken \in Injection(1..n, Nodes(taken))
      BY <3>1, <1>2 DEF Injection, IsInjective, QueueInv, Conserved
    <3>3. taken \in Surjection(1..n, Nodes(taken))
      BY <3>1, <2>1 DEF Surjection
    <3>4. QED BY <3>2, <3>3 DEF Bijection
  <2>3. QED BY <2>1, <2>2, FS_CountingElements DEF ExistsBijection
<1>7. QED BY <1>1, <1>4, <1>5, <1>6

(* The destructor frees the last node, and by then every element has come out once. *)
THEOREM NothingIsLost == Spec /\ SafelyUsed => []NothingLost
<1>1. QueueInv => NothingLost
  BY AllOutFromInv
<1>2. QED BY <1>1, QueueInvariant, PTL

-----------------------------------------------------------------------------
(* Used safely, the queue implements the FIFO with a lagging counter of TaskQueue.  An
   element is put at the compare-and-swap of a node's m_next_ and taken at that of
   m_head_; only the fetch_add of EnQueue is a step of its own. *)

(* The abstract state: the substitutions of Fifo by name. *)
FifoQueue == [i \in 1..Len(chain)-1 |-> elem[chain[i+1]]]
FifoSize  == IF cpc \in {"read", "uncount"} THEN size - 1 ELSE size

(* Size() > 0 was seen before Dequeue was entered, and only Dequeue takes back. *)
Licensed == cpc \in Looking \cup {"loadHead"} => discipline.joined \/ size > 0

-----------------------------------------------------------------------------
(* A function on 1..n is a sequence. *)
LEMMA FunctionIsSeq ==
  ASSUME NEW S, NEW n \in Nat, NEW f \in [1..n -> S]
  PROVE  f \in Seq(S) /\ Len(f) = n
  BY SeqDef

(* The abstract queue holds the elements behind the dummy. *)
LEMMA FifoQueueSeq ==
  ASSUME QueueInv
  PROVE  /\ FifoQueue \in Seq(Element) /\ Len(FifoQueue) = Len(chain) - 1
         /\ \A i \in 1..Len(chain)-1 : FifoQueue[i] = elem[chain[i+1]]
         /\ Fifo!Contents(FifoQueue) = {elem[chain[i]] : i \in 2..Len(chain)}
<1>1. Len(chain) \in Nat \ {0}
  BY ListFacts
<1>2. \A i \in 1..Len(chain)-1 : i+1 \in 2..Len(chain)
  BY <1>1
<1>3. \A i \in 1..Len(chain)-1 : elem[chain[i+1]] \in Element
  BY <1>2, ArrivedAreElements DEF QueueInv, Conserved
<1>4. FifoQueue \in [1..Len(chain)-1 -> Element]
  BY <1>3 DEF FifoQueue
<1>5. FifoQueue \in Seq(Element) /\ Len(FifoQueue) = Len(chain) - 1
  BY <1>1, <1>4, FunctionIsSeq
<1>6. \A i \in 1..Len(chain)-1 : FifoQueue[i] = elem[chain[i+1]]
  BY DEF FifoQueue
<1>7. Fifo!Contents(FifoQueue) = {FifoQueue[i] : i \in 1..Len(chain)-1}
  <2>1. Nodes(FifoQueue) = {FifoQueue[i] : i \in 1..Len(chain)-1}
    BY <1>5, NodesOf
  <2>2. QED BY <2>1 DEF Fifo!Contents, Nodes
<1>8. \A i \in 2..Len(chain) : i-1 \in 1..Len(chain)-1 /\ (i-1)+1 = i
  BY <1>1
<1>9. {FifoQueue[i] : i \in 1..Len(chain)-1} = {elem[chain[i]] : i \in 2..Len(chain)}
  <2>1. ASSUME NEW i \in 1..Len(chain)-1
        PROVE  FifoQueue[i] \in {elem[chain[j]] : j \in 2..Len(chain)}
    BY <1>2, <1>6
  <2>2. ASSUME NEW j \in 2..Len(chain)
        PROVE  elem[chain[j]] \in {FifoQueue[i] : i \in 1..Len(chain)-1}
    <3>1. j-1 \in 1..Len(chain)-1 /\ FifoQueue[j-1] = elem[chain[j]]
      BY <1>6, <1>8
    <3>2. QED BY <3>1
  <2>3. QED BY <2>1, <2>2
<1>10. QED BY <1>5, <1>6, <1>7, <1>9

(* What the actions of TaskQueue say in the abstract state. *)
LEMMA FifoActions ==
  /\ Fifo!QueueInit <=> FifoQueue = <<>> /\ FifoSize = 0 /\ Out = <<>>
  /\ \A e : Fifo!Put(e) <=>
        /\ e \notin Fifo!Contents(FifoQueue) \cup Fifo!Contents(Out)
        /\ FifoQueue' = Append(FifoQueue, e)
        /\ FifoSize' = FifoSize /\ Out' = Out
  /\ Fifo!Count <=> /\ FifoSize < Len(FifoQueue) /\ FifoSize' = FifoSize + 1
                    /\ FifoQueue' = FifoQueue /\ Out' = Out
  /\ Fifo!Take <=> /\ FifoSize > 0 /\ FifoQueue # <<>>
                   /\ Out' = Append(Out, Head(FifoQueue))
                   /\ FifoQueue' = Tail(FifoQueue)
                   /\ FifoSize' = FifoSize - 1
  /\ UNCHANGED Fifo!queueVars <=>
        FifoQueue' = FifoQueue /\ FifoSize' = FifoSize /\ Out' = Out
  BY DEF Fifo!QueueInit, Fifo!Put, Fifo!Count, Fifo!Take, Fifo!queueVars, FifoQueue,
         FifoSize, Out

-----------------------------------------------------------------------------
(* A step that leaves the elements in the list alone leaves the abstract queue alone. *)
LEMMA QueueUntouched ==
  ASSUME QueueInv, chain' = chain, \A a \in Nodes(chain) : elem'[a] = elem[a]
  PROVE  FifoQueue' = FifoQueue
<1>1. \A i \in 1..Len(chain)-1 : chain[i+1] \in Nodes(chain)
  BY ListFacts
<1>2. QED BY <1>1 DEF FifoQueue

LEMMA LicensedStep == QueueInv /\ Licensed /\ [Next]_vars => Licensed'
<1> SUFFICES ASSUME QueueInv, Licensed, [Next]_vars PROVE Licensed'
  OBVIOUS
<1>1. discipline' = discipline /\ size \in Int
  BY DEF Next, EnQueue, Dequeue, Destroy, Gone, NewNode, LoadTail, LoadNext, Recheck,
         LinkSucceeds, LinkFails, CountIn, SwingTail, HelpTail, Enter, LoadHead, LoadSucc,
         LoadSeenTail, ConsumerHelps, ReturnEmpty, SwingHead, ReadElement, CountOut,
         DeleteHead, vars, prod, QueueInv, TypeOK
<1>2. CASE cpc' \notin Looking \cup {"loadHead"}
  BY <1>2 DEF Licensed
<1>3. CASE cpc' = cpc
  <2>1. cpc \notin Unhooked => size' = size \/ size' = size + 1
    BY <1>3 DEF Next, EnQueue, Dequeue, Destroy, Gone, NewNode, LoadTail, LoadNext,
           Recheck, LinkSucceeds, LinkFails, CountIn, SwingTail, HelpTail, Enter, LoadHead,
           LoadSucc, LoadSeenTail, ConsumerHelps, ReturnEmpty, SwingHead, ReadElement,
           CountOut, DeleteHead, vars, shared, Consume, Unhooked
  <2>2. QED BY <2>1, <1>1, <1>3 DEF Licensed, Looking, Unhooked
<1>4. CASE cpc' # cpc /\ cpc' \in Looking \cup {"loadHead"}
  <2>1. Enter \/ LoadHead \/ LoadSucc \/ LoadSeenTail \/ ConsumerHelps
    BY <1>4 DEF Next, EnQueue, Dequeue, Destroy, Gone, NewNode, LoadTail, LoadNext,
           Recheck, LinkSucceeds, LinkFails, CountIn, SwingTail, HelpTail, ReturnEmpty,
           SwingHead, ReadElement, CountOut, DeleteHead, vars, cons, Consume, Looking
  <2>2. CASE Enter
    BY <2>2, <1>1 DEF Enter, Licensed, QueueInv, Turns, SafelyUsed, shared
  <2>3. CASE LoadHead \/ LoadSucc \/ LoadSeenTail \/ ConsumerHelps
    BY <2>3, <1>1 DEF LoadHead, LoadSucc, LoadSeenTail, ConsumerHelps, Consume, Licensed,
                      Looking, shared
  <2>4. QED BY <2>1, <2>2, <2>3
<1>5. QED BY <1>2, <1>3, <1>4

-----------------------------------------------------------------------------
(* The linking compare-and-swap is Put. *)
LEMMA LinkIsPut ==
  ASSUME QueueInv, NEW p \in Producer, LinkSucceeds(p)
  PROVE  Fifo!QueueNext
<1> DEFINE x == <<p, sent[p]>>
           L == Len(chain)
<1>1. /\ pc[p] = "link" /\ pc' = [pc EXCEPT ![p] = "count"]
      /\ UNCHANGED <<size, elem, sent, cpc, succ, taken, discipline>>
  BY DEF LinkSucceeds, cons
<1>2. sent[p] \in Nat /\ sent[p] > 0 /\ Stored(p) = sent[p] - 1
  BY <1>1 DEF QueueInv, Turns, Stored, Unlinked
<1>3. x \notin Arrived /\ x \in Element
  <2>1. x \notin Arrived
    BY <1>2 DEF Arrived
  <2>2. sent[p] \in 1..discipline.ops[p] /\ discipline \in Disciplines
    BY <1>2, OpsAreNat DEF QueueInv, TypeOK
  <2>3. QED BY <2>1, <2>2, ElementOf
<1>4. elem[node[p]] = x
  BY <1>1 DEF QueueInv, MemoryOK, Unlinked
<1> HIDE DEF x
<1>5. Fifo!Contents(FifoQueue) \subseteq Arrived /\ Fifo!Contents(Out) \subseteq Arrived
  <2>1. Fifo!Contents(Out) = Nodes(Out)
    BY DEF Fifo!Contents, Nodes
  <2>2. QED BY <2>1, FifoQueueSeq DEF QueueInv, Conserved
<1>6. /\ Len(chain') = L + 1 /\ L \in Nat \ {0}
      /\ \A i \in 1..L : chain'[i] = chain[i]
      /\ chain'[L + 1] = node[p]
  BY LinkAppends, ListFacts
<1>7. FifoQueue' = Append(FifoQueue, x)
  <2>1. /\ Append(FifoQueue, x) \in Seq(Element)
        /\ Len(Append(FifoQueue, x)) = L
        /\ \A i \in 1..L-1 : Append(FifoQueue, x)[i] = elem[chain[i+1]]
        /\ Append(FifoQueue, x)[L] = x
    BY <1>3, <1>6, FifoQueueSeq, AppendProperties
  <2>2. FifoQueue' = [i \in 1..L |-> elem[chain'[i+1]]]
    BY <1>1, <1>6 DEF FifoQueue
  <2>3. ASSUME NEW i \in 1..L PROVE elem[chain'[i+1]] = Append(FifoQueue, x)[i]
    <3>1. CASE i = L
      BY <3>1, <1>4, <1>6, <2>1
    <3>2. CASE i # L
      <4>1. i \in 1..L-1 /\ i+1 \in 1..L
        BY <3>2, <1>6
      <4>2. QED BY <4>1, <1>6, <2>1
    <3>3. QED BY <3>1, <3>2
  <2>4. FifoQueue' \in Seq(Element) /\ Len(FifoQueue') = L
    <3>1. \A i \in 1..L : Append(FifoQueue, x)[i] \in Element
      BY <2>1, ElementOfSeq
    <3>2. [i \in 1..L |-> elem[chain'[i+1]]] \in [1..L -> Element]
      BY <2>3, <3>1
    <3>3. QED BY <2>2, <3>2, <1>6, FunctionIsSeq
  <2>5. \A i \in 1..L : FifoQueue'[i] = Append(FifoQueue, x)[i]
    BY <2>2, <2>3
  <2>6. QED BY <2>1, <2>4, <2>5, SeqEqual
<1>8. FifoSize' = FifoSize /\ Out' = Out
  BY <1>1 DEF FifoSize, Out
<1>9. PICK e \in Element : e = x
  BY <1>3
<1>10. Fifo!Put(e)
  BY <1>3, <1>5, <1>7, <1>8, <1>9, FifoActions
<1>11. QED BY <1>10 DEF Fifo!QueueNext

(* The fetch_add of EnQueue is Count. *)
LEMMA CountInIsCount ==
  ASSUME QueueInv, NEW p \in Producer, CountIn(p)
  PROVE  Fifo!QueueNext
<1>1. /\ pc[p] = "count" /\ size' = size + 1
      /\ UNCHANGED <<mem, cons, hist>>
  BY DEF CountIn, Step
<1>2. FifoQueue' = FifoQueue /\ Out' = Out
  BY <1>1 DEF FifoQueue, Out, mem, cons, hist
<1>3. Cardinality(Counting) \in Nat /\ Cardinality(Counting) > 0
  <2>1. p \in Counting /\ IsFiniteSet(Counting)
    BY <1>1 DEF Counting, QueueInv, Counted
  <2>2. QED BY <2>1, FS_CardinalityType, FS_EmptySet
<1>4. FifoSize = Len(chain) - 1 - Cardinality(Counting)
  <2>1. size = Len(chain) - 1 - Cardinality(Counting)
                              + (IF cpc \in {"read", "uncount"} THEN 1 ELSE 0)
    BY DEF QueueInv, Counted, SizeExact, Counting
  <2>2. QED BY <2>1, <1>3, ListFacts DEF FifoSize
<1>5. FifoSize' = FifoSize + 1
  BY <1>1 DEF FifoSize, cons, QueueInv, TypeOK
<1>6. FifoSize < Len(FifoQueue)
  BY <1>3, <1>4, FifoQueueSeq, ListFacts
<1>7. Fifo!Count
  BY <1>2, <1>5, <1>6, FifoActions
<1>8. QED BY <1>7 DEF Fifo!QueueNext

(* The compare-and-swap of m_head_ is Take. *)
LEMMA SwingHeadIsTake ==
  ASSUME QueueInv, Licensed, SwingHead
  PROVE  Fifo!QueueNext
<1> DEFINE L == Len(chain)
           x == elem[chain[2]]
<1>1. /\ cpc = "swingHead" /\ cpc' = "read"
      /\ UNCHANGED <<size, mem, prod, succ, taken>>
  BY DEF SwingHead, Consume
<1>2. /\ L > 1 /\ L \in Nat /\ succ = chain[2] /\ Len(chain') = L - 1
      /\ \A i \in 1..L-1 : chain'[i] = chain[i+1]
  BY HeadMoves, ListFacts
<1>3. /\ FifoQueue \in Seq(Element) /\ Len(FifoQueue) = L - 1
      /\ \A i \in 1..L-1 : FifoQueue[i] = elem[chain[i+1]]
  BY FifoQueueSeq
<1>4. FifoQueue # <<>> /\ FifoQueue[1] = x
  BY <1>2, <1>3, EmptySeq
<1>5. Head(FifoQueue) = x
  BY <1>3, <1>4
<1>6. Out' = Append(Out, x)
  BY <1>1, <1>2 DEF Out, mem
<1>7. FifoSize' = FifoSize - 1 /\ FifoSize = size
  BY <1>1 DEF FifoSize
<1>8. FifoQueue' = Tail(FifoQueue)
  <2>1. /\ Tail(FifoQueue) \in Seq(Element) /\ Len(Tail(FifoQueue)) = L - 2
        /\ \A i \in 1..L-2 : Tail(FifoQueue)[i] = FifoQueue[i+1]
    BY <1>2, <1>3, <1>4, HeadTailProperties
  <2>2. FifoQueue' = [i \in 1..L-2 |-> elem[chain'[i+1]]]
    BY <1>1, <1>2 DEF FifoQueue, mem
  <2>3. ASSUME NEW i \in 1..L-2 PROVE elem[chain'[i+1]] = Tail(FifoQueue)[i]
    <3>1. i+1 \in 1..L-1
      BY <1>2
    <3>2. QED BY <3>1, <1>2, <1>3, <2>1
  <2>4. FifoQueue' \in Seq(Element) /\ Len(FifoQueue') = L - 2
    <3>1. \A i \in 1..L-2 : Tail(FifoQueue)[i] \in Element
      BY <2>1, ElementOfSeq
    <3>2. [i \in 1..L-2 |-> elem[chain'[i+1]]] \in [1..L-2 -> Element]
      BY <2>3, <3>1
    <3>3. L - 2 \in Nat
      BY <1>2
    <3>4. QED BY <2>2, <3>2, <3>3, FunctionIsSeq
  <2>5. \A i \in 1..L-2 : FifoQueue'[i] = Tail(FifoQueue)[i]
    BY <2>2, <2>3
  <2>6. QED BY <2>1, <2>4, <2>5, SeqEqual
<1>9. size > 0
  <2>1. CASE discipline.joined
    <3>1. Counting = {}
      BY <2>1, <1>1 DEF QueueInv, Turns, Joined, Counting
    <3>2. Cardinality(Counting) = 0
      BY <3>1, FS_EmptySet
    <3>3. size = L - 1 - Cardinality(Counting) + 0
      BY <1>1 DEF QueueInv, Counted, SizeExact, Counting
    <3>4. QED BY <3>2, <3>3, <1>2
  <2>2. CASE ~discipline.joined
    BY <2>2, <1>1 DEF Licensed, Looking
  <2>3. QED BY <2>1, <2>2
<1>10. Fifo!Take
  BY <1>4, <1>5, <1>6, <1>7, <1>8, <1>9, FifoActions
<1>11. QED BY <1>10 DEF Fifo!QueueNext

(* new writes to a node that is not in the list. *)
LEMMA NewNodeStutters ==
  ASSUME QueueInv, NEW p \in Producer, NewNode(p)
  PROVE  UNCHANGED Fifo!queueVars
<1>1. PICK a \in Addr \ alloc : elem' = [elem EXCEPT ![a] = <<p, sent[p] + 1>>]
  BY DEF NewNode
<1>2. /\ pc[p] = "idle" /\ sent[p] < discipline.ops[p]
      /\ UNCHANGED <<size, cons, hist>>
  BY DEF NewNode
<1>3. a \notin Nodes(chain)
  BY <1>2, Exclusive, ListFacts DEF QueueInv, MemoryOK
<1>4. \A b \in Nodes(chain) : elem'[b] = elem[b]
  BY <1>1, <1>3, ListFacts DEF QueueInv, TypeOK
<1>5. FifoQueue' = FifoQueue
  BY <1>2, <1>4, QueueUntouched DEF hist
<1>6. Out' = Out
  BY <1>2, <1>4, ListFacts DEF Out, QueueInv, AtHead, cons, hist
<1>7. FifoSize' = FifoSize
  BY <1>2 DEF FifoSize, cons
<1>8. QED BY <1>5, <1>6, <1>7, FifoActions

(* Every other step is invisible. *)
LEMMA OthersStutter ==
  ASSUME QueueInv,
         \/ \E p \in Producer : \/ LoadTail(p) \/ LoadNext(p) \/ Recheck(p)
                                \/ LinkFails(p) \/ SwingTail(p) \/ HelpTail(p)
         \/ Enter \/ LoadHead \/ LoadSucc \/ LoadSeenTail \/ ConsumerHelps \/ ReturnEmpty
         \/ ReadElement \/ CountOut \/ DeleteHead \/ Destroy \/ UNCHANGED vars
  PROVE  UNCHANGED Fifo!queueVars
<1>1. UNCHANGED <<elem, chain>>
  BY DEF LoadTail, LoadNext, Recheck, LinkFails, SwingTail, HelpTail, Enter, LoadHead,
         LoadSucc, LoadSeenTail, ConsumerHelps, ReturnEmpty, ReadElement, CountOut,
         DeleteHead, Destroy, vars, shared, mem, hist
<1>2. FifoQueue' = FifoQueue
  BY <1>1 DEF FifoQueue
<1>3. FifoSize' = FifoSize
  BY DEF FifoSize, LoadTail, LoadNext, Recheck, LinkFails, SwingTail, HelpTail, Enter,
         LoadHead, LoadSucc, LoadSeenTail, ConsumerHelps, ReturnEmpty, ReadElement,
         CountOut, DeleteHead, Destroy, vars, shared, cons, Consume
<1>4. Out' = Out
  BY <1>1 DEF Out, LoadTail, LoadNext, Recheck, LinkFails, SwingTail, HelpTail, Enter,
         LoadHead, LoadSucc, LoadSeenTail, ConsumerHelps, ReturnEmpty, ReadElement,
         CountOut, DeleteHead, Destroy, vars, cons, hist, Consume
<1>5. QED BY <1>2, <1>3, <1>4, FifoActions

-----------------------------------------------------------------------------
LEMMA FifoInit == Init => Fifo!QueueInit
<1> SUFFICES ASSUME Init PROVE Fifo!QueueInit
  OBVIOUS
<1>1. size = 0 /\ cpc = "idle" /\ taken = <<>> /\ Len(chain) = 1
  BY DEF Init
<1>2. FifoQueue = <<>>
  <2>1. FifoQueue \in [1..0 -> Element]
    BY <1>1 DEF FifoQueue
  <2>2. FifoQueue \in Seq(Element) /\ Len(FifoQueue) = 0
    BY <2>1, FunctionIsSeq
  <2>3. QED BY <2>2, EmptySeq
<1>3. FifoSize = 0 /\ Out = <<>>
  BY <1>1 DEF FifoSize, Out
<1>4. QED BY <1>2, <1>3, FifoActions

(* Every step is a step of TaskQueue or leaves its variables alone. *)
LEMMA FifoStep ==
  QueueInv /\ Licensed /\ [Next]_vars => [Fifo!QueueNext]_(Fifo!queueVars)
<1> SUFFICES ASSUME QueueInv, Licensed, [Next]_vars
             PROVE  Fifo!QueueNext \/ UNCHANGED Fifo!queueVars
  OBVIOUS
<1>1. ASSUME NEW p \in Producer, EnQueue(p)
      PROVE  Fifo!QueueNext \/ UNCHANGED Fifo!queueVars
  BY <1>1, NewNodeStutters, LinkIsPut, CountInIsCount, OthersStutter DEF EnQueue
<1>2. CASE Dequeue
  BY <1>2, SwingHeadIsTake, OthersStutter DEF Dequeue
<1>3. CASE Destroy \/ UNCHANGED vars
  BY <1>3, OthersStutter
<1>4. QED
  BY <1>1, <1>2, <1>3 DEF Next, Gone

(* The queue, used safely, is the FIFO that TaskQueue specifies. *)
THEOREM QueueImplementsFifo == Spec /\ SafelyUsed => ImplementsTaskQueue
<1>1. Init => Licensed
  BY DEF Init, Licensed, Looking
<1>2. QueueInv /\ Licensed /\ [Next]_vars => Licensed'
  BY LicensedStep
<1>3. QueueInv /\ Licensed /\ [Next]_vars => [Fifo!QueueNext]_(Fifo!queueVars)
  BY FifoStep
<1>4. Init => Fifo!QueueInit
  BY FifoInit
<1>5. Spec /\ SafelyUsed => []QueueInv
  BY QueueInvariant
<1>6. QED
  BY <1>1, <1>2, <1>3, <1>4, <1>5, PTL DEF Spec, Fifo!Spec, ImplementsTaskQueue

=============================================================================
