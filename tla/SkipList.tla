------------------------------ MODULE SkipList ------------------------------
(***************************************************************************)
(* SkipList (dataStruct/SkipList.h, dataStruct/SkipList.cpp): links with   *)
(* spans on every level, and the rank that Insert and Find return.         *)
(*                                                                         *)
(* A node is the place of its (score, value) in their order; the random    *)
(* level is any.  Delete lowers m_level_ by one more than it emptied: the  *)
(* level that falls out keeps its links, and they are not maintained any   *)
(* more.  Insert reading them, and a list that is left without a level,    *)
(* are mishaps behind which the model does not go.                         *)
(***************************************************************************)
EXTENDS Integers, FiniteSets

CONSTANTS Members,          \* bound: nodes that may be in the list, numbers above 0
          TopLevel          \* MAX_LEVEL, 255 in the code

ASSUME SkipConstants == Members \subseteq Nat \ {0} /\ TopLevel \in Nat \ {0}

VARIABLES
    next, span,             \* of every level, for every node and the head
    level, length,          \* m_level_, m_length_
    members,                \* history: the nodes in the list
    accident                \* "none", "no level left" or "old links read"

skipVars == <<next, span, level, length, members, accident>>

ListHead == 0           \* m_head_
None     == -1          \* nullptr
Nodes    == Members \cup {ListHead}
Levels   == 0..TopLevel

SkipInit ==
    /\ next = [i \in Levels |-> [n \in Nodes |-> None]]
    /\ span = [i \in Levels |-> [n \in Nodes |-> 0]]
    /\ level = 1 /\ length = 0 /\ members = {} /\ accident = "none"

-----------------------------------------------------------------------------
(* Broken variants, no part of the system: see RingBuffer.                       *)

SpansAbove(update, lv, change) == span

-----------------------------------------------------------------------------

(* The head's new levels span the whole list. *)
WithLevels(size) ==
    [i \in Levels |-> IF i \in level..(size - 1) THEN [span[i] EXCEPT ![ListHead] = length]
                                                 ELSE span[i]]

(* The inner loop of GetUpdateVec: from n along a level to the last node before m, with
   the spans passed. *)
Along(links, spans, m) ==
    LET Reach[n \in Nodes] ==
            IF links[n] = None \/ links[n] >= m THEN [node |-> n, rank |-> 0]
            ELSE LET on == Reach[links[n]] IN [on EXCEPT !.rank = @ + spans[n]]
    IN  Reach

(* GetUpdateVec: on each level below size the last node before m, with its rank. *)
UpdateVec(m, size) ==
    LET update[i \in 0..size] ==
            IF i = size THEN [node |-> ListHead, rank |-> 0]
            ELSE LET above == update[i + 1]
                     here  == Along(next[i], WithLevels(size)[i], m)[above.node]
                     from  == IF i >= level - 1 \/ i = size - 1 THEN 0 ELSE above.rank
                 IN  [here EXCEPT !.rank = @ + from]
    IN  update

(* Levels where the new or the leaving node is not linked. *)
SpansChanged(update, lv, change) ==
    [i \in Levels |-> IF i \in (lv + 1)..(level - 1)
                      THEN [span[i] EXCEPT ![update[i].node] = @ + change] ELSE span[i]]

Larger(a, b) == IF a > b THEN a ELSE b

(* A node of a level that the list does not count follows the old links. *)
InsertNode(m, lv) ==
    LET size   == Larger(lv + 1, level)
        update == UpdateVec(m, size)
        before(i) == update[0].rank - update[i].rank
        whole(i)  == WithLevels(size)[i][update[i].node]
    IN  /\ m \notin members
        /\ IF \E i \in level..lv : next[i][ListHead] # None
           THEN /\ accident' = "old links read"
                /\ UNCHANGED <<next, span, level, length, members>>
           ELSE /\ next' = [i \in Levels |->
                      IF i > lv THEN next[i]
                      ELSE [next[i] EXCEPT ![update[i].node] = m,
                                           ![m] = next[i][update[i].node]]]
                /\ span' = [i \in Levels |->
                      IF i > lv THEN SpansChanged(update, lv, 1)[i]
                      ELSE [span[i] EXCEPT ![update[i].node] = 1 + before(i),
                                           ![m] = whole(i) - before(i)]]
                /\ level' = size /\ length' = length + 1
                /\ members' = members \cup {m}
                /\ UNCHANGED accident

(* From m_level_ downwards one level goes for each that has no node, m_level_'s own
   among them; a uint8_t wraps. *)
Lowered(links) ==
    LET empty == {n \in 0..(level + 1) :
                     \A i \in (level - n + 1)..level : links[i][ListHead] = None}
        n     == CHOOSE n \in empty : \A k \in empty : k <= n
    IN  (level - n) % (TopLevel + 1)

DeleteNode(m) ==
    LET update  == UpdateVec(m, level)
        on(i)   == i < level /\ next[i][update[i].node] = m
        top     == CHOOSE i \in -1..(level - 1) : \A j \in Levels : on(j) <=> j <= i
        links   == [i \in Levels |-> IF i > top THEN next[i]
                        ELSE [next[i] EXCEPT ![update[i].node] = next[i][m], ![m] = None]]
    IN  /\ m \in members
        /\ next' = links
        /\ span' = [i \in Levels |->
              IF i > top THEN SpansChanged(update, top, -1)[i]
              ELSE [span[i] EXCEPT ![update[i].node] = @ + span[i][m] - 1, ![m] = 0]]
        /\ level' = Lowered(links)
        /\ length' = length - 1
        /\ members' = members \ {m}
        /\ accident' = IF level' = 0 THEN "no level left" ELSE accident

SkipNext ==
    /\ accident = "none"
    /\ \E m \in Members :
          \/ DeleteNode(m)
          \/ \E lv \in 0..(TopLevel - 1) : InsertNode(m, lv)

-----------------------------------------------------------------------------
(* Find looks on every level, from the top, behind what UpdateVec names.          *)

Find(m) ==
    LET update == UpdateVec(m, level)
        hits   == {i \in 0..(level - 1) : next[i][update[i].node] = m}
        i      == CHOOSE i \in hits : \A j \in hits : j <= i
    IN  IF hits = {} THEN [node |-> None, rank |-> 0]
        ELSE [node |-> m, rank |-> update[i].rank + span[i][update[i].node]]

-----------------------------------------------------------------------------
(* What is checked.                                                             *)

Rank(m) == Cardinality({n \in members : n <= m})

(* Whatever is inserted and deleted, Find returns every node that is there with its
   rank, and no other, and m_length_ counts them (SkipList.cpp:9-90,
   test_skipList.cpp:29-53), unless a Delete that left something behind has taken the
   last level or left links that an Insert reads. *)
RanksExact ==
    accident = "none" =>
        /\ length = Cardinality(members)
        /\ \A m \in Members :
              Find(m) = IF m \in members THEN [node |-> m, rank |-> Rank(m)]
                                         ELSE [node |-> None, rank |-> 0]

=============================================================================
