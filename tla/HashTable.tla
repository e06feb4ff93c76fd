----------------------------- MODULE HashTable ------------------------------
(***************************************************************************)
(* HashTable (dataStruct/Hash.h, dataStruct/hash.cpp): chaining, and a     *)
(* rehash that every operation takes one bucket further, FindByKey too.    *)
(*                                                                         *)
(* A key stands for its SipHash value.  A chain is the sequence of its     *)
(* entries; values and the pointers back are left out.                     *)
(*                                                                         *)
(* Delete "reduces" a sparse table by ExpendSize, which only grows: every  *)
(* Delete on a sparse table at rest starts a rehash into a larger one,     *)
(* without limit in the code, up to MaxSize here.                          *)
(***************************************************************************)
EXTENDS Integers, Sequences, FiniteSets, FiniteSetsExt, SequencesExt

CONSTANTS Keys,             \* hash values of the keys in use
          FirstSize,        \* ExpendSize of a table that has no size, 4 in the code
          MaxSize           \* bound: the largest table, as the logarithm of its buckets

ASSUME HashConstants ==
    /\ Keys \subseteq Nat
    /\ {FirstSize, MaxSize} \subseteq Nat \ {0} /\ FirstSize <= MaxSize

VARIABLES
    table,                  \* the members of the HashTable; each pair as a function
    present                 \* history: the keys that are in it

hashVars == <<table, present>>

Buckets(size) == 0..(2^size - 1)
Blank(size)   == [b \in Buckets(size) |-> <<>>]

NoTable == <<>>             \* unique_ptr without an array

HashInit ==
    /\ table = [size |-> [i \in 0..1 |-> 0], used |-> [i \in 0..1 |-> 0],
                chains |-> [i \in 0..1 |-> NoTable], idx |-> -1]
    /\ present = {}

IsReHashing(t) == t.idx # -1

(* hash_key & GetKeyMask(m_size_[i]) *)
Slot(t, i, k) == k % 2^(t.size[i])

(* Where an iterator is: at the nth entry of a chain, or past the last. *)
Position(i, b, n) == [table |-> i, bucket |-> b, nth |-> n]
Nowhere == Position(2, 0, 0)

-----------------------------------------------------------------------------
(* Broken variants, no part of the system: see RingBuffer.                       *)

TargetReversed(t, k) == IF t.size[0] < t.size[1] THEN t.idx % 2^(t.size[1]) ELSE Slot(t, 1, k)

FirstAfterInFirstTable(t, i, b) ==
    LET later == {c \in Buckets(t.size[i]) : c > b /\ t.chains[i][c] # <<>>}
    IN  IF later # {} THEN Position(i, Min(later), 1) ELSE Nowhere

-----------------------------------------------------------------------------
(* The rehash.                                                                  *)

(* Where an entry goes; the second case is for a table that shrinks. *)
Target(t, k) == IF t.size[0] < t.size[1] THEN Slot(t, 1, k) ELSE t.idx % 2^(t.size[1])

(* ReHash takes the chain from its first entry and puts each at a head. *)
MoveBucket(t) ==
    LET moved == t.chains[0][t.idx]
        after[n \in 0..Len(moved)] ==
            IF n = 0 THEN t.chains[1]
            ELSE [after[n - 1] EXCEPT ![Target(t, moved[n])] = <<moved[n]>> \o @]
    IN  [t EXCEPT
           !.chains = [i \in 0..1 |-> IF i = 0 THEN [t.chains[0] EXCEPT ![t.idx] = <<>>]
                                              ELSE after[Len(moved)]],
           !.used = [i \in 0..1 |-> IF i = 0 THEN t.used[0] - Len(moved)
                                            ELSE t.used[1] + Len(moved)]]

ReHash(t) ==
    LET moved == MoveBucket(t)
    IN  IF moved.used[0] > 0 THEN [moved EXCEPT !.idx = @ + 1]
        ELSE [size   |-> [i \in 0..1 |-> IF i = 0 THEN moved.size[1] ELSE 0],
              used   |-> [i \in 0..1 |-> IF i = 0 THEN moved.used[1] ELSE 0],
              chains |-> [i \in 0..1 |-> IF i = 0 THEN moved.chains[1] ELSE NoTable],
              idx    |-> -1]

NeedExpend(t) == t.size[0] = 0 \/ (~IsReHashing(t) /\ t.used[0] >= 2^(t.size[0]))
NeedReduce(t) == ~IsReHashing(t) /\ 2 * t.used[0] <= 2^(t.size[0])

ExpendSize(t) ==
    IF t.size[0] = 0 THEN FirstSize
    ELSE Min({s \in (t.size[0] + 1)..(t.size[0] + 4 * t.used[0] + 1) : 2^s > 4 * t.used[0]})

ExpendOrReduce(t) ==
    LET s == ExpendSize(t)
    IN  IF t.size[0] = 0 THEN [t EXCEPT !.chains[0] = Blank(s), !.size[0] = s]
        ELSE [t EXCEPT !.chains[1] = Blank(s), !.size[1] = s, !.idx = 0]

(* What every operation begins with: a bucket is moved, and then the table may be
   resized; Delete has its own reason to. *)
OneMoved(t) == IF IsReHashing(t) THEN ReHash(t) ELSE t

ToLookUp(t) ==
    LET moved == OneMoved(t) IN IF NeedExpend(moved) THEN ExpendOrReduce(moved) ELSE moved

ToDelete(t) ==
    LET moved == OneMoved(t) IN IF NeedReduce(moved) THEN ExpendOrReduce(moved) ELSE moved

-----------------------------------------------------------------------------
(* The operations.                                                              *)

(* The second table is looked at only during a rehash. *)
Tables(t)     == IF IsReHashing(t) THEN 0..1 ELSE {0}
Chain(t, i, k) == t.chains[i][Slot(t, i, k)]
Found(t, k)   == \E i \in Tables(t) : Contains(Chain(t, i, k), k)

(* FindBucketByKey, when the key is not there, and InsertToBucket. *)
Inserted(t, k) ==
    LET i == IF IsReHashing(t) THEN 1 ELSE 0
    IN  [t EXCEPT !.used[i] = @ + 1, !.chains[i][Slot(t, i, k)] = <<k>> \o @]

Removed(t, k) ==
    IF ~Found(t, k) THEN t
    ELSE LET i == Min({j \in Tables(t) : Contains(Chain(t, j, k), k)})
             n == Min({m \in DOMAIN Chain(t, i, k) : Chain(t, i, k)[m] = k})
         IN  [t EXCEPT !.used[i] = @ - 1, !.chains[i][Slot(t, i, k)] = RemoveAt(@, n)]

Bounded(t) == t.size[0] <= MaxSize /\ t.size[1] <= MaxSize

Insert(k) ==
    LET t == ToLookUp(table)
    IN  /\ table' = IF Found(t, k) THEN t ELSE Inserted(t, k)
        /\ present' = present \cup {k}

FindByKey(k) ==
    /\ table' = ToLookUp(table)
    /\ UNCHANGED present

Delete(k) ==
    LET t == ToDelete(table)
    IN  /\ table' = Removed(t, k)
        /\ present' = present \ {k}

HashNext ==
    /\ \E k \in Keys : Insert(k) \/ FindByKey(k) \/ Delete(k)
    /\ Bounded(table')

-----------------------------------------------------------------------------
(* HashIterator, on a table that is left alone.                                  *)

(* The first entry behind bucket b of table i: the rest of that table and then,
   from the first and during a rehash, the second. *)
FirstAfter(t, i, b) ==
    LET filled(j) == {c \in Buckets(t.size[j]) : t.chains[j][c] # <<>>}
        later     == {c \in filled(i) : c > b}
    IN  CASE later # {} -> Position(i, Min(later), 1)
          [] later = {} /\ i = 0 /\ IsReHashing(t) /\ filled(1) # {}
               -> Position(1, Min(filled(1)), 1)
          [] OTHER -> Nowhere

IteratorNext(t, p) ==
    IF p.nth < Len(t.chains[p.table][p.bucket]) THEN [p EXCEPT !.nth = @ + 1]
    ELSE FirstAfter(t, p.table, p.bucket)

LastBefore(t, i, b) ==
    LET ahead(j, c) == {d \in Buckets(t.size[j]) : d < c /\ t.chains[j][d] # <<>>}
        last(j, d)  == Position(j, d, Len(t.chains[j][d]))
        all         == ahead(0, 2^(t.size[0]))
    IN  CASE ahead(i, b) # {} -> last(i, Max(ahead(i, b)))
          [] ahead(i, b) = {} /\ i = 1 /\ all # {} -> last(0, Max(all))
          [] OTHER -> Nowhere

IteratorPrev(t, p) ==
    IF p.nth > 1 THEN [p EXCEPT !.nth = @ - 1] ELSE LastBefore(t, p.table, p.bucket)

(* MReset, while the first table is not empty.  When it is empty in the middle of a
   rehash, the loop goes on through the first table as if it were the second. *)
Reset(t) == IF t.used[0] = 0 THEN Nowhere ELSE FirstAfter(t, 0, -1)

-----------------------------------------------------------------------------
(* What is checked.                                                             *)

Entries(t, i) ==
    UNION {{Position(i, b, n) : n \in DOMAIN t.chains[i][b]} : b \in Buckets(t.size[i])}

(* A HashTable is a set of keys, wherever its operations meet a rehash: each entry is
   once in it, in the chain of its hash and not where the rehash has been, m_used_
   counts exactly, and what FindByKey would find is what was inserted and not deleted
   (hash.cpp:11-164; test_hash.cpp:103-113 for insertions and then deletions). *)
HashIsSet ==
    /\ IsReHashing(table) =>
           /\ table.idx \in Buckets(table.size[0]) /\ table.size[0] < table.size[1]
           /\ \A b \in 0..(table.idx - 1) : table.chains[0][b] = <<>>
    /\ table.size[0] > 0 =>
           /\ \A i \in Tables(table) :
                 /\ table.used[i] = Cardinality(Entries(table, i))
                 /\ \A b \in Buckets(table.size[i]) :
                       \A k \in ToSet(table.chains[i][b]) : Slot(table, i, k) = b
           /\ table.used[0] + table.used[1] = Cardinality(present)
    /\ \A k \in Keys : Found(ToLookUp(table), k) <=> k \in present

(* Forwards from Reset an iterator meets every entry once and then nothing, and from
   each of them backwards the one before, in a table that is being rehashed, too
   (hash.cpp:166-256, test_hash.cpp:17-82); all this unless deletions have emptied the
   first table in the middle of a rehash. *)
IterationComplete ==
    LET total == Cardinality(present)
        walk[n \in 1..(total + 1)] ==
            IF n = 1 THEN Reset(table)
            ELSE IF walk[n - 1] = Nowhere THEN Nowhere ELSE IteratorNext(table, walk[n - 1])
        KeyAt(p) == table.chains[p.table][p.bucket][p.nth]
    IN  table.used[0] > 0 =>
            /\ \A n \in 1..total : walk[n] # Nowhere
            /\ {KeyAt(walk[n]) : n \in 1..total} = present
            /\ walk[total + 1] = Nowhere
            /\ \A n \in 1..total :
                  IteratorPrev(table, walk[n]) = IF n = 1 THEN Nowhere ELSE walk[n - 1]

=============================================================================
