--------------------------- MODULE SkipListProofs ---------------------------
(***************************************************************************)
(* Proofs about module SkipList, as the specification of Containers runs   *)
(* it: for any nodes and number of levels, the spans add up to the ranks.  *)
(* LeastOf and Induct are used from HashTableProofs.                       *)
(***************************************************************************)
EXTENDS HashTableProofs

-----------------------------------------------------------------------------
(* Ranks.                                                                       *)

Ranked(K, x) == Cardinality({y \in K : y <= x})

LEMMA RankedNat ==
  ASSUME NEW K, IsFiniteSet(K), NEW x
  PROVE  Ranked(K, x) \in Nat
<1>1. {y \in K : y <= x} \in SUBSET K
  OBVIOUS
<1>2. IsFiniteSet({y \in K : y <= x})
  BY <1>1, FS_Subset
<1> QED BY <1>2, FS_CardinalityType DEF Ranked

LEMMA RankedAdd ==
  ASSUME NEW K, IsFiniteSet(K), NEW m, m \notin K, NEW x
  PROVE  Ranked(K \cup {m}, x) = IF m <= x THEN Ranked(K, x) + 1 ELSE Ranked(K, x)
<1> DEFINE T == {y \in K : y <= x}
<1>1. T \in SUBSET K
  OBVIOUS
<1>2. IsFiniteSet(T) /\ m \notin T
  BY <1>1, FS_Subset
<1>3. {y \in K \cup {m} : y <= x} = IF m <= x THEN T \cup {m} ELSE T
  OBVIOUS
<1>4. Cardinality(T \cup {m}) = Cardinality(T) + 1
  BY <1>2, FS_AddElement
<1> QED BY <1>3, <1>4 DEF Ranked

LEMMA RankedRemove ==
  ASSUME NEW K, IsFiniteSet(K), NEW m \in K, NEW x
  PROVE  Ranked(K \ {m}, x) = IF m <= x THEN Ranked(K, x) - 1 ELSE Ranked(K, x)
<1> DEFINE L == K \ {m}
<1>1. IsFiniteSet(L) /\ m \notin L /\ L \cup {m} = K
  BY FS_RemoveElement
<1> HIDE DEF L
<1>2. Ranked(L \cup {m}, x) = IF m <= x THEN Ranked(L, x) + 1 ELSE Ranked(L, x)
  BY <1>1, RankedAdd
<1>3. PICK a \in Nat : a = Ranked(L, x)
  BY <1>1, RankedNat
<1>4. PICK b \in Nat : b = Ranked(K, x)
  BY RankedNat
<1>5. b = IF m <= x THEN a + 1 ELSE a
  BY <1>1, <1>2, <1>3, <1>4
<1>6. a = IF m <= x THEN b - 1 ELSE b
  BY <1>5
<1> QED BY <1>3, <1>4, <1>6 DEF L

-----------------------------------------------------------------------------
(* The links and spans of a level, for the nodes in L of the list of those in K.  *)

ChainOf(f, L) ==
    /\ f \in [Nodes -> Nodes \cup {None}]
    /\ \A n \in Nodes \ (L \cup {ListHead}) : f[n] = None
    /\ \A n \in L \cup {ListHead} :
          \/ f[n] = None /\ \A y \in L : y <= n
          \/ f[n] \in L /\ n < f[n] /\ \A y \in L : n < y => f[n] <= y

LevelOK(f, s, L, K) ==
    /\ L \subseteq K /\ ChainOf(f, L) /\ s \in [Nodes -> Int]
    /\ \A n \in Nodes : f[n] # None => s[n] = Ranked(K, f[n]) - Ranked(K, n)

(* The last node of a level before m. *)
LastBelow(L, m) ==
    CHOOSE p \in L \cup {ListHead} : p < m /\ \A y \in L : y < m => y <= p

LEMMA NodesAre ==
  /\ Nodes \subseteq Nat /\ ListHead \in Nodes /\ ListHead = 0 /\ None \notin Nodes
  /\ Members \subseteq Nodes /\ \A m \in Members : m \in Nat /\ m > 0
BY SkipConstants DEF Nodes, ListHead, None

LEMMA LastIs ==
  ASSUME NEW L, L \subseteq Members, NEW m \in Members
  PROVE  /\ LastBelow(L, m) \in L \cup {ListHead} /\ LastBelow(L, m) < m
         /\ LastBelow(L, m) \in Nodes /\ LastBelow(L, m) \in Nat
         /\ \A y \in L : y < m => y <= LastBelow(L, m)
<1>0. m \in Nat /\ m > 0 /\ ListHead = 0 /\ \A y \in L \cup {ListHead} : y \in Nat /\ y \in Nodes
  BY NodesAre
<1> DEFINE T == {d \in Nat : \E y \in L \cup {ListHead} : y < m /\ d = m - y}
<1>1. T \in SUBSET Nat /\ T # {}
  <2>1. m \in T
    BY <1>0
  <2> QED BY <2>1
<1>2. PICK d \in T : \A e \in T : d <= e
  BY <1>1, LeastOf
<1>3. PICK p \in L \cup {ListHead} : p < m /\ d = m - p
  BY <1>2
<1>4. ASSUME NEW y \in L, y < m PROVE y <= p
  <2>1. m - y \in T
    BY <1>0, <1>4
  <2>2. m - p <= m - y
    BY <1>2, <1>3, <2>1
  <2> QED BY <1>0, <2>2
<1>5. \E q \in L \cup {ListHead} : q < m /\ \A y \in L : y < m => y <= q
  BY <1>3, <1>4
<1>6. /\ LastBelow(L, m) \in L \cup {ListHead} /\ LastBelow(L, m) < m
      /\ \A y \in L : y < m => y <= LastBelow(L, m)
  BY <1>5, Zenon DEF LastBelow
<1> QED BY <1>0, <1>6

(* What UpdateVec finds on a level: p is the last node before m. *)
Before(f, L, m, p) ==
    /\ p \in L \cup {ListHead} /\ p \in Nodes /\ p \in Nat /\ p < m /\ p # m
    /\ \A y \in L : y < m => y <= p
    /\ f[p] = None \/ (f[p] \in L /\ m <= f[p])
    /\ m \in L <=> f[p] = m
    /\ f[p] = None => \A y \in L : y < m
    /\ f[p] # None => \A y \in L : m <= y => f[p] <= y
    /\ \A n \in L \cup {ListHead} : n < m /\ (f[n] = None \/ m <= f[n]) => n = p

LEMMA LastIsBefore ==
  ASSUME NEW L, L \subseteq Members, NEW m \in Members, NEW f, ChainOf(f, L),
         NEW p, p = LastBelow(L, m)
  PROVE  Before(f, L, m, p)
<1>0. /\ m \in Nat /\ m > 0 /\ ListHead = 0 /\ \A y \in L \cup {ListHead} : y \in Nat /\ y \in Nodes
      /\ None \notin Nat
  BY NodesAre DEF None
<1>1. /\ p \in L \cup {ListHead} /\ p < m /\ p \in Nat /\ p \in Nodes /\ p # m
      /\ \A y \in L : y < m => y <= p
  <2>1. /\ LastBelow(L, m) \in L \cup {ListHead} /\ LastBelow(L, m) < m
        /\ LastBelow(L, m) \in Nodes /\ LastBelow(L, m) \in Nat
        /\ \A y \in L : y < m => y <= LastBelow(L, m)
    BY LastIs
  <2>2. p < m => p # m
    BY <1>0
  <2> QED BY <2>1, <2>2
<1>2. \A n \in L \cup {ListHead} :
          \/ f[n] = None /\ \A y \in L : y <= n
          \/ f[n] \in L /\ n < f[n] /\ \A y \in L : n < y => f[n] <= y
  BY DEF ChainOf
<1>3. f[p] = None => \A y \in L : y < m
  <2> SUFFICES ASSUME f[p] = None, NEW y \in L PROVE y < m
    OBVIOUS
  <2>1. f[p] \notin L
    BY <1>0
  <2>2. y <= p
    BY <1>1, <1>2, <2>1
  <2> QED BY <1>0, <1>1, <2>2
<1>4. f[p] # None => f[p] \in L /\ p < f[p] /\ f[p] \in Nat /\ \A y \in L : p < y => f[p] <= y
  BY <1>0, <1>1, <1>2
<1>5. f[p] # None => m <= f[p]
  BY <1>0, <1>1, <1>4
<1>6. f[p] # None => \A y \in L : m <= y => f[p] <= y
  BY <1>0, <1>1, <1>4
<1>7. m \in L <=> f[p] = m
  <2>1. ASSUME m \in L PROVE f[p] = m
    <3>1. f[p] # None
      BY <1>0, <1>3, <2>1
    <3>2. f[p] <= m
      BY <1>0, <1>6, <2>1, <3>1
    <3> QED BY <1>0, <1>4, <1>5, <3>1, <3>2
  <2>2. ASSUME f[p] = m PROVE m \in L
    BY <1>0, <1>4, <2>2
  <2> QED BY <2>1, <2>2
<1>8. ASSUME NEW n \in L \cup {ListHead}, n < m, f[n] = None \/ m <= f[n] PROVE n = p
  <2>1. n \in Nat /\ n <= p
    BY <1>0, <1>1, <1>8
  <2>2. CASE f[n] = None
    <3>1. \A y \in L : y <= n
      BY <1>0, <1>2, <2>2
    <3> QED BY <1>0, <1>1, <2>1, <3>1
  <2>3. CASE f[n] # None
    <3>1. f[n] \in Nat /\ m <= f[n] /\ \A y \in L : n < y => f[n] <= y
      BY <1>0, <1>2, <1>8, <2>3
    <3>2. ~(n < p)
      <4>1. ASSUME n < p PROVE FALSE
        <5>1. p \in L
          BY <1>0, <1>1, <2>1, <4>1
        <5> QED BY <1>0, <1>1, <3>1, <4>1, <5>1
      <4> QED BY <4>1
    <3> QED BY <1>1, <2>1, <3>2
  <2> QED BY <2>2, <2>3
<1> QED BY <1>1, <1>3, <1>4, <1>5, <1>6, <1>7, <1>8 DEF Before

(* The nodes of a level are before the next one or behind it. *)
LEMMA Around ==
  ASSUME NEW L, L \subseteq Members, NEW m \in Members, NEW f, ChainOf(f, L),
         NEW p, Before(f, L, m, p), NEW n \in L \cup {ListHead}, n # p, n # m, f[n] # None
  PROVE  \/ n < m /\ f[n] < m /\ f[n] <= p
         \/ m < n /\ m < f[n]
<1>0. /\ m \in Nat /\ ListHead = 0 /\ \A y \in L \cup {ListHead} : y \in Nat
  BY NodesAre
<1>1. f[n] \in L /\ n < f[n] /\ f[n] \in Nat /\ n \in Nat
  BY <1>0 DEF ChainOf
<1>2. CASE n < m
  <2>1. ~(m <= f[n])
    BY <1>2 DEF Before
  <2>2. f[n] < m
    BY <1>0, <1>1, <2>1
  <2>3. f[n] <= p
    BY <1>1, <2>2 DEF Before
  <2> QED BY <1>2, <2>2, <2>3
<1>3. CASE ~(n < m)
  BY <1>0, <1>1, <1>3
<1> QED BY <1>2, <1>3

(* A level that the new node is not on. *)
LEMMA LevelPassed ==
  ASSUME NEW L, NEW K, K \subseteq Members, IsFiniteSet(K), NEW m \in Members, m \notin K,
         NEW f, NEW s, LevelOK(f, s, L, K), NEW p, Before(f, L, m, p)
  PROVE  LevelOK(f, [s EXCEPT ![p] = @ + 1], L, K \cup {m})
<1> DEFINE r == [s EXCEPT ![p] = @ + 1]
           J == K \cup {m}
<1>0. /\ L \subseteq K /\ L \subseteq Members /\ ChainOf(f, L) /\ s \in [Nodes -> Int] /\ m \notin L
      /\ p \in Nodes /\ p \in L \cup {ListHead}
  BY NodesAre DEF LevelOK, Before
<1>1. /\ r \in [Nodes -> Int] /\ r[p] = s[p] + 1 /\ \A n \in Nodes : n # p => r[n] = s[n]
  BY <1>0
<1> HIDE DEF r
<1>2. ASSUME NEW n \in Nodes, f[n] # None
      PROVE  r[n] = Ranked(J, f[n]) - Ranked(J, n)
  <2>1. n \in L \cup {ListHead} /\ f[n] \in L
    BY <1>0, <1>2 DEF ChainOf
  <2>2. PICK q : q = f[n]
    OBVIOUS
  <2>3. PICK a, b \in Nat : a = Ranked(K, q) /\ b = Ranked(K, n)
    BY RankedNat
  <2>4. s[n] = a - b
    BY <1>2, <2>2, <2>3 DEF LevelOK
  <2>5. /\ Ranked(J, q) = IF m <= q THEN a + 1 ELSE a
        /\ Ranked(J, n) = IF m <= n THEN b + 1 ELSE b
    BY <2>3, RankedAdd
  <2>6. m \in Nat /\ n \in Nat /\ q \in Nat /\ n # m
    <3>1. m \in Nat /\ n \in Nat /\ f[n] \in Nat
      BY <1>0, <2>1, NodesAre
    <3> QED BY <1>0, <2>1, <2>2, <3>1, NodesAre
  <2>7. CASE n = p
    <3>1. m <= q /\ ~(m <= n)
      BY <1>2, <2>2, <2>6, <2>7 DEF Before
    <3> QED BY <1>1, <2>2, <2>3, <2>4, <2>5, <2>7, <3>1
  <2>8. CASE n # p
    <3>1. (n < m /\ q < m) \/ (m < n /\ m < q)
      BY <1>0, <1>2, <2>1, <2>2, <2>6, <2>8, Around
    <3>2. r[n] = a - b
      BY <1>1, <2>4, <2>8
    <3> QED BY <2>2, <2>3, <2>5, <2>6, <3>1, <3>2
  <2> QED BY <2>7, <2>8
<1>3. LevelOK(f, r, L, J)
  BY <1>0, <1>1, <1>2 DEF LevelOK
<1> QED BY <1>3 DEF r

(* A level that the leaving node was not on. *)
LEMMA LevelUnlinked ==
  ASSUME NEW L, NEW K, K \subseteq Members, IsFiniteSet(K), NEW m \in K, m \notin L,
         NEW f, NEW s, LevelOK(f, s, L, K), NEW p, Before(f, L, m, p)
  PROVE  LevelOK(f, [s EXCEPT ![p] = @ + (-1)], L, K \ {m})
<1> DEFINE r == [s EXCEPT ![p] = @ + (-1)]
           J == K \ {m}
<1>0. /\ L \subseteq K /\ L \subseteq Members /\ ChainOf(f, L) /\ s \in [Nodes -> Int] /\ m \in Members
      /\ p \in Nodes /\ p \in L \cup {ListHead}
  BY NodesAre DEF LevelOK, Before
<1>1. /\ r \in [Nodes -> Int] /\ r[p] = s[p] - 1 /\ \A n \in Nodes : n # p => r[n] = s[n]
  BY <1>0
<1> HIDE DEF r
<1>2. ASSUME NEW n \in Nodes, f[n] # None
      PROVE  r[n] = Ranked(J, f[n]) - Ranked(J, n)
  <2>1. n \in L \cup {ListHead} /\ f[n] \in L
    BY <1>0, <1>2 DEF ChainOf
  <2>2. PICK q : q = f[n]
    OBVIOUS
  <2>3. PICK a, b \in Nat : a = Ranked(K, q) /\ b = Ranked(K, n)
    BY RankedNat
  <2>4. s[n] = a - b
    BY <1>2, <2>2, <2>3 DEF LevelOK
  <2>5. /\ Ranked(J, q) = IF m <= q THEN a - 1 ELSE a
        /\ Ranked(J, n) = IF m <= n THEN b - 1 ELSE b
    BY <2>3, RankedRemove
  <2>6. m \in Nat /\ n \in Nat /\ q \in Nat /\ n # m
    <3>1. m \in Nat /\ n \in Nat /\ f[n] \in Nat
      BY <1>0, <2>1, NodesAre
    <3> QED BY <1>0, <2>1, <2>2, <3>1, NodesAre
  <2>7. CASE n = p
    <3>1. m <= q /\ ~(m <= n)
      BY <1>2, <2>2, <2>6, <2>7 DEF Before
    <3> QED BY <1>1, <2>2, <2>3, <2>4, <2>5, <2>7, <3>1
  <2>8. CASE n # p
    <3>1. (n < m /\ q < m) \/ (m < n /\ m < q)
      BY <1>0, <1>2, <2>1, <2>2, <2>6, <2>8, Around
    <3>2. r[n] = a - b
      BY <1>1, <2>4, <2>8
    <3> QED BY <2>2, <2>3, <2>5, <2>6, <3>1, <3>2
  <2> QED BY <2>7, <2>8
<1>3. L \subseteq J
  BY <1>0
<1>4. LevelOK(f, r, L, J)
  BY <1>0, <1>1, <1>2, <1>3 DEF LevelOK
<1> QED BY <1>4 DEF r

(* The links when a node is put in and when one is taken out. *)
LEMMA ChainInserted ==
  ASSUME NEW L, L \subseteq Members, NEW m \in Members, m \notin L,
         NEW f, ChainOf(f, L), NEW p, Before(f, L, m, p)
  PROVE  ChainOf([f EXCEPT ![p] = m, ![m] = f[p]], L \cup {m})
<1> DEFINE g == [f EXCEPT ![p] = m, ![m] = f[p]]
<1>0. /\ m \in Nat /\ m > 0 /\ ListHead = 0 /\ \A y \in L \cup {ListHead} : y \in Nat /\ y \in Nodes
      /\ None \notin Nat /\ m \in Nodes
  BY NodesAre DEF None
<1>1. /\ p \in L \cup {ListHead} /\ p < m /\ p \in Nat /\ p \in Nodes /\ p # m
      /\ \A y \in L : y < m => y <= p
  BY DEF Before
<1>2. /\ g \in [Nodes -> Nodes \cup {None}] /\ g[p] = m /\ g[m] = f[p]
      /\ \A n \in Nodes : n # p /\ n # m => g[n] = f[n]
  BY <1>0, <1>1 DEF ChainOf
<1> HIDE DEF g
<1>3. \A n \in L \cup {ListHead} :
          \/ f[n] = None /\ \A y \in L : y <= n
          \/ f[n] \in L /\ n < f[n] /\ \A y \in L : n < y => f[n] <= y
  BY DEF ChainOf
<1>4. ASSUME NEW n \in Nodes \ (L \cup {m} \cup {ListHead}) PROVE g[n] = None
  BY <1>1, <1>2 DEF ChainOf
<1>5. ASSUME NEW n \in L \cup {m} \cup {ListHead}
      PROVE  \/ g[n] = None /\ \A y \in L \cup {m} : y <= n
             \/ g[n] \in L \cup {m} /\ n < g[n] /\ \A y \in L \cup {m} : n < y => g[n] <= y
  <2>1. CASE n = p
    <3>1. \A y \in L : p < y => m <= y
      BY <1>0, <1>1
    <3> QED BY <1>0, <1>1, <1>2, <2>1, <3>1
  <2>2. CASE n = m
    <3>1. CASE f[p] = None
      <4>1. \A y \in L : y < m
        BY <3>1 DEF Before
      <4> QED BY <1>0, <1>2, <2>2, <3>1, <4>1
    <3>2. CASE f[p] # None
      <4>1. f[p] \in L /\ m <= f[p] /\ \A y \in L : m <= y => f[p] <= y
        BY <3>2 DEF Before
      <4>2. f[p] \in Nat /\ m < f[p]
        <5>1. f[p] # m
          BY <4>1
        <5>2. f[p] \in Nat /\ m \in Nat
          BY <1>0, <4>1
        <5> QED BY <4>1, <5>1, <5>2
      <4>3. \A y \in L \cup {m} : m < y => f[p] <= y
        BY <1>0, <4>1
      <4> QED BY <1>2, <2>2, <4>1, <4>2, <4>3
    <3> QED BY <3>1, <3>2
  <2>3. CASE n # p /\ n # m
    <3>1. g[n] = f[n] /\ n \in L \cup {ListHead} /\ n \in Nat
      BY <1>0, <1>2, <2>3
    <3>2. CASE f[n] = None
      <4>1. \A y \in L : y <= n
        BY <1>0, <1>3, <3>1, <3>2
      <4>2. ~(n < m)
        BY <2>3, <3>1, <3>2 DEF Before
      <4> QED BY <1>0, <3>1, <3>2, <4>1, <4>2
    <3>3. CASE f[n] # None
      <4>1. f[n] \in L /\ n < f[n] /\ (\A y \in L : n < y => f[n] <= y) /\ f[n] \in Nat
        BY <1>0, <1>3, <3>1, <3>3
      <4>2. (n < m /\ f[n] < m) \/ (m < n /\ m < f[n])
        BY <2>3, <3>1, <3>3, Around
      <4>3. n < m => f[n] <= m
        BY <1>0, <3>1, <4>1, <4>2
      <4> QED BY <3>1, <4>1, <4>3
    <3> QED BY <3>2, <3>3
  <2> QED BY <2>1, <2>2, <2>3
<1>6. ChainOf(g, L \cup {m})
  BY <1>2, <1>4, <1>5, Zenon DEF ChainOf
<1> QED BY <1>6 DEF g

LEMMA ChainDeleted ==
  ASSUME NEW L, L \subseteq Members, NEW m \in L, NEW f, ChainOf(f, L), NEW p, Before(f, L, m, p)
  PROVE  ChainOf([f EXCEPT ![p] = f[m], ![m] = None], L \ {m})
<1> DEFINE g == [f EXCEPT ![p] = f[m], ![m] = None]
<1>0. /\ m \in Nat /\ m > 0 /\ ListHead = 0 /\ \A y \in L \cup {ListHead} : y \in Nat /\ y \in Nodes
      /\ None \notin Nat /\ m \in Nodes /\ m \in Members
  BY NodesAre DEF None
<1>1. /\ p \in L \cup {ListHead} /\ p < m /\ p \in Nat /\ p \in Nodes /\ p # m
      /\ \A y \in L : y < m => y <= p
  BY DEF Before
<1>2. /\ g \in [Nodes -> Nodes \cup {None}] /\ g[p] = f[m] /\ g[m] = None
      /\ \A n \in Nodes : n # p /\ n # m => g[n] = f[n]
  BY <1>0, <1>1 DEF ChainOf
<1> HIDE DEF g
<1>3. \A n \in L \cup {ListHead} :
          \/ f[n] = None /\ \A y \in L : y <= n
          \/ f[n] \in L /\ n < f[n] /\ \A y \in L : n < y => f[n] <= y
  BY DEF ChainOf
<1>4. ASSUME NEW n \in Nodes \ ((L \ {m}) \cup {ListHead}) PROVE g[n] = None
  <2>1. n = m \/ n \in Nodes \ (L \cup {ListHead})
    OBVIOUS
  <2> QED BY <1>1, <1>2, <2>1 DEF ChainOf
<1>5. ASSUME NEW n \in (L \ {m}) \cup {ListHead}
      PROVE  \/ g[n] = None /\ \A y \in L \ {m} : y <= n
             \/ g[n] \in L \ {m} /\ n < g[n] /\ \A y \in L \ {m} : n < y => g[n] <= y
  <2>1. CASE n = p
    <3>1. \A y \in L : p < y /\ y # m => m < y
      BY <1>0, <1>1
    <3>2. \/ f[m] = None /\ \A y \in L : y <= m
          \/ f[m] \in L /\ m < f[m] /\ \A y \in L : m < y => f[m] <= y
      BY <1>3
    <3>3. CASE f[m] = None
      <4>1. \A y \in L : y <= m
        BY <1>0, <3>2, <3>3
      <4>2. \A y \in L \ {m} : y <= p
        BY <1>0, <1>1, <3>1, <4>1
      <4> QED BY <1>2, <2>1, <3>3, <4>2
    <3>4. CASE f[m] # None
      <4>1. f[m] \in L /\ m < f[m] /\ (\A y \in L : m < y => f[m] <= y) /\ f[m] \in Nat
        BY <1>0, <3>2, <3>4
      <4>2. f[m] # m /\ p < f[m]
        BY <1>0, <1>1, <4>1
      <4> QED BY <1>2, <2>1, <3>1, <4>1, <4>2
    <3> QED BY <3>3, <3>4
  <2>2. CASE n # p
    <3>1. g[n] = f[n] /\ n \in L \cup {ListHead} /\ n \in Nat /\ n # m
      BY <1>0, <1>2, <2>2
    <3>2. f[n] # m
      <4>1. ASSUME f[n] = m PROVE FALSE
        <5>1. n < m /\ m <= f[n]
          BY <1>0, <1>3, <3>1, <4>1
        <5> QED BY <1>0, <2>2, <3>1, <5>1 DEF Before
      <4> QED BY <4>1
    <3>3. \/ f[n] = None /\ \A y \in L : y <= n
          \/ f[n] \in L /\ n < f[n] /\ \A y \in L : n < y => f[n] <= y
      BY <1>3, <3>1
    <3> QED BY <3>1, <3>2, <3>3
  <2> QED BY <2>1, <2>2
<1>6. ChainOf(g, L \ {m})
  BY <1>2, <1>4, <1>5, Zenon DEF ChainOf
<1> QED BY <1>6 DEF g

(* A level that the new node is on: a is the number of nodes between p and m, w the old
   span of p. *)
LEMMA LevelInserted ==
  ASSUME NEW L, NEW K, K \subseteq Members, IsFiniteSet(K), NEW m \in Members, m \notin K,
         NEW f, NEW s, LevelOK(f, s, L, K), NEW p, Before(f, L, m, p),
         NEW a \in Int, a = Ranked(K, m) - Ranked(K, p), NEW w \in Int, f[p] # None => w = s[p]
  PROVE  LevelOK([f EXCEPT ![p] = m, ![m] = f[p]], [s EXCEPT ![p] = 1 + a, ![m] = w - a],
                 L \cup {m}, K \cup {m})
<1> DEFINE g == [f EXCEPT ![p] = m, ![m] = f[p]]
           r == [s EXCEPT ![p] = 1 + a, ![m] = w - a]
           J == K \cup {m}
<1>0. /\ L \subseteq K /\ L \subseteq Members /\ ChainOf(f, L) /\ s \in [Nodes -> Int] /\ m \notin L
      /\ p \in Nodes /\ p \in L \cup {ListHead} /\ m \in Nodes /\ p # m /\ p < m
  BY NodesAre DEF LevelOK, Before
<1>1. /\ r \in [Nodes -> Int] /\ r[p] = 1 + a /\ r[m] = w - a
      /\ \A n \in Nodes : n # p /\ n # m => r[n] = s[n]
  BY <1>0
<1>2. /\ g[p] = m /\ g[m] = f[p] /\ \A n \in Nodes : n # p /\ n # m => g[n] = f[n]
  BY <1>0 DEF ChainOf
<1>3. ChainOf(g, L \cup {m})
  BY <1>0, ChainInserted
<1> HIDE DEF g, r
<1>4. m \in Nat /\ p \in Nat /\ \A y \in L \cup {ListHead} : y \in Nat
  BY <1>0, NodesAre
<1>5. PICK b, c \in Nat : b = Ranked(K, m) /\ c = Ranked(K, p)
  BY RankedNat
<1>6. Ranked(J, m) = b + 1 /\ Ranked(J, p) = c /\ a = b - c
  <2>1. /\ Ranked(J, m) = IF m <= m THEN Ranked(K, m) + 1 ELSE Ranked(K, m)
        /\ Ranked(J, p) = IF m <= p THEN Ranked(K, p) + 1 ELSE Ranked(K, p)
    BY RankedAdd
  <2>2. m <= m /\ ~(m <= p)
    BY <1>0, <1>4
  <2> QED BY <1>5, <2>1, <2>2
<1>7. ASSUME NEW n \in Nodes, g[n] # None
      PROVE  r[n] = Ranked(J, g[n]) - Ranked(J, n)
  <2>1. CASE n = p
    BY <1>1, <1>2, <1>5, <1>6, <2>1
  <2>2. CASE n = m
    <3>1. PICK q : q = f[p] /\ q # None
      BY <1>2, <1>7, <2>2
    <3>2. q \in L /\ m <= q /\ q \in Nat
      BY <1>4, <3>1 DEF Before
    <3>3. PICK d \in Nat : d = Ranked(K, q)
      BY RankedNat
    <3>4. Ranked(J, q) = d + 1
      BY <3>2, <3>3, RankedAdd
    <3>5. w = d - c
      BY <1>0, <1>5, <3>1, <3>3 DEF LevelOK
    <3> QED BY <1>1, <1>2, <1>5, <1>6, <2>2, <3>1, <3>3, <3>4, <3>5
  <2>3. CASE n # p /\ n # m
    <3>1. PICK q : q = f[n] /\ q = g[n] /\ q # None
      BY <1>2, <1>7, <2>3
    <3>2. n \in L \cup {ListHead} /\ q \in L /\ n \in Nat /\ q \in Nat
      <4>1. n \in L \cup {ListHead} /\ f[n] \in L
        BY <1>0, <3>1 DEF ChainOf
      <4> QED BY <1>4, <3>1, <4>1
    <3>3. PICK d, e \in Nat : d = Ranked(K, q) /\ e = Ranked(K, n)
      BY RankedNat
    <3>4. r[n] = d - e
      BY <1>1, <2>3, <3>1, <3>3 DEF LevelOK
    <3>5. /\ Ranked(J, q) = IF m <= q THEN d + 1 ELSE d
          /\ Ranked(J, n) = IF m <= n THEN e + 1 ELSE e
      BY <3>3, RankedAdd
    <3>6. (n < m /\ q < m) \/ (m < n /\ m < q)
      <4>1. \/ n < m /\ f[n] < m /\ f[n] <= p
            \/ m < n /\ m < f[n]
        BY <1>0, <2>3, <3>1, <3>2, Around
      <4> QED BY <3>1, <4>1
    <3> QED BY <1>4, <3>1, <3>2, <3>3, <3>4, <3>5, <3>6
  <2> QED BY <2>1, <2>2, <2>3
<1>8. LevelOK(g, r, L \cup {m}, J)
  BY <1>0, <1>1, <1>3, <1>7 DEF LevelOK
<1> QED BY <1>8 DEF g, r

(* A level that the leaving node was on. *)
LEMMA LevelDeleted ==
  ASSUME NEW L, NEW K, K \subseteq Members, IsFiniteSet(K), NEW m \in L,
         NEW f, NEW s, LevelOK(f, s, L, K), NEW p, Before(f, L, m, p)
  PROVE  LevelOK([f EXCEPT ![p] = f[m], ![m] = None],
                 [s EXCEPT ![p] = @ + s[m] - 1, ![m] = 0], L \ {m}, K \ {m})
<1> DEFINE g == [f EXCEPT ![p] = f[m], ![m] = None]
           r == [s EXCEPT ![p] = @ + s[m] - 1, ![m] = 0]
           J == K \ {m}
<1>0. /\ L \subseteq K /\ L \subseteq Members /\ ChainOf(f, L) /\ s \in [Nodes -> Int]
      /\ p \in Nodes /\ p \in L \cup {ListHead} /\ m \in Nodes /\ p # m /\ p < m
      /\ m \in K /\ m \in Members /\ f[p] = m
  BY NodesAre DEF LevelOK, Before
<1>1. /\ r \in [Nodes -> Int] /\ r[p] = s[p] + s[m] - 1
      /\ \A n \in Nodes : n # p /\ n # m => r[n] = s[n]
  BY <1>0
<1>2. /\ g[p] = f[m] /\ g[m] = None /\ \A n \in Nodes : n # p /\ n # m => g[n] = f[n]
  BY <1>0 DEF ChainOf
<1>3. ChainOf(g, L \ {m})
  BY <1>0, ChainDeleted
<1> HIDE DEF g, r
<1>4. m \in Nat /\ p \in Nat /\ (\A y \in L \cup {ListHead} : y \in Nat) /\ None \notin Nat
  BY <1>0, NodesAre DEF None
<1>5. PICK b, c \in Nat : b = Ranked(K, m) /\ c = Ranked(K, p)
  BY RankedNat
<1>6. Ranked(J, m) = b - 1 /\ Ranked(J, p) = c /\ s[p] = b - c
  <2>1. f[p] # None
    BY <1>0, <1>4
  <2>2. s[p] = Ranked(K, f[p]) - Ranked(K, p)
    BY <1>0, <2>1 DEF LevelOK
  <2>3. s[p] = b - c
    BY <1>0, <1>5, <2>2
  <2>4. Ranked(J, m) = b - 1 /\ Ranked(J, p) = c
    <3>1. /\ Ranked(J, m) = IF m <= m THEN Ranked(K, m) - 1 ELSE Ranked(K, m)
          /\ Ranked(J, p) = IF m <= p THEN Ranked(K, p) - 1 ELSE Ranked(K, p)
      BY <1>0, RankedRemove
    <3>2. m <= m /\ ~(m <= p)
      BY <1>0, <1>4
    <3> QED BY <1>5, <3>1, <3>2
  <2> QED BY <2>3, <2>4
<1>7. ASSUME NEW n \in Nodes, g[n] # None
      PROVE  r[n] = Ranked(J, g[n]) - Ranked(J, n)
  <2>1. CASE n = p
    <3>1. PICK q : q = f[m] /\ q = g[n] /\ q # None
      BY <1>2, <1>7, <2>1
    <3>2. q \in L /\ m < q /\ q \in Nat
      BY <1>0, <1>4, <3>1 DEF ChainOf
    <3>3. PICK d \in Nat : d = Ranked(K, q)
      BY RankedNat
    <3>4. Ranked(J, q) = d - 1
      BY <1>0, <1>4, <3>2, <3>3, RankedRemove
    <3>5. s[m] = d - b
      BY <1>0, <1>5, <3>1, <3>3 DEF LevelOK
    <3>6. r[p] = (b - c) + (d - b) - 1
      BY <1>1, <1>6, <3>5
    <3> QED BY <1>5, <1>6, <2>1, <3>1, <3>3, <3>4, <3>6
  <2>2. CASE n = m
    BY <1>2, <1>7, <2>2
  <2>3. CASE n # p /\ n # m
    <3>1. PICK q : q = f[n] /\ q = g[n] /\ q # None
      BY <1>2, <1>7, <2>3
    <3>2. n \in L \cup {ListHead} /\ q \in L /\ n \in Nat /\ q \in Nat
      <4>1. n \in L \cup {ListHead} /\ f[n] \in L
        BY <1>0, <3>1 DEF ChainOf
      <4> QED BY <1>4, <3>1, <4>1
    <3>3. PICK d, e \in Nat : d = Ranked(K, q) /\ e = Ranked(K, n)
      BY RankedNat
    <3>4. r[n] = d - e
      BY <1>1, <2>3, <3>1, <3>3 DEF LevelOK
    <3>5. /\ Ranked(J, q) = IF m <= q THEN d - 1 ELSE d
          /\ Ranked(J, n) = IF m <= n THEN e - 1 ELSE e
      BY <1>0, <3>3, RankedRemove
    <3>6. (n < m /\ q < m) \/ (m < n /\ m < q)
      <4>0. /\ L \subseteq Members /\ m \in Members /\ ChainOf(f, L) /\ Before(f, L, m, p)
            /\ n \in L \cup {ListHead} /\ n # p /\ n # m /\ f[n] # None
        BY <1>0, <2>3, <3>1, <3>2
      <4>1. \/ n < m /\ f[n] < m /\ f[n] <= p
            \/ m < n /\ m < f[n]
        BY <4>0, Around
      <4> QED BY <3>1, <4>1
    <3> QED BY <1>4, <3>1, <3>2, <3>3, <3>4, <3>5, <3>6
  <2> QED BY <2>1, <2>2, <2>3
<1>8. L \ {m} \subseteq J
  BY <1>0
<1>9. LevelOK(g, r, L \ {m}, J)
  BY <1>1, <1>3, <1>7, <1>8 DEF LevelOK
<1> QED BY <1>9 DEF g, r

-----------------------------------------------------------------------------
(* GetUpdateVec.                                                                *)

LEMMA RankedHead ==
  ASSUME NEW K, K \subseteq Members
  PROVE  Ranked(K, ListHead) = 0
<1>0. ListHead = 0 /\ \A y \in K : y \in Nat /\ y > 0
  BY NodesAre
<1>1. \A y \in K : ~(y <= ListHead)
  BY <1>0
<1>2. {y \in K : y <= ListHead} = {}
  BY <1>1
<1> QED BY <1>2, FS_EmptySet DEF Ranked

IsReach(h, f, s, m) ==
    h = [n \in Nodes |-> IF f[n] = None \/ f[n] >= m THEN [node |-> n, rank |-> 0]
                         ELSE [h[f[n]] EXCEPT !.rank = @ + s[n]]]

(* There is such a function: from a node before p the loop comes to p. *)
LEMMA ReachRuns ==
  ASSUME NEW L, NEW K, K \subseteq Members, IsFiniteSet(K), NEW m \in Members,
         NEW f, NEW s, LevelOK(f, s, L, K), NEW p, Before(f, L, m, p)
  PROVE  \E h : IsReach(h, f, s, m)
<1> DEFINE g == [n \in Nodes |-> IF f[n] = None \/ f[n] >= m THEN [node |-> n, rank |-> 0]
                                 ELSE [node |-> p, rank |-> Ranked(K, p) - Ranked(K, n)]]
<1>0. L \subseteq Members /\ ChainOf(f, L) /\ m \in Nat /\ \A y \in L : y \in Nat /\ y \in Nodes
  BY NodesAre DEF LevelOK
<1>1. ASSUME NEW n \in Nodes, ~(f[n] = None \/ f[n] >= m)
      PROVE  g[n] = [g[f[n]] EXCEPT !.rank = @ + s[n]]
  <2>1. PICK q : q = f[n] /\ q # None
    BY <1>1
  <2>2. n \in L \cup {ListHead} /\ q \in L /\ q \in Nodes /\ q \in Nat /\ q < m
    <3>1. n \in L \cup {ListHead} /\ q \in L
      BY <1>1, <1>0, <2>1 DEF ChainOf
    <3>2. q \in Nat /\ q \in Nodes /\ ~(q >= m)
      BY <1>0, <1>1, <2>1, <3>1
    <3> QED BY <1>0, <3>1, <3>2
  <2>3. PICK a, b, c \in Nat : a = Ranked(K, p) /\ b = Ranked(K, n) /\ c = Ranked(K, q)
    BY RankedNat
  <2>4. s[n] = c - b
    BY <1>0, <2>1, <2>3 DEF LevelOK
  <2>5. g[n] = [node |-> p, rank |-> a - b]
    BY <1>1, <2>3
  <2>6. CASE f[q] = None \/ f[q] >= m
    <3>1. f[q] = None \/ m <= f[q]
      BY <1>0, <2>2, <2>6 DEF ChainOf
    <3>2. q = p
      BY <2>2, <3>1 DEF Before
    <3>3. g[q] = [node |-> p, rank |-> 0]
      BY <2>2, <2>6, <3>2
    <3>4. 0 + s[n] = a - b
      BY <2>3, <2>4, <3>2
    <3> HIDE DEF g
    <3> QED BY <2>1, <2>5, <3>3, <3>4
  <2>7. CASE ~(f[q] = None \/ f[q] >= m)
    <3>1. g[q] = [node |-> p, rank |-> a - c]
      BY <2>2, <2>3, <2>7
    <3>2. (a - c) + s[n] = a - b
      BY <2>4
    <3> HIDE DEF g
    <3> QED BY <2>1, <2>5, <3>1, <3>2
  <2> QED BY <2>6, <2>7
<1>2. \A n \in Nodes : g[n] = IF f[n] = None \/ f[n] >= m THEN [node |-> n, rank |-> 0]
                              ELSE [g[f[n]] EXCEPT !.rank = @ + s[n]]
  <2> SUFFICES ASSUME NEW n \in Nodes
               PROVE  g[n] = IF f[n] = None \/ f[n] >= m THEN [node |-> n, rank |-> 0]
                             ELSE [g[f[n]] EXCEPT !.rank = @ + s[n]]
    OBVIOUS
  <2>1. CASE f[n] = None \/ f[n] >= m
    BY <2>1
  <2>2. CASE ~(f[n] = None \/ f[n] >= m)
    <3>1. g[n] = [g[f[n]] EXCEPT !.rank = @ + s[n]]
      BY <1>1, <2>2
    <3> HIDE DEF g
    <3> QED BY <2>2, <3>1
  <2> QED BY <2>1, <2>2
<1>3. g = [n \in Nodes |-> g[n]]
  OBVIOUS
<1> HIDE DEF g
<1>4. IsReach(g, f, s, m)
  BY <1>2, <1>3, Zenon DEF IsReach
<1> QED BY <1>4

LEMMA ReachIs ==
  ASSUME NEW L, NEW K, K \subseteq Members, IsFiniteSet(K), NEW m \in Members,
         NEW f, NEW s, LevelOK(f, s, L, K), NEW p, Before(f, L, m, p),
         NEW h, IsReach(h, f, s, m)
  PROVE  \A n \in L \cup {ListHead} :
            n < m => h[n] = [node |-> p, rank |-> Ranked(K, p) - Ranked(K, n)]
<1> DEFINE value(n) == [node |-> p, rank |-> Ranked(K, p) - Ranked(K, n)]
           P == {d \in Nat : \A n \in L \cup {ListHead} : n < m /\ m - n <= d => h[n] = value(n)}
<1>0. /\ L \subseteq Members /\ ChainOf(f, L) /\ m \in Nat
      /\ \A y \in L \cup {ListHead} : y \in Nat /\ y \in Nodes
  BY NodesAre DEF LevelOK
<1>1. 0 \in P
  BY <1>0
<1>2. ASSUME NEW d \in Nat, d \in P PROVE d + 1 \in P
  <2>1. SUFFICES ASSUME NEW n \in L \cup {ListHead}, n < m, m - n <= d + 1 PROVE h[n] = value(n)
    OBVIOUS
  <2>2. n \in Nat /\ n \in Nodes
    BY <1>0
  <2>3. PICK a, b \in Nat : a = Ranked(K, p) /\ b = Ranked(K, n)
    BY RankedNat
  <2>4. CASE f[n] = None \/ f[n] >= m
    <3>1. f[n] = None \/ m <= f[n]
      BY <1>0, <2>2, <2>4 DEF ChainOf
    <3>2. n = p
      BY <2>1, <3>1 DEF Before
    <3>3. h[n] = [node |-> n, rank |-> 0]
      BY <2>2, <2>4, Zenon DEF IsReach
    <3>4. a - b = 0
      BY <2>3, <3>2
    <3> QED BY <2>3, <3>2, <3>3, <3>4
  <2>5. CASE ~(f[n] = None \/ f[n] >= m)
    <3>1. PICK q : q = f[n] /\ q # None
      BY <2>5
    <3>2. q \in L /\ n < q /\ q \in Nat /\ q < m
      <4>1. q \in L /\ n < q
        BY <1>0, <2>1, <3>1 DEF ChainOf
      <4>2. q \in Nat /\ ~(q >= m)
        BY <1>0, <2>5, <3>1, <4>1
      <4> QED BY <1>0, <4>1, <4>2
    <3>3. m - q <= d
      BY <1>0, <2>1, <2>2, <3>2
    <3>4. h[q] = value(q)
      BY <1>2, <3>2, <3>3
    <3>5. PICK c \in Nat : c = Ranked(K, q)
      BY RankedNat
    <3>6. s[n] = c - b
      BY <2>2, <2>3, <3>1, <3>5 DEF LevelOK
    <3>7. h[n] = [h[q] EXCEPT !.rank = @ + s[n]]
      BY <2>2, <2>5, <3>1, Zenon DEF IsReach
    <3>8. h[q] = [node |-> p, rank |-> a - c]
      BY <2>3, <3>4, <3>5
    <3>9. (a - c) + s[n] = a - b
      BY <3>6
    <3> QED BY <2>3, <3>7, <3>8, <3>9
  <2> QED BY <2>4, <2>5
<1> HIDE DEF P
<1>3. \A d \in Nat : d \in P
  BY <1>1, <1>2, Induct
<1>4. ASSUME NEW n \in L \cup {ListHead}, n < m PROVE h[n] = value(n)
  <2>1. m - n \in Nat /\ m - n <= m - n
    BY <1>0, <1>4
  <2>2. m - n \in P
    BY <1>3, <2>1
  <2> QED BY <1>4, <2>1, <2>2 DEF P
<1> QED BY <1>4

(* What the inner loop returns. *)
LEMMA AlongIs ==
  ASSUME NEW L, NEW K, K \subseteq Members, IsFiniteSet(K), NEW m \in Members,
         NEW f, NEW s, LevelOK(f, s, L, K), NEW p, Before(f, L, m, p),
         NEW n \in L \cup {ListHead}, n < m
  PROVE  Along(f, s, m)[n] = [node |-> p, rank |-> Ranked(K, p) - Ranked(K, n)]
<1>1. \E h : IsReach(h, f, s, m)
  BY ReachRuns
<1>2. IsReach(Along(f, s, m), f, s, m)
  BY <1>1, Zenon DEF Along, IsReach
<1> QED BY <1>2, ReachIs
Down(above, i, m, size) ==
    LET here == Along(next[i], WithLevels(size)[i], m)[above.node]
        from == IF i >= level - 1 \/ i = size - 1 THEN 0 ELSE above.rank
    IN  [here EXCEPT !.rank = @ + from]

IsUpdate(u, m, size) ==
    u = [i \in 0..size |-> IF i = size THEN [node |-> ListHead, rank |-> 0]
                           ELSE Down(u[i + 1], i, m, size)]

(* Levels for UpdateVec: the links and spans below size, those from level on bare. *)
Stack(L, K, size) ==
    /\ K \subseteq Members /\ IsFiniteSet(K) /\ level \in Nat \ {0} /\ size \in Nat \ {0}
    /\ \A i \in 0..(size - 1) : LevelOK(next[i], WithLevels(size)[i], L[i], K)
    /\ \A i \in 0..(size - 1) : i + 1 <= size - 1 => L[i + 1] \subseteq L[i]
    /\ \A i \in 0..(size - 1) : i >= level => L[i] = {}

UpdateOf(L, K, m, size, i) ==
    IF i = size THEN [node |-> ListHead, rank |-> 0]
    ELSE [node |-> LastBelow(L[i], m), rank |-> Ranked(K, LastBelow(L[i], m))]

LEMMA OneLevelDown ==
  ASSUME NEW L, NEW K, NEW size, Stack(L, K, size), NEW m \in Members, NEW i \in 0..(size - 1)
  PROVE  Down(UpdateOf(L, K, m, size, i + 1), i, m, size) = UpdateOf(L, K, m, size, i)
<1> DEFINE above == UpdateOf(L, K, m, size, i + 1)
           here  == Along(next[i], WithLevels(size)[i], m)[above.node]
           from  == IF i >= level - 1 \/ i = size - 1 THEN 0 ELSE above.rank
<1>0. /\ K \subseteq Members /\ IsFiniteSet(K) /\ level \in Nat \ {0} /\ size \in Nat \ {0}
      /\ LevelOK(next[i], WithLevels(size)[i], L[i], K)
      /\ i + 1 <= size - 1 => i + 1 \in 0..(size - 1) /\ L[i + 1] \subseteq L[i]
      /\ i + 1 <= size - 1 /\ i + 1 >= level => L[i + 1] = {}
      /\ i + 1 <= size - 1 \/ i = size - 1
  BY DEF Stack
<1>1. L[i] \subseteq Members /\ ChainOf(next[i], L[i])
  BY <1>0 DEF LevelOK
<1>2. PICK p : p = LastBelow(L[i], m)
  OBVIOUS
<1>3. Before(next[i], L[i], m, p)
  BY <1>1, <1>2, LastIsBefore
<1>4. PICK q, r : q = above.node /\ r = above.rank
  OBVIOUS
<1>5. /\ q \in L[i] \cup {ListHead} /\ q < m /\ r = Ranked(K, q)
      /\ i >= level - 1 \/ i = size - 1 => r = 0
  <2>1. CASE i = size - 1
    <3>1. i + 1 = size
      BY <1>0, <2>1
    <3>2. above = [node |-> ListHead, rank |-> 0]
      BY <3>1 DEF UpdateOf
    <3>3. q = ListHead /\ r = 0
      BY <1>4, <3>2
    <3>4. ListHead < m
      BY NodesAre
    <3> QED BY <1>0, <3>3, <3>4, RankedHead
  <2>2. CASE i # size - 1
    <3>1. i + 1 <= size - 1 /\ i + 1 # size
      BY <1>0, <2>2
    <3>2. above = [node |-> LastBelow(L[i + 1], m), rank |-> Ranked(K, LastBelow(L[i + 1], m))]
      BY <3>1 DEF UpdateOf
    <3>3. q = LastBelow(L[i + 1], m) /\ r = Ranked(K, q)
      BY <1>4, <3>2
    <3>4. q \in L[i + 1] \cup {ListHead} /\ q < m
      <4>1. L[i + 1] \subseteq Members
        BY <1>0, <1>1, <3>1
      <4> QED BY <3>3, <4>1, LastIs
    <3>5. i >= level - 1 => q = ListHead
      <4>1. i >= level - 1 => i + 1 >= level
        BY <1>0
      <4> QED BY <1>0, <3>1, <3>4, <4>1
    <3>6. i >= level - 1 => r = 0
      BY <1>0, <3>3, <3>5, RankedHead
    <3> QED BY <1>0, <2>2, <3>1, <3>3, <3>4, <3>6
  <2> QED BY <2>1, <2>2
<1>6. Along(next[i], WithLevels(size)[i], m)[q] = [node |-> p, rank |-> Ranked(K, p) - Ranked(K, q)]
  BY <1>0, <1>3, <1>5, AlongIs
<1>7. PICK a, b \in Nat : a = Ranked(K, p) /\ b = Ranked(K, q)
  BY <1>0, RankedNat
<1>8. from = b
  BY <1>4, <1>5, <1>7
<1>9. UpdateOf(L, K, m, size, i) = [node |-> p, rank |-> a]
  <2>1. i # size
    BY <1>0
  <2> QED BY <1>2, <1>7, <2>1 DEF UpdateOf
<1>10. here = [node |-> p, rank |-> a - b] /\ (a - b) + b = a
  <2>1. here = Along(next[i], WithLevels(size)[i], m)[q]
    BY <1>4
  <2> HIDE DEF here
  <2> QED BY <1>6, <1>7, <2>1
<1> HIDE DEF above, here, from
<1>11. [here EXCEPT !.rank = @ + from] = [node |-> p, rank |-> a]
  BY <1>8, <1>10
<1> QED BY <1>9, <1>11 DEF above, here, from, Down

LEMMA UpdateIs ==
  ASSUME NEW L, NEW K, NEW size, Stack(L, K, size), NEW m \in Members
  PROVE  \A i \in 0..size : UpdateVec(m, size)[i] = UpdateOf(L, K, m, size, i)
<1> DEFINE v == [i \in 0..size |-> UpdateOf(L, K, m, size, i)]
           u == UpdateVec(m, size)
<1>0. size \in Nat \ {0}
  BY DEF Stack
<1>1. \A i \in 0..size : i # size => i + 1 \in 0..size /\ i \in 0..(size - 1)
  BY <1>0
<1>2. \A i \in 0..size : v[i] = UpdateOf(L, K, m, size, i)
  OBVIOUS
<1>3. v = [i \in 0..size |-> v[i]]
  OBVIOUS
<1> HIDE DEF v
<1>4. ASSUME NEW i \in 0..size
      PROVE  v[i] = IF i = size THEN [node |-> ListHead, rank |-> 0]
                    ELSE Down(v[i + 1], i, m, size)
  <2>1. CASE i = size
    BY <1>2, <2>1 DEF UpdateOf
  <2>2. CASE i # size
    <3>1. v[i + 1] = UpdateOf(L, K, m, size, i + 1) /\ v[i] = UpdateOf(L, K, m, size, i)
      BY <1>1, <1>2, <2>2
    <3>2. i \in 0..(size - 1)
      BY <1>1, <2>2
    <3> QED BY <2>2, <3>1, <3>2, OneLevelDown, Zenon
  <2> QED BY <2>1, <2>2
<1>5. IsUpdate(v, m, size)
  BY <1>3, <1>4, Zenon DEF IsUpdate
<1>6. IsUpdate(u, m, size)
  BY <1>5, Zenon DEF UpdateVec, IsUpdate, Down
<1> HIDE DEF u
<1> DEFINE P == {d \in Nat : d <= size => u[size - d] = UpdateOf(L, K, m, size, size - d)}
<1>7. 0 \in P
  <2>1. u[size] = [node |-> ListHead, rank |-> 0]
    BY <1>0, <1>6 DEF IsUpdate
  <2>2. size - 0 = size
    BY <1>0
  <2> QED BY <2>1, <2>2 DEF UpdateOf
<1>8. ASSUME NEW d \in Nat, d \in P PROVE d + 1 \in P
  <2>1. SUFFICES ASSUME d + 1 <= size
                 PROVE  u[size - (d + 1)] = UpdateOf(L, K, m, size, size - (d + 1))
    OBVIOUS
  <2>2. PICK i \in 0..(size - 1) : i = size - (d + 1) /\ i + 1 = size - d
    BY <1>0, <2>1
  <2>3. u[i + 1] = UpdateOf(L, K, m, size, i + 1)
    BY <1>0, <1>8, <2>1, <2>2
  <2>4. i \in 0..size /\ i # size
    BY <1>0
  <2>5. u[i] = Down(u[i + 1], i, m, size)
    BY <1>6, <2>4, Zenon DEF IsUpdate
  <2>6. u[i] = UpdateOf(L, K, m, size, i)
    BY <2>3, <2>5, OneLevelDown, Zenon
  <2> QED BY <2>2, <2>6
<1> HIDE DEF P
<1>9. \A d \in Nat : d \in P
  BY <1>7, <1>8, Induct
<1>10. ASSUME NEW i \in 0..size PROVE u[i] = UpdateOf(L, K, m, size, i)
  <2>1. size - i \in Nat /\ size - i <= size /\ size - (size - i) = i
    BY <1>0
  <2>2. size - i \in P
    BY <1>9, <2>1
  <2> QED BY <2>1, <2>2 DEF P
<1> QED BY <1>10 DEF u

-----------------------------------------------------------------------------
(* What a SkipList is while nothing it left behind has been met.                *)

Bare == [n \in Nodes |-> None]

(* L names the nodes of every level that counts.  Level lv is the one that Delete took
   last: its links may be old ones, the levels above have none. *)
SkipOK(f, s, lv, n, K, L) ==
    /\ K \subseteq Members /\ IsFiniteSet(K) /\ n = Cardinality(K)
    /\ lv \in 1..TopLevel
    /\ L \in [0..(lv - 1) -> SUBSET K] /\ L[0] = K
    /\ \A i, j \in 0..(lv - 1) : i <= j => L[j] \subseteq L[i]
    /\ f \in [Levels -> [Nodes -> Nodes \cup {None}]]
    /\ s \in [Levels -> [Nodes -> Int]]
    /\ \A i \in 0..(lv - 1) : LevelOK(f[i], s[i], L[i], K)
    /\ \A i \in (lv + 1)..TopLevel : f[i] = Bare
    /\ f[lv][ListHead] # None \/ f[lv] = Bare

SkipInv == accident = "none" => \E L : SkipOK(next, span, level, length, members, L)

LEMMA BareLevel ==
  ASSUME NEW s \in [Nodes -> Int], NEW K
  PROVE  LevelOK(Bare, s, {}, K)
<1>0. Bare \in [Nodes -> Nodes \cup {None}] /\ \A n \in Nodes : Bare[n] = None
  BY DEF Bare
<1>1. ChainOf(Bare, {})
  BY <1>0, NodesAre DEF ChainOf
<1> QED BY <1>0, <1>1 DEF LevelOK

LEMMA EmptyLevel ==
  ASSUME NEW f, NEW L, L \subseteq Members, ChainOf(f, L), f[ListHead] = None
  PROVE  L = {} /\ f = Bare
<1>0. ListHead = 0 /\ \A y \in L : y \in Nat /\ y > 0
  BY NodesAre
<1>1. f[ListHead] \notin L
  BY <1>0 DEF None
<1>2. \A y \in L : y <= ListHead
  BY <1>1 DEF ChainOf
<1>3. L = {}
  BY <1>0, <1>2
<1>4. \A n \in Nodes : f[n] = None
  BY <1>3 DEF ChainOf
<1>5. f \in [Nodes -> Nodes \cup {None}]
  BY DEF ChainOf
<1> QED BY <1>3, <1>4, <1>5 DEF Bare

LEMMA GreatestOf ==
  ASSUME NEW b \in Nat, NEW T \in SUBSET (0..b), T # {}
  PROVE  \E i \in T : \A j \in T : j <= i
BY GreatestIs

(* The levels from level up that Insert is about to use, with no old links. *)
LEMMA LevelsNamed ==
  ASSUME NEW L, SkipOK(next, span, level, length, members, L),
         NEW size \in level..TopLevel, \A i \in level..(size - 1) : next[i] = Bare,
         NEW E, E = [i \in 0..(size - 1) |-> IF i < level THEN L[i] ELSE {}]
  PROVE  /\ Stack(E, members, size)
         /\ \A i \in 0..(size - 1) : LevelOK(next[i], span[i], E[i], members)
         /\ \A i, j \in 0..(size - 1) : i <= j => E[j] \subseteq E[i]
         /\ \A i \in 0..(level - 1) : WithLevels(size)[i] = span[i]
<1>0. /\ level \in Nat /\ level >= 1 /\ level <= TopLevel /\ TopLevel \in Nat /\ size \in Nat
      /\ size >= level /\ size <= TopLevel
      /\ members \subseteq Members /\ IsFiniteSet(members)
      /\ span \in [Levels -> [Nodes -> Int]]
  BY SkipConstants DEF SkipOK
<1>1. length \in Nat
  BY FS_CardinalityType DEF SkipOK
<1>2. \A i \in 0..(size - 1) : i \in Levels /\ (i < level => i \in 0..(level - 1) /\ i \notin level..(size - 1))
                               /\ (~(i < level) => i \in level..(size - 1))
  BY <1>0 DEF Levels
<1>3. ASSUME NEW i \in 0..(size - 1)
      PROVE  /\ LevelOK(next[i], span[i], E[i], members)
             /\ LevelOK(next[i], WithLevels(size)[i], E[i], members)
             /\ i < level => WithLevels(size)[i] = span[i]
  <2>1. CASE i < level
    <3>1. WithLevels(size)[i] = span[i]
      BY <1>2, <2>1 DEF WithLevels
    <3>2. E[i] = L[i]
      BY <2>1
    <3>3. LevelOK(next[i], span[i], L[i], members)
      BY <1>2, <2>1 DEF SkipOK
    <3> QED BY <3>1, <3>2, <3>3
  <2>2. CASE ~(i < level)
    <3>1. next[i] = Bare /\ E[i] = {}
      BY <1>2, <2>2
    <3>2. WithLevels(size)[i] = [span[i] EXCEPT ![ListHead] = length]
      BY <1>2, <2>2 DEF WithLevels
    <3>3. span[i] \in [Nodes -> Int]
      BY <1>0, <1>2
    <3>4. WithLevels(size)[i] \in [Nodes -> Int]
      <4>1. PICK r : r = span[i]
        OBVIOUS
      <4>2. r \in [Nodes -> Int] /\ WithLevels(size)[i] = [r EXCEPT ![ListHead] = length]
        BY <3>2, <3>3, <4>1
      <4>3. PICK n \in Int : n = length
        BY <1>1
      <4>4. [r EXCEPT ![ListHead] = n] \in [Nodes -> Int]
        BY <4>2
      <4> QED BY <4>2, <4>3, <4>4, Zenon
    <3> QED BY <2>2, <3>1, <3>3, <3>4, BareLevel
  <2> QED BY <2>1, <2>2
<1>4. ASSUME NEW i \in 0..(size - 1), NEW j \in 0..(size - 1), i <= j
      PROVE  E[j] \subseteq E[i]
  <2>1. CASE j < level
    <3>1. i \in 0..(level - 1) /\ j \in 0..(level - 1) /\ i < level
      BY <1>0, <1>4, <2>1
    <3>2. L[j] \subseteq L[i]
      BY <1>4, <3>1 DEF SkipOK
    <3> QED BY <2>1, <3>1, <3>2
  <2>2. CASE ~(j < level)
    BY <2>2
  <2> QED BY <2>1, <2>2
<1>5. \A i \in 0..(size - 1) : i + 1 <= size - 1 => E[i + 1] \subseteq E[i]
  <2> SUFFICES ASSUME NEW i \in 0..(size - 1), i + 1 <= size - 1 PROVE E[i + 1] \subseteq E[i]
    OBVIOUS
  <2>1. i + 1 \in 0..(size - 1) /\ i <= i + 1
    BY <1>0
  <2> QED BY <1>4, <2>1
<1>6. \A i \in 0..(size - 1) : i >= level => E[i] = {}
  BY <1>0
<1>7. \A i \in 0..(level - 1) : i \in 0..(size - 1) /\ i < level
  BY <1>0
<1>8. Stack(E, members, size)
  <2>1. level \in Nat \ {0} /\ size \in Nat \ {0}
    BY <1>0
  <2> QED BY <1>0, <1>3, <1>5, <1>6, <2>1 DEF Stack
<1> QED BY <1>3, <1>4, <1>7, <1>8

LEMMA LevelsOfList ==
  ASSUME NEW L, SkipOK(next, span, level, length, members, L)
  PROVE  Stack(L, members, level)
<1> DEFINE E == [i \in 0..(level - 1) |-> IF i < level THEN L[i] ELSE {}]
<1>1. level \in level..TopLevel /\ \A i \in 0..(level - 1) : i < level
  BY SkipConstants DEF SkipOK
<1>2. L = [i \in 0..(level - 1) |-> L[i]]
  BY DEF SkipOK
<1>3. L = E
  BY <1>1, <1>2
<1>4. \A i \in level..(level - 1) : next[i] = Bare
  BY DEF SkipOK
<1> QED BY <1>1, <1>3, <1>4, LevelsNamed

(* What UpdateVec says of the levels. *)
LEMMA UpdateFinds ==
  ASSUME NEW L, NEW K, NEW size, Stack(L, K, size), NEW m \in Members, NEW i \in 0..(size - 1),
         NEW u, u = UpdateVec(m, size)
  PROVE  /\ Before(next[i], L[i], m, u[i].node) /\ u[i].node = LastBelow(L[i], m)
         /\ u[i].rank = Ranked(K, u[i].node)
<1>0. size \in Nat \ {0} /\ i \in 0..size /\ i # size /\ K \subseteq Members
      /\ LevelOK(next[i], WithLevels(size)[i], L[i], K)
  BY DEF Stack
<1>1. L[i] \subseteq Members /\ ChainOf(next[i], L[i])
  BY <1>0 DEF LevelOK
<1>2. u[i] = UpdateOf(L, K, m, size, i)
  BY <1>0, UpdateIs
<1>3. u[i] = [node |-> LastBelow(L[i], m), rank |-> Ranked(K, LastBelow(L[i], m))]
  BY <1>0, <1>2 DEF UpdateOf
<1>4. u[i].node = LastBelow(L[i], m) /\ u[i].rank = Ranked(K, LastBelow(L[i], m))
  BY <1>3
<1> QED BY <1>1, <1>4, LastIsBefore

(* Find. *)
LEMMA FindIs ==
  ASSUME NEW L, SkipOK(next, span, level, length, members, L), NEW m \in Members
  PROVE  Find(m) = IF m \in members THEN [node |-> m, rank |-> Rank(m)]
                                    ELSE [node |-> None, rank |-> 0]
<1> DEFINE u == UpdateVec(m, level)
           hits == {i \in 0..(level - 1) : next[i][u[i].node] = m}
<1>0. /\ level \in Nat /\ level >= 1 /\ IsFiniteSet(members) /\ m \in Nat
      /\ \A i \in 0..(level - 1) : L[i] \subseteq members
      /\ 0 \in 0..(level - 1) /\ L[0] = members
  <2>1. level \in Nat /\ level >= 1
    BY SkipConstants DEF SkipOK
  <2> QED BY <2>1, NodesAre DEF SkipOK
<1>1. Stack(L, members, level)
  BY LevelsOfList
<1>2. PICK v : v = u
  OBVIOUS
<1>3. \A i \in 0..(level - 1) : Before(next[i], L[i], m, v[i].node) /\ v[i].rank = Ranked(members, v[i].node)
  BY <1>1, <1>2, UpdateFinds
<1>4. hits = {i \in 0..(level - 1) : next[i][v[i].node] = m}
  BY <1>2
<1>5. \A i \in 0..(level - 1) : i \in hits <=> m \in L[i]
  BY <1>3, <1>4 DEF Before
<1>6. CASE m \notin members
  <2>1. hits = {}
    BY <1>0, <1>4, <1>5, <1>6
  <2> QED BY <1>6, <2>1 DEF Find
<1>7. CASE m \in members
  <2>1. hits # {} /\ hits \in SUBSET (0..(level - 1)) /\ level - 1 \in Nat
    BY <1>0, <1>4, <1>5, <1>7
  <2> DEFINE i == CHOOSE x \in hits : \A j \in hits : j <= x
  <2>2. \E x \in hits : \A j \in hits : j <= x
    <3> HIDE DEF hits
    <3> QED BY <2>1, GreatestOf
  <2>3. i \in hits
    <3> HIDE DEF hits
    <3> QED BY <2>2
  <2>4. Find(m) = [node |-> m, rank |-> u[i].rank + span[i][u[i].node]]
    BY <2>1 DEF Find
  <2>5. PICK k \in 0..(level - 1) : k = i /\ next[k][v[k].node] = m
    BY <1>4, <2>3
  <2>6. PICK p : p = v[k].node
    OBVIOUS
  <2>7. LevelOK(next[k], span[k], L[k], members) /\ p \in Nodes /\ next[k][p] = m /\ m # None
    <3>1. p \in Nodes /\ next[k][p] = m
      BY <1>3, <2>5, <2>6 DEF Before
    <3> QED BY <1>0, <3>1 DEF SkipOK, None
  <2>8. PICK a, b \in Nat : a = Ranked(members, m) /\ b = Ranked(members, p)
    BY <1>0, RankedNat
  <2>9. span[k][p] = a - b
    BY <2>7, <2>8 DEF LevelOK
  <2>10. v[k].rank = b
    BY <1>3, <2>6, <2>8
  <2>11. b + (a - b) = a
    OBVIOUS
  <2>12. Find(m) = [node |-> m, rank |-> v[k].rank + span[k][v[k].node]]
    BY <1>2, <2>4, <2>5
  <2>13. v[k].rank + span[k][v[k].node] = a
    <3>1. v[k].rank + span[k][p] = b + (a - b)
      BY <2>9, <2>10
    <3> QED BY <2>6, <2>11, <3>1
  <2>14. Rank(m) = a
    BY <2>8 DEF Rank, Ranked
  <2> QED BY <1>7, <2>12, <2>13, <2>14
<1> QED BY <1>6, <1>7

LEMMA ListRanks ==
  ASSUME SkipInv
  PROVE  RanksExact
<1> SUFFICES ASSUME accident = "none", NEW L, SkipOK(next, span, level, length, members, L)
             PROVE  /\ length = Cardinality(members)
                    /\ \A m \in Members :
                          Find(m) = IF m \in members THEN [node |-> m, rank |-> Rank(m)]
                                                     ELSE [node |-> None, rank |-> 0]
  BY DEF SkipInv, RanksExact
<1>1. length = Cardinality(members)
  BY DEF SkipOK
<1> QED BY <1>1, FindIs

(* A new list. *)
LEMMA ListMade ==
  ASSUME SkipInit
  PROVE  SkipInv
<1> DEFINE L == [i \in 0..0 |-> {}]
<1>1. /\ next \in [Levels -> [Nodes -> Nodes \cup {None}]] /\ span \in [Levels -> [Nodes -> Int]]
      /\ \A i \in Levels : next[i] = Bare
      /\ level = 1 /\ length = 0 /\ members = {}
  BY DEF SkipInit, Bare
<1>2. 0 \in Levels /\ 1 \in Levels /\ TopLevel \in Nat /\ 1 <= TopLevel /\ \A i \in 2..TopLevel : i \in Levels
  BY SkipConstants DEF Levels
<1>3. \A i \in 0..0 : LevelOK(next[i], span[i], {}, {})
  <2>1. next[0] = Bare /\ span[0] \in [Nodes -> Int]
    BY <1>1, <1>2
  <2> QED BY <2>1, BareLevel
<1>4. IsFiniteSet({}) /\ Cardinality({}) = 0
  BY FS_EmptySet
<1>5. L[0] = {} /\ \A i \in 0..0 : L[i] = {}
  OBVIOUS
<1>6. L \in [0..0 -> SUBSET {}]
  OBVIOUS
<1>7. level \in 1..TopLevel /\ level - 1 = 0 /\ level + 1 = 2
  BY <1>1, <1>2
<1> HIDE DEF L
<1>8. SkipOK(next, span, level, length, members, L)
  <2>1. /\ L \in [0..(level - 1) -> SUBSET members] /\ L[0] = members
        /\ \A i \in 0..(level - 1) : LevelOK(next[i], span[i], L[i], members)
    BY <1>1, <1>3, <1>5, <1>6, <1>7
  <2>2. \A i, j \in 0..(level - 1) : i <= j => L[j] \subseteq L[i]
    BY <1>5, <1>7
  <2>3. \A i \in (level + 1)..TopLevel : next[i] = Bare
    BY <1>1, <1>2, <1>7
  <2>4. next[level] = Bare
    BY <1>1, <1>2
  <2>5. members \subseteq Members /\ IsFiniteSet(members) /\ length = Cardinality(members)
    BY <1>1, <1>4
  <2> QED BY <1>1, <1>7, <2>1, <2>2, <2>3, <2>4, <2>5, Zenon DEF SkipOK
<1> QED BY <1>8 DEF SkipInv

-----------------------------------------------------------------------------
(* Insert.                                                                      *)

(* No node between the last one before m and m. *)
LEMMA RankedBelow ==
  ASSUME NEW K, K \subseteq Members, NEW m \in Members, m \notin K, NEW p, p = LastBelow(K, m)
  PROVE  Ranked(K, p) = Ranked(K, m)
<1>1. p < m /\ p \in Nat /\ m \in Nat /\ (\A y \in K : y < m => y <= p) /\ \A y \in K : y \in Nat
  BY LastIs, NodesAre
<1>2. ASSUME NEW y \in K PROVE y <= p <=> y <= m
  <2>1. y \in Nat /\ y # m /\ (y < m => y <= p)
    BY <1>1
  <2> QED BY <1>1, <2>1
<1>3. {y \in K : y <= p} = {y \in K : y <= m}
  BY <1>2
<1> QED BY <1>3 DEF Ranked

(* One level after Insert. *)
Linked(f, p, m)      == [f EXCEPT ![p] = m, ![m] = f[p]]
Parted(s, p, m, a, w) == [s EXCEPT ![p] = 1 + a, ![m] = w - a]
Moved(s, p, change)  == [s EXCEPT ![p] = @ + change]

LEMMA InsertedLevel ==
  ASSUME NEW E, NEW K, NEW size, Stack(E, K, size), E[0] = K, NEW m \in Members, m \notin K,
         NEW i \in 0..(size - 1), NEW f, f = next[i], NEW s, LevelOK(f, s, E[i], K),
         NEW u, u = UpdateVec(m, size), NEW w \in Int, f[u[i].node] # None => w = s[u[i].node]
  PROVE  /\ LevelOK(Linked(f, u[i].node, m), Parted(s, u[i].node, m, u[0].rank - u[i].rank, w),
                    E[i] \cup {m}, K \cup {m})
         /\ LevelOK(f, Moved(s, u[i].node, 1), E[i], K \cup {m})
<1>0. K \subseteq Members /\ IsFiniteSet(K) /\ 0 \in 0..(size - 1)
  BY DEF Stack
<1>1. PICK p : p = u[i].node
  OBVIOUS
<1>2. Before(f, E[i], m, p) /\ u[i].rank = Ranked(K, p)
  BY <1>1, UpdateFinds
<1>3. u[0].rank = Ranked(K, m)
  <2>1. u[0].node = LastBelow(K, m) /\ u[0].rank = Ranked(K, u[0].node)
    BY <1>0, UpdateFinds
  <2> QED BY <1>0, <2>1, RankedBelow
<1>4. PICK b, c \in Nat : b = Ranked(K, m) /\ c = Ranked(K, p)
  BY <1>0, RankedNat
<1>5. PICK a \in Int : a = b - c
  OBVIOUS
<1>6. a = Ranked(K, m) - Ranked(K, p) /\ u[0].rank - u[i].rank = a
  BY <1>2, <1>3, <1>4, <1>5
<1>7. LevelOK(Linked(f, p, m), Parted(s, p, m, a, w), E[i] \cup {m}, K \cup {m})
  <2>1. f[p] # None => w = s[p]
    BY <1>1
  <2> QED BY <1>0, <1>2, <1>6, <2>1, LevelInserted DEF Linked, Parted
<1>8. LevelOK(f, Moved(s, p, 1), E[i], K \cup {m})
  BY <1>0, <1>2, LevelPassed DEF Moved
<1> QED BY <1>1, <1>6, <1>7, <1>8

LEMMA ListInserted ==
  ASSUME NEW L, SkipOK(next, span, level, length, members, L), NEW m \in Members,
         NEW lv \in 0..(TopLevel - 1), InsertNode(m, lv), accident' = "none"
  PROVE  \E M : SkipOK(next', span', level', length', members', M)
<1> DEFINE size == Larger(lv + 1, level)
           K == members
           E == [i \in 0..(size - 1) |-> IF i < level THEN L[i] ELSE {}]
           M == [i \in 0..(size - 1) |-> IF i <= lv THEN E[i] \cup {m} ELSE E[i]]
           u == UpdateVec(m, size)
<1>0. /\ level \in Nat /\ level >= 1 /\ level <= TopLevel /\ TopLevel \in Nat /\ lv \in Nat /\ lv < TopLevel
      /\ size \in Nat /\ size >= level /\ size <= TopLevel /\ lv < size
      /\ size = level \/ size = lv + 1
      /\ K \subseteq Members /\ IsFiniteSet(K) /\ length = Cardinality(K)
      /\ next \in [Levels -> [Nodes -> Nodes \cup {None}]]
      /\ span \in [Levels -> [Nodes -> Int]]
      /\ 0 \in 0..(level - 1) /\ L[0] = K /\ \A i \in 0..(level - 1) : L[i] \subseteq K
  <2>1. /\ level \in Nat /\ level >= 1 /\ level <= TopLevel /\ TopLevel \in Nat /\ lv \in Nat /\ lv < TopLevel
    BY SkipConstants DEF SkipOK
  <2>2. 0 \in 0..(level - 1)
    BY <2>1
  <2> QED BY <2>1, <2>2 DEF SkipOK, Larger
<1>1. m \notin K /\ ~\E i \in level..lv : next[i][ListHead] # None
  BY DEF InsertNode
<1>2. /\ next' = [i \in Levels |->
             IF i > lv THEN next[i]
             ELSE [next[i] EXCEPT ![u[i].node] = m, ![m] = next[i][u[i].node]]]
      /\ span' = [i \in Levels |->
             IF i > lv THEN SpansChanged(u, lv, 1)[i]
             ELSE [span[i] EXCEPT ![u[i].node] = 1 + (u[0].rank - u[i].rank),
                                  ![m] = WithLevels(size)[i][u[i].node] - (u[0].rank - u[i].rank)]]
      /\ level' = size /\ length' = length + 1 /\ members' = K \cup {m}
  BY <1>1 DEF InsertNode
<1> HIDE DEF size, u
<1>3. PICK v : v = u
  OBVIOUS
<1>4. \A i \in level..(size - 1) : next[i] = Bare
  <2> SUFFICES ASSUME NEW i \in level..(size - 1) PROVE next[i] = Bare
    OBVIOUS
  <2>1. i \in level..lv
    BY <1>0
  <2>2. next[i][ListHead] = None
    BY <1>1, <2>1
  <2>3. CASE i = level
    BY <2>2, <2>3 DEF SkipOK
  <2>4. CASE i # level
    <3>1. i \in (level + 1)..TopLevel
      BY <1>0, <2>1, <2>4
    <3> QED BY <3>1 DEF SkipOK
  <2> QED BY <2>3, <2>4
<1>5. /\ Stack(E, K, size)
      /\ \A i \in 0..(size - 1) : LevelOK(next[i], span[i], E[i], K)
      /\ \A i, j \in 0..(size - 1) : i <= j => E[j] \subseteq E[i]
      /\ \A i \in 0..(level - 1) : WithLevels(size)[i] = span[i]
  <2>1. size \in level..TopLevel
    BY <1>0
  <2> QED BY <1>4, <2>1, LevelsNamed
<1>6. /\ E[0] = K
      /\ \A i \in 0..(size - 1) : E[i] \subseteq K /\ (i >= level => E[i] = {})
      /\ M[0] = K \cup {m}
  <2>1. 0 \in 0..(size - 1) /\ 0 < level /\ 0 <= lv
    BY <1>0
  <2>2. ASSUME NEW i \in 0..(size - 1) PROVE E[i] \subseteq K /\ (i >= level => E[i] = {})
    <3>1. i < level => i \in 0..(level - 1)
      BY <1>0
    <3>2. i >= level => ~(i < level)
      BY <1>0
    <3> QED BY <1>0, <3>1, <3>2
  <2> QED BY <1>0, <2>1, <2>2
<1>7. \A i \in 0..(size - 1) : M[i] = IF i <= lv THEN E[i] \cup {m} ELSE E[i]
  OBVIOUS
<1>8. M \in [0..(size - 1) -> SUBSET (K \cup {m})]
  BY <1>6
<1> HIDE DEF E, M
<1>9. ASSUME NEW i \in 0..(size - 1)
      PROVE  LevelOK(next'[i], span'[i], M[i], K \cup {m})
  <2>0. i \in Levels /\ i \in Nat
    BY <1>0 DEF Levels
  <2>1. PICK w : w = WithLevels(size)[i][v[i].node]
    OBVIOUS
  <2>2. Before(next[i], E[i], m, v[i].node)
    BY <1>3, <1>5, UpdateFinds DEF u
  <2>3. w \in Int
    <3>1. LevelOK(next[i], WithLevels(size)[i], E[i], K)
      BY <1>5 DEF Stack
    <3>2. WithLevels(size)[i] \in [Nodes -> Int] /\ v[i].node \in Nodes
      BY <2>2, <3>1 DEF LevelOK, Before
    <3> QED BY <2>1, <3>2
  <2>4. next[i][v[i].node] # None => w = span[i][v[i].node]
    <3>1. CASE i < level
      <4>1. i \in 0..(level - 1)
        BY <1>0, <2>0, <3>1
      <4> QED BY <1>5, <2>1, <4>1
    <3>2. CASE ~(i < level)
      <4>1. E[i] = {}
        BY <1>0, <1>6, <2>0, <3>2
      <4> QED BY <2>2, <4>1 DEF Before
    <3> QED BY <3>1, <3>2
  <2>5. /\ LevelOK(Linked(next[i], v[i].node, m), Parted(span[i], v[i].node, m, v[0].rank - v[i].rank, w),
                   E[i] \cup {m}, K \cup {m})
        /\ LevelOK(next[i], Moved(span[i], v[i].node, 1), E[i], K \cup {m})
    <3>1. PICK f, s : f = next[i] /\ s = span[i]
      OBVIOUS
    <3>2. /\ Stack(E, K, size) /\ E[0] = K /\ m \notin K /\ v = UpdateVec(m, size) /\ w \in Int
          /\ LevelOK(f, s, E[i], K) /\ (f[v[i].node] # None => w = s[v[i].node])
      BY <1>1, <1>3, <1>5, <1>6, <2>3, <2>4, <3>1 DEF u
    <3>3. /\ LevelOK(Linked(f, v[i].node, m), Parted(s, v[i].node, m, v[0].rank - v[i].rank, w),
                     E[i] \cup {m}, K \cup {m})
          /\ LevelOK(f, Moved(s, v[i].node, 1), E[i], K \cup {m})
      BY <3>1, <3>2, InsertedLevel
    <3> QED BY <3>1, <3>3
  <2>6. CASE i <= lv
    <3>1. ~(i > lv) /\ M[i] = E[i] \cup {m}
      <4>1. ~(i > lv)
        BY <1>0, <2>0, <2>6
      <4>2. M[i] = E[i] \cup {m}
        BY <1>7, <2>6, Zenon
      <4> QED BY <4>1, <4>2
    <3>2. next'[i] = Linked(next[i], v[i].node, m)
      BY <1>2, <1>3, <2>0, <3>1 DEF Linked
    <3>3. span'[i] = Parted(span[i], v[i].node, m, v[0].rank - v[i].rank, w)
      BY <1>2, <1>3, <2>0, <2>1, <3>1 DEF Parted
    <3> QED BY <2>5, <3>1, <3>2, <3>3
  <2>7. CASE ~(i <= lv)
    <3>1. i > lv /\ M[i] = E[i] /\ i \in (lv + 1)..(level - 1)
      <4>1. i > lv /\ i \in (lv + 1)..(level - 1)
        BY <1>0, <2>0, <2>7
      <4>2. M[i] = E[i]
        BY <1>7, <2>7, Zenon
      <4> QED BY <4>1, <4>2
    <3>2. next'[i] = next[i]
      BY <1>2, <2>0, <3>1
    <3>3. span'[i] = Moved(span[i], v[i].node, 1)
      <4>1. span'[i] = SpansChanged(v, lv, 1)[i]
        BY <1>2, <1>3, <2>0, <3>1
      <4> QED BY <2>0, <3>1, <4>1 DEF SpansChanged, Moved
    <3> QED BY <2>5, <3>1, <3>2, <3>3
  <2> QED BY <2>6, <2>7
<1>10. \A i, j \in 0..(size - 1) : i <= j => M[j] \subseteq M[i]
  <2> SUFFICES ASSUME NEW i \in 0..(size - 1), NEW j \in 0..(size - 1), i <= j
               PROVE  M[j] \subseteq M[i]
    OBVIOUS
  <2>1. E[j] \subseteq E[i]
    BY <1>5
  <2>2. j <= lv => i <= lv
    BY <1>0
  <2> QED BY <1>7, <2>1, <2>2
<1>11. ASSUME NEW i \in Levels, i >= size
       PROVE  next'[i] = next[i] /\ span'[i] = span[i]
  <2>1. i > lv /\ i \notin (lv + 1)..(level - 1)
    BY <1>0, <1>11 DEF Levels
  <2> QED BY <1>2, <2>1 DEF SpansChanged
<1>12. ASSUME NEW i \in Levels
       PROVE  next'[i] \in [Nodes -> Nodes \cup {None}] /\ span'[i] \in [Nodes -> Int]
  <2>1. CASE i >= size
    BY <1>0, <1>11, <2>1
  <2>2. CASE ~(i >= size)
    <3>1. i \in 0..(size - 1)
      BY <1>0, <2>2 DEF Levels
    <3> QED BY <1>9, <3>1 DEF LevelOK, ChainOf
  <2> QED BY <2>1, <2>2
<1>13. next' \in [Levels -> [Nodes -> Nodes \cup {None}]] /\ span' \in [Levels -> [Nodes -> Int]]
  <2>1. next' = [i \in Levels |-> next'[i]] /\ span' = [i \in Levels |-> span'[i]]
    BY <1>2
  <2> QED BY <1>12, <2>1
<1>14. \A i \in (size + 1)..TopLevel : next'[i] = Bare
  <2> SUFFICES ASSUME NEW i \in (size + 1)..TopLevel PROVE next'[i] = Bare
    OBVIOUS
  <2>1. i \in Levels /\ i >= size /\ i \in (level + 1)..TopLevel
    BY <1>0 DEF Levels
  <2>2. next[i] = Bare
    BY <2>1 DEF SkipOK
  <2> QED BY <1>11, <2>1, <2>2
<1>15. next'[size][ListHead] # None \/ next'[size] = Bare
  <2>1. next'[size] = next[size]
    <3>1. size \in Levels /\ size >= size
      BY <1>0 DEF Levels
    <3> QED BY <1>11, <3>1
  <2>2. CASE size = level
    BY <2>1, <2>2 DEF SkipOK
  <2>3. CASE size # level
    <3>1. size \in (level + 1)..TopLevel
      BY <1>0, <2>3
    <3> QED BY <2>1, <3>1 DEF SkipOK
  <2> QED BY <2>2, <2>3
<1>16. /\ K \cup {m} \subseteq Members /\ IsFiniteSet(K \cup {m})
       /\ length' = Cardinality(K \cup {m}) /\ size \in 1..TopLevel
  <2>1. IsFiniteSet(K \cup {m}) /\ Cardinality(K \cup {m}) = Cardinality(K) + 1
    BY <1>0, <1>1, FS_AddElement
  <2> QED BY <1>0, <1>2, <2>1
<1> HIDE DEF K
<1>17. SkipOK(next', span', size, length', K \cup {m}, M)
  <2>1. \A i \in 0..(size - 1) : LevelOK(next'[i], span'[i], M[i], K \cup {m})
    BY <1>9
  <2> QED BY <1>6, <1>8, <1>10, <1>13, <1>14, <1>15, <1>16, <2>1, Zenon DEF SkipOK
<1>18. SkipOK(next', span', level', length', members', M)
  BY <1>2, <1>17
<1> QED BY <1>18

-----------------------------------------------------------------------------
(* Delete.                                                                      *)

(* m_level_ after Delete: the highest level with a node, or, as there is none, wrapped. *)
LEMMA LoweredIs ==
  ASSUME level \in 1..TopLevel, NEW f, NEW k, k = Lowered(f)
  PROVE  /\ k \in 0..TopLevel
         /\ \/ /\ k <= level /\ f[k][ListHead] # None
               /\ \A i \in (k + 1)..level : f[i][ListHead] = None
            \/ \A i \in 0..level : f[i][ListHead] = None
<1> DEFINE bare(n) == \A i \in (level - n + 1)..level : f[i][ListHead] = None
           empty == {n \in 0..(level + 1) : bare(n)}
           n == CHOOSE x \in empty : \A y \in empty : y <= x
<1>0. level \in Nat /\ TopLevel \in Nat /\ 1 <= level /\ level <= TopLevel
  BY SkipConstants
<1>1. 0 \in empty
  <2>1. 0 \in 0..(level + 1)
    BY <1>0
  <2>2. bare(0)
    BY <1>0
  <2> QED BY <2>1, <2>2
<1>2. \E x \in empty : \A y \in empty : y <= x
  <2>1. empty # {} /\ level + 1 \in Nat
    <3> HIDE DEF empty
    <3> QED BY <1>0, <1>1
  <2>2. empty \in SUBSET (0..(level + 1))
    <3> HIDE DEF bare
    <3> QED OBVIOUS
  <2> HIDE DEF empty
  <2> QED BY <2>1, <2>2, GreatestOf
<1>3. n \in empty /\ \A y \in empty : y <= n
  <2> HIDE DEF empty
  <2> QED BY <1>2
<1>4. k = (level - n) % (TopLevel + 1)
  BY DEF Lowered
<1>5. PICK x \in empty : x = n /\ \A y \in empty : y <= x
  BY <1>3
<1> HIDE DEF n
<1>6. /\ x \in 0..(level + 1) /\ k = (level - x) % (TopLevel + 1)
      /\ \A i \in (level - x + 1)..level : f[i][ListHead] = None
  BY <1>4, <1>5
<1>7. CASE x <= level
  <2>1. k = level - x /\ k \in 0..TopLevel /\ k <= level /\ level - x + 1 = k + 1
    BY <1>0, <1>6, <1>7
  <2>2. f[k][ListHead] # None
    <3>1. ASSUME f[k][ListHead] = None PROVE FALSE
      <4>1. x + 1 \in 0..(level + 1) /\ level - (x + 1) + 1 = k
        BY <1>0, <1>6, <1>7, <2>1
      <4>2. \A i \in k..level : i = k \/ i \in (k + 1)..level
        BY <1>0, <2>1
      <4>3. \A i \in (level - (x + 1) + 1)..level : f[i][ListHead] = None
        BY <1>6, <2>1, <3>1, <4>1, <4>2
      <4>4. x + 1 \in empty
        BY <4>1, <4>3
      <4> HIDE DEF empty
      <4> QED BY <1>5, <1>6, <4>4
    <3> QED BY <3>1
  <2> QED BY <1>6, <2>1, <2>2
<1>8. CASE ~(x <= level)
  <2>1. x = level + 1 /\ level - x = -1 /\ level - x + 1 = 0
    BY <1>0, <1>6, <1>8
  <2>2. k \in 0..TopLevel
    BY <1>0, <1>6, <2>1
  <2> QED BY <1>6, <2>1, <2>2
<1> QED BY <1>7, <1>8

Unlinked(f, p, m) == [f EXCEPT ![p] = f[m], ![m] = None]
Joined(s, p, m)   == [s EXCEPT ![p] = @ + s[m] - 1, ![m] = 0]

(* One level after Delete. *)
LEMMA DeletedLevel ==
  ASSUME NEW L, NEW K, K \subseteq Members, IsFiniteSet(K), NEW m \in K,
         NEW f, NEW s, LevelOK(f, s, L, K), NEW p, Before(f, L, m, p)
  PROVE  IF m \in L THEN LevelOK(Unlinked(f, p, m), Joined(s, p, m), L \ {m}, K \ {m})
                    ELSE LevelOK(f, Moved(s, p, -1), L \ {m}, K \ {m})
<1>1. CASE m \in L
  BY <1>1, LevelDeleted DEF Unlinked, Joined
<1>2. CASE m \notin L
  <2>1. L \ {m} = L
    BY <1>2
  <2>2. LevelOK(f, [s EXCEPT ![p] = @ + (-1)], L, K \ {m})
    BY <1>2, LevelUnlinked
  <2> QED BY <1>2, <2>1, <2>2 DEF Moved
<1> QED BY <1>1, <1>2

LEMMA ListDeleted ==
  ASSUME NEW L, SkipOK(next, span, level, length, members, L), NEW m \in Members,
         DeleteNode(m), accident' = "none"
  PROVE  \E M : SkipOK(next', span', level', length', members', M)
<1> DEFINE K == members
           J == members \ {m}
           u == UpdateVec(m, level)
           on(i) == i < level /\ next[i][u[i].node] = m
           top == CHOOSE i \in -1..(level - 1) : \A j \in Levels : on(j) <=> j <= i
<1>0. /\ level \in Nat /\ level >= 1 /\ level <= TopLevel /\ TopLevel \in Nat
      /\ K \subseteq Members /\ IsFiniteSet(K) /\ length = Cardinality(K)
      /\ next \in [Levels -> [Nodes -> Nodes \cup {None}]]
      /\ span \in [Levels -> [Nodes -> Int]]
      /\ 0 \in 0..(level - 1) /\ L[0] = K /\ \A i \in 0..(level - 1) : L[i] \subseteq K
      /\ \A i \in 0..(level - 1) : LevelOK(next[i], span[i], L[i], K)
  <2>1. level \in Nat /\ level >= 1 /\ level <= TopLevel /\ TopLevel \in Nat
    BY SkipConstants DEF SkipOK
  <2>2. 0 \in 0..(level - 1)
    BY <2>1
  <2> QED BY <2>1, <2>2 DEF SkipOK
<1>1. m \in K
  BY DEF DeleteNode
<1>2. /\ next' = [i \in Levels |-> IF i > top THEN next[i] ELSE Unlinked(next[i], u[i].node, m)]
      /\ span' = [i \in Levels |-> IF i > top THEN SpansChanged(u, top, -1)[i]
                                              ELSE Joined(span[i], u[i].node, m)]
      /\ level' = Lowered(next') /\ length' = length - 1 /\ members' = J /\ level' # 0
  BY DEF DeleteNode, Unlinked, Joined
<1>3. PICK v : v = u
  OBVIOUS
<1>4. \A i \in 0..(level - 1) : Before(next[i], L[i], m, v[i].node)
  BY <1>3, LevelsOfList, UpdateFinds
<1>5. \A i \in Levels : on(i) <=> i \in 0..(level - 1) /\ m \in L[i]
  <2> SUFFICES ASSUME NEW i \in Levels PROVE on(i) <=> i \in 0..(level - 1) /\ m \in L[i]
    OBVIOUS
  <2>1. i < level <=> i \in 0..(level - 1)
    BY <1>0 DEF Levels
  <2>2. i \in 0..(level - 1) => (next[i][v[i].node] = m <=> m \in L[i])
    BY <1>4 DEF Before
  <2> QED BY <1>3, <2>1, <2>2
<1> HIDE DEF on, u
<1>6. PICK t \in 0..(level - 1) : t = top /\ \A j \in Levels : on(j) <=> j <= t
  <2>1. PICK x \in 0..(level - 1) : m \in L[x] /\ \A j \in 0..(level - 1) : m \in L[j] => j <= x
    <3> DEFINE T == {i \in 0..(level - 1) : m \in L[i]}
    <3>1. level - 1 \in Nat /\ T \in SUBSET (0..(level - 1)) /\ T # {}
      BY <1>0, <1>1
    <3>2. \E i \in T : \A j \in T : j <= i
      <4> HIDE DEF T
      <4> QED BY <3>1, GreatestOf
    <3> QED BY <3>2
  <2>2. ASSUME NEW j \in Levels PROVE on(j) <=> j <= x
    <3>1. ASSUME j <= x PROVE on(j)
      <4>1. j \in 0..(level - 1)
        BY <1>0, <3>1 DEF Levels
      <4>2. L[x] \subseteq L[j]
        BY <3>1, <4>1 DEF SkipOK
      <4> QED BY <1>5, <2>1, <4>1, <4>2
    <3>2. ASSUME on(j) PROVE j <= x
      BY <1>5, <2>1, <3>2
    <3> QED BY <3>1, <3>2
  <2>3. \E i \in -1..(level - 1) : \A j \in Levels : on(j) <=> j <= i
    <3>1. x \in -1..(level - 1)
      BY <1>0
    <3> QED BY <2>2, <3>1
  <2>4. top \in -1..(level - 1) /\ \A j \in Levels : on(j) <=> j <= top
    BY <2>3, Zenon
  <2>5. 0 <= top
    <3>1. 0 \in Levels
      BY <1>0 DEF Levels
    <3> QED BY <1>0, <1>1, <1>5, <2>4, <3>1
  <2> HIDE DEF top
  <2>6. top \in 0..(level - 1)
    BY <1>0, <2>4, <2>5
  <2> QED BY <2>4, <2>6
<1> HIDE DEF top
<1>7. \A i \in Levels :
          /\ next'[i] = IF i > t THEN next[i] ELSE Unlinked(next[i], v[i].node, m)
          /\ span'[i] = IF i > t THEN SpansChanged(v, t, -1)[i] ELSE Joined(span[i], v[i].node, m)
  BY <1>2, <1>3, <1>6
<1>8. ASSUME NEW i \in 0..(level - 1)
      PROVE  LevelOK(next'[i], span'[i], L[i] \ {m}, J)
  <2>0. i \in Levels /\ i \in Nat
    BY <1>0 DEF Levels
  <2>1. LevelOK(next[i], span[i], L[i], K) /\ Before(next[i], L[i], m, v[i].node)
    BY <1>0, <1>4
  <2>2. IF m \in L[i] THEN LevelOK(Unlinked(next[i], v[i].node, m), Joined(span[i], v[i].node, m),
                                   L[i] \ {m}, J)
                      ELSE LevelOK(next[i], Moved(span[i], v[i].node, -1), L[i] \ {m}, J)
    BY <1>0, <1>1, <2>1, DeletedLevel
  <2>3. m \in L[i] <=> i <= t
    BY <1>5, <1>6, <2>0
  <2>4. CASE i <= t
    <3>1. ~(i > t)
      BY <1>0, <2>0, <2>4
    <3> QED BY <1>7, <2>0, <2>2, <2>3, <2>4, <3>1
  <2>5. CASE ~(i <= t)
    <3>1. i > t /\ i \in (t + 1)..(level - 1)
      BY <1>0, <2>0, <2>5
    <3>2. SpansChanged(v, t, -1)[i] = Moved(span[i], v[i].node, -1)
      BY <2>0, <3>1 DEF SpansChanged, Moved
    <3> QED BY <1>7, <2>0, <2>2, <2>3, <2>5, <3>1, <3>2
  <2> QED BY <2>4, <2>5
<1>9. ASSUME NEW i \in Levels, i >= level
      PROVE  next'[i] = next[i] /\ span'[i] = span[i]
  <2>1. i > t /\ i \notin (t + 1)..(level - 1)
    BY <1>0, <1>9 DEF Levels
  <2> QED BY <1>7, <2>1 DEF SpansChanged
<1>10. ASSUME NEW i \in Levels
       PROVE  next'[i] \in [Nodes -> Nodes \cup {None}] /\ span'[i] \in [Nodes -> Int]
  <2>1. CASE i >= level
    BY <1>0, <1>9, <2>1
  <2>2. CASE ~(i >= level)
    <3>1. i \in 0..(level - 1)
      BY <1>0, <2>2 DEF Levels
    <3> QED BY <1>8, <3>1 DEF LevelOK, ChainOf
  <2> QED BY <2>1, <2>2
<1>11. next' \in [Levels -> [Nodes -> Nodes \cup {None}]] /\ span' \in [Levels -> [Nodes -> Int]]
  <2>1. next' = [i \in Levels |-> next'[i]] /\ span' = [i \in Levels |-> span'[i]]
    BY <1>2
  <2> QED BY <1>10, <2>1
<1>12. \A i \in Levels : i > level => next'[i] = Bare
  <2> SUFFICES ASSUME NEW i \in Levels, i > level PROVE next'[i] = Bare
    OBVIOUS
  <2>1. i >= level /\ i \in (level + 1)..TopLevel
    BY <1>0 DEF Levels
  <2>2. next[i] = Bare
    BY <2>1 DEF SkipOK
  <2> QED BY <1>9, <2>1, <2>2
<1>13. ASSUME NEW i \in Levels, i <= level, next'[i][ListHead] = None
       PROVE  next'[i] = Bare /\ (i < level => L[i] \ {m} = {})
  <2>1. CASE i < level
    <3>1. i \in 0..(level - 1)
      BY <1>0, <2>1 DEF Levels
    <3>2. ChainOf(next'[i], L[i] \ {m}) /\ L[i] \ {m} \subseteq Members
      BY <1>0, <1>8, <3>1 DEF LevelOK
    <3> QED BY <1>13, <3>2, EmptyLevel
  <2>2. CASE ~(i < level)
    <3>1. i = level /\ i >= level
      BY <1>0, <1>13, <2>2 DEF Levels
    <3>2. next'[i] = next[level]
      BY <1>9, <3>1
    <3>3. next[level] = Bare
      BY <1>13, <3>2 DEF SkipOK
    <3> QED BY <2>2, <3>2, <3>3
  <2> QED BY <2>1, <2>2
<1>14. PICK k \in 1..TopLevel : /\ k = level'
                                /\ \/ /\ k <= level /\ next'[k][ListHead] # None
                                      /\ \A i \in (k + 1)..level : next'[i][ListHead] = None
                                   \/ \A i \in 0..level : next'[i][ListHead] = None
  <2>1. PICK g : g = next'
    OBVIOUS
  <2>2. PICK k : k = Lowered(g) /\ k = level'
    BY <1>2, <2>1
  <2>3. level \in 1..TopLevel
    BY <1>0
  <2>4. /\ k \in 0..TopLevel
        /\ \/ /\ k <= level /\ g[k][ListHead] # None
              /\ \A i \in (k + 1)..level : g[i][ListHead] = None
           \/ \A i \in 0..level : g[i][ListHead] = None
    BY <2>2, <2>3, LoweredIs
  <2>5. k \in 1..TopLevel
    BY <1>0, <1>2, <2>2, <2>4
  <2> QED BY <2>1, <2>2, <2>4, <2>5
<1>15. k \in Levels /\ k \in Nat /\ 1 <= k /\ k <= TopLevel /\ \A i \in 0..(k - 1) : i \in Levels /\ i \in Nat /\ i < k
  BY <1>0 DEF Levels
<1> DEFINE M == [i \in 0..(k - 1) |-> IF i < level THEN L[i] \ {m} ELSE {}]
<1>16. /\ M \in [0..(k - 1) -> SUBSET J] /\ M[0] = J
       /\ \A i \in 0..(k - 1) : M[i] = IF i < level THEN L[i] \ {m} ELSE {}
  <2>1. \A i \in 0..(k - 1) : i < level => L[i] \subseteq K
    <3> SUFFICES ASSUME NEW i \in 0..(k - 1), i < level PROVE L[i] \subseteq K
      OBVIOUS
    <3>1. i \in 0..(level - 1)
      BY <1>0, <1>15
    <3> QED BY <1>0, <3>1
  <2>2. 0 \in 0..(k - 1) /\ 0 < level
    BY <1>0, <1>15
  <2> QED BY <1>0, <2>1, <2>2
<1> HIDE DEF M
<1>17. ASSUME NEW i \in 0..(k - 1)
       PROVE  LevelOK(next'[i], span'[i], M[i], J)
  <2>1. CASE i < level
    <3>1. i \in 0..(level - 1)
      BY <1>0, <1>15, <2>1
    <3>2. M[i] = L[i] \ {m}
      BY <1>16, <2>1
    <3> QED BY <1>8, <3>1, <3>2
  <2>2. CASE ~(i < level)
    <3>1. M[i] = {} /\ i \in Levels
      BY <1>15, <1>16, <2>2
    <3>2. next'[i] = Bare
      <4>1. CASE i > level
        BY <1>12, <3>1, <4>1
      <4>2. CASE ~(i > level)
        <5>1. i = level /\ ~(k <= level) /\ i \in 0..level /\ i <= level
          BY <1>0, <1>15, <2>2, <4>2
        <5>2. next'[i][ListHead] = None
          BY <1>14, <5>1
        <5> QED BY <1>13, <3>1, <5>1, <5>2
      <4> QED BY <4>1, <4>2
    <3>3. span'[i] \in [Nodes -> Int]
      BY <1>10, <3>1
    <3> QED BY <3>1, <3>2, <3>3, BareLevel
  <2> QED BY <2>1, <2>2
<1>18. \A i, j \in 0..(k - 1) : i <= j => M[j] \subseteq M[i]
  <2> SUFFICES ASSUME NEW i \in 0..(k - 1), NEW j \in 0..(k - 1), i <= j
               PROVE  M[j] \subseteq M[i]
    OBVIOUS
  <2>1. CASE j < level
    <3>1. i \in 0..(level - 1) /\ j \in 0..(level - 1) /\ i < level
      BY <1>0, <1>15, <2>1
    <3>2. L[j] \subseteq L[i]
      BY <3>1 DEF SkipOK
    <3>3. M[j] = L[j] \ {m} /\ M[i] = L[i] \ {m}
      BY <1>16, <2>1, <3>1
    <3> QED BY <3>2, <3>3
  <2>2. CASE ~(j < level)
    <3>1. M[j] = {}
      BY <1>16, <2>2
    <3> QED BY <3>1
  <2> QED BY <2>1, <2>2
<1>19. /\ \A i \in (k + 1)..TopLevel : next'[i] = Bare
       /\ next'[k][ListHead] # None \/ next'[k] = Bare
  <2>1. ASSUME NEW i \in Levels, i >= k, next'[i] # Bare
        PROVE  i = k /\ next'[k][ListHead] # None
    <3>1. i <= level /\ i \in 0..level
      <4>1. ~(i > level)
        BY <1>12, <2>1
      <4> QED BY <1>0, <4>1 DEF Levels
    <3>2. next'[i][ListHead] # None
      BY <1>13, <2>1, <3>1
    <3>3. ~(i \in (k + 1)..level)
      BY <1>14, <3>1, <3>2
    <3>4. i = k
      BY <1>0, <1>15, <2>1, <3>1, <3>3
    <3> QED BY <3>2, <3>4
  <2>2. ASSUME NEW i \in (k + 1)..TopLevel PROVE next'[i] = Bare
    <3>1. i \in Levels /\ i >= k /\ i # k
      BY <1>0, <1>15 DEF Levels
    <3> QED BY <2>1, <3>1
  <2>3. k >= k
    BY <1>15
  <2> QED BY <1>15, <2>1, <2>2, <2>3
<1>20. J \subseteq Members /\ IsFiniteSet(J) /\ length' = Cardinality(J)
  <2>1. IsFiniteSet(K \ {m}) /\ Cardinality(K \ {m}) = Cardinality(K) - 1
    BY <1>0, <1>1, FS_RemoveElement
  <2> QED BY <1>0, <1>2, <2>1
<1>21. SkipOK(next', span', k, length', J, M)
  <2>1. \A i \in 0..(k - 1) : LevelOK(next'[i], span'[i], M[i], J)
    BY <1>17
  <2>2. k \in 1..TopLevel
    BY <1>14
  <2> HIDE DEF J
  <2> QED BY <1>11, <1>16, <1>18, <1>19, <1>20, <2>1, <2>2, Zenon DEF SkipOK
<1>22. SkipOK(next', span', level', length', members', M)
  BY <1>2, <1>14, <1>21
<1> QED BY <1>22

-----------------------------------------------------------------------------
(* SkipList::Find returns every node that is in the list with its rank, and no other, and
   m_length_ counts them, whatever was inserted and deleted, until a Delete that left
   something behind has taken the last level or left links that an Insert reads. *)
THEOREM SkipListRanks == Spec => []RanksExact
<1>1. Init => SkipInv
  BY ListMade DEF Init
<1>2. SkipInv /\ [Next]_vars => SkipInv'
  <2> SUFFICES ASSUME SkipInv, [Next]_vars PROVE SkipInv'
    OBVIOUS
  <2>1. CASE UNCHANGED skipVars
    BY <2>1 DEF SkipInv, skipVars
  <2>2. CASE SkipNext
    <3> SUFFICES ASSUME accident' = "none"
                 PROVE  \E M : SkipOK(next', span', level', length', members', M)
      BY DEF SkipInv
    <3>1. PICK L : SkipOK(next, span, level, length, members, L)
      BY <2>2 DEF SkipInv, SkipNext
    <3>2. PICK m \in Members : DeleteNode(m) \/ \E lv \in 0..(TopLevel - 1) : InsertNode(m, lv)
      BY <2>2 DEF SkipNext
    <3>3. CASE DeleteNode(m)
      BY <3>1, <3>3, ListDeleted
    <3>4. CASE \E lv \in 0..(TopLevel - 1) : InsertNode(m, lv)
      BY <3>1, <3>4, ListInserted
    <3> QED BY <3>2, <3>3, <3>4
  <2> QED BY <2>1, <2>2 DEF Next, vars
<1>3. SkipInv => RanksExact
  BY ListRanks
<1> QED BY <1>1, <1>2, <1>3, PTL DEF Spec

=============================================================================
