-------------------------- MODULE HashTableProofs --------------------------
(***************************************************************************)
(* Proofs about module HashTable, as the specification of Containers runs  *)
(* it: for any keys and sizes, the two tables of a rehash together are the *)
(* set of the keys inserted and not deleted, and an iterator meets each of *)
(* its entries once.                                                       *)
(***************************************************************************)
EXTENDS Containers, FiniteSetTheorems, FunctionTheorems, SequenceTheorems, WellFoundedInduction, TLAPS

-----------------------------------------------------------------------------
(* Naturals.                                                                    *)

LEMMA LeastOf ==
  ASSUME NEW T \in SUBSET Nat, T # {}
  PROVE  Min(T) \in T /\ \A x \in T : Min(T) <= x
<1> DEFINE R == OpToRel(<, Nat)
<1>1. IsWellFoundedOn(R, Nat)
  BY NatLessThanWellFounded, Zenon
<1>2. \A x, y \in Nat : x < y => <<x, y>> \in R
  BY Zenon DEF OpToRel
<1> HIDE DEF R
<1>3. PICK m \in T : \A x \in T : ~(<<x, m>> \in R)
  BY <1>1, WFMin
<1>4. \A x \in T : ~(x < m)
  BY <1>2, <1>3
<1>5. \A x \in T : m <= x
  BY <1>4
<1> QED BY <1>5 DEF Min

(* Induction, with a set in place of a predicate. *)
LEMMA Induct ==
  ASSUME NEW P, 0 \in P, \A n \in Nat : n \in P => n + 1 \in P
  PROVE  \A n \in Nat : n \in P
<1> DEFINE T == Nat \ P
<1>1. SUFFICES ASSUME T # {} PROVE FALSE
  OBVIOUS
<1>2. Min(T) \in T /\ \A x \in T : Min(T) <= x
  BY <1>1, LeastOf
<1>3. PICK m \in Nat : m \notin P /\ \A x \in Nat : x \notin P => m <= x
  BY <1>2
<1>4. m # 0 /\ m - 1 \in Nat
  BY <1>3
<1>5. m - 1 \in P
  BY <1>3, <1>4
<1> QED BY <1>3, <1>4, <1>5

(* There are 2^k sets of k numbers, and k of them have one number. *)
LEMMA PowerIsMore ==
  ASSUME NEW k \in Nat
  PROVE  2^k \in Nat /\ k <= 2^k
<1> DEFINE T == 1..k
           f == [i \in T |-> {i}]
<1>1. IsFiniteSet(T) /\ Cardinality(T) = k
  <2>1. 1 \in Int /\ k \in Int
    OBVIOUS
  <2>2. IsFiniteSet(T) /\ Cardinality(T) = IF 1 > k THEN 0 ELSE k - 1 + 1
    BY <2>1, FS_Interval
  <2> HIDE DEF T
  <2> QED BY <2>2
<1> HIDE DEF T
<1>2. IsFiniteSet(SUBSET T) /\ Cardinality(SUBSET T) = 2^k
  BY <1>1, FS_SUBSET
<1>3. f \in Injection(T, SUBSET T)
  <2>1. f \in [T -> SUBSET T]
    OBVIOUS
  <2>2. ASSUME NEW i \in T, NEW j \in T, f[i] = f[j] PROVE i = j
    <3>1. {i} = {j}
      BY <2>2
    <3> QED BY <3>1
  <2> QED BY <2>1, <2>2 DEF Injection, IsInjective
<1>4. Cardinality(T) <= Cardinality(SUBSET T)
  BY <1>2, <1>3, FS_Injection
<1>5. Cardinality(SUBSET T) \in Nat
  BY <1>2, FS_CardinalityType
<1> QED BY <1>1, <1>2, <1>4, <1>5

-----------------------------------------------------------------------------
(* The chains of one table of p buckets, with the keys in K.                    *)

ChainsHold(c, p, K) ==
    /\ c \in [0..(p - 1) -> Seq(Nat)]
    /\ \A b \in 0..(p - 1) : \A m \in DOMAIN c[b] : c[b][m] \in K /\ c[b][m] % p = b
    /\ \A b \in 0..(p - 1) : \A m, n \in DOMAIN c[b] : c[b][m] = c[b][n] => m = n
    /\ \A k \in K : k \in Nat /\ \E m \in DOMAIN c[k % p] : c[k % p][m] = k

LEMMA SlotInside ==
  ASSUME NEW k \in Nat, NEW p \in Nat \ {0}
  PROVE  k % p \in 0..(p - 1)
OBVIOUS

LEMMA ChainsBlank ==
  ASSUME NEW p \in Nat \ {0}
  PROVE  ChainsHold([b \in 0..(p - 1) |-> <<>>], p, {})
BY DEF ChainsHold

LEMMA ChainsFind ==
  ASSUME NEW c, NEW p \in Nat \ {0}, NEW K, ChainsHold(c, p, K), NEW k \in Nat
  PROVE  Contains(c[k % p], k) <=> k \in K
<1>1. k % p \in 0..(p - 1) /\ c[k % p] \in Seq(Nat)
  BY SlotInside DEF ChainsHold
<1>2. DOMAIN c[k % p] = 1..Len(c[k % p])
  BY <1>1
<1>3. Contains(c[k % p], k) <=> \E m \in DOMAIN c[k % p] : c[k % p][m] = k
  BY <1>2, Zenon DEF Contains
<1>4. \A m \in DOMAIN c[k % p] : c[k % p][m] \in K
  BY <1>1 DEF ChainsHold
<1>5. k \in K => \E m \in DOMAIN c[k % p] : c[k % p][m] = k
  BY DEF ChainsHold
<1> QED BY <1>3, <1>4, <1>5

(* InsertToBucket, and the step of ReHash. *)
LEMMA ChainsAdd ==
  ASSUME NEW c, NEW p \in Nat \ {0}, NEW K, ChainsHold(c, p, K), NEW k \in Nat, k \notin K
  PROVE  ChainsHold([c EXCEPT ![k % p] = <<k>> \o @], p, K \cup {k})
<1> DEFINE a == k % p
           new == <<k>> \o c[a]
           d == [c EXCEPT ![a] = new]
<1>1. a \in 0..(p - 1) /\ c[a] \in Seq(Nat)
  BY SlotInside DEF ChainsHold
<1>2. /\ new \in Seq(Nat) /\ DOMAIN new = 1..(Len(c[a]) + 1) /\ new[1] = k
      /\ \A m \in 1..Len(c[a]) : new[m + 1] = c[a][m]
      /\ DOMAIN c[a] = 1..Len(c[a]) /\ Len(c[a]) \in Nat
  BY <1>1
<1>3. \A m \in DOMAIN new : m = 1 \/ (m - 1 \in DOMAIN c[a] /\ new[m] = c[a][m - 1] /\ m \in Nat)
  <2> SUFFICES ASSUME NEW m \in DOMAIN new, m # 1
               PROVE  m - 1 \in DOMAIN c[a] /\ new[m] = c[a][m - 1] /\ m \in Nat
    OBVIOUS
  <2>1. m \in Nat /\ m - 1 \in 1..Len(c[a]) /\ m = (m - 1) + 1
    BY <1>2
  <2> QED BY <1>2, <2>1
<1> HIDE DEF a, new
<1>4. d \in [0..(p - 1) -> Seq(Nat)] /\ d[a] = new /\ \A b \in 0..(p - 1) : b # a => d[b] = c[b]
  BY <1>1, <1>2 DEF ChainsHold
<1> HIDE DEF d
<1>5. ASSUME NEW b \in 0..(p - 1), NEW m \in DOMAIN d[b]
      PROVE  d[b][m] \in K \cup {k} /\ d[b][m] % p = b
  <2>1. CASE b # a
    BY <1>4, <2>1 DEF ChainsHold
  <2>2. CASE b = a
    <3>1. CASE m = 1
      BY <1>2, <1>4, <2>2, <3>1 DEF a
    <3>2. CASE m # 1
      BY <1>1, <1>3, <1>4, <2>2, <3>2 DEF ChainsHold
    <3> QED BY <3>1, <3>2
  <2> QED BY <2>1, <2>2
<1>6. ASSUME NEW b \in 0..(p - 1), NEW m \in DOMAIN d[b], NEW n \in DOMAIN d[b], d[b][m] = d[b][n]
      PROVE  m = n
  <2>1. CASE b # a
    BY <1>4, <1>6, <2>1 DEF ChainsHold
  <2>2. CASE b = a
    <3>1. \A i \in DOMAIN c[a] : c[a][i] # k
      BY <1>1 DEF ChainsHold
    <3>2. m \in DOMAIN new /\ n \in DOMAIN new /\ new[m] = new[n]
      BY <1>4, <1>6, <2>2
    <3>3. m = 1 <=> n = 1
      BY <1>2, <1>3, <3>1, <3>2
    <3>4. CASE m # 1
      <4>1. m - 1 \in DOMAIN c[a] /\ n - 1 \in DOMAIN c[a] /\ c[a][m - 1] = c[a][n - 1]
        BY <1>3, <3>2, <3>3, <3>4
      <4>2. m - 1 = n - 1
        BY <1>1, <4>1 DEF ChainsHold
      <4> QED BY <1>3, <3>2, <3>3, <3>4, <4>2
    <3> QED BY <3>3, <3>4
  <2> QED BY <2>1, <2>2
<1>7. ASSUME NEW x \in K \cup {k}
      PROVE  x \in Nat /\ \E m \in DOMAIN d[x % p] : d[x % p][m] = x
  <2>1. CASE x = k
    <3>1. 1 \in DOMAIN new
      BY <1>2
    <3> QED BY <1>2, <1>4, <2>1, <3>1 DEF a
  <2>2. CASE x \in K
    <3>1. x \in Nat /\ x % p \in 0..(p - 1)
      BY <2>2, SlotInside DEF ChainsHold
    <3>2. PICK m \in DOMAIN c[x % p] : c[x % p][m] = x
      BY <2>2 DEF ChainsHold
    <3>3. CASE x % p # a
      BY <1>4, <3>1, <3>2, <3>3
    <3>4. CASE x % p = a
      <4>0. PICK l \in Nat : l = Len(c[a])
        BY <1>2
      <4>1. m \in DOMAIN c[a] /\ c[a][m] = x
        BY <3>2, <3>4, Zenon
      <4>2. DOMAIN c[a] = 1..l /\ DOMAIN new = 1..(l + 1) /\ \A i \in 1..l : new[i + 1] = c[a][i]
        BY <1>2, <4>0
      <4>3. m \in 1..l
        BY <4>1, <4>2, Zenon
      <4>4. m + 1 \in 1..(l + 1)
        BY <4>3
      <4>5. m + 1 \in DOMAIN new /\ new[m + 1] = x
        BY <4>1, <4>2, <4>3, <4>4
      <4> QED BY <1>4, <3>1, <3>4, <4>5
    <3> QED BY <3>3, <3>4
  <2> QED BY <2>1, <2>2
<1>8. ChainsHold(d, p, K \cup {k})
  BY <1>4, <1>5, <1>6, <1>7 DEF ChainsHold
<1> QED BY <1>8 DEF d, a, new

(* What is left of a sequence without one of its elements. *)
LEMMA RemoveAtIs ==
  ASSUME NEW S, NEW s \in Seq(S), NEW n \in 1..Len(s)
  PROVE  /\ RemoveAt(s, n) \in Seq(S) /\ DOMAIN RemoveAt(s, n) = 1..(Len(s) - 1)
         /\ \A i \in 1..(Len(s) - 1) : RemoveAt(s, n)[i] = s[IF i < n THEN i ELSE i + 1]
<1> DEFINE a == SubSeq(s, 1, n - 1)
           b == SubSeq(s, n + 1, Len(s))
<1>1. n \in Nat /\ Len(s) \in Nat /\ 1 <= n /\ n <= Len(s)
  OBVIOUS
<1>2. /\ a \in Seq(S) /\ Len(a) = n - 1
      /\ \A i \in 1..(n - 1) : a[i] = s[i]
  <2>1. 1 \in Int /\ n - 1 \in Int /\ \A i \in 1..(n - 1) : s[i] \in S
    BY <1>1
  <2>2. /\ a \in Seq(S) /\ Len(a) = IF 1 <= n - 1 THEN (n - 1) - 1 + 1 ELSE 0
        /\ \A i \in 1..((n - 1) - 1 + 1) : a[i] = s[1 + i - 1]
    BY <2>1, SubSeqProperties
  <2>3. (n - 1) - 1 + 1 = n - 1 /\ (~(1 <= n - 1) => n - 1 = 0) /\ \A i \in 1..(n - 1) : 1 + i - 1 = i
    BY <1>1
  <2> HIDE DEF a
  <2> QED BY <2>2, <2>3
<1>3. /\ b \in Seq(S) /\ Len(b) = Len(s) - n
      /\ \A i \in 1..(Len(s) - n) : b[i] = s[n + i]
  <2>1. n + 1 \in Int /\ Len(s) \in Int /\ \A i \in (n + 1)..Len(s) : s[i] \in S
    BY <1>1
  <2>2. /\ b \in Seq(S) /\ Len(b) = IF n + 1 <= Len(s) THEN Len(s) - (n + 1) + 1 ELSE 0
        /\ \A i \in 1..(Len(s) - (n + 1) + 1) : b[i] = s[(n + 1) + i - 1]
    BY <2>1, SubSeqProperties
  <2>3. /\ Len(s) - (n + 1) + 1 = Len(s) - n /\ (~(n + 1 <= Len(s)) => Len(s) - n = 0)
        /\ \A i \in 1..(Len(s) - n) : (n + 1) + i - 1 = n + i
    BY <1>1
  <2> HIDE DEF b
  <2> QED BY <2>2, <2>3
<1> HIDE DEF a, b
<1>4. /\ a \o b \in Seq(S) /\ Len(a \o b) = Len(a) + Len(b)
      /\ \A i \in 1..(Len(a) + Len(b)) : (a \o b)[i] = IF i <= Len(a) THEN a[i] ELSE b[i - Len(a)]
  BY <1>2, <1>3, ConcatProperties
<1>5. Len(a) + Len(b) = Len(s) - 1
  BY <1>1, <1>2, <1>3
<1>6. ASSUME NEW i \in 1..(Len(s) - 1) PROVE (a \o b)[i] = s[IF i < n THEN i ELSE i + 1]
  <2>1. CASE i < n
    <3>1. i <= Len(a) /\ i \in 1..(n - 1)
      BY <1>1, <1>2, <2>1
    <3> QED BY <1>2, <1>4, <1>5, <2>1, <3>1
  <2>2. CASE ~(i < n)
    <3>1. ~(i <= Len(a)) /\ i - Len(a) = i - n + 1 /\ i - n + 1 \in 1..(Len(s) - n)
      BY <1>1, <1>2, <2>2
    <3>2. n + (i - n + 1) = i + 1
      BY <1>1
    <3> QED BY <1>3, <1>4, <1>5, <2>2, <3>1, <3>2
  <2> QED BY <2>1, <2>2
<1>7. DOMAIN (a \o b) = 1..(Len(s) - 1)
  BY <1>4, <1>5
<1> QED BY <1>4, <1>6, <1>7 DEF RemoveAt, a, b

(* Delete takes an entry from its chain. *)
LEMMA ChainsRemove ==
  ASSUME NEW c, NEW p \in Nat \ {0}, NEW K, ChainsHold(c, p, K),
         NEW a \in 0..(p - 1), NEW n \in DOMAIN c[a]
  PROVE  ChainsHold([c EXCEPT ![a] = RemoveAt(@, n)], p, K \ {c[a][n]})
<1> DEFINE new == RemoveAt(c[a], n)
           k == c[a][n]
           d == [c EXCEPT ![a] = new]
           at(i) == IF i < n THEN i ELSE i + 1
<1>1. c[a] \in Seq(Nat) /\ n \in 1..Len(c[a]) /\ DOMAIN c[a] = 1..Len(c[a]) /\ Len(c[a]) \in Nat /\ n \in Nat
  BY DEF ChainsHold
<1>2. /\ new \in Seq(Nat) /\ DOMAIN new = 1..(Len(c[a]) - 1)
      /\ \A i \in 1..(Len(c[a]) - 1) : new[i] = c[a][at(i)]
  BY <1>1, RemoveAtIs
<1>3. \A i \in DOMAIN new : i \in Nat /\ at(i) \in DOMAIN c[a] /\ at(i) # n /\ new[i] = c[a][at(i)]
  <2>1. \A i \in 1..(Len(c[a]) - 1) : i \in Nat /\ at(i) \in 1..Len(c[a]) /\ at(i) # n
    BY <1>1
  <2> HIDE DEF at, new
  <2> QED BY <1>1, <1>2, <2>1
<1>4. \A i \in DOMAIN c[a] : i # n => \E j \in DOMAIN new : at(j) = i
  <2> SUFFICES ASSUME NEW i \in DOMAIN c[a], i # n PROVE \E j \in DOMAIN new : at(j) = i
    OBVIOUS
  <2>1. CASE i < n
    <3>1. i \in DOMAIN new /\ at(i) = i
      BY <1>1, <1>2, <2>1
    <3> QED BY <3>1
  <2>2. CASE ~(i < n)
    <3>1. i - 1 \in DOMAIN new /\ at(i - 1) = i
      BY <1>1, <1>2, <2>2
    <3> QED BY <3>1
  <2> QED BY <2>1, <2>2
<1>5. \A i, j \in DOMAIN new : at(i) = at(j) => i = j
  BY <1>1, <1>3
<1> HIDE DEF new, at
<1>6. d \in [0..(p - 1) -> Seq(Nat)] /\ d[a] = new /\ \A b \in 0..(p - 1) : b # a => d[b] = c[b]
  BY <1>1, <1>2 DEF ChainsHold
<1> HIDE DEF d
<1>7. k % p = a /\ \A i \in DOMAIN c[a] : c[a][i] = k => i = n
  BY DEF ChainsHold
<1>8. ASSUME NEW b \in 0..(p - 1), NEW m \in DOMAIN d[b]
      PROVE  d[b][m] \in K \ {k} /\ d[b][m] % p = b
  <2>1. CASE b # a
    <3>1. d[b][m] \in K /\ d[b][m] % p = b
      BY <1>6, <2>1 DEF ChainsHold
    <3> HIDE DEF k
    <3> QED BY <1>7, <2>1, <3>1
  <2>2. CASE b = a
    <3>1. at(m) \in DOMAIN c[a] /\ at(m) # n /\ d[b][m] = c[a][at(m)]
      BY <1>3, <1>6, <2>2
    <3>2. c[a][at(m)] \in K /\ c[a][at(m)] % p = a
      BY <3>1 DEF ChainsHold
    <3> QED BY <1>7, <2>2, <3>1, <3>2
  <2> QED BY <2>1, <2>2
<1>9. ASSUME NEW b \in 0..(p - 1), NEW m \in DOMAIN d[b], NEW i \in DOMAIN d[b], d[b][m] = d[b][i]
      PROVE  m = i
  <2>1. CASE b # a
    BY <1>6, <1>9, <2>1 DEF ChainsHold
  <2>2. CASE b = a
    <3>1. m \in DOMAIN new /\ i \in DOMAIN new /\ new[m] = new[i]
      BY <1>6, <1>9, <2>2
    <3>2. at(m) \in DOMAIN c[a] /\ at(i) \in DOMAIN c[a] /\ c[a][at(m)] = c[a][at(i)]
      BY <1>3, <3>1
    <3>3. at(m) = at(i)
      BY <3>2 DEF ChainsHold
    <3> QED BY <1>5, <3>1, <3>3
  <2> QED BY <2>1, <2>2
<1>10. ASSUME NEW x \in K \ {k}
       PROVE  x \in Nat /\ \E m \in DOMAIN d[x % p] : d[x % p][m] = x
  <2>1. x \in Nat /\ x % p \in 0..(p - 1)
    BY SlotInside DEF ChainsHold
  <2>2. PICK m \in DOMAIN c[x % p] : c[x % p][m] = x
    BY DEF ChainsHold
  <2>3. CASE x % p # a
    BY <1>6, <2>1, <2>2, <2>3
  <2>4. CASE x % p = a
    <3>1. m \in DOMAIN c[a] /\ m # n
      BY <2>2, <2>4
    <3>2. PICK j \in DOMAIN new : at(j) = m
      BY <1>4, <3>1
    <3> QED BY <1>3, <1>6, <2>1, <2>2, <2>4, <3>2
  <2> QED BY <2>3, <2>4
<1>11. ChainsHold(d, p, K \ {k})
  BY <1>6, <1>8, <1>9, <1>10 DEF ChainsHold
<1> QED BY <1>11 DEF d, k, new

(* ReHash empties a chain. *)
LEMMA ChainsCleared ==
  ASSUME NEW c, NEW p \in Nat \ {0}, NEW K, ChainsHold(c, p, K), NEW a \in 0..(p - 1)
  PROVE  ChainsHold([c EXCEPT ![a] = <<>>], p, K \ ToSet(c[a]))
<1> DEFINE d == [c EXCEPT ![a] = <<>>]
<1>1. d \in [0..(p - 1) -> Seq(Nat)] /\ d[a] = <<>> /\ \A b \in 0..(p - 1) : b # a => d[b] = c[b]
  BY DEF ChainsHold
<1>2. \A x \in ToSet(c[a]) : x % p = a
  <2>1. \A m \in DOMAIN c[a] : c[a][m] % p = a
    BY DEF ChainsHold
  <2> QED BY <2>1 DEF ToSet
<1> HIDE DEF d
<1>3. DOMAIN d[a] = {}
  BY <1>1
<1>4. ASSUME NEW b \in 0..(p - 1), NEW m \in DOMAIN d[b]
      PROVE  d[b][m] \in K \ ToSet(c[a]) /\ d[b][m] % p = b
  <2>1. b # a /\ d[b] = c[b]
    BY <1>1, <1>3
  <2>2. d[b][m] \in K /\ d[b][m] % p = b
    BY <2>1 DEF ChainsHold
  <2> QED BY <1>2, <2>1, <2>2
<1>5. ASSUME NEW b \in 0..(p - 1), NEW m \in DOMAIN d[b], NEW i \in DOMAIN d[b], d[b][m] = d[b][i]
      PROVE  m = i
  <2>1. b # a /\ d[b] = c[b]
    BY <1>1, <1>3
  <2> QED BY <1>5, <2>1 DEF ChainsHold
<1>6. ASSUME NEW x \in K \ ToSet(c[a])
      PROVE  x \in Nat /\ \E m \in DOMAIN d[x % p] : d[x % p][m] = x
  <2>1. x \in Nat /\ x % p \in 0..(p - 1)
    BY SlotInside DEF ChainsHold
  <2>2. PICK m \in DOMAIN c[x % p] : c[x % p][m] = x
    BY DEF ChainsHold
  <2>3. x % p # a
    BY <2>2 DEF ToSet
  <2> QED BY <1>1, <2>1, <2>2, <2>3
<1>7. ChainsHold(d, p, K \ ToSet(c[a]))
  BY <1>1, <1>4, <1>5, <1>6 DEF ChainsHold
<1> QED BY <1>7 DEF d

-----------------------------------------------------------------------------
(* Counting.                                                                    *)

(* Functions one to one have as many values as arguments. *)
LEMMA SameNumber ==
  ASSUME NEW S, NEW T, NEW f, IsFiniteSet(T), f \in [S -> T],
         \A x, y \in S : f[x] = f[y] => x = y, \A z \in T : \E x \in S : f[x] = z
  PROVE  IsFiniteSet(S) /\ Cardinality(S) = Cardinality(T)
<1>1. f \in Bijection(S, T)
  BY Fun_IsBij
<1>2. ExistsBijection(S, T)
  BY <1>1 DEF ExistsBijection
<1>3. ExistsBijection(T, S)
  BY <1>2, Fun_ExistsBijSymmetric
<1> QED BY <1>3, FS_Bijection

(* The entries of a chain are as many as it is long. *)
LEMMA ChainLength ==
  ASSUME NEW s \in Seq(Nat), \A m, n \in DOMAIN s : s[m] = s[n] => m = n
  PROVE  /\ IsFiniteSet(ToSet(s)) /\ Cardinality(ToSet(s)) = Len(s)
         /\ ToSet(s) \subseteq Nat
<1>1. s \in [1..Len(s) -> Nat] /\ DOMAIN s = 1..Len(s) /\ Len(s) \in Nat
  OBVIOUS
<1>2. IsFiniteSet(1..Len(s)) /\ Cardinality(1..Len(s)) = Len(s)
  <2>1. 1 \in Int /\ Len(s) \in Int /\ IF 1 > Len(s) THEN Len(s) = 0 ELSE Len(s) = Len(s) - 1 + 1
    BY <1>1
  <2>2. IsFiniteSet(1..Len(s)) /\ Cardinality(1..Len(s)) = IF 1 > Len(s) THEN 0 ELSE Len(s) - 1 + 1
    BY <2>1, FS_Interval
  <2> QED BY <2>1, <2>2
<1>3. s \in [1..Len(s) -> ToSet(s)] /\ \A z \in ToSet(s) : \E x \in 1..Len(s) : s[x] = z
  BY <1>1 DEF ToSet
<1>4. s \in Bijection(1..Len(s), ToSet(s))
  BY <1>1, <1>3, Fun_IsBij
<1>5. ExistsBijection(1..Len(s), ToSet(s))
  BY <1>4 DEF ExistsBijection
<1> QED BY <1>1, <1>2, <1>5, FS_Bijection DEF ToSet

(* The entries of a table are as many as its keys. *)
LEMMA EntriesCounted ==
  ASSUME NEW t, NEW i, NEW K, IsFiniteSet(K), 2^(t.size[i]) \in Nat \ {0},
         ChainsHold(t.chains[i], 2^(t.size[i]), K)
  PROVE  IsFiniteSet(Entries(t, i)) /\ Cardinality(Entries(t, i)) = Cardinality(K)
<1>0. PICK c : c = t.chains[i]
  OBVIOUS
<1>1. PICK p \in Nat \ {0} : c = t.chains[i] /\ p = 2^(t.size[i])
  BY <1>0
<1>2. ChainsHold(c, p, K)
  BY <1>1
<1> DEFINE E == Entries(t, i)
           f == [e \in E |-> c[e.bucket][e.nth]]
<1>3. \A e \in E : e.bucket \in 0..(p - 1) /\ e.nth \in DOMAIN c[e.bucket] /\ e = Position(i, e.bucket, e.nth)
  BY <1>1 DEF Entries, Buckets, Position
<1>4. \A b \in 0..(p - 1) : \A n \in DOMAIN c[b] :
          Position(i, b, n) \in E /\ Position(i, b, n).bucket = b /\ Position(i, b, n).nth = n
  BY <1>1 DEF Entries, Buckets, Position
<1> HIDE DEF E
<1>5. f \in [E -> K] /\ \A e \in E : f[e] = c[e.bucket][e.nth]
  BY <1>2, <1>3 DEF ChainsHold
<1> HIDE DEF f
<1>6. ASSUME NEW x \in E, NEW y \in E, f[x] = f[y] PROVE x = y
  <2>1. c[x.bucket][x.nth] % p = x.bucket /\ c[y.bucket][y.nth] % p = y.bucket
    BY <1>2, <1>3 DEF ChainsHold
  <2>2. x.bucket = y.bucket
    BY <1>5, <1>6, <2>1
  <2>3. PICK b \in 0..(p - 1) : b = x.bucket /\ b = y.bucket
    BY <1>3, <2>2
  <2>4. x.nth \in DOMAIN c[b] /\ y.nth \in DOMAIN c[b]
    BY <1>3, <2>3
  <2>5. c[b][x.nth] = c[b][y.nth]
    BY <1>5, <1>6, <2>3
  <2>6. \A m, n \in DOMAIN c[b] : c[b][m] = c[b][n] => m = n
    BY <1>2 DEF ChainsHold
  <2>7. x.nth = y.nth
    BY <2>4, <2>5, <2>6
  <2> QED BY <1>3, <2>2, <2>7
<1>7. ASSUME NEW z \in K PROVE \E e \in E : f[e] = z
  <2>1. z \in Nat /\ z % p \in 0..(p - 1)
    BY <1>2, SlotInside DEF ChainsHold
  <2>2. PICK m \in DOMAIN c[z % p] : c[z % p][m] = z
    BY <1>2 DEF ChainsHold
  <2> QED BY <1>4, <1>5, <2>1, <2>2
<1>8. IsFiniteSet(E) /\ Cardinality(E) = Cardinality(K)
  BY <1>5, <1>6, <1>7, SameNumber
<1> QED BY <1>8 DEF E

-----------------------------------------------------------------------------
(* The loop of ReHash.                                                          *)

(* What the loop has made of the second table after each of its turns. *)
IsLoop(f, t, s, c, L) ==
    f = [n \in 0..L |-> IF n = 0 THEN c
                        ELSE [f[n - 1] EXCEPT ![Target(t, s[n])] = <<s[n]>> \o @]]

LEMMA LoopRuns ==
  ASSUME NEW t, NEW s, NEW c
  PROVE  \A L \in Nat : \E f : IsLoop(f, t, s, c, L)
<1> DEFINE P == {L \in Nat : \E f : IsLoop(f, t, s, c, L)}
           turn(v, n) == [v EXCEPT ![Target(t, s[n])] = <<s[n]>> \o @]
<1>1. 0 \in P
  <2> DEFINE g == [n \in 0..0 |-> c]
  <2>1. g = [n \in 0..0 |-> IF n = 0 THEN c ELSE turn(g[n - 1], n)]
    <3> HIDE DEF turn
    <3> QED OBVIOUS
  <2>2. IsLoop(g, t, s, c, 0)
    BY <2>1 DEF IsLoop
  <2> QED BY <2>2
<1>2. ASSUME NEW L \in Nat, L \in P PROVE L + 1 \in P
  <2>1. PICK f : IsLoop(f, t, s, c, L)
    BY <1>2
  <2>2. f = [n \in 0..L |-> IF n = 0 THEN c ELSE turn(f[n - 1], n)]
    BY <2>1 DEF IsLoop
  <2> HIDE DEF turn
  <2> DEFINE g == [n \in 0..(L + 1) |-> IF n <= L THEN f[n] ELSE turn(f[L], L + 1)]
  <2>3. g = [n \in 0..(L + 1) |-> IF n = 0 THEN c ELSE turn(g[n - 1], n)]
    <3>1. \A n \in 0..(L + 1) : g[n] = IF n = 0 THEN c ELSE turn(g[n - 1], n)
      <4> SUFFICES ASSUME NEW n \in 0..(L + 1)
                   PROVE  g[n] = IF n = 0 THEN c ELSE turn(g[n - 1], n)
        OBVIOUS
      <4>1. CASE n = 0
        <5>1. g[0] = f[0]
          OBVIOUS
        <5>2. f[0] = c
          BY <2>2
        <5> QED BY <4>1, <5>1, <5>2
      <4>2. CASE n \in 1..L
        <5>1. n \in 0..L /\ n # 0 /\ n - 1 \in 0..L /\ n <= L /\ n - 1 <= L /\ n - 1 \in 0..(L + 1)
          BY <4>2
        <5>2. g[n] = f[n] /\ g[n - 1] = f[n - 1]
          BY <5>1
        <5>3. f[n] = turn(f[n - 1], n)
          BY <2>2, <5>1
        <5> QED BY <5>1, <5>2, <5>3
      <4>3. CASE n = L + 1
        <5>1. L \in 0..(L + 1) /\ L <= L /\ L + 1 \in 0..(L + 1) /\ ~(L + 1 <= L) /\ L + 1 - 1 = L /\ n # 0
          BY <4>3
        <5>2. g[L] = f[L] /\ g[L + 1] = turn(f[L], L + 1)
          BY <5>1
        <5> QED BY <4>3, <5>1, <5>2
      <4> QED BY <4>1, <4>2, <4>3
    <3> QED BY <3>1
  <2>4. IsLoop(g, t, s, c, L + 1)
    BY <2>3 DEF IsLoop, turn
  <2> QED BY <2>4
<1> HIDE DEF P
<1>3. \A L \in Nat : L \in P
  BY <1>1, <1>2, Induct
<1> QED BY <1>3 DEF P

(* All the entries of the chain are in the second table in the end. *)
LEMMA LoopMoves ==
  ASSUME NEW t, NEW s \in Seq(Nat), \A m, n \in DOMAIN s : s[m] = s[n] => m = n,
         NEW c, NEW p \in Nat \ {0}, NEW K, ChainsHold(c, p, K),
         \A m \in DOMAIN s : s[m] \notin K /\ Target(t, s[m]) = s[m] % p,
         NEW f, IsLoop(f, t, s, c, Len(s))
  PROVE  ChainsHold(f[Len(s)], p, K \cup ToSet(s))
<1> DEFINE done(n) == K \cup {s[m] : m \in 1..n}
           P == {n \in Nat : n <= Len(s) => ChainsHold(f[n], p, done(n))}
<1>1. Len(s) \in Nat /\ DOMAIN s = 1..Len(s)
  OBVIOUS
<1>2. 0 \in P
  <2>1. f[0] = c /\ done(0) = K
    BY <1>1 DEF IsLoop
  <2> QED BY <2>1
<1>3. ASSUME NEW n \in Nat, n \in P PROVE n + 1 \in P
  <2>1. SUFFICES ASSUME n + 1 <= Len(s) PROVE ChainsHold(f[n + 1], p, done(n + 1))
    OBVIOUS
  <2>2. ChainsHold(f[n], p, done(n))
    BY <1>1, <1>3, <2>1
  <2>3. n + 1 \in 0..Len(s) /\ n + 1 # 0 /\ n + 1 - 1 = n /\ n + 1 \in DOMAIN s
    BY <1>1, <2>1
  <2>4. PICK k \in Nat : k = s[n + 1] /\ Target(t, s[n + 1]) = k % p /\ k \notin K
    <3>1. s[n + 1] \in Nat /\ Target(t, s[n + 1]) = s[n + 1] % p /\ s[n + 1] \notin K
      BY <2>3
    <3> QED BY <3>1
  <2>5. f[n + 1] = [f[n] EXCEPT ![k % p] = <<k>> \o @]
    <3>1. f[n + 1] = [f[n + 1 - 1] EXCEPT ![Target(t, s[n + 1])] = <<s[n + 1]>> \o @]
      <4> DEFINE turn(v, i) == [v EXCEPT ![Target(t, s[i])] = <<s[i]>> \o @]
      <4>1. f = [i \in 0..Len(s) |-> IF i = 0 THEN c ELSE turn(f[i - 1], i)]
        BY DEF IsLoop
      <4> HIDE DEF turn
      <4>2. f[n + 1] = turn(f[n + 1 - 1], n + 1)
        BY <2>3, <4>1
      <4> QED BY <4>2 DEF turn
    <3> QED BY <2>3, <2>4, <3>1, Zenon
  <2>6. k \notin done(n)
    <3>1. \A m \in 1..n : m \in DOMAIN s /\ m # n + 1
      BY <1>1, <2>1
    <3> QED BY <2>3, <2>4, <3>1
  <2>7. done(n + 1) = done(n) \cup {k}
    <3>1. 1..(n + 1) = (1..n) \cup {n + 1}
      OBVIOUS
    <3> QED BY <2>4, <3>1
  <2> HIDE DEF done
  <2>8. ChainsHold([f[n] EXCEPT ![k % p] = <<k>> \o @], p, done(n) \cup {k})
    BY <2>2, <2>6, ChainsAdd
  <2> QED BY <2>5, <2>7, <2>8
<1>4. ASSUME \A n \in Nat : n \in P PROVE ChainsHold(f[Len(s)], p, K \cup ToSet(s))
  <2>1. done(Len(s)) = K \cup ToSet(s)
    BY <1>1 DEF ToSet
  <2>2. Len(s) \in P
    BY <1>1, <1>4
  <2>3. ChainsHold(f[Len(s)], p, done(Len(s)))
    BY <1>1, <2>2
  <2> QED BY <2>1, <2>3
<1> HIDE DEF P
<1> QED BY <1>2, <1>3, <1>4, Induct

-----------------------------------------------------------------------------
(* What a HashTable is between its operations.                                  *)

Pair(a, b) == [i \in 0..1 |-> IF i = 0 THEN a ELSE b]

TableOf(s0, s1, u0, u1, c0, c1, x) ==
    [size |-> Pair(s0, s1), used |-> Pair(u0, u1), chains |-> Pair(c0, c1), idx |-> x]

Unsized == TableOf(0, 0, 0, 0, NoTable, NoTable, -1)

Resting(t, s, c, K) ==
    /\ s \in Nat \ {0} /\ ChainsHold(c, 2^s, K)
    /\ t = TableOf(s, 0, Cardinality(K), 0, c, NoTable, -1)

(* In a rehash each key is in one of the tables, and the buckets before idx are empty. *)
Moving(t, s0, s1, c0, c1, x, K0, K1) ==
    /\ s0 \in Nat \ {0} /\ s1 \in Nat \ {0} /\ s0 < s1 /\ x \in 0..(2^s0 - 1)
    /\ ChainsHold(c0, 2^s0, K0) /\ ChainsHold(c1, 2^s1, K1) /\ K0 \cap K1 = {}
    /\ \A b \in 0..(x - 1) : c0[b] = <<>>
    /\ t = TableOf(s0, s1, Cardinality(K0), Cardinality(K1), c0, c1, x)

Sized(t, K) ==
    \/ \E s, c : Resting(t, s, c, K)
    \/ \E s0, s1, c0, c1, x, K0, K1 :
          K = K0 \cup K1 /\ Moving(t, s0, s1, c0, c1, x, K0, K1)

IsTable(t, K) == IsFiniteSet(K) /\ ((K = {} /\ t = Unsized) \/ Sized(t, K))

LEMMA PairChanged ==
  ASSUME NEW a, NEW b, NEW v
  PROVE  /\ Pair(a, b)[0] = a /\ Pair(a, b)[1] = b
         /\ [Pair(a, b) EXCEPT ![0] = v] = Pair(v, b)
         /\ [Pair(a, b) EXCEPT ![1] = v] = Pair(a, v)
<1>1. 0..1 = {0, 1} /\ 0 # 1
  OBVIOUS
<1>2. Pair(a, b)[0] = a /\ Pair(a, b)[1] = b
  BY <1>1 DEF Pair
<1>3. [Pair(a, b) EXCEPT ![0] = v] = Pair(v, b)
  BY <1>1 DEF Pair
<1>4. [Pair(a, b) EXCEPT ![1] = v] = Pair(a, v)
  BY <1>1 DEF Pair
<1> QED BY <1>2, <1>3, <1>4

LEMMA TableFields ==
  ASSUME NEW s0, NEW s1, NEW u0, NEW u1, NEW c0, NEW c1, NEW x, NEW t,
         t = TableOf(s0, s1, u0, u1, c0, c1, x)
  PROVE  /\ t.size[0] = s0 /\ t.size[1] = s1 /\ t.used[0] = u0 /\ t.used[1] = u1
         /\ t.chains[0] = c0 /\ t.chains[1] = c1 /\ t.idx = x
BY PairChanged DEF TableOf

LEMMA Finites ==
  ASSUME NEW K0, NEW K1, IsFiniteSet(K0 \cup K1), K0 \cap K1 = {}
  PROVE  /\ IsFiniteSet(K0) /\ IsFiniteSet(K1)
         /\ Cardinality(K0) \in Nat /\ Cardinality(K1) \in Nat
         /\ Cardinality(K0 \cup K1) = Cardinality(K0) + Cardinality(K1)
<1>1. K0 \in SUBSET (K0 \cup K1) /\ K1 \in SUBSET (K0 \cup K1)
  OBVIOUS
<1>2. IsFiniteSet(K0) /\ IsFiniteSet(K1)
  BY <1>1, FS_Subset
<1>3. Cardinality(K0) \in Nat /\ Cardinality(K1) \in Nat
  BY <1>2, FS_CardinalityType
<1>4. Cardinality(K0 \cup K1) = Cardinality(K0) + Cardinality(K1) - Cardinality(K0 \cap K1)
  BY <1>2, FS_Union
<1>5. Cardinality(K0 \cap K1) = 0
  BY FS_EmptySet
<1> QED BY <1>2, <1>3, <1>4, <1>5

LEMMA Powers ==
  ASSUME NEW s \in Nat \ {0}
  PROVE  2^s \in Nat \ {0}
BY PowerIsMore

(* What the step of ReHash is to leave, d in place of the second table. *)
BucketMoved(t, s0, s1, c0, x, K0, K1, d) ==
    /\ ChainsHold(d, 2^s1, K1 \cup ToSet(c0[x]))
    /\ MoveBucket(t) = TableOf(s0, s1, Cardinality(K0 \ ToSet(c0[x])),
                               Cardinality(K1 \cup ToSet(c0[x])),
                               [c0 EXCEPT ![x] = <<>>], d, x)

LEMMA MoveBucketIs ==
  ASSUME NEW t, NEW s0, NEW s1, NEW c0, NEW c1, NEW x, NEW K0, NEW K1,
         Moving(t, s0, s1, c0, c1, x, K0, K1), IsFiniteSet(K0 \cup K1)
  PROVE  \E d : BucketMoved(t, s0, s1, c0, x, K0, K1, d)
<1>1. /\ s0 \in Nat \ {0} /\ s1 \in Nat \ {0} /\ s0 < s1 /\ x \in 0..(2^s0 - 1)
      /\ ChainsHold(c0, 2^s0, K0) /\ ChainsHold(c1, 2^s1, K1) /\ K0 \cap K1 = {}
      /\ t = TableOf(s0, s1, Cardinality(K0), Cardinality(K1), c0, c1, x)
  BY DEF Moving
<1>2. /\ t.size[0] = s0 /\ t.size[1] = s1 /\ t.chains[0] = c0 /\ t.chains[1] = c1 /\ t.idx = x
  BY <1>1, TableFields
<1>3. PICK s : s = c0[x]
  OBVIOUS
<1>4. /\ s \in Seq(Nat) /\ \A m \in DOMAIN s : s[m] \in K0
      /\ \A m, n \in DOMAIN s : s[m] = s[n] => m = n
  BY <1>1, <1>3 DEF ChainsHold
<1>5. /\ IsFiniteSet(ToSet(s)) /\ Cardinality(ToSet(s)) = Len(s) /\ Len(s) \in Nat
      /\ ToSet(s) \subseteq K0
  <2>1. ToSet(s) \subseteq K0
    BY <1>4 DEF ToSet
  <2> QED BY <1>4, <2>1, ChainLength
<1> DEFINE moved == t.chains[0][t.idx]
           after[n \in 0..Len(moved)] ==
               IF n = 0 THEN t.chains[1]
               ELSE [after[n - 1] EXCEPT ![Target(t, moved[n])] = <<moved[n]>> \o @]
<1>6. MoveBucket(t) = [t EXCEPT !.chains = Pair([t.chains[0] EXCEPT ![t.idx] = <<>>], after[Len(moved)]),
                                !.used = Pair(t.used[0] - Len(moved), t.used[1] + Len(moved))]
  BY DEF MoveBucket, Pair
<1>7. moved = s /\ IsLoop(after, t, s, c1, Len(s))
  <2>1. moved = s /\ t.chains[1] = c1
    BY <1>2, <1>3
  <2>2. \E f : IsLoop(f, t, moved, t.chains[1], Len(moved))
    BY <1>5, <2>1, LoopRuns
  <2>3. IsLoop(after, t, moved, t.chains[1], Len(moved))
    BY <2>2, Zenon DEF IsLoop
  <2> HIDE DEF moved, after
  <2> QED BY <2>1, <2>3
<1> HIDE DEF moved, after
<1>8. ChainsHold(after[Len(s)], 2^s1, K1 \cup ToSet(s))
  <2>1. 2^s1 \in Nat \ {0}
    BY <1>1, Powers
  <2>2. \A m \in DOMAIN s : s[m] \notin K1 /\ Target(t, s[m]) = s[m] % 2^s1
    BY <1>1, <1>2, <1>4 DEF Target, Slot
  <2> QED BY <1>1, <1>4, <1>7, <2>1, <2>2, LoopMoves
<1>9. PICK n, u0, u1, d : n = Len(s) /\ u0 = Cardinality(K0) /\ u1 = Cardinality(K1) /\ d = after[Len(s)]
  OBVIOUS
<1>10. MoveBucket(t) = TableOf(s0, s1, u0 - n, u1 + n, [c0 EXCEPT ![x] = <<>>], d, x)
  <2>1. t = TableOf(s0, s1, u0, u1, c0, c1, x)
    BY <1>1, <1>9
  <2>2. t.used[0] = u0 /\ t.used[1] = u1
    BY <2>1, TableFields
  <2>3. MoveBucket(t) = [t EXCEPT !.chains = Pair([c0 EXCEPT ![x] = <<>>], d), !.used = Pair(u0 - n, u1 + n)]
    BY <1>2, <1>6, <1>7, <1>9, <2>2
  <2> QED BY <2>1, <2>3 DEF TableOf
<1>11. Cardinality(K0 \ ToSet(s)) = u0 - n /\ Cardinality(K1 \cup ToSet(s)) = u1 + n
  <2>1. IsFiniteSet(K0) /\ IsFiniteSet(K1)
    BY <1>1, Finites
  <2>2. Cardinality(K0 \ ToSet(s)) = Cardinality(K0) - Cardinality(K0 \cap ToSet(s))
    BY <2>1, FS_Difference
  <2>3. Cardinality(K1 \cup ToSet(s)) = Cardinality(K1) + Cardinality(ToSet(s))
    <3>1. IsFiniteSet(K1 \cup ToSet(s)) /\ K1 \cap ToSet(s) = {}
      BY <1>1, <1>5, <2>1, FS_Union
    <3> QED BY <3>1, Finites
  <2>4. K0 \cap ToSet(s) = ToSet(s)
    BY <1>5
  <2> QED BY <1>5, <1>9, <2>2, <2>3, <2>4
<1> QED BY <1>3, <1>8, <1>9, <1>10, <1>11 DEF BucketMoved

LEMMA RestingIs ==
  ASSUME NEW t, NEW s, NEW c, NEW K, Resting(t, s, c, K)
  PROVE  Sized(t, K)
BY DEF Sized

LEMMA MovingIs ==
  ASSUME NEW t, NEW s0, NEW s1, NEW c0, NEW c1, NEW x, NEW K0, NEW K1,
         Moving(t, s0, s1, c0, c1, x, K0, K1)
  PROVE  Sized(t, K0 \cup K1)
BY Zenon DEF Sized

(* While the first table has an entry there is a bucket for the next step. *)
LEMMA ReHashKeeps ==
  ASSUME NEW t, NEW s0, NEW s1, NEW c0, NEW c1, NEW x, NEW K0, NEW K1,
         Moving(t, s0, s1, c0, c1, x, K0, K1), IsFiniteSet(K0 \cup K1)
  PROVE  Sized(ReHash(t), K0 \cup K1)
<1> DEFINE M == ToSet(c0[x])
           e0 == [c0 EXCEPT ![x] = <<>>]
<1>1. /\ s0 \in Nat \ {0} /\ s1 \in Nat \ {0} /\ s0 < s1 /\ x \in 0..(2^s0 - 1)
      /\ ChainsHold(c0, 2^s0, K0) /\ K0 \cap K1 = {}
      /\ \A b \in 0..(x - 1) : c0[b] = <<>>
  BY DEF Moving
<1>2. 2^s0 \in Nat \ {0} /\ 2^s1 \in Nat \ {0}
  BY <1>1, Powers
<1>3. M \subseteq K0
  BY <1>1 DEF ChainsHold, ToSet
<1>4. PICK d : /\ ChainsHold(d, 2^s1, K1 \cup M)
               /\ MoveBucket(t) = TableOf(s0, s1, Cardinality(K0 \ M), Cardinality(K1 \cup M), e0, d, x)
  <2>1. PICK d : BucketMoved(t, s0, s1, c0, x, K0, K1, d)
    BY MoveBucketIs
  <2> QED BY <2>1 DEF BucketMoved
<1>5. ChainsHold(e0, 2^s0, K0 \ M)
  BY <1>1, <1>2, ChainsCleared
<1>6. \A b \in 0..x : e0[b] = <<>>
  <2>1. DOMAIN c0 = 0..(2^s0 - 1)
    BY <1>1 DEF ChainsHold
  <2>2. \A b \in 0..x : b \in 0..(2^s0 - 1) /\ (b = x \/ b \in 0..(x - 1))
    BY <1>1, <1>2
  <2> QED BY <1>1, <2>1, <2>2
<1> HIDE DEF M, e0
<1>7. (K0 \ M) \cup (K1 \cup M) = K0 \cup K1 /\ (K0 \ M) \cap (K1 \cup M) = {}
  BY <1>1, <1>3
<1>8. PICK L0, L1 : L0 = K0 \ M /\ L1 = K1 \cup M
  OBVIOUS
<1>9. /\ IsFiniteSet(L0) /\ Cardinality(L0) \in Nat
  <2>1. IsFiniteSet(L0 \cup L1) /\ L0 \cap L1 = {}
    BY <1>7, <1>8
  <2> QED BY <2>1, Finites
<1>10. PICK v : v = MoveBucket(t) /\ v = TableOf(s0, s1, Cardinality(L0), Cardinality(L1), e0, d, x)
  BY <1>4, <1>8
<1>11. /\ v.used[0] = Cardinality(L0) /\ v.used[1] = Cardinality(L1) /\ v.size[1] = s1
       /\ v.chains[1] = d /\ v.idx = x
  BY <1>10, TableFields
<1>12. CASE Cardinality(L0) > 0
  <2>1. ReHash(t) = [v EXCEPT !.idx = @ + 1]
    BY <1>10, <1>11, <1>12, Zenon DEF ReHash
  <2>2. ReHash(t) = TableOf(s0, s1, Cardinality(L0), Cardinality(L1), e0, d, x + 1)
    BY <1>10, <1>11, <2>1 DEF TableOf
  <2>3. x + 1 \in 0..(2^s0 - 1)
    <3>1. L0 # {}
      BY <1>12, FS_EmptySet
    <3>2. PICK k \in Nat : k \in L0
      BY <1>5, <1>8, <3>1 DEF ChainsHold
    <3>3. PICK b : b = k % 2^s0
      OBVIOUS
    <3>4. b \in 0..(2^s0 - 1)
      BY <1>2, <3>3, SlotInside
    <3>5. \E m \in DOMAIN e0[b] : e0[b][m] = k
      BY <1>5, <1>8, <3>2, <3>3 DEF ChainsHold
    <3>6. DOMAIN <<>> = {}
      OBVIOUS
    <3>7. e0[b] # <<>>
      BY <3>5, <3>6
    <3>8. ~(b \in 0..x)
      BY <1>6, <3>7
    <3> QED BY <1>1, <1>2, <3>4, <3>8
  <2>4. \A b \in 0..((x + 1) - 1) : e0[b] = <<>>
    <3>1. (x + 1) - 1 = x
      BY <1>1, <1>2
    <3> QED BY <1>6, <3>1
  <2>5. Moving(ReHash(t), s0, s1, e0, d, x + 1, L0, L1)
    <3>1. ChainsHold(e0, 2^s0, L0) /\ ChainsHold(d, 2^s1, L1) /\ L0 \cap L1 = {}
      BY <1>4, <1>5, <1>7, <1>8
    <3> QED BY <1>1, <2>2, <2>3, <2>4, <3>1 DEF Moving
  <2> QED BY <1>7, <1>8, <2>5, MovingIs
<1>13. CASE ~(Cardinality(L0) > 0)
  <2>1. L0 = {}
    BY <1>9, <1>13, FS_EmptySet
  <2>2. L1 = K0 \cup K1
    BY <1>7, <1>8, <2>1
  <2>3. ReHash(t) = TableOf(s1, 0, Cardinality(L1), 0, d, NoTable, -1)
    BY <1>10, <1>11, <1>13 DEF ReHash, TableOf, Pair
  <2>4. Resting(ReHash(t), s1, d, L1)
    BY <1>1, <1>4, <1>8, <2>3 DEF Resting
  <2> QED BY <2>2, <2>4, RestingIs
<1> QED BY <1>12, <1>13

-----------------------------------------------------------------------------
(* Resizing.                                                                    *)

LEMMA ExpendSizeIs ==
  ASSUME NEW t, NEW s \in Nat \ {0}, NEW u \in Nat, t.size[0] = s, t.used[0] = u
  PROVE  ExpendSize(t) \in Nat \ {0} /\ ExpendSize(t) > s
<1> DEFINE T == {z \in (s + 1)..(s + 4 * u + 1) : 2^z > 4 * u}
<1>1. ExpendSize(t) = Min(T)
  BY DEF ExpendSize
<1>2. T \in SUBSET Nat /\ \A z \in T : z > s
  OBVIOUS
<1>3. s + 4 * u + 1 \in T
  <2>1. PICK z \in Nat : z = s + 4 * u + 1
    OBVIOUS
  <2>2. z <= 2^z /\ 2^z \in Nat
    BY PowerIsMore
  <2>3. z \in (s + 1)..(s + 4 * u + 1) /\ z > 4 * u
    BY <2>1
  <2>4. 2^z > 4 * u
    BY <2>2, <2>3
  <2> QED BY <2>1, <2>3, <2>4
<1> HIDE DEF T
<1>4. T # {} /\ T \in SUBSET Nat
  BY <1>2, <1>3
<1>5. Min(T) \in T
  BY <1>4, LeastOf
<1>6. Min(T) \in Nat /\ Min(T) > s
  BY <1>2, <1>5
<1>7. PICK z \in Nat : z = Min(T) /\ z > s
  BY <1>6
<1> QED BY <1>1, <1>7

LEMMA BlankIs ==
  ASSUME NEW s \in Nat \ {0}
  PROVE  ChainsHold(Blank(s), 2^s, {})
<1>1. 2^s \in Nat \ {0}
  BY Powers
<1>2. Blank(s) = [b \in 0..(2^s - 1) |-> <<>>]
  BY DEF Blank, Buckets
<1> QED BY <1>1, <1>2, ChainsBlank

LEMMA UnsizedGrows ==
  Sized(ExpendOrReduce(Unsized), {})
<1>1. PICK t : t = Unsized
  OBVIOUS
<1>2. t.size[0] = 0 /\ t.used[0] = 0
  BY <1>1, TableFields DEF Unsized
<1>3. PICK s \in Nat \ {0} : s = ExpendSize(t)
  BY <1>2, HashConstants DEF ExpendSize
<1>4. ExpendOrReduce(t) = [t EXCEPT !.chains[0] = Blank(s), !.size[0] = s]
  BY <1>2, <1>3 DEF ExpendOrReduce
<1>5. ExpendOrReduce(t) = TableOf(s, 0, 0, 0, Blank(s), NoTable, -1)
  <2>1. PICK c, n : c = Blank(s) /\ n = NoTable
    OBVIOUS
  <2>2. [Pair(n, n) EXCEPT ![0] = c] = Pair(c, n) /\ [Pair(0, 0) EXCEPT ![0] = s] = Pair(s, 0)
    BY PairChanged
  <2>3. t = TableOf(0, 0, 0, 0, n, n, -1)
    BY <1>1, <2>1 DEF Unsized
  <2> QED BY <1>4, <2>1, <2>2, <2>3 DEF TableOf
<1>6. Cardinality({}) = 0
  BY FS_EmptySet
<1>7. Resting(ExpendOrReduce(t), s, Blank(s), {})
  BY <1>5, <1>6, BlankIs DEF Resting
<1> QED BY <1>1, <1>7, RestingIs

LEMMA RestingGrows ==
  ASSUME NEW t, NEW s, NEW c, NEW K, Resting(t, s, c, K), IsFiniteSet(K)
  PROVE  Sized(ExpendOrReduce(t), K)
<1>1. PICK u \in Nat : u = Cardinality(K)
  BY FS_CardinalityType
<1>2. /\ s \in Nat \ {0} /\ ChainsHold(c, 2^s, K)
      /\ t = TableOf(s, 0, u, 0, c, NoTable, -1)
  BY <1>1 DEF Resting
<1>3. t.size[0] = s /\ t.used[0] = u
  BY <1>2, TableFields
<1>4. PICK z \in Nat \ {0} : z = ExpendSize(t) /\ z > s
  BY <1>2, <1>3, ExpendSizeIs
<1>5. ExpendOrReduce(t) = [t EXCEPT !.chains[1] = Blank(z), !.size[1] = z, !.idx = 0]
  BY <1>2, <1>3, <1>4 DEF ExpendOrReduce
<1>6. ExpendOrReduce(t) = TableOf(s, z, u, 0, c, Blank(z), 0)
  <2>1. PICK e, n : e = Blank(z) /\ n = NoTable
    OBVIOUS
  <2>2. [Pair(c, n) EXCEPT ![1] = e] = Pair(c, e) /\ [Pair(s, 0) EXCEPT ![1] = z] = Pair(s, z)
    BY PairChanged
  <2> QED BY <1>2, <1>5, <2>1, <2>2 DEF TableOf
<1>7. 0 \in 0..(2^s - 1) /\ \A b \in 0..(0 - 1) : c[b] = <<>>
  BY <1>2, Powers
<1>8. Moving(ExpendOrReduce(t), s, z, c, Blank(z), 0, K, {})
  BY <1>1, <1>2, <1>4, <1>6, <1>7, BlankIs, FS_EmptySet DEF Moving
<1>9. K \cup {} = K
  OBVIOUS
<1> QED BY <1>8, <1>9, MovingIs

(* A table is at rest or not. *)
LEMMA StateOf ==
  ASSUME NEW t
  PROVE  /\ t = Unsized => ~IsReHashing(t) /\ t.size[0] = 0 /\ t.used[0] = 0
         /\ \A s, c, K : Resting(t, s, c, K) => ~IsReHashing(t)
         /\ \A s0, s1, c0, c1, x, K0, K1 :
               Moving(t, s0, s1, c0, c1, x, K0, K1) => IsReHashing(t) /\ t.size[0] # 0
<1>1. t = Unsized => ~IsReHashing(t) /\ t.size[0] = 0 /\ t.used[0] = 0
  BY TableFields DEF Unsized, IsReHashing
<1>2. ASSUME NEW s, NEW c, NEW K, Resting(t, s, c, K) PROVE ~IsReHashing(t)
  BY <1>2, TableFields DEF Resting, IsReHashing
<1>3. ASSUME NEW s0, NEW s1, NEW c0, NEW c1, NEW x, NEW K0, NEW K1,
             Moving(t, s0, s1, c0, c1, x, K0, K1)
      PROVE  IsReHashing(t) /\ t.size[0] # 0
  <2>1. t.idx = x /\ t.size[0] = s0 /\ s0 # 0 /\ x \in 0..(2^s0 - 1)
    BY <1>3, TableFields DEF Moving
  <2>2. x # -1
    BY <2>1
  <2> QED BY <2>1, <2>2 DEF IsReHashing
<1> QED BY <1>1, <1>2, <1>3

(* m has been resized or not. *)
LEMMA Resized ==
  ASSUME NEW m, NEW K, IsTable(m, K), NEW v, v = m \/ v = ExpendOrReduce(m),
         m = Unsized => v = ExpendOrReduce(m), IsReHashing(m) => v = m
  PROVE  Sized(v, K)
<1>1. CASE m = Unsized /\ K = {}
  BY <1>1, UnsizedGrows
<1>2. ASSUME NEW s, NEW c, Resting(m, s, c, K) PROVE Sized(v, K)
  <2>1. Sized(m, K) /\ Sized(ExpendOrReduce(m), K)
    BY <1>2, RestingIs, RestingGrows DEF IsTable
  <2> QED BY <2>1
<1>3. ASSUME NEW s0, NEW s1, NEW c0, NEW c1, NEW x, NEW K0, NEW K1, K = K0 \cup K1,
             Moving(m, s0, s1, c0, c1, x, K0, K1)
      PROVE  Sized(v, K)
  <2>1. v = m
    BY <1>3, StateOf
  <2>2. Sized(m, K0 \cup K1)
    BY <1>3, MovingIs
  <2> QED BY <1>3, <2>1, <2>2
<1>4. (K = {} /\ m = Unsized) \/ Sized(m, K)
  BY DEF IsTable
<1> QED BY <1>1, <1>2, <1>3, <1>4, Zenon DEF Sized

LEMMA OneMovedKeeps ==
  ASSUME NEW t, NEW K, IsTable(t, K)
  PROVE  IsTable(OneMoved(t), K)
<1>1. CASE ~IsReHashing(t)
  BY <1>1 DEF OneMoved
<1>2. CASE IsReHashing(t)
  <2>1. Sized(t, K) /\ IsFiniteSet(K)
    BY <1>2, StateOf DEF IsTable
  <2>2. \A s, c : ~Resting(t, s, c, K)
    BY <1>2, StateOf
  <2>3. PICK s0, s1, c0, c1, x, K0, K1 : K = K0 \cup K1 /\ Moving(t, s0, s1, c0, c1, x, K0, K1)
    BY <2>1, <2>2, Zenon DEF Sized
  <2>4. Sized(ReHash(t), K)
    BY <2>1, <2>3, ReHashKeeps
  <2> QED BY <1>2, <2>1, <2>4 DEF OneMoved, IsTable
<1> QED BY <1>1, <1>2

LEMMA ToUseKeeps ==
  ASSUME NEW t, NEW K, IsTable(t, K)
  PROVE  Sized(ToLookUp(t), K) /\ Sized(ToDelete(t), K)
<1>1. PICK m : m = OneMoved(t)
  OBVIOUS
<1>2. IsTable(m, K)
  BY <1>1, OneMovedKeeps
<1>3. Sized(ToLookUp(t), K)
  <2>1. ToLookUp(t) = IF NeedExpend(m) THEN ExpendOrReduce(m) ELSE m
    BY <1>1 DEF ToLookUp
  <2>2. m = Unsized => NeedExpend(m)
    BY StateOf DEF NeedExpend
  <2>3. IsReHashing(m) => ~NeedExpend(m)
    <3>1. IsReHashing(m) => m.size[0] # 0
      <4>1. IsReHashing(m) => m # Unsized /\ \A s, c : ~Resting(m, s, c, K)
        BY StateOf
      <4>2. IsReHashing(m) => \E s0, s1, c0, c1, x, K0, K1 : Moving(m, s0, s1, c0, c1, x, K0, K1)
        BY <1>2, <4>1, Zenon DEF IsTable, Sized
      <4> QED BY <4>2, StateOf, Zenon
    <3> QED BY <3>1 DEF NeedExpend
  <2> QED BY <1>2, <2>1, <2>2, <2>3, Resized
<1>4. Sized(ToDelete(t), K)
  <2>1. ToDelete(t) = IF NeedReduce(m) THEN ExpendOrReduce(m) ELSE m
    BY <1>1 DEF ToDelete
  <2>2. m = Unsized => NeedReduce(m)
    <3>1. m = Unsized => ~IsReHashing(m) /\ m.size[0] = 0 /\ m.used[0] = 0
      BY StateOf
    <3>2. 2^0 \in Nat /\ 0 <= 2^0
      BY PowerIsMore
    <3>3. 2 * 0 <= 2^0
      BY <3>2
    <3> QED BY <3>1, <3>3, Zenon DEF NeedReduce
  <2>3. IsReHashing(m) => ~NeedReduce(m)
    BY DEF NeedReduce
  <2> QED BY <1>2, <2>1, <2>2, <2>3, Resized
<1> QED BY <1>3, <1>4

-----------------------------------------------------------------------------
(* The operations.                                                              *)

(* FindByKey finds what is in either of the tables. *)
LEMMA FoundIs ==
  ASSUME NEW t, NEW K, Sized(t, K), NEW k \in Nat
  PROVE  Found(t, k) <=> k \in K
<1>1. ASSUME NEW s, NEW c, Resting(t, s, c, K) PROVE Found(t, k) <=> k \in K
  <2>1. s \in Nat \ {0} /\ ChainsHold(c, 2^s, K) /\ t.size[0] = s /\ t.chains[0] = c /\ ~IsReHashing(t)
    BY <1>1, TableFields, StateOf DEF Resting
  <2>2. Contains(c[k % 2^s], k) <=> k \in K
    BY <2>1, Powers, ChainsFind
  <2> QED BY <2>1, <2>2, Zenon DEF Found, Tables, Chain, Slot
<1>2. ASSUME NEW s0, NEW s1, NEW c0, NEW c1, NEW x, NEW K0, NEW K1, K = K0 \cup K1,
             Moving(t, s0, s1, c0, c1, x, K0, K1)
      PROVE  Found(t, k) <=> k \in K
  <2>1. /\ s0 \in Nat \ {0} /\ s1 \in Nat \ {0} /\ ChainsHold(c0, 2^s0, K0) /\ ChainsHold(c1, 2^s1, K1)
        /\ t.size[0] = s0 /\ t.size[1] = s1 /\ t.chains[0] = c0 /\ t.chains[1] = c1 /\ IsReHashing(t)
    BY <1>2, TableFields, StateOf DEF Moving
  <2>2. (Contains(c0[k % 2^s0], k) <=> k \in K0) /\ (Contains(c1[k % 2^s1], k) <=> k \in K1)
    BY <2>1, Powers, ChainsFind
  <2>3. Found(t, k) <=> Contains(Chain(t, 0, k), k) \/ Contains(Chain(t, 1, k), k)
    <3>1. Tables(t) = {0, 1}
      BY <2>1 DEF Tables
    <3> QED BY <3>1, Zenon DEF Found
  <2>4. Chain(t, 0, k) = c0[k % 2^s0] /\ Chain(t, 1, k) = c1[k % 2^s1]
    BY <2>1, Zenon DEF Chain, Slot
  <2> QED BY <1>2, <2>2, <2>3, <2>4
<1> QED BY <1>1, <1>2, Zenon DEF Sized

LEMMA InsertedIs ==
  ASSUME NEW t, NEW K, Sized(t, K), IsFiniteSet(K), NEW k \in Nat, k \notin K
  PROVE  Sized(Inserted(t, k), K \cup {k})
<1>1. ASSUME NEW s, NEW c, Resting(t, s, c, K) PROVE Sized(Inserted(t, k), K \cup {k})
  <2>1. PICK u \in Nat : u = Cardinality(K) /\ Cardinality(K \cup {k}) = u + 1
    BY FS_CardinalityType, FS_AddElement
  <2>2. /\ s \in Nat \ {0} /\ ChainsHold(c, 2^s, K) /\ ~IsReHashing(t)
        /\ t = TableOf(s, 0, u, 0, c, NoTable, -1)
    BY <1>1, <2>1, StateOf DEF Resting
  <2>3. t.size[0] = s /\ t.chains[0] = c /\ t.used[0] = u
    BY <2>2, TableFields
  <2>4. PICK d : d = [c EXCEPT ![k % 2^s] = <<k>> \o @]
    OBVIOUS
  <2>5. Inserted(t, k) = TableOf(s, 0, u + 1, 0, d, NoTable, -1)
    <3>1. Inserted(t, k) = [t EXCEPT !.used[0] = u + 1, !.chains[0] = d]
      BY <2>2, <2>3, <2>4 DEF Inserted, Slot
    <3>2. PICK n, v : n = NoTable /\ v = u + 1
      OBVIOUS
    <3>3. [Pair(c, n) EXCEPT ![0] = d] = Pair(d, n) /\ [Pair(u, 0) EXCEPT ![0] = v] = Pair(v, 0)
      BY PairChanged
    <3> QED BY <2>2, <3>1, <3>2, <3>3 DEF TableOf
  <2>6. ChainsHold(d, 2^s, K \cup {k})
    BY <2>2, <2>4, Powers, ChainsAdd
  <2>7. Resting(Inserted(t, k), s, d, K \cup {k})
    BY <2>1, <2>2, <2>5, <2>6 DEF Resting
  <2> QED BY <2>7, RestingIs
<1>2. ASSUME NEW s0, NEW s1, NEW c0, NEW c1, NEW x, NEW K0, NEW K1, K = K0 \cup K1,
             Moving(t, s0, s1, c0, c1, x, K0, K1)
      PROVE  Sized(Inserted(t, k), K \cup {k})
  <2>1. PICK u0, u1 \in Nat : u0 = Cardinality(K0) /\ u1 = Cardinality(K1) /\ Cardinality(K1 \cup {k}) = u1 + 1
    <3>1. IsFiniteSet(K0 \cup K1) /\ K0 \cap K1 = {} /\ k \notin K1
      BY <1>2 DEF Moving
    <3>2. IsFiniteSet(K1) /\ Cardinality(K0) \in Nat /\ Cardinality(K1) \in Nat
      BY <3>1, Finites
    <3>3. Cardinality(K1 \cup {k}) = Cardinality(K1) + 1
      BY <3>1, <3>2, FS_AddElement
    <3> QED BY <3>2, <3>3
  <2>2. /\ s0 \in Nat \ {0} /\ s1 \in Nat \ {0} /\ s0 < s1 /\ x \in 0..(2^s0 - 1) /\ IsReHashing(t)
        /\ ChainsHold(c0, 2^s0, K0) /\ ChainsHold(c1, 2^s1, K1) /\ K0 \cap K1 = {}
        /\ \A b \in 0..(x - 1) : c0[b] = <<>>
        /\ t = TableOf(s0, s1, u0, u1, c0, c1, x)
    BY <1>2, <2>1, StateOf DEF Moving
  <2>3. t.size[1] = s1 /\ t.chains[1] = c1 /\ t.used[1] = u1
    BY <2>2, TableFields
  <2>4. PICK d : d = [c1 EXCEPT ![k % 2^s1] = <<k>> \o @]
    OBVIOUS
  <2>5. Inserted(t, k) = TableOf(s0, s1, u0, u1 + 1, c0, d, x)
    <3>1. Inserted(t, k) = [t EXCEPT !.used[1] = u1 + 1, !.chains[1] = d]
      BY <2>2, <2>3, <2>4 DEF Inserted, Slot
    <3>2. PICK v : v = u1 + 1
      OBVIOUS
    <3>3. [Pair(c0, c1) EXCEPT ![1] = d] = Pair(c0, d) /\ [Pair(u0, u1) EXCEPT ![1] = v] = Pair(u0, v)
      BY PairChanged
    <3> QED BY <2>2, <3>1, <3>2, <3>3 DEF TableOf
  <2>6. ChainsHold(d, 2^s1, K1 \cup {k})
    BY <1>2, <2>2, <2>4, Powers, ChainsAdd
  <2>7. K0 \cap (K1 \cup {k}) = {}
    BY <1>2, <2>2
  <2>8. Moving(Inserted(t, k), s0, s1, c0, d, x, K0, K1 \cup {k})
    BY <2>1, <2>2, <2>5, <2>6, <2>7 DEF Moving
  <2>9. K \cup {k} = K0 \cup (K1 \cup {k})
    BY <1>2
  <2> QED BY <2>8, <2>9, MovingIs
<1> QED BY <1>1, <1>2, Zenon DEF Sized

(* The nth entry of its chain in table i is k, and it is what Delete removes. *)
EntryRemoved(t, k, i, n) ==
    /\ Chain(t, i, k)[n] = k
    /\ Removed(t, k) = [t EXCEPT !.used[i] = @ - 1, !.chains[i][Slot(t, i, k)] = RemoveAt(@, n)]

LEMMA RemovedEntry ==
  ASSUME NEW t, NEW k, Found(t, k), Tables(t) \in SUBSET Nat,
         \A i \in Tables(t) : DOMAIN Chain(t, i, k) = 1..Len(Chain(t, i, k))
  PROVE  \E i \in Tables(t) : \E n \in DOMAIN Chain(t, i, k) : EntryRemoved(t, k, i, n)
<1> DEFINE I == {j \in Tables(t) : Contains(Chain(t, j, k), k)}
           i == Min(I)
           N == {m \in DOMAIN Chain(t, i, k) : Chain(t, i, k)[m] = k}
           n == Min(N)
<1>1. Removed(t, k) = [t EXCEPT !.used[i] = @ - 1, !.chains[i][Slot(t, i, k)] = RemoveAt(@, n)]
  BY Zenon DEF Removed
<1>2. i \in I
  <2>1. I # {} /\ I \in SUBSET Nat
    BY DEF Found
  <2> QED BY <2>1, LeastOf
<1>3. i \in Tables(t) /\ Contains(Chain(t, i, k), k)
  BY <1>2
<1> HIDE DEF i
<1>4. DOMAIN Chain(t, i, k) = 1..Len(Chain(t, i, k))
  BY <1>3
<1>5. n \in N
  <2>1. N # {} /\ N \in SUBSET Nat
    BY <1>3, <1>4 DEF Contains
  <2> HIDE DEF N
  <2> QED BY <2>1, LeastOf
<1>6. n \in DOMAIN Chain(t, i, k) /\ Chain(t, i, k)[n] = k
  BY <1>5
<1> HIDE DEF n
<1> QED BY <1>1, <1>3, <1>6, Zenon DEF EntryRemoved

LEMMA RemovedIs ==
  ASSUME NEW t, NEW K, Sized(t, K), IsFiniteSet(K), NEW k \in Nat
  PROVE  Sized(Removed(t, k), K \ {k})
<1>0. CASE ~Found(t, k)
  <2>1. k \notin K
    BY <1>0, FoundIs
  <2>2. K \ {k} = K
    BY <2>1
  <2>3. Removed(t, k) = t
    BY <1>0 DEF Removed
  <2> QED BY <2>2, <2>3
<1>1. ASSUME NEW s, NEW c, Resting(t, s, c, K), Found(t, k) PROVE Sized(Removed(t, k), K \ {k})
  <2>1. /\ s \in Nat \ {0} /\ ChainsHold(c, 2^s, K) /\ ~IsReHashing(t)
        /\ t = TableOf(s, 0, Cardinality(K), 0, c, NoTable, -1)
    BY <1>1, StateOf DEF Resting
  <2>2. t.size[0] = s /\ t.chains[0] = c /\ t.used[0] = Cardinality(K)
    BY <2>1, TableFields
  <2>3. PICK a : a = k % 2^s
    OBVIOUS
  <2>4. a \in 0..(2^s - 1) /\ c[a] \in Seq(Nat)
    BY <2>1, <2>3, Powers, SlotInside DEF ChainsHold
  <2>5. Tables(t) = {0} /\ Chain(t, 0, k) = c[a] /\ Slot(t, 0, k) = a
    BY <2>1, <2>2, <2>3, Zenon DEF Tables, Chain, Slot
  <2>6. PICK n \in DOMAIN c[a] :
            /\ c[a][n] = k
            /\ Removed(t, k) = [t EXCEPT !.used[0] = @ - 1, !.chains[0][a] = RemoveAt(@, n)]
    <3>1. Tables(t) \in SUBSET Nat /\ \A i \in Tables(t) : DOMAIN Chain(t, i, k) = 1..Len(Chain(t, i, k))
      BY <2>4, <2>5
    <3>2. \E i \in Tables(t) : \E n \in DOMAIN Chain(t, i, k) : EntryRemoved(t, k, i, n)
      BY <1>1, <3>1, RemovedEntry
    <3> QED BY <2>5, <3>2, Zenon DEF EntryRemoved
  <2>7. k \in K /\ Cardinality(K \ {k}) = Cardinality(K) - 1
    <3>1. k \in K
      BY <2>1, <2>4, <2>6 DEF ChainsHold
    <3> QED BY <3>1, FS_RemoveElement
  <2>8. PICK d, v : d = [c EXCEPT ![a] = RemoveAt(@, n)] /\ v = Cardinality(K) - 1
    OBVIOUS
  <2>9. Removed(t, k) = TableOf(s, 0, v, 0, d, NoTable, -1)
    <3>1. Removed(t, k) = [t EXCEPT !.used[0] = v, !.chains[0] = d]
      BY <2>2, <2>6, <2>8
    <3>2. PICK u, e : u = Cardinality(K) /\ e = NoTable
      OBVIOUS
    <3>3. [Pair(c, e) EXCEPT ![0] = d] = Pair(d, e) /\ [Pair(u, 0) EXCEPT ![0] = v] = Pair(v, 0)
      BY PairChanged
    <3> QED BY <2>1, <3>1, <3>2, <3>3 DEF TableOf
  <2>10. ChainsHold(d, 2^s, K \ {k})
    BY <2>1, <2>4, <2>6, <2>8, Powers, ChainsRemove
  <2>11. Resting(Removed(t, k), s, d, K \ {k})
    BY <2>1, <2>7, <2>8, <2>9, <2>10 DEF Resting
  <2> QED BY <2>11, RestingIs
<1>2. ASSUME NEW s0, NEW s1, NEW c0, NEW c1, NEW x, NEW K0, NEW K1, K = K0 \cup K1,
             Moving(t, s0, s1, c0, c1, x, K0, K1), Found(t, k)
      PROVE  Sized(Removed(t, k), K \ {k})
  <2>1. /\ s0 \in Nat \ {0} /\ s1 \in Nat \ {0} /\ s0 < s1 /\ x \in 0..(2^s0 - 1) /\ IsReHashing(t)
        /\ ChainsHold(c0, 2^s0, K0) /\ ChainsHold(c1, 2^s1, K1) /\ K0 \cap K1 = {}
        /\ \A b \in 0..(x - 1) : c0[b] = <<>>
        /\ t = TableOf(s0, s1, Cardinality(K0), Cardinality(K1), c0, c1, x)
    BY <1>2, StateOf DEF Moving
  <2>2. /\ t.size[0] = s0 /\ t.chains[0] = c0 /\ t.used[0] = Cardinality(K0)
        /\ t.size[1] = s1 /\ t.chains[1] = c1 /\ t.used[1] = Cardinality(K1)
    BY <2>1, TableFields
  <2>3. PICK a0, a1 : a0 = k % 2^s0 /\ a1 = k % 2^s1
    OBVIOUS
  <2>4. a0 \in 0..(2^s0 - 1) /\ c0[a0] \in Seq(Nat) /\ a1 \in 0..(2^s1 - 1) /\ c1[a1] \in Seq(Nat)
    BY <2>1, <2>3, Powers, SlotInside DEF ChainsHold
  <2>5. /\ Tables(t) = {0, 1} /\ Chain(t, 0, k) = c0[a0] /\ Slot(t, 0, k) = a0
        /\ Chain(t, 1, k) = c1[a1] /\ Slot(t, 1, k) = a1
    <3>1. 0..1 = {0, 1}
      OBVIOUS
    <3> QED BY <2>1, <2>2, <2>3, <3>1, Zenon DEF Tables, Chain, Slot
  <2>6. \/ \E n \in DOMAIN c0[a0] :
              /\ c0[a0][n] = k
              /\ Removed(t, k) = [t EXCEPT !.used[0] = @ - 1, !.chains[0][a0] = RemoveAt(@, n)]
        \/ \E n \in DOMAIN c1[a1] :
              /\ c1[a1][n] = k
              /\ Removed(t, k) = [t EXCEPT !.used[1] = @ - 1, !.chains[1][a1] = RemoveAt(@, n)]
    <3>1. Tables(t) \in SUBSET Nat /\ \A i \in Tables(t) : DOMAIN Chain(t, i, k) = 1..Len(Chain(t, i, k))
      BY <2>4, <2>5
    <3>2. \E i \in Tables(t) : \E n \in DOMAIN Chain(t, i, k) : EntryRemoved(t, k, i, n)
      BY <1>2, <3>1, RemovedEntry
    <3> QED BY <2>5, <3>2, Zenon DEF EntryRemoved
  <2>7. /\ IsFiniteSet(K0) /\ IsFiniteSet(K1)
    BY <1>2, <2>1, Finites
  <2>8. ASSUME NEW n \in DOMAIN c0[a0], c0[a0][n] = k,
               Removed(t, k) = [t EXCEPT !.used[0] = @ - 1, !.chains[0][a0] = RemoveAt(@, n)]
        PROVE  Sized(Removed(t, k), K \ {k})
    <3>1. k \in K0 /\ k \notin K1
      BY <2>1, <2>4, <2>8 DEF ChainsHold
    <3>2. Cardinality(K0 \ {k}) = Cardinality(K0) - 1 /\ K \ {k} = (K0 \ {k}) \cup K1 /\ (K0 \ {k}) \cap K1 = {}
      BY <1>2, <2>1, <2>7, <3>1, FS_RemoveElement
    <3>3. PICK d, v : d = [c0 EXCEPT ![a0] = RemoveAt(@, n)] /\ v = Cardinality(K0) - 1
      OBVIOUS
    <3>4. Removed(t, k) = TableOf(s0, s1, v, Cardinality(K1), d, c1, x)
      <4>1. Removed(t, k) = [t EXCEPT !.used[0] = v, !.chains[0] = d]
        BY <2>2, <2>8, <3>3
      <4>2. PICK u0, u1 : u0 = Cardinality(K0) /\ u1 = Cardinality(K1)
        OBVIOUS
      <4>3. [Pair(c0, c1) EXCEPT ![0] = d] = Pair(d, c1) /\ [Pair(u0, u1) EXCEPT ![0] = v] = Pair(v, u1)
        BY PairChanged
      <4> QED BY <2>1, <4>1, <4>2, <4>3 DEF TableOf
    <3>5. ChainsHold(d, 2^s0, K0 \ {k})
      BY <2>1, <2>4, <2>8, <3>3, Powers, ChainsRemove
    <3>6. ASSUME NEW b \in 0..(x - 1) PROVE d[b] = <<>>
      <4>1. DOMAIN <<>> = {}
        OBVIOUS
      <4>2. c0[b] = <<>> /\ c0[a0] # <<>> /\ b # a0
        BY <2>1, <2>8, <4>1
      <4>3. b \in DOMAIN c0
        BY <2>1 DEF ChainsHold
      <4> QED BY <3>3, <4>2, <4>3
    <3>7. Moving(Removed(t, k), s0, s1, d, c1, x, K0 \ {k}, K1)
      BY <2>1, <3>2, <3>3, <3>4, <3>5, <3>6 DEF Moving
    <3> QED BY <3>2, <3>7, MovingIs
  <2>9. ASSUME NEW n \in DOMAIN c1[a1], c1[a1][n] = k,
               Removed(t, k) = [t EXCEPT !.used[1] = @ - 1, !.chains[1][a1] = RemoveAt(@, n)]
        PROVE  Sized(Removed(t, k), K \ {k})
    <3>1. k \in K1 /\ k \notin K0
      BY <2>1, <2>4, <2>9 DEF ChainsHold
    <3>2. Cardinality(K1 \ {k}) = Cardinality(K1) - 1 /\ K \ {k} = K0 \cup (K1 \ {k}) /\ K0 \cap (K1 \ {k}) = {}
      BY <1>2, <2>1, <2>7, <3>1, FS_RemoveElement
    <3>3. PICK d, v : d = [c1 EXCEPT ![a1] = RemoveAt(@, n)] /\ v = Cardinality(K1) - 1
      OBVIOUS
    <3>4. Removed(t, k) = TableOf(s0, s1, Cardinality(K0), v, c0, d, x)
      <4>1. Removed(t, k) = [t EXCEPT !.used[1] = v, !.chains[1] = d]
        BY <2>2, <2>9, <3>3
      <4>2. PICK u0, u1 : u0 = Cardinality(K0) /\ u1 = Cardinality(K1)
        OBVIOUS
      <4>3. [Pair(c0, c1) EXCEPT ![1] = d] = Pair(c0, d) /\ [Pair(u0, u1) EXCEPT ![1] = v] = Pair(u0, v)
        BY PairChanged
      <4> QED BY <2>1, <4>1, <4>2, <4>3 DEF TableOf
    <3>5. ChainsHold(d, 2^s1, K1 \ {k})
      BY <2>1, <2>4, <2>9, <3>3, Powers, ChainsRemove
    <3>6. Moving(Removed(t, k), s0, s1, c0, d, x, K0, K1 \ {k})
      BY <2>1, <3>2, <3>3, <3>4, <3>5 DEF Moving
    <3> QED BY <3>2, <3>6, MovingIs
  <2> QED BY <2>6, <2>8, <2>9
<1> QED BY <1>0, <1>1, <1>2, Zenon DEF Sized

-----------------------------------------------------------------------------
(* The specification.                                                           *)

HashInv == IsTable(table, present) /\ present \subseteq Keys

LEMMA HashInvInit ==
  Init => HashInv
<1> SUFFICES ASSUME Init PROVE HashInv
  OBVIOUS
<1>1. present = {} /\ table = Unsized
  BY DEF Init, HashInit, Unsized, TableOf, Pair
<1> QED BY <1>1, FS_EmptySet DEF HashInv, IsTable

LEMMA HashInvNext ==
  HashInv /\ [Next]_vars => HashInv'
<1> SUFFICES ASSUME HashInv, [Next]_vars PROVE HashInv'
  OBVIOUS
<1>1. IsTable(table, present) /\ IsFiniteSet(present) /\ present \subseteq Keys /\ Keys \subseteq Nat
  BY HashConstants DEF HashInv, IsTable
<1>2. ASSUME NEW k \in Keys, Insert(k) PROVE HashInv'
  <2>1. PICK t : t = ToLookUp(table) /\ Sized(t, present)
    BY <1>1, ToUseKeeps
  <2>2. Found(t, k) <=> k \in present
    BY <1>1, <2>1, FoundIs
  <2>3. present' = present \cup {k} /\ present' \subseteq Keys
    BY <1>1, <1>2 DEF Insert
  <2>4. IsFiniteSet(present')
    BY <1>1, <2>3, FS_AddElement
  <2>5. CASE k \in present
    <3>1. present' = present
      BY <2>3, <2>5
    <3>2. table' = t
      BY <1>2, <2>1, <2>2, <2>5 DEF Insert
    <3> QED BY <2>1, <2>3, <2>4, <3>1, <3>2 DEF HashInv, IsTable
  <2>6. CASE k \notin present
    <3>1. table' = Inserted(t, k)
      BY <1>2, <2>1, <2>2, <2>6 DEF Insert
    <3>2. Sized(Inserted(t, k), present \cup {k})
      BY <1>1, <2>1, <2>6, InsertedIs
    <3> QED BY <2>3, <2>4, <3>1, <3>2 DEF HashInv, IsTable
  <2> QED BY <2>5, <2>6
<1>3. ASSUME NEW k \in Keys, FindByKey(k) PROVE HashInv'
  <2>1. table' = ToLookUp(table) /\ present' = present
    BY <1>3 DEF FindByKey
  <2>2. Sized(ToLookUp(table), present)
    BY <1>1, ToUseKeeps
  <2> QED BY <1>1, <2>1, <2>2 DEF HashInv, IsTable
<1>4. ASSUME NEW k \in Keys, Delete(k) PROVE HashInv'
  <2>1. PICK t : t = ToDelete(table) /\ Sized(t, present)
    BY <1>1, ToUseKeeps
  <2>2. table' = Removed(t, k) /\ present' = present \ {k}
    BY <1>4, <2>1 DEF Delete
  <2>3. Sized(Removed(t, k), present \ {k})
    BY <1>1, <2>1, RemovedIs
  <2>4. IsFiniteSet(present \ {k})
    BY <1>1, FS_RemoveElement
  <2> QED BY <1>1, <2>2, <2>3, <2>4 DEF HashInv, IsTable
<1>5. CASE UNCHANGED hashVars
  BY <1>1, <1>5 DEF HashInv, hashVars
<1> QED BY <1>2, <1>3, <1>4, <1>5 DEF Next, HashNext, vars

(* What HashIsSet says of one of the tables. *)
LEMMA OneTable ==
  ASSUME NEW t, NEW i, NEW s \in Nat \ {0}, NEW c, NEW K, IsFiniteSet(K),
         t.size[i] = s, t.chains[i] = c, t.used[i] = Cardinality(K), ChainsHold(c, 2^s, K)
  PROVE  /\ t.used[i] = Cardinality(Entries(t, i))
         /\ \A b \in Buckets(t.size[i]) : \A k \in ToSet(t.chains[i][b]) : Slot(t, i, k) = b
<1>1. 2^s \in Nat \ {0}
  BY Powers
<1>2. t.used[i] = Cardinality(Entries(t, i))
  BY <1>1, EntriesCounted
<1>3. ASSUME NEW b \in 0..(2^s - 1), NEW k \in ToSet(c[b]) PROVE k % 2^s = b
  <2>1. PICK m \in DOMAIN c[b] : k = c[b][m]
    BY DEF ToSet
  <2> QED BY <2>1 DEF ChainsHold
<1> QED BY <1>2, <1>3 DEF Buckets, Slot

LEMMA HashInvIsSet ==
  HashInv => HashIsSet
<1> SUFFICES ASSUME HashInv PROVE HashIsSet
  OBVIOUS
<1>1. PICK t, K : t = table /\ K = present
  OBVIOUS
<1>2. IsTable(t, K) /\ IsFiniteSet(K) /\ \A k \in Keys : k \in Nat
  BY <1>1, HashConstants DEF HashInv, IsTable
<1>3. \A k \in Keys : Found(ToLookUp(t), k) <=> k \in K
  BY <1>2, ToUseKeeps, FoundIs
<1> DEFINE Rehash == IsReHashing(t) =>
              /\ t.idx \in Buckets(t.size[0]) /\ t.size[0] < t.size[1]
              /\ \A b \in 0..(t.idx - 1) : t.chains[0][b] = <<>>
           Right(i) == /\ t.used[i] = Cardinality(Entries(t, i))
                       /\ \A b \in Buckets(t.size[i]) :
                             \A k \in ToSet(t.chains[i][b]) : Slot(t, i, k) = b
           Counted == t.size[0] > 0 =>
              /\ \A i \in Tables(t) : Right(i)
              /\ t.used[0] + t.used[1] = Cardinality(K)
<1>4. CASE t = Unsized
  <2>1. ~IsReHashing(t) /\ t.size[0] = 0
    BY <1>4, StateOf
  <2>2. Rehash /\ Counted
    BY <2>1
  <2> QED BY <1>1, <1>3, <2>2 DEF HashIsSet
<1>5. ASSUME NEW s, NEW c, Resting(t, s, c, K) PROVE HashIsSet
  <2>1. /\ s \in Nat \ {0} /\ ChainsHold(c, 2^s, K)
        /\ t = TableOf(s, 0, Cardinality(K), 0, c, NoTable, -1)
    BY <1>5 DEF Resting
  <2>2. /\ t.size[0] = s /\ t.chains[0] = c /\ t.used[0] = Cardinality(K) /\ t.used[1] = 0
        /\ ~IsReHashing(t)
    BY <1>5, <2>1, TableFields, StateOf
  <2>3. Right(0)
    BY <1>2, <2>1, <2>2, OneTable
  <2>4. Tables(t) = {0} /\ Cardinality(K) + 0 = Cardinality(K)
    BY <1>2, <2>2, FS_CardinalityType DEF Tables
  <2> HIDE DEF Right
  <2>5. Rehash /\ Counted
    BY <2>2, <2>3, <2>4
  <2> QED BY <1>1, <1>3, <2>5 DEF HashIsSet, Right
<1>6. ASSUME NEW s0, NEW s1, NEW c0, NEW c1, NEW x, NEW K0, NEW K1, K = K0 \cup K1,
             Moving(t, s0, s1, c0, c1, x, K0, K1)
      PROVE  HashIsSet
  <2>1. /\ s0 \in Nat \ {0} /\ s1 \in Nat \ {0} /\ s0 < s1 /\ x \in 0..(2^s0 - 1) /\ IsReHashing(t)
        /\ ChainsHold(c0, 2^s0, K0) /\ ChainsHold(c1, 2^s1, K1) /\ K0 \cap K1 = {}
        /\ \A b \in 0..(x - 1) : c0[b] = <<>>
        /\ t = TableOf(s0, s1, Cardinality(K0), Cardinality(K1), c0, c1, x)
    BY <1>6, StateOf DEF Moving
  <2>2. /\ t.size[0] = s0 /\ t.chains[0] = c0 /\ t.used[0] = Cardinality(K0) /\ t.idx = x
        /\ t.size[1] = s1 /\ t.chains[1] = c1 /\ t.used[1] = Cardinality(K1)
    BY <2>1, TableFields
  <2>3. /\ IsFiniteSet(K0) /\ IsFiniteSet(K1)
        /\ Cardinality(K) = Cardinality(K0) + Cardinality(K1)
    BY <1>2, <1>6, <2>1, Finites
  <2>4. Right(0) /\ Right(1)
    <3>1. Right(0)
      BY <2>1, <2>2, <2>3, OneTable
    <3>2. Right(1)
      BY <2>1, <2>2, <2>3, OneTable
    <3> HIDE DEF Right
    <3> QED BY <3>1, <3>2
  <2>5. \A i \in Tables(t) : i = 0 \/ i = 1
    BY <2>1 DEF Tables
  <2> HIDE DEF Right
  <2>6. Rehash
    BY <2>1, <2>2 DEF Buckets
  <2>7. Counted
    BY <2>2, <2>3, <2>4, <2>5
  <2> QED BY <1>1, <1>3, <2>6, <2>7 DEF HashIsSet, Right
<1> QED BY <1>2, <1>4, <1>5, <1>6, Zenon DEF IsTable, Sized

(* A HashTable is the set of the keys inserted and not deleted, with exact counters and
   in whatever state of a rehash the operations meet it. *)
THEOREM HashTableIsSet == Spec => []HashIsSet
<1>1. Init => HashInv
  BY HashInvInit
<1>2. HashInv /\ [Next]_vars => HashInv'
  BY HashInvNext
<1>3. HashInv => HashIsSet
  BY HashInvIsSet
<1> QED BY <1>1, <1>2, <1>3, PTL DEF Spec

-----------------------------------------------------------------------------
(* The positions of an iterator.                                                *)

(* The arrays an iterator looks at are there. *)
Sound(t) ==
    \A i \in Tables(t) :
        2^(t.size[i]) \in Nat \ {0} /\ t.chains[i] \in [0..(2^(t.size[i]) - 1) -> Seq(Nat)]

InTable(t, i, b, n) ==
    i \in Tables(t) /\ b \in 0..(2^(t.size[i]) - 1) /\ n \in 1..Len(t.chains[i][b])

AllEntries(t) == UNION {Entries(t, i) : i \in Tables(t)}

(* In the order of an iteration. *)
Earlier(p, q) ==
    \/ p.table < q.table
    \/ p.table = q.table /\ p.bucket < q.bucket
    \/ p.table = q.table /\ p.bucket = q.bucket /\ p.nth < q.nth

(* Behind bucket b of table i, and before it. *)
Behind(e, i, b) == e.table > i \/ (e.table = i /\ e.bucket > b)
Ahead(e, i, b)  == e.table < i \/ (e.table = i /\ e.bucket < b)

LEMMA TablesAre ==
  ASSUME NEW t
  PROVE  /\ 0 \in Tables(t) /\ (1 \in Tables(t) <=> IsReHashing(t))
         /\ \A i \in Tables(t) : i = 0 \/ i = 1
<1>1. 0..1 = {0, 1}
  OBVIOUS
<1> QED BY <1>1 DEF Tables

LEMMA PositionFields ==
  ASSUME NEW i, NEW b, NEW n
  PROVE  /\ Position(i, b, n).table = i /\ Position(i, b, n).bucket = b /\ Position(i, b, n).nth = n
         /\ \A m : [Position(i, b, n) EXCEPT !.nth = m] = Position(i, b, m)
BY DEF Position

LEMMA EntryIs ==
  ASSUME NEW t, Sound(t)
  PROVE  /\ \A i, b, n : InTable(t, i, b, n) => Position(i, b, n) \in AllEntries(t)
         /\ \A e \in AllEntries(t) :
               /\ e = Position(e.table, e.bucket, e.nth) /\ InTable(t, e.table, e.bucket, e.nth)
               /\ e.table \in Nat /\ e.bucket \in Nat /\ e.nth \in Nat /\ e.nth > 0
         /\ Nowhere \notin AllEntries(t)
<1>1. ASSUME NEW i, NEW b, NEW n, InTable(t, i, b, n) PROVE Position(i, b, n) \in AllEntries(t)
  <2>1. i \in Tables(t) /\ b \in Buckets(t.size[i]) /\ n \in DOMAIN t.chains[i][b]
    BY <1>1 DEF InTable, Sound, Buckets
  <2>2. Position(i, b, n) \in Entries(t, i)
    BY <2>1 DEF Entries
  <2> QED BY <2>1, <2>2 DEF AllEntries
<1>2. ASSUME NEW e \in AllEntries(t)
      PROVE  /\ e = Position(e.table, e.bucket, e.nth) /\ InTable(t, e.table, e.bucket, e.nth)
             /\ e.table \in Nat /\ e.bucket \in Nat /\ e.nth \in Nat /\ e.nth > 0
  <2>1. PICK i \in Tables(t) : e \in Entries(t, i)
    BY DEF AllEntries
  <2>2. PICK b \in Buckets(t.size[i]) : \E n \in DOMAIN t.chains[i][b] : e = Position(i, b, n)
    BY <2>1 DEF Entries
  <2>3. PICK n \in DOMAIN t.chains[i][b] : e = Position(i, b, n)
    BY <2>2
  <2>4. e.table = i /\ e.bucket = b /\ e.nth = n
    BY <2>3, PositionFields
  <2>5. b \in 0..(2^(t.size[i]) - 1) /\ t.chains[i][b] \in Seq(Nat)
    BY DEF Buckets, Sound
  <2>6. n \in 1..Len(t.chains[i][b]) /\ b \in Nat /\ n \in Nat /\ n > 0
    BY <2>5
  <2>7. i \in Nat
    BY TablesAre
  <2> QED BY <2>3, <2>4, <2>5, <2>6, <2>7 DEF InTable
<1>3. Nowhere \notin AllEntries(t)
  <2>1. Nowhere.table = 2
    BY PositionFields DEF Nowhere
  <2>2. ASSUME Nowhere \in AllEntries(t) PROVE FALSE
    <3>1. 2 \in Tables(t)
      BY <1>2, <2>1, <2>2 DEF InTable
    <3> QED BY <3>1, TablesAre
  <2> QED BY <2>2
<1> QED BY <1>1, <1>2, <1>3

(* Among two different entries one is earlier. *)
LEMMA Ordered ==
  ASSUME NEW t, Sound(t), NEW p \in AllEntries(t), NEW q \in AllEntries(t)
  PROVE  /\ p = q \/ Earlier(p, q) \/ Earlier(q, p)
         /\ ~(Earlier(p, q) /\ Earlier(q, p)) /\ ~Earlier(p, p)
         /\ \A r \in AllEntries(t) : Earlier(p, q) /\ Earlier(q, r) => Earlier(p, r)
<1>1. PICK pi, pb, pn \in Nat : p = Position(pi, pb, pn)
  BY EntryIs
<1>2. PICK qi, qb, qn \in Nat : q = Position(qi, qb, qn)
  BY EntryIs
<1>3. p.table = pi /\ p.bucket = pb /\ p.nth = pn /\ q.table = qi /\ q.bucket = qb /\ q.nth = qn
  BY <1>1, <1>2, PositionFields
<1>4. p = q \/ Earlier(p, q) \/ Earlier(q, p)
  <2>1. ASSUME ~Earlier(p, q), ~Earlier(q, p) PROVE pi = qi /\ pb = qb /\ pn = qn
    BY <1>3, <2>1 DEF Earlier
  <2> QED BY <1>1, <1>2, <2>1
<1>5. ~(Earlier(p, q) /\ Earlier(q, p)) /\ ~Earlier(p, p)
  BY <1>3 DEF Earlier
<1>6. ASSUME NEW r \in AllEntries(t), Earlier(p, q), Earlier(q, r) PROVE Earlier(p, r)
  <2>1. PICK ri, rb, rn \in Nat : r.table = ri /\ r.bucket = rb /\ r.nth = rn
    BY EntryIs
  <2> QED BY <1>3, <1>6, <2>1 DEF Earlier
<1> QED BY <1>4, <1>5, <1>6

(* r is where to go on from p: the first of the entries E after p, or of those with the
   property; likewise backwards. *)
FirstOf(r, T) == (r = Nowhere /\ T = {}) \/ (r \in T /\ \A e \in T : e = r \/ Earlier(r, e))
LastOf(r, T)  == (r = Nowhere /\ T = {}) \/ (r \in T /\ \A e \in T : e = r \/ Earlier(e, r))

Filled(t, j) == {c \in Buckets(t.size[j]) : t.chains[j][c] # <<>>}

LEMMA FilledIs ==
  ASSUME NEW t, Sound(t), NEW j \in Tables(t)
  PROVE  /\ Filled(t, j) \in SUBSET Nat /\ Filled(t, j) \in SUBSET (0..(2^(t.size[j]) - 1))
         /\ 2^(t.size[j]) \in Nat \ {0}
         /\ \A c \in Filled(t, j) : InTable(t, j, c, 1) /\ InTable(t, j, c, Len(t.chains[j][c]))
         /\ \A e \in AllEntries(t) : e.table = j => e.bucket \in Filled(t, j)
<1>1. 2^(t.size[j]) \in Nat \ {0} /\ t.chains[j] \in [0..(2^(t.size[j]) - 1) -> Seq(Nat)]
  BY DEF Sound
<1>2. ASSUME NEW c \in Filled(t, j)
      PROVE  InTable(t, j, c, 1) /\ InTable(t, j, c, Len(t.chains[j][c])) /\ c \in Nat
             /\ c \in 0..(2^(t.size[j]) - 1)
  <2>1. c \in 0..(2^(t.size[j]) - 1) /\ t.chains[j][c] # <<>> /\ t.chains[j][c] \in Seq(Nat)
    BY <1>1 DEF Filled, Buckets
  <2>2. Len(t.chains[j][c]) \in Nat /\ Len(t.chains[j][c]) >= 1
    BY <2>1
  <2> QED BY <1>1, <2>1, <2>2 DEF InTable
<1>3. ASSUME NEW e \in AllEntries(t), e.table = j PROVE e.bucket \in Filled(t, j)
  <2>1. InTable(t, j, e.bucket, e.nth)
    BY <1>3, EntryIs
  <2>2. e.bucket \in 0..(2^(t.size[j]) - 1) /\ e.nth \in 1..Len(t.chains[j][e.bucket])
    BY <2>1 DEF InTable
  <2>3. t.chains[j][e.bucket] # <<>>
    BY <2>2
  <2> QED BY <2>2, <2>3 DEF Filled, Buckets
<1> QED BY <1>1, <1>2, <1>3

LEMMA FirstAfterIs ==
  ASSUME NEW t, Sound(t), NEW i \in Tables(t), NEW b \in Int
  PROVE  FirstOf(FirstAfter(t, i, b), {e \in AllEntries(t) : Behind(e, i, b)})
<1> DEFINE T == {e \in AllEntries(t) : Behind(e, i, b)}
           later == {c \in Filled(t, i) : c > b}
<1> SUFFICES FirstOf(FirstAfter(t, i, b), T)
  OBVIOUS
<1>0. i = 0 \/ i = 1
  BY TablesAre
<1>1. /\ later # {} => FirstAfter(t, i, b) = Position(i, Min(later), 1)
      /\ later = {} /\ i = 0 /\ IsReHashing(t) /\ Filled(t, 1) # {} =>
            FirstAfter(t, i, b) = Position(1, Min(Filled(t, 1)), 1)
      /\ later = {} /\ ~(i = 0 /\ IsReHashing(t) /\ Filled(t, 1) # {}) =>
            FirstAfter(t, i, b) = Nowhere
  BY DEF FirstAfter, Filled
<1>2. \A e \in AllEntries(t) : /\ e.table = 0 \/ (e.table = 1 /\ IsReHashing(t))
                               /\ e.table = i => e.bucket \in Filled(t, i)
                               /\ e = Position(e.table, e.bucket, e.nth)
                               /\ e.nth \in Nat /\ e.nth > 0 /\ e.bucket \in Nat
  BY TablesAre, EntryIs, FilledIs DEF InTable
<1>3. CASE later # {}
  <2>1. later \in SUBSET Nat
    BY FilledIs
  <2>2. PICK c \in later : c = Min(later) /\ \A d \in later : c <= d
    BY <1>3, <2>1, LeastOf
  <2>3. PICK r : r = Position(i, c, 1)
    OBVIOUS
  <2>4. r \in AllEntries(t) /\ r.table = i /\ r.bucket = c /\ r.nth = 1 /\ c > b /\ c \in Nat
    BY <2>1, <2>2, <2>3, FilledIs, EntryIs, PositionFields
  <2>5. r \in T
    BY <2>4 DEF Behind
  <2>6. ASSUME NEW e \in T PROVE e = r \/ Earlier(r, e)
    <3>1. e \in AllEntries(t) /\ Behind(e, i, b)
      OBVIOUS
    <3>2. CASE e.table > i
      BY <2>4, <3>2 DEF Earlier
    <3>3. CASE ~(e.table > i)
      <4>1. e.table = i /\ e.bucket \in later
        BY <1>2, <3>1, <3>3 DEF Behind
      <4>2. c <= e.bucket /\ e.bucket \in Nat
        BY <1>2, <2>2, <4>1
      <4>3. CASE c < e.bucket
        BY <2>4, <4>1, <4>3 DEF Earlier
      <4>4. CASE c = e.bucket /\ e.nth = 1
        BY <1>2, <2>3, <4>1, <4>4
      <4>5. CASE c = e.bucket /\ e.nth # 1
        <5>1. 1 < e.nth
          BY <1>2, <3>1, <4>5
        <5> QED BY <2>4, <4>1, <4>5, <5>1 DEF Earlier
      <4> QED BY <2>4, <4>2, <4>3, <4>4, <4>5
    <3> QED BY <3>2, <3>3
  <2>7. FirstAfter(t, i, b) = r
    BY <1>1, <1>3, <2>2, <2>3
  <2> HIDE DEF T
  <2> QED BY <2>5, <2>6, <2>7 DEF FirstOf
<1>4. ASSUME later = {} PROVE \A e \in T : e.table > i
  <2> SUFFICES ASSUME NEW e \in T, ~(e.table > i) PROVE FALSE
    OBVIOUS
  <2>1. e.table = i /\ e.bucket > b /\ e.bucket \in Filled(t, i)
    BY <1>2 DEF Behind
  <2> QED BY <1>4, <2>1
<1>5. CASE later = {} /\ i = 0 /\ IsReHashing(t) /\ Filled(t, 1) # {}
  <2>1. Filled(t, 1) \in SUBSET Nat /\ 1 \in Tables(t)
    BY <1>5, FilledIs, TablesAre
  <2>2. PICK c \in Filled(t, 1) : c = Min(Filled(t, 1)) /\ \A d \in Filled(t, 1) : c <= d
    BY <1>5, <2>1, LeastOf
  <2>3. PICK r : r = Position(1, c, 1)
    OBVIOUS
  <2>4. r \in AllEntries(t) /\ r.table = 1 /\ r.bucket = c /\ r.nth = 1 /\ c \in Nat
    BY <2>1, <2>2, <2>3, FilledIs, EntryIs, PositionFields
  <2>5. r \in T
    BY <1>5, <2>4 DEF Behind
  <2>6. ASSUME NEW e \in T PROVE e = r \/ Earlier(r, e)
    <3>1. e \in AllEntries(t) /\ e.table = 1
      BY <1>2, <1>4, <1>5
    <3>2. e.bucket \in Filled(t, 1)
      BY <2>1, <3>1, FilledIs
    <3>3. c <= e.bucket /\ e.bucket \in Nat
      BY <1>2, <2>2, <3>1, <3>2
    <3>4. CASE c < e.bucket
      BY <2>4, <3>1, <3>4 DEF Earlier
    <3>5. CASE c = e.bucket /\ e.nth = 1
      BY <1>2, <2>3, <3>1, <3>5
    <3>6. CASE c = e.bucket /\ e.nth # 1
      <4>1. 1 < e.nth
        BY <1>2, <3>1, <3>6
      <4> QED BY <2>4, <3>1, <3>6, <4>1 DEF Earlier
    <3> QED BY <2>4, <3>3, <3>4, <3>5, <3>6
  <2>7. FirstAfter(t, i, b) = r
    BY <1>1, <1>5, <2>2, <2>3
  <2> HIDE DEF T
  <2> QED BY <2>5, <2>6, <2>7 DEF FirstOf
<1>6. CASE later = {} /\ ~(i = 0 /\ IsReHashing(t) /\ Filled(t, 1) # {})
  <2>1. ASSUME NEW e \in T PROVE FALSE
    <3>1. e \in AllEntries(t) /\ e.table = 1 /\ IsReHashing(t) /\ i = 0
      BY <1>0, <1>2, <1>4, <1>6
    <3>2. e.bucket \in Filled(t, 1)
      BY <3>1, TablesAre, FilledIs
    <3> QED BY <1>6, <3>1, <3>2
  <2>2. T = {}
    BY <2>1
  <2>3. FirstAfter(t, i, b) = Nowhere
    BY <1>1, <1>6
  <2> HIDE DEF T
  <2> QED BY <2>2, <2>3 DEF FirstOf
<1> QED BY <1>3, <1>5, <1>6

LEMMA GreatestIs ==
  ASSUME NEW b \in Nat, NEW T \in SUBSET (0..b), T # {}
  PROVE  Max(T) \in T /\ \A x \in T : x <= Max(T)
<1> DEFINE D == {d \in Nat : b - d \in T}
<1>1. D \in SUBSET Nat /\ D # {}
  <2>1. PICK i \in T : TRUE
    OBVIOUS
  <2>2. b - i \in D
    BY <2>1
  <2> QED BY <2>2
<1>2. PICK d \in D : \A e \in D : d <= e
  BY <1>1, LeastOf
<1>3. ASSUME NEW j \in T PROVE b - d >= j
  <2>1. j \in Nat /\ b - j \in Nat /\ b - (b - j) = j /\ d \in Nat
    BY <1>2
  <2>2. b - j \in D
    BY <2>1
  <2>3. d <= b - j
    BY <1>2, <2>2
  <2> QED BY <2>1, <2>3
<1>4. \E x \in T : \A y \in T : x >= y
  BY <1>2, <1>3
<1>5. Max(T) \in T /\ \A y \in T : Max(T) >= y
  BY <1>4, Zenon DEF Max
<1>6. \A x, y \in T : x >= y => y <= x
  OBVIOUS
<1> QED BY <1>5, <1>6

LEMMA LastBeforeIs ==
  ASSUME NEW t, Sound(t), NEW i \in Tables(t), NEW b \in Nat
  PROVE  LastOf(LastBefore(t, i, b), {e \in AllEntries(t) : Ahead(e, i, b)})
<1> DEFINE T == {e \in AllEntries(t) : Ahead(e, i, b)}
           sooner == {c \in Filled(t, i) : c < b}
           top(j, c) == Position(j, c, Len(t.chains[j][c]))
<1> SUFFICES LastOf(LastBefore(t, i, b), T)
  OBVIOUS
<1>0. (i = 0 \/ i = 1) /\ 0 \in Tables(t)
  BY TablesAre
<1>1. \A c \in Filled(t, 0) : c < 2^(t.size[0])
  <2>1. 2^(t.size[0]) \in Nat \ {0} /\ Filled(t, 0) \in SUBSET (0..(2^(t.size[0]) - 1))
    BY <1>0, FilledIs
  <2> QED BY <2>1
<1>2. /\ sooner = {d \in Buckets(t.size[i]) : d < b /\ t.chains[i][d] # <<>>}
      /\ Filled(t, 0) = {d \in Buckets(t.size[0]) : d < 2^(t.size[0]) /\ t.chains[0][d] # <<>>}
  BY <1>1 DEF Filled
<1>3. /\ sooner # {} => LastBefore(t, i, b) = top(i, Max(sooner))
      /\ sooner = {} /\ i = 1 /\ Filled(t, 0) # {} =>
            LastBefore(t, i, b) = top(0, Max(Filled(t, 0)))
      /\ sooner = {} /\ ~(i = 1 /\ Filled(t, 0) # {}) => LastBefore(t, i, b) = Nowhere
  BY <1>2 DEF LastBefore
<1>4. \A e \in AllEntries(t) : /\ e.table = 0 \/ e.table = 1
                               /\ e.table = i => e.bucket \in Filled(t, i)
                               /\ e.table = 0 => e.bucket \in Filled(t, 0)
                               /\ e = Position(e.table, e.bucket, e.nth)
                               /\ e.nth \in Nat /\ e.bucket \in Nat
                               /\ e.nth \in 1..Len(t.chains[e.table][e.bucket])
  BY <1>0, TablesAre, EntryIs, FilledIs DEF InTable
<1>5. ASSUME NEW j \in Tables(t), NEW F, F \subseteq Filled(t, j), F # {},
             NEW c, c = Max(F), NEW r, r = top(j, c)
      PROVE  /\ c \in F /\ c \in Nat /\ r \in AllEntries(t) /\ r.table = j /\ r.bucket = c
             /\ \A e \in AllEntries(t) : e.table = j /\ e.bucket \in F => e = r \/ Earlier(e, r)
  <2>0. PICK p \in Nat : p = 2^(t.size[j]) - 1 /\ Filled(t, j) \in SUBSET (0..p)
    BY FilledIs
  <2>1. c \in F /\ c \in Nat /\ \A d \in F : d <= c
    <3>1. F \in SUBSET (0..p)
      BY <1>5, <2>0, Zenon
    <3>2. Max(F) \in F /\ \A d \in F : d <= Max(F)
      BY <1>5, <3>1, GreatestIs
    <3>3. c \in F /\ \A d \in F : d <= c
      BY <1>5, <3>2
    <3> QED BY <3>1, <3>3
  <2>2. InTable(t, j, c, Len(t.chains[j][c]))
    BY <1>5, <2>1, FilledIs
  <2>3. r \in AllEntries(t) /\ r.table = j /\ r.bucket = c /\ r.nth = Len(t.chains[j][c])
    BY <1>5, <2>2, EntryIs, PositionFields
  <2>4. ASSUME NEW e \in AllEntries(t), e.table = j, e.bucket \in F PROVE e = r \/ Earlier(e, r)
    <3>1. e.bucket <= c /\ e.bucket \in Nat /\ e.nth \in Nat
      BY <1>4, <2>1, <2>4
    <3>2. CASE e.bucket < c
      BY <2>3, <2>4, <3>2 DEF Earlier
    <3>3. CASE e.bucket = c
      <4>1. PICK l \in Nat : l = Len(t.chains[j][c]) /\ e.nth <= l
        <5>1. Len(t.chains[j][c]) \in 1..Len(t.chains[j][c])
          BY <2>2 DEF InTable
        <5>2. e.nth \in 1..Len(t.chains[j][c])
          BY <1>4, <2>4, <3>3
        <5> QED BY <5>1, <5>2
      <4>2. CASE e.nth < l
        BY <2>3, <2>4, <3>3, <4>1, <4>2 DEF Earlier
      <4>3. CASE e.nth = l
        BY <1>4, <1>5, <2>4, <3>3, <4>1, <4>3
      <4> QED BY <3>1, <4>1, <4>2, <4>3
    <3> QED BY <2>1, <3>1, <3>2, <3>3
  <2> QED BY <2>1, <2>3, <2>4
<1>6. CASE sooner # {}
  <2>1. PICK c, r : c = Max(sooner) /\ r = top(i, c)
    OBVIOUS
  <2>2. sooner \subseteq Filled(t, i)
    OBVIOUS
  <2>3. /\ c \in sooner /\ c \in Nat /\ r \in AllEntries(t) /\ r.table = i /\ r.bucket = c
        /\ \A e \in AllEntries(t) : e.table = i /\ e.bucket \in sooner => e = r \/ Earlier(e, r)
    <3> HIDE DEF sooner, top
    <3> QED BY <1>5, <1>6, <2>1, <2>2
  <2>4. r \in T
    BY <2>3 DEF Ahead
  <2>5. ASSUME NEW e \in T PROVE e = r \/ Earlier(e, r)
    <3>1. CASE e.table < i
      BY <2>3, <3>1 DEF Earlier
    <3>2. CASE ~(e.table < i)
      <4>1. e \in AllEntries(t) /\ e.table = i /\ e.bucket \in sooner
        BY <1>4, <3>2 DEF Ahead
      <4> QED BY <2>3, <4>1
    <3> QED BY <3>1, <3>2
  <2>6. LastBefore(t, i, b) = r
    BY <1>3, <1>6, <2>1
  <2> HIDE DEF T
  <2> QED BY <2>4, <2>5, <2>6 DEF LastOf
<1>7. ASSUME sooner = {} PROVE \A e \in T : e.table < i
  <2> SUFFICES ASSUME NEW e \in T, ~(e.table < i) PROVE FALSE
    OBVIOUS
  <2>1. e.table = i /\ e.bucket < b /\ e.bucket \in Filled(t, i)
    BY <1>4 DEF Ahead
  <2> QED BY <1>7, <2>1
<1>8. CASE sooner = {} /\ i = 1 /\ Filled(t, 0) # {}
  <2>1. PICK c, r : c = Max(Filled(t, 0)) /\ r = top(0, c)
    OBVIOUS
  <2>2. /\ c \in Nat /\ r \in AllEntries(t) /\ r.table = 0 /\ r.bucket = c
        /\ \A e \in AllEntries(t) : e.table = 0 /\ e.bucket \in Filled(t, 0) => e = r \/ Earlier(e, r)
    <3>1. Filled(t, 0) \subseteq Filled(t, 0)
      OBVIOUS
    <3> HIDE DEF top
    <3> QED BY <1>0, <1>5, <1>8, <2>1, <3>1
  <2>3. r \in T
    BY <1>8, <2>2 DEF Ahead
  <2>4. ASSUME NEW e \in T PROVE e = r \/ Earlier(e, r)
    <3>1. e \in AllEntries(t) /\ e.table = 0
      BY <1>4, <1>7, <1>8
    <3> QED BY <1>4, <2>2, <3>1
  <2>5. LastBefore(t, i, b) = r
    BY <1>3, <1>8, <2>1
  <2> HIDE DEF T
  <2> QED BY <2>3, <2>4, <2>5 DEF LastOf
<1>9. CASE sooner = {} /\ ~(i = 1 /\ Filled(t, 0) # {})
  <2>1. ASSUME NEW e \in T PROVE FALSE
    <3>1. e \in AllEntries(t) /\ e.table = 0 /\ i = 1
      BY <1>0, <1>4, <1>7, <1>9
    <3> QED BY <1>4, <1>9, <3>1
  <2>2. T = {}
    BY <2>1
  <2>3. LastBefore(t, i, b) = Nowhere
    BY <1>3, <1>9
  <2> HIDE DEF T
  <2> QED BY <2>2, <2>3 DEF LastOf
<1> QED BY <1>6, <1>8, <1>9

LEMMA NextIs ==
  ASSUME NEW t, Sound(t), NEW p \in AllEntries(t)
  PROVE  FirstOf(IteratorNext(t, p), {e \in AllEntries(t) : Earlier(p, e)})
<1> DEFINE T == {e \in AllEntries(t) : Earlier(p, e)}
<1> SUFFICES FirstOf(IteratorNext(t, p), T)
  OBVIOUS
<1>1. PICK i, b, n \in Nat : /\ p = Position(i, b, n) /\ InTable(t, i, b, n)
                             /\ p.table = i /\ p.bucket = b /\ p.nth = n
  BY EntryIs
<1>2. PICK l \in Nat : l = Len(t.chains[i][b]) /\ n <= l /\ i \in Tables(t) /\ b \in 0..(2^(t.size[i]) - 1)
  BY <1>1 DEF InTable, Sound
<1>3. CASE n < l
  <2>1. PICK r : r = Position(i, b, n + 1)
    OBVIOUS
  <2>2. r \in AllEntries(t) /\ r.table = i /\ r.bucket = b /\ r.nth = n + 1
    <3>1. InTable(t, i, b, n + 1)
      BY <1>2, <1>3 DEF InTable
    <3> QED BY <2>1, <3>1, EntryIs, PositionFields
  <2>3. r \in T
    BY <1>1, <2>2 DEF Earlier
  <2>4. ASSUME NEW e \in T PROVE e = r \/ Earlier(r, e)
    <3>1. PICK ei, eb, en \in Nat : e = Position(ei, eb, en) /\ e.table = ei /\ e.bucket = eb /\ e.nth = en
      BY EntryIs
    <3>2. i < ei \/ (i = ei /\ b < eb) \/ (i = ei /\ b = eb /\ n < en)
      BY <1>1, <3>1 DEF Earlier
    <3>3. CASE i = ei /\ b = eb /\ en = n + 1
      BY <2>1, <3>1, <3>3
    <3>4. CASE ~(i = ei /\ b = eb /\ en = n + 1)
      BY <2>2, <3>1, <3>2, <3>4 DEF Earlier
    <3> QED BY <3>3, <3>4
  <2>5. IteratorNext(t, p) = r
    <3>1. [p EXCEPT !.nth = n + 1] = r
      BY <1>1, <2>1, PositionFields
    <3> QED BY <1>1, <1>2, <1>3, <3>1 DEF IteratorNext
  <2> HIDE DEF T
  <2> QED BY <2>3, <2>4, <2>5 DEF FirstOf
<1>4. CASE ~(n < l)
  <2>1. IteratorNext(t, p) = FirstAfter(t, i, b)
    BY <1>1, <1>2, <1>4 DEF IteratorNext
  <2>2. ASSUME NEW e \in AllEntries(t) PROVE Earlier(p, e) <=> Behind(e, i, b)
    <3>1. PICK ei, eb, en \in Nat : /\ InTable(t, ei, eb, en)
                                    /\ e.table = ei /\ e.bucket = eb /\ e.nth = en
      BY EntryIs
    <3>2. i = ei /\ b = eb => en <= l
      BY <1>2, <3>1 DEF InTable
    <3> QED BY <1>1, <1>2, <1>4, <3>1, <3>2 DEF Earlier, Behind
  <2>3. T = {e \in AllEntries(t) : Behind(e, i, b)}
    BY <2>2
  <2>4. FirstOf(FirstAfter(t, i, b), {e \in AllEntries(t) : Behind(e, i, b)})
    BY <1>2, FirstAfterIs
  <2> QED BY <2>1, <2>3, <2>4
<1> QED BY <1>3, <1>4

LEMMA PrevIs ==
  ASSUME NEW t, Sound(t), NEW p \in AllEntries(t)
  PROVE  LastOf(IteratorPrev(t, p), {e \in AllEntries(t) : Earlier(e, p)})
<1> DEFINE T == {e \in AllEntries(t) : Earlier(e, p)}
<1> SUFFICES LastOf(IteratorPrev(t, p), T)
  OBVIOUS
<1>1. PICK i, b, n \in Nat : /\ p = Position(i, b, n) /\ InTable(t, i, b, n)
                             /\ p.table = i /\ p.bucket = b /\ p.nth = n /\ n > 0
  BY EntryIs
<1>2. i \in Tables(t) /\ b \in 0..(2^(t.size[i]) - 1)
  BY <1>1 DEF InTable
<1>3. CASE n > 1
  <2>1. PICK r : r = Position(i, b, n - 1)
    OBVIOUS
  <2>2. r \in AllEntries(t) /\ r.table = i /\ r.bucket = b /\ r.nth = n - 1
    <3>1. InTable(t, i, b, n - 1)
      <4>1. n \in 1..Len(t.chains[i][b])
        BY <1>1 DEF InTable
      <4>2. n - 1 \in 1..Len(t.chains[i][b])
        BY <1>3, <4>1
      <4> QED BY <1>2, <4>2 DEF InTable
    <3> QED BY <2>1, <3>1, EntryIs, PositionFields
  <2>3. r \in T
    BY <1>1, <2>2 DEF Earlier
  <2>4. ASSUME NEW e \in T PROVE e = r \/ Earlier(e, r)
    <3>1. PICK ei, eb, en \in Nat : e = Position(ei, eb, en) /\ e.table = ei /\ e.bucket = eb /\ e.nth = en
      BY EntryIs
    <3>2. ei < i \/ (i = ei /\ eb < b) \/ (i = ei /\ b = eb /\ en < n)
      BY <1>1, <3>1 DEF Earlier
    <3>3. CASE i = ei /\ b = eb /\ en = n - 1
      BY <2>1, <3>1, <3>3
    <3>4. CASE ~(i = ei /\ b = eb /\ en = n - 1)
      BY <2>2, <3>1, <3>2, <3>4 DEF Earlier
    <3> QED BY <3>3, <3>4
  <2>5. IteratorPrev(t, p) = r
    <3>1. [p EXCEPT !.nth = n - 1] = r
      BY <1>1, <2>1, PositionFields
    <3> QED BY <1>1, <1>3, <3>1 DEF IteratorPrev
  <2> HIDE DEF T
  <2> QED BY <2>3, <2>4, <2>5 DEF LastOf
<1>4. CASE ~(n > 1)
  <2>1. IteratorPrev(t, p) = LastBefore(t, i, b)
    BY <1>1, <1>4 DEF IteratorPrev
  <2>2. ASSUME NEW e \in AllEntries(t) PROVE Earlier(e, p) <=> Ahead(e, i, b)
    <3>1. PICK ei, eb, en \in Nat : en > 0 /\ e.table = ei /\ e.bucket = eb /\ e.nth = en
      BY EntryIs
    <3> QED BY <1>1, <1>4, <3>1 DEF Earlier, Ahead
  <2>3. T = {e \in AllEntries(t) : Ahead(e, i, b)}
    BY <2>2
  <2>4. LastOf(LastBefore(t, i, b), {e \in AllEntries(t) : Ahead(e, i, b)})
    BY <1>2, LastBeforeIs
  <2> QED BY <2>1, <2>3, <2>4
<1> QED BY <1>3, <1>4

-----------------------------------------------------------------------------
(* The walk.                                                                    *)

UpTo(t, p) == {e \in AllEntries(t) : e = p \/ Earlier(e, p)}

LEMMA NextUpTo ==
  ASSUME NEW t, Sound(t), NEW p \in AllEntries(t), NEW r, r = IteratorNext(t, p)
  PROVE  /\ r = Nowhere => UpTo(t, p) = AllEntries(t)
         /\ r # Nowhere => /\ r \in AllEntries(t) /\ r \notin UpTo(t, p)
                           /\ UpTo(t, r) = UpTo(t, p) \cup {r} /\ IteratorPrev(t, r) = p
<1> DEFINE T == {e \in AllEntries(t) : Earlier(p, e)}
<1>1. FirstOf(r, T)
  BY NextIs
<1>2. CASE r = Nowhere
  <2>1. r \notin T
    BY <1>2, EntryIs
  <2>2. \A e \in AllEntries(t) : ~Earlier(p, e)
    BY <1>1, <2>1 DEF FirstOf
  <2>3. \A e \in AllEntries(t) : e \in UpTo(t, p)
    BY <2>2, Ordered DEF UpTo
  <2> QED BY <1>2, <2>3 DEF UpTo
<1>3. CASE r # Nowhere
  <2>1. r \in AllEntries(t) /\ Earlier(p, r)
        /\ \A e \in AllEntries(t) : Earlier(p, e) => e = r \/ Earlier(r, e)
    BY <1>1, <1>3 DEF FirstOf
  <2>2. r \notin UpTo(t, p)
    BY <2>1, Ordered DEF UpTo
  <2>3. ASSUME NEW e \in AllEntries(t)
        PROVE  Earlier(e, r) <=> (e = p \/ Earlier(e, p))
    <3>1. ASSUME Earlier(e, r) PROVE e = p \/ Earlier(e, p)
      <4>1. ASSUME Earlier(p, e) PROVE FALSE
        <5>1. e = r \/ Earlier(r, e)
          BY <2>1, <4>1
        <5> QED BY <2>1, <3>1, <5>1, Ordered
      <4> QED BY <4>1, Ordered
    <3>2. ASSUME e = p \/ Earlier(e, p) PROVE Earlier(e, r)
      BY <2>1, <3>2, Ordered
    <3> QED BY <3>1, <3>2
  <2>4. UpTo(t, r) = UpTo(t, p) \cup {r}
    BY <2>1, <2>3 DEF UpTo
  <2>5. IteratorPrev(t, r) = p
    <3> DEFINE S == {e \in AllEntries(t) : Earlier(e, r)}
    <3>1. PICK q : q = IteratorPrev(t, r)
      OBVIOUS
    <3>2. LastOf(q, S)
      BY <2>1, <3>1, PrevIs
    <3>3. p \in S
      BY <2>1
    <3>4. q \in AllEntries(t) /\ Earlier(q, r) /\ (p = q \/ Earlier(p, q))
      BY <3>2, <3>3 DEF LastOf
    <3>5. q = p \/ Earlier(q, p)
      BY <2>3, <3>4
    <3> QED BY <3>1, <3>4, <3>5, Ordered
  <2> QED BY <1>3, <2>1, <2>2, <2>4, <2>5
<1> QED BY <1>2, <1>3

Further(t, p) == IF p = Nowhere THEN Nowhere ELSE IteratorNext(t, p)

IsWalk(h, t, N) == h = [n \in 1..N |-> IF n = 1 THEN Reset(t) ELSE Further(t, h[n - 1])]

LEMMA WalkRuns ==
  ASSUME NEW t
  PROVE  \A N \in Nat : \E h : IsWalk(h, t, N)
<1> DEFINE P == {N \in Nat : \E h : IsWalk(h, t, N)}
<1>1. 0 \in P
  <2> DEFINE g == [n \in 1..0 |-> Nowhere]
  <2>1. g = [n \in 1..0 |-> IF n = 1 THEN Reset(t) ELSE Further(t, g[n - 1])]
    OBVIOUS
  <2>2. IsWalk(g, t, 0)
    BY <2>1 DEF IsWalk
  <2> QED BY <2>2
<1>2. ASSUME NEW N \in Nat, N \in P PROVE N + 1 \in P
  <2>1. PICK h : IsWalk(h, t, N)
    BY <1>2
  <2>2. h = [n \in 1..N |-> IF n = 1 THEN Reset(t) ELSE Further(t, h[n - 1])]
    BY <2>1 DEF IsWalk
  <2> DEFINE step(n) == IF n = 1 THEN Reset(t) ELSE Further(t, h[n - 1])
             g == [n \in 1..(N + 1) |-> step(n)]
  <2>3. ASSUME NEW n \in 1..(N + 1), n # 1 PROVE g[n - 1] = h[n - 1]
    <3>1. n - 1 \in 1..N /\ n - 1 \in 1..(N + 1)
      BY <2>3
    <3>2. h[n - 1] = step(n - 1)
      BY <2>2, <3>1, Zenon
    <3>3. g[n - 1] = step(n - 1)
      <4> HIDE DEF step
      <4> QED BY <3>1
    <3> HIDE DEF step, g
    <3> QED BY <3>2, <3>3
  <2>4. \A n \in 1..(N + 1) : step(n) = IF n = 1 THEN Reset(t) ELSE Further(t, g[n - 1])
    <3> HIDE DEF g
    <3> QED BY <2>3
  <2>5. g = [n \in 1..(N + 1) |-> IF n = 1 THEN Reset(t) ELSE Further(t, g[n - 1])]
    <3> HIDE DEF step
    <3> QED BY <2>4
  <2>6. IsWalk(g, t, N + 1)
    <3> HIDE DEF g
    <3> QED BY <2>5 DEF IsWalk
  <2> QED BY <2>6
<1> HIDE DEF P
<1>3. \A N \in Nat : N \in P
  BY <1>1, <1>2, Induct
<1> QED BY <1>3 DEF P

(* The walk comes to every entry, each once and in order. *)
LEMMA WalkIs ==
  ASSUME NEW t, Sound(t), NEW N \in Nat, N > 0,
         IsFiniteSet(AllEntries(t)), Cardinality(AllEntries(t)) = N,
         FirstOf(Reset(t), AllEntries(t)), NEW h, IsWalk(h, t, N + 1)
  PROVE  /\ \A n \in 1..N : h[n] \in AllEntries(t) /\ h[n] # Nowhere
         /\ \A e \in AllEntries(t) : \E n \in 1..N : h[n] = e
         /\ h[N + 1] = Nowhere
         /\ \A n \in 1..N : IteratorPrev(t, h[n]) = IF n = 1 THEN Nowhere ELSE h[n - 1]
<1> DEFINE E == AllEntries(t)
           come(n) == {h[i] : i \in 1..n}
           Q(n) == h[n] \in E /\ UpTo(t, h[n]) = come(n) /\ Cardinality(UpTo(t, h[n])) = n
           P == {n \in Nat : n + 1 <= N => Q(n + 1)}
<1>0. Nowhere \notin E
  BY EntryIs
<1>1. /\ h[1] = Reset(t)
      /\ \A n \in 2..(N + 1) : h[n] = Further(t, h[n - 1])
  <2>1. \A n \in 1..(N + 1) : h[n] = IF n = 1 THEN Reset(t) ELSE Further(t, h[n - 1])
    BY DEF IsWalk
  <2>2. 1 \in 1..(N + 1) /\ \A n \in 2..(N + 1) : n \in 1..(N + 1) /\ n # 1
    OBVIOUS
  <2> QED BY <2>1, <2>2
<1>2. E # {}
  BY FS_EmptySet
<1>3. \A p : IsFiniteSet(UpTo(t, p)) /\ UpTo(t, p) \subseteq E
  <2> SUFFICES ASSUME NEW p PROVE IsFiniteSet(UpTo(t, p)) /\ UpTo(t, p) \subseteq E
    OBVIOUS
  <2>1. UpTo(t, p) \in SUBSET E
    BY DEF UpTo
  <2> QED BY <2>1, FS_Subset
<1>4. h[1] \in E /\ \A e \in E : e = h[1] \/ Earlier(h[1], e)
  BY <1>1, <1>2 DEF FirstOf
<1>5. Q(1)
  <2>1. UpTo(t, h[1]) = {h[1]}
    BY <1>4, Ordered DEF UpTo
  <2>2. come(1) = {h[1]}
    OBVIOUS
  <2>3. Cardinality({h[1]}) = 1
    BY FS_Singleton
  <2> QED BY <1>4, <2>1, <2>2, <2>3
<1>6. ASSUME NEW n \in 1..N, Q(n), n + 1 <= N
      PROVE  /\ Q(n + 1) /\ IteratorPrev(t, h[n + 1]) = h[n]
  <2>1. PICK p, r : p = h[n] /\ r = h[n + 1]
    OBVIOUS
  <2>2. r = IteratorNext(t, p)
    <3>1. n + 1 \in 2..(N + 1) /\ n + 1 - 1 = n
      BY <1>6
    <3>2. p # Nowhere
      BY <1>0, <1>6, <2>1
    <3> QED BY <1>1, <2>1, <3>1, <3>2 DEF Further
  <2>3. p \in E /\ UpTo(t, p) # E
    <3>1. Cardinality(UpTo(t, p)) = n /\ n # N
      BY <1>6, <2>1
    <3> QED BY <1>6, <2>1, <3>1
  <2>4. /\ r \in E /\ r \notin UpTo(t, p) /\ UpTo(t, r) = UpTo(t, p) \cup {r}
        /\ IteratorPrev(t, r) = p
    BY <2>2, <2>3, NextUpTo
  <2>5. Cardinality(UpTo(t, r)) = n + 1
    <3>1. Cardinality(UpTo(t, p) \cup {r}) = Cardinality(UpTo(t, p)) + 1
      BY <1>3, <2>4, FS_AddElement
    <3> QED BY <1>6, <2>1, <2>4, <3>1
  <2>6. come(n + 1) = come(n) \cup {h[n + 1]}
    <3>1. 1..(n + 1) = 1..n \cup {n + 1}
      OBVIOUS
    <3> QED BY <3>1
  <2> HIDE DEF come
  <2> QED BY <1>6, <2>1, <2>4, <2>5, <2>6
<1> HIDE DEF Q
<1>7. \A n \in 1..N : Q(n)
  <2>1. 0 \in P
    BY <1>5
  <2>2. ASSUME NEW n \in Nat, n \in P PROVE n + 1 \in P
    <3>1. SUFFICES ASSUME n + 1 + 1 <= N PROVE Q(n + 1 + 1)
      OBVIOUS
    <3>2. n + 1 \in 1..N /\ n + 1 <= N
      BY <3>1
    <3>3. Q(n + 1)
      BY <2>2, <3>2
    <3> QED BY <1>6, <3>1, <3>2, <3>3
  <2> HIDE DEF P
  <2>3. \A n \in Nat : n \in P
    BY <2>1, <2>2, Induct
  <2>4. ASSUME NEW n \in 1..N PROVE Q(n)
    <3>1. n - 1 \in Nat /\ n - 1 + 1 = n /\ n <= N
      OBVIOUS
    <3>2. n - 1 \in P
      BY <2>3, <3>1
    <3> QED BY <3>1, <3>2 DEF P
  <2> QED BY <2>4
<1>8. UpTo(t, h[N]) = E /\ h[N] \in E
  <2>1. Q(N)
    BY <1>7
  <2>2. Cardinality(UpTo(t, h[N])) = N /\ h[N] \in E
    BY <2>1 DEF Q
  <2>3. UpTo(t, h[N]) \in SUBSET E
    BY <1>3
  <2> QED BY <2>2, <2>3, FS_Subset
<1>9. h[N + 1] = Nowhere
  <2>1. PICK p, r : p = h[N] /\ r = h[N + 1]
    OBVIOUS
  <2>2. r = IteratorNext(t, p)
    <3>1. N + 1 \in 2..(N + 1) /\ N + 1 - 1 = N
      OBVIOUS
    <3>2. p # Nowhere
      BY <1>0, <1>8, <2>1
    <3> QED BY <1>1, <2>1, <3>1, <3>2 DEF Further
  <2> QED BY <1>8, <2>1, <2>2, NextUpTo
<1>10. ASSUME NEW n \in 1..N
       PROVE  IteratorPrev(t, h[n]) = IF n = 1 THEN Nowhere ELSE h[n - 1]
  <2>1. CASE n = 1
    <3> DEFINE S == {e \in E : Earlier(e, h[1])}
    <3>1. LastOf(IteratorPrev(t, h[1]), S)
      BY <1>4, PrevIs
    <3>2. \A e \in E : ~Earlier(e, h[1])
      BY <1>4, Ordered
    <3>3. S = {}
      BY <3>2
    <3> HIDE DEF S
    <3> QED BY <2>1, <3>1, <3>3 DEF LastOf
  <2>2. CASE n # 1
    <3>1. n - 1 \in 1..N /\ n - 1 + 1 = n /\ n - 1 + 1 <= N
      BY <2>2
    <3>2. Q(n - 1)
      BY <1>7, <3>1
    <3>3. IteratorPrev(t, h[n - 1 + 1]) = h[n - 1]
      BY <1>6, <3>1, <3>2
    <3> QED BY <2>2, <3>1, <3>3
  <2> QED BY <2>1, <2>2
<1>11. ASSUME NEW e \in E PROVE \E n \in 1..N : h[n] = e
  <2>1. Q(N)
    BY <1>7
  <2>2. e \in come(N)
    BY <1>8, <2>1 DEF Q
  <2> QED BY <2>2
<1>12. \A n \in 1..N : h[n] \in E /\ h[n] # Nowhere
  BY <1>0, <1>7 DEF Q
<1> QED BY <1>9, <1>10, <1>11, <1>12

(* The entries of a table are where its keys are. *)
LEMMA EntryKeys ==
  ASSUME NEW t, NEW i, NEW K, 2^(t.size[i]) \in Nat \ {0},
         ChainsHold(t.chains[i], 2^(t.size[i]), K)
  PROVE  /\ \A e \in Entries(t, i) : e.table = i /\ t.chains[i][e.bucket][e.nth] \in K
         /\ \A k \in K : \E e \in Entries(t, i) : t.chains[i][e.bucket][e.nth] = k
         /\ t.chains[i] \in [0..(2^(t.size[i]) - 1) -> Seq(Nat)]
<1>1. PICK c, p : c = t.chains[i] /\ p = 2^(t.size[i])
  OBVIOUS
<1>2. ChainsHold(c, p, K) /\ p \in Nat \ {0}
  BY <1>1
<1>3. ASSUME NEW e \in Entries(t, i) PROVE e.table = i /\ c[e.bucket][e.nth] \in K
  <2>1. PICK b \in Buckets(t.size[i]) : \E n \in DOMAIN t.chains[i][b] : e = Position(i, b, n)
    BY DEF Entries
  <2>2. PICK n \in DOMAIN c[b] : e = Position(i, b, n)
    BY <1>1, <2>1
  <2>3. b \in 0..(p - 1)
    BY <1>1 DEF Buckets
  <2>4. e.table = i /\ e.bucket = b /\ e.nth = n
    BY <2>2, PositionFields
  <2>5. c[b][n] \in K
    BY <1>2, <2>3 DEF ChainsHold
  <2> QED BY <2>4, <2>5
<1>4. ASSUME NEW k \in K PROVE \E e \in Entries(t, i) : c[e.bucket][e.nth] = k
  <2>1. k \in Nat /\ k % p \in 0..(p - 1)
    BY <1>2, SlotInside DEF ChainsHold
  <2>2. PICK n \in DOMAIN c[k % p] : c[k % p][n] = k
    BY <1>2 DEF ChainsHold
  <2>3. PICK b : b = k % p
    OBVIOUS
  <2>4. b \in Buckets(t.size[i]) /\ n \in DOMAIN t.chains[i][b]
    BY <1>1, <2>1, <2>2, <2>3 DEF Buckets
  <2>5. Position(i, b, n) \in Entries(t, i)
    BY <2>4 DEF Entries
  <2>6. c[Position(i, b, n).bucket][Position(i, b, n).nth] = k
    BY <2>2, <2>3, PositionFields
  <2> QED BY <2>5, <2>6
<1> QED BY <1>1, <1>2, <1>3, <1>4 DEF ChainsHold

KeyAt(t, p) == t.chains[p.table][p.bucket][p.nth]

(* What the walk needs of a HashTable. *)
Walkable(t, K) ==
    /\ Sound(t) /\ IsFiniteSet(AllEntries(t)) /\ Cardinality(AllEntries(t)) = Cardinality(K)
    /\ \A e \in AllEntries(t) : KeyAt(t, e) \in K
    /\ \A k \in K : \E e \in AllEntries(t) : KeyAt(t, e) = k

LEMMA IsWalkable ==
  ASSUME NEW t, NEW K, IsTable(t, K), t.used[0] > 0
  PROVE  Walkable(t, K)
<1>0. IsFiniteSet(K)
  BY DEF IsTable
<1>1. CASE t = Unsized
  <2>1. t.used[0] = 0
    BY <1>1, StateOf
  <2> QED BY <2>1
<1>2. ASSUME NEW s, NEW c, Resting(t, s, c, K) PROVE Walkable(t, K)
  <2>1. /\ s \in Nat \ {0} /\ ChainsHold(c, 2^s, K) /\ 2^s \in Nat \ {0}
        /\ t = TableOf(s, 0, Cardinality(K), 0, c, NoTable, -1)
    BY <1>2, Powers DEF Resting
  <2>2. t.size[0] = s /\ t.chains[0] = c /\ ~IsReHashing(t)
    BY <1>2, <2>1, TableFields, StateOf
  <2>3. /\ 2^(t.size[0]) \in Nat \ {0} /\ ChainsHold(t.chains[0], 2^(t.size[0]), K)
    BY <2>1, <2>2
  <2>4. Tables(t) = {0}
    BY <2>2 DEF Tables
  <2>5. AllEntries(t) = Entries(t, 0)
    BY <2>4 DEF AllEntries
  <2>6. /\ \A e \in Entries(t, 0) : e.table = 0 /\ t.chains[0][e.bucket][e.nth] \in K
        /\ \A k \in K : \E e \in Entries(t, 0) : t.chains[0][e.bucket][e.nth] = k
        /\ t.chains[0] \in [0..(2^(t.size[0]) - 1) -> Seq(Nat)]
    BY <2>3, EntryKeys
  <2>7. Sound(t)
    BY <2>3, <2>4, <2>6 DEF Sound
  <2>8. IsFiniteSet(Entries(t, 0)) /\ Cardinality(Entries(t, 0)) = Cardinality(K)
    BY <1>0, <2>3, EntriesCounted
  <2>9. \A e \in Entries(t, 0) : KeyAt(t, e) = t.chains[0][e.bucket][e.nth]
    BY <2>6 DEF KeyAt
  <2> QED BY <2>5, <2>6, <2>7, <2>8, <2>9 DEF Walkable
<1>3. ASSUME NEW s0, NEW s1, NEW c0, NEW c1, NEW x, NEW K0, NEW K1, K = K0 \cup K1,
             Moving(t, s0, s1, c0, c1, x, K0, K1)
      PROVE  Walkable(t, K)
  <2>1. /\ s0 \in Nat \ {0} /\ s1 \in Nat \ {0} /\ IsReHashing(t)
        /\ 2^s0 \in Nat \ {0} /\ 2^s1 \in Nat \ {0}
        /\ ChainsHold(c0, 2^s0, K0) /\ ChainsHold(c1, 2^s1, K1) /\ K0 \cap K1 = {}
        /\ t = TableOf(s0, s1, Cardinality(K0), Cardinality(K1), c0, c1, x)
    BY <1>3, StateOf, Powers DEF Moving
  <2>2. /\ t.size[0] = s0 /\ t.chains[0] = c0 /\ t.size[1] = s1 /\ t.chains[1] = c1
    BY <2>1, TableFields
  <2>3. /\ 2^(t.size[0]) \in Nat \ {0} /\ ChainsHold(t.chains[0], 2^(t.size[0]), K0)
        /\ 2^(t.size[1]) \in Nat \ {0} /\ ChainsHold(t.chains[1], 2^(t.size[1]), K1)
    BY <2>1, <2>2
  <2>4. Tables(t) = {0, 1}
    BY <2>1 DEF Tables
  <2>5. AllEntries(t) = Entries(t, 0) \cup Entries(t, 1)
    BY <2>4 DEF AllEntries
  <2>6. /\ \A e \in Entries(t, 0) : e.table = 0 /\ t.chains[0][e.bucket][e.nth] \in K0
        /\ \A k \in K0 : \E e \in Entries(t, 0) : t.chains[0][e.bucket][e.nth] = k
        /\ t.chains[0] \in [0..(2^(t.size[0]) - 1) -> Seq(Nat)]
    BY <2>3, EntryKeys
  <2>7. /\ \A e \in Entries(t, 1) : e.table = 1 /\ t.chains[1][e.bucket][e.nth] \in K1
        /\ \A k \in K1 : \E e \in Entries(t, 1) : t.chains[1][e.bucket][e.nth] = k
        /\ t.chains[1] \in [0..(2^(t.size[1]) - 1) -> Seq(Nat)]
    BY <2>3, EntryKeys
  <2>8. Sound(t)
    BY <2>3, <2>4, <2>6, <2>7 DEF Sound
  <2>9. /\ IsFiniteSet(K0) /\ IsFiniteSet(K1) /\ Cardinality(K0) \in Nat /\ Cardinality(K1) \in Nat
        /\ Cardinality(K) = Cardinality(K0) + Cardinality(K1)
    BY <1>0, <1>3, <2>1, Finites
  <2>10. /\ IsFiniteSet(Entries(t, 0)) /\ Cardinality(Entries(t, 0)) = Cardinality(K0)
         /\ IsFiniteSet(Entries(t, 1)) /\ Cardinality(Entries(t, 1)) = Cardinality(K1)
    BY <2>3, <2>9, EntriesCounted
  <2>11. Entries(t, 0) \cap Entries(t, 1) = {}
    BY <2>6, <2>7
  <2>12. /\ IsFiniteSet(AllEntries(t)) /\ Cardinality(AllEntries(t)) = Cardinality(K)
    <3>1. IsFiniteSet(AllEntries(t))
      BY <2>5, <2>10, FS_Union
    <3>2. Cardinality(AllEntries(t)) = Cardinality(Entries(t, 0)) + Cardinality(Entries(t, 1))
      BY <2>5, <2>11, <3>1, Finites
    <3> QED BY <2>9, <2>10, <3>1, <3>2
  <2>13. /\ \A e \in Entries(t, 0) : KeyAt(t, e) = t.chains[0][e.bucket][e.nth]
         /\ \A e \in Entries(t, 1) : KeyAt(t, e) = t.chains[1][e.bucket][e.nth]
    BY <2>6, <2>7 DEF KeyAt
  <2>14. \A e \in AllEntries(t) : KeyAt(t, e) \in K
    BY <1>3, <2>5, <2>6, <2>7, <2>13
  <2>15. ASSUME NEW k \in K PROVE \E e \in AllEntries(t) : KeyAt(t, e) = k
    <3>1. CASE k \in K0
      BY <2>5, <2>6, <2>13, <3>1
    <3>2. CASE k \in K1
      BY <2>5, <2>7, <2>13, <3>2
    <3> QED BY <1>3, <3>1, <3>2
  <2> QED BY <2>8, <2>12, <2>14, <2>15 DEF Walkable
<1> QED BY <1>1, <1>2, <1>3, Zenon DEF IsTable, Sized

LEMMA EmptyUnused ==
  ASSUME NEW t, IsTable(t, {})
  PROVE  t.used[0] = 0
<1>0. Cardinality({}) = 0
  BY FS_EmptySet
<1>1. CASE t = Unsized
  BY <1>1, StateOf
<1>2. ASSUME NEW s, NEW c, Resting(t, s, c, {}) PROVE t.used[0] = 0
  BY <1>0, <1>2, TableFields DEF Resting
<1>3. ASSUME NEW s0, NEW s1, NEW c0, NEW c1, NEW x, NEW K0, NEW K1, {} = K0 \cup K1,
             Moving(t, s0, s1, c0, c1, x, K0, K1)
      PROVE  t.used[0] = 0
  <2>1. K0 = {}
    BY <1>3
  <2> QED BY <1>0, <1>3, <2>1, TableFields DEF Moving
<1> QED BY <1>1, <1>2, <1>3, Zenon DEF IsTable, Sized

LEMMA ResetIs ==
  ASSUME NEW t, Sound(t), t.used[0] > 0
  PROVE  FirstOf(Reset(t), AllEntries(t))
<1>1. Reset(t) = FirstAfter(t, 0, -1)
  BY DEF Reset
<1>2. \A e \in AllEntries(t) : Behind(e, 0, -1)
  <2> SUFFICES ASSUME NEW e \in AllEntries(t) PROVE Behind(e, 0, -1)
    OBVIOUS
  <2>1. PICK i, b \in Nat : e.table = i /\ e.bucket = b
    BY EntryIs
  <2>2. i > 0 \/ (i = 0 /\ b > -1)
    OBVIOUS
  <2> QED BY <2>1, <2>2 DEF Behind
<1>3. {e \in AllEntries(t) : Behind(e, 0, -1)} = AllEntries(t)
  BY <1>2
<1>4. FirstOf(FirstAfter(t, 0, -1), {e \in AllEntries(t) : Behind(e, 0, -1)})
  <2>1. 0 \in Tables(t) /\ -1 \in Int
    BY TablesAre
  <2> QED BY <2>1, FirstAfterIs
<1> QED BY <1>1, <1>3, <1>4

LEMMA HashInvIterates ==
  HashInv => IterationComplete
<1> DEFINE total == Cardinality(present)
           K == present
           step(h, n) == IF n = 1 THEN Reset(table)
                         ELSE IF h[n - 1] = Nowhere THEN Nowhere ELSE IteratorNext(table, h[n - 1])
           walk == CHOOSE h : h = [n \in 1..(total + 1) |-> step(h, n)]
<1> SUFFICES ASSUME HashInv, table.used[0] > 0
             PROVE  /\ \A n \in 1..total : walk[n] # Nowhere
                    /\ {KeyAt(table, walk[n]) : n \in 1..total} = present
                    /\ walk[total + 1] = Nowhere
                    /\ \A n \in 1..total :
                          IteratorPrev(table, walk[n]) = IF n = 1 THEN Nowhere ELSE walk[n - 1]
  BY DEF IterationComplete, KeyAt
<1>1. IsTable(table, K) /\ IsFiniteSet(K)
  BY DEF HashInv, IsTable
<1>2. Walkable(table, K)
  BY <1>1, IsWalkable
<1>3. /\ Sound(table) /\ IsFiniteSet(AllEntries(table)) /\ Cardinality(AllEntries(table)) = total
      /\ \A e \in AllEntries(table) : KeyAt(table, e) \in K
      /\ \A k \in K : \E e \in AllEntries(table) : KeyAt(table, e) = k
  BY <1>2 DEF Walkable
<1>4. FirstOf(Reset(table), AllEntries(table))
  BY <1>3, ResetIs
<1>5. total \in Nat
  BY <1>1, FS_CardinalityType
<1>6. \A h : IsWalk(h, table, total + 1) <=> h = [n \in 1..(total + 1) |-> step(h, n)]
  BY DEF IsWalk, Further
<1>7. IsWalk(walk, table, total + 1)
  <2>1. total + 1 \in Nat
    BY <1>5
  <2>2. \E h : IsWalk(h, table, total + 1)
    BY <2>1, WalkRuns
  <2> HIDE DEF step
  <2>3. \E h : h = [n \in 1..(total + 1) |-> step(h, n)]
    BY <1>6, <2>2
  <2>4. walk = [n \in 1..(total + 1) |-> step(walk, n)]
    BY <2>3, Zenon
  <2> HIDE DEF walk
  <2> QED BY <1>6, <2>4
<1> HIDE DEF walk, step
<1>8. total > 0
  <2>1. ASSUME total = 0 PROVE FALSE
    <3>1. K = {}
      BY <1>1, <2>1, FS_EmptySet
    <3>2. table.used[0] = 0
      BY <1>1, <3>1, EmptyUnused
    <3> QED BY <3>2
  <2> QED BY <1>5, <2>1
<1>9. /\ \A n \in 1..total : walk[n] \in AllEntries(table) /\ walk[n] # Nowhere
      /\ \A e \in AllEntries(table) : \E n \in 1..total : walk[n] = e
      /\ walk[total + 1] = Nowhere
      /\ \A n \in 1..total : IteratorPrev(table, walk[n]) = IF n = 1 THEN Nowhere ELSE walk[n - 1]
  BY <1>3, <1>4, <1>5, <1>7, <1>8, WalkIs
<1>10. {KeyAt(table, walk[n]) : n \in 1..total} = K
  <2>1. \A n \in 1..total : KeyAt(table, walk[n]) \in K
    BY <1>3, <1>9
  <2>2. ASSUME NEW k \in K PROVE \E n \in 1..total : KeyAt(table, walk[n]) = k
    <3>1. PICK e \in AllEntries(table) : KeyAt(table, e) = k
      BY <1>3
    <3>2. PICK n \in 1..total : walk[n] = e
      BY <1>9
    <3> QED BY <3>1, <3>2
  <2> QED BY <2>1, <2>2
<1> QED BY <1>9, <1>10

(* An iterator over a table that is left alone meets every entry once, forwards and
   backwards, while a bucket of the first table is in use. *)
THEOREM HashTableIterates == Spec => []IterationComplete
<1>1. Init => HashInv
  BY HashInvInit
<1>2. HashInv /\ [Next]_vars => HashInv'
  BY HashInvNext
<1>3. HashInv => IterationComplete
  BY HashInvIterates
<1> QED BY <1>1, <1>2, <1>3, PTL DEF Spec

=============================================================================
