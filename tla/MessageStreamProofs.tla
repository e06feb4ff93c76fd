------------------------ MODULE MessageStreamProofs ------------------------
(***************************************************************************)
(* Proofs about the operators of RingBuffer: for every capacity, position  *)
(* and content the buffer is a FIFO, and it grows enough.  Proofs about    *)
(* module MessageStream, as the specification of Containers runs it: for   *)
(* every length of message, header and buffer, and every way of cutting    *)
(* the stream, the receiver is handed the messages in order and whole, and *)
(* readv stays inside the array as long as the sender waits.               *)
(***************************************************************************)
EXTENDS Containers, FiniteSetTheorems, SequenceTheorems, WellFoundedInduction, TLAPS

-----------------------------------------------------------------------------
(* RingBuffer.                                                                  *)

(* A value of the class, with cells in S. *)
IsRing(r, S) ==
    /\ r = Ring(r.cells, r.capacity, r.begin, r.end, r.size)
    /\ r.cells \in [0..(r.capacity - 1) -> S]
    /\ RingOK(r)

(* Where the i-th cell of the content lies. *)
Place(r, i) == IF r.begin + i - 1 < r.capacity THEN r.begin + i - 1
                                               ELSE r.begin + i - 1 - r.capacity

-----------------------------------------------------------------------------

(* What RingOK says, in numbers. *)
LEMMA RingFacts ==
  ASSUME NEW S, NEW r, IsRing(r, S)
  PROVE  /\ r.capacity \in Nat /\ r.begin \in Nat /\ r.end \in Nat /\ r.size \in Nat
         /\ r.capacity > 0 /\ r.begin < r.capacity /\ r.end <= r.capacity /\ r.size <= r.capacity
         /\ r.begin < r.end => r.size = r.end - r.begin
         /\ ~(r.begin < r.end) /\ r.size # 0 => r.size = r.capacity - r.begin + r.end
         /\ r.size = 0 => r.begin = 0 /\ r.end = 0
<1>1. RingOK(r)
  BY DEF IsRing
<1>2. /\ r.capacity \in Nat /\ r.begin \in Nat /\ r.end \in Nat /\ r.size \in Nat
      /\ r.capacity > 0 /\ r.begin < r.capacity /\ r.end <= r.capacity /\ r.size <= r.capacity
  BY <1>1 DEF RingOK
<1> QED BY <1>1, <1>2 DEF RingOK, Empty

LEMMA RingCells ==
  ASSUME NEW S, NEW r, IsRing(r, S)
  PROVE  r.cells \in [0..(r.capacity - 1) -> S]
BY DEF IsRing

LEMMA RingIs ==
  ASSUME NEW S, NEW capacity \in Nat \ {0}, NEW cells \in [0..(capacity - 1) -> S],
         NEW begin \in Nat, begin < capacity, NEW end \in Nat, end <= capacity,
         NEW size \in Nat, size <= capacity,
         begin < end => size = end - begin,
         ~(begin < end) /\ size # 0 => size = capacity - begin + end,
         size = 0 => begin = 0 /\ end = 0
  PROVE  IsRing(Ring(cells, capacity, begin, end, size), S)
BY DEF IsRing, Ring, RingOK, Empty

LEMMA LeastIs ==
  ASSUME NEW a \in Nat, NEW b \in Nat
  PROVE  Least(a, b) \in Nat /\ Least(a, b) <= a /\ Least(a, b) <= b
         /\ (Least(a, b) = a \/ Least(a, b) = b)
BY DEF Least

LEMMA PlaceInside ==
  ASSUME NEW S, NEW r, IsRing(r, S), NEW i \in 1..r.size
  PROVE  Place(r, i) \in 0..(r.capacity - 1)
BY RingFacts DEF Place

(* A run of places that goes on at cell 0 is read in two pieces. *)
LEMMA TwoPieces ==
  ASSUME NEW S, NEW r, IsRing(r, S), NEW n \in 0..r.size, NEW tail \in 0..n,
         tail > 0 => r.begin + tail <= r.capacity,
         tail < n => r.begin + tail = r.capacity
  PROVE  LET s == Cells(r, r.begin, tail) \o Cells(r, 0, n - tail)
         IN  /\ s \in Seq(S) /\ Len(s) = n
             /\ \A i \in 1..n : s[i] = r.cells[Place(r, i)]
<1> DEFINE a == Cells(r, r.begin, tail)
           b == Cells(r, 0, n - tail)
<1>0. n \in Nat /\ tail \in Nat /\ tail <= n /\ n - tail \in Nat /\ n <= r.size
  BY RingFacts
<1>1. \A i \in 1..tail : r.begin + i - 1 \in 0..(r.capacity - 1) /\ Place(r, i) = r.begin + i - 1
  BY <1>0, RingFacts DEF Place
<1>2. \A i \in 1..(n - tail) : 0 + i - 1 \in 0..(r.capacity - 1) /\ Place(r, tail + i) = 0 + i - 1
  BY <1>0, RingFacts DEF Place
<1>3. a \in Seq(S) /\ Len(a) = tail /\ \A i \in 1..tail : a[i] = r.cells[r.begin + i - 1]
  <2>1. \A i \in 1..tail : r.cells[r.begin + i - 1] \in S
    BY <1>1, RingCells
  <2>2. a = [i \in 1..tail |-> r.cells[r.begin + i - 1]]
    BY DEF Cells
  <2> HIDE DEF a
  <2>3. a \in [1..tail -> S]
    BY <2>1, <2>2
  <2>4. a \in Seq(S) /\ Len(a) = tail
    BY <1>0, <2>3
  <2> QED BY <2>2, <2>4
<1>4. b \in Seq(S) /\ Len(b) = n - tail /\ \A i \in 1..(n - tail) : b[i] = r.cells[0 + i - 1]
  <2>1. \A i \in 1..(n - tail) : r.cells[0 + i - 1] \in S
    BY <1>2, RingCells
  <2>2. b = [i \in 1..(n - tail) |-> r.cells[0 + i - 1]]
    BY DEF Cells
  <2> HIDE DEF b
  <2>3. b \in [1..(n - tail) -> S]
    BY <2>1, <2>2
  <2>4. b \in Seq(S) /\ Len(b) = n - tail
    BY <1>0, <2>3
  <2> QED BY <2>2, <2>4
<1> HIDE DEF a, b
<1>c. /\ a \o b \in Seq(S) /\ Len(a \o b) = Len(a) + Len(b)
      /\ \A i \in 1 .. Len(a) + Len(b) :
            (a \o b)[i] = IF i <= Len(a) THEN a[i] ELSE b[i - Len(a)]
  <2>1. a \in Seq(S) /\ b \in Seq(S)
    BY <1>3, <1>4
  <2> QED BY <2>1, ConcatProperties
<1>5. a \o b \in Seq(S) /\ Len(a \o b) = n
  BY <1>0, <1>3, <1>4, <1>c
<1>6. \A i \in 1..n : (a \o b)[i] = IF i <= tail THEN a[i] ELSE b[i - tail]
  BY <1>0, <1>3, <1>4, <1>c
<1>7. ASSUME NEW i \in 1..n PROVE (a \o b)[i] = r.cells[Place(r, i)]
  <2>1. CASE i <= tail
    BY <1>0, <1>1, <1>3, <1>6, <2>1
  <2>2. CASE ~(i <= tail)
    <3>1. i - tail \in 1..(n - tail) /\ tail + (i - tail) = i
      BY <1>0, <2>2
    <3>2. (a \o b)[i] = b[i - tail]
      BY <1>6, <2>2
    <3>3. Place(r, tail + (i - tail)) = 0 + (i - tail) - 1
      BY <1>2, <3>1
    <3> QED BY <1>4, <3>1, <3>2, <3>3
  <2> QED BY <2>1, <2>2
<1> QED BY <1>5, <1>7 DEF a, b

(* Peek returns the first cells of the content. *)
LEMMA PeekIs ==
  ASSUME NEW S, NEW r, IsRing(r, S), NEW len \in Nat
  PROVE  /\ Peek(r, len) \in Seq(S) /\ Len(Peek(r, len)) = Least(len, r.size)
         /\ \A i \in 1..Least(len, r.size) : Peek(r, len)[i] = r.cells[Place(r, i)]
<1> DEFINE n == Least(len, r.size)
           tail == Least(TailContent(r), n)
<1>0. n \in 0..r.size /\ n \in Nat
  BY RingFacts, LeastIs
<1>1. CASE r.begin < r.end
  <2>1. Peek(r, len) = Cells(r, r.begin, n)
    BY <1>1 DEF Peek
  <2>2. \A i \in 1..n : r.begin + i - 1 \in 0..(r.capacity - 1) /\ Place(r, i) = r.begin + i - 1
    BY <1>0, <1>1, RingFacts DEF Place
  <2>3. \A i \in 1..n : r.cells[r.begin + i - 1] \in S
    BY <2>2, RingCells
  <2> HIDE DEF n
  <2>4. Peek(r, len) = [i \in 1..n |-> r.cells[r.begin + i - 1]]
    BY <2>1 DEF Cells
  <2>5. Peek(r, len) \in [1..n -> S]
    BY <2>3, <2>4
  <2>6. Peek(r, len) \in Seq(S) /\ Len(Peek(r, len)) = n
    BY <1>0, <2>5
  <2>7. \A i \in 1..n : Peek(r, len)[i] = r.cells[Place(r, i)]
    BY <2>2, <2>4
  <2> QED BY <2>6, <2>7 DEF n
<1>2. CASE ~(r.begin < r.end)
  <2>1. Peek(r, len) = Cells(r, r.begin, tail) \o Cells(r, 0, n - tail)
    BY <1>2 DEF Peek
  <2>2. /\ tail \in 0..n
        /\ tail > 0 => r.begin + tail <= r.capacity
        /\ tail < n => r.begin + tail = r.capacity
    <3> HIDE DEF n
    <3> QED BY <1>0, <1>2, RingFacts DEF Least, TailContent, Empty
  <2> HIDE DEF n, tail
  <2>3. LET s == Cells(r, r.begin, tail) \o Cells(r, 0, n - tail)
        IN  /\ s \in Seq(S) /\ Len(s) = n
            /\ \A i \in 1..n : s[i] = r.cells[Place(r, i)]
    BY <1>0, <2>2, TwoPieces
  <2> QED BY <2>1, <2>3 DEF n
<1> QED BY <1>1, <1>2

LEMMA ContentIs ==
  ASSUME NEW S, NEW r, IsRing(r, S)
  PROVE  /\ Content(r) \in Seq(S) /\ Len(Content(r)) = r.size
         /\ \A i \in 1..r.size : Content(r)[i] = r.cells[Place(r, i)]
<1>1. r.size \in Nat /\ Least(r.size, r.size) = r.size
  BY RingFacts DEF Least
<1> QED BY <1>1, PeekIs DEF Content

LEMMA PeekIsFront ==
  ASSUME NEW S, NEW r, IsRing(r, S), NEW len \in Nat
  PROVE  /\ Len(Peek(r, len)) = Least(len, r.size)
         /\ Peek(r, len) = SubSeq(Content(r), 1, Least(len, r.size))
<1> DEFINE n == Least(len, r.size)
<1>1. n \in Nat /\ n <= r.size /\ r.size \in Nat
  BY RingFacts, LeastIs
<1>2. Peek(r, len) \in Seq(S) /\ Len(Peek(r, len)) = n
  BY PeekIs
<1>3. \A i \in 1..n : Peek(r, len)[i] = Content(r)[i]
  <2>1. \A i \in 1..n : Peek(r, len)[i] = r.cells[Place(r, i)]
    BY PeekIs
  <2>2. \A i \in 1..r.size : Content(r)[i] = r.cells[Place(r, i)]
    BY ContentIs
  <2> HIDE DEF n
  <2> QED BY <1>1, <2>1, <2>2
<1> HIDE DEF n
<1>4. \A i \in 1..n : Content(r)[i] \in S
  BY <1>1, ContentIs
<1>5. /\ SubSeq(Content(r), 1, n) \in Seq(S) /\ Len(SubSeq(Content(r), 1, n)) = n
      /\ \A i \in 1..n : SubSeq(Content(r), 1, n)[i] = Content(r)[i]
  BY <1>1, <1>4, SubSeqProperties
<1>6. Peek(r, len) = SubSeq(Content(r), 1, n)
  BY <1>1, <1>2, <1>3, <1>5, SeqEqual
<1> QED BY <1>2, <1>6 DEF n

(* The vectors that FlushDataToFd gives to writev are the content (RingBuffer.cpp:189-213). *)
THEOREM FlushedIsContent ==
  ASSUME NEW S, NEW r, IsRing(r, S)
  PROVE  Flushed(r) = Content(r)
<1>1. r.size \in Nat /\ Least(r.size, r.size) = r.size
  BY RingFacts DEF Least
<1>2. CASE TailContent(r) > 0
  <2>1. ~(r.begin < r.end) /\ Least(TailContent(r), r.size) = TailContent(r)
    BY <1>2, RingFacts DEF TailContent, Least, Empty
  <2> QED BY <1>1, <1>2, <2>1 DEF Flushed, Content, Peek
<1>3. CASE ~(TailContent(r) > 0)
  <2>1. CASE r.begin < r.end
    BY <1>1, <1>3, <2>1 DEF Flushed, Content, Peek
  <2>2. CASE ~(r.begin < r.end)
    <3>1. r.size = 0
      BY <1>3, <2>2, RingFacts DEF TailContent, Empty
    <3>2. Content(r) = <<>>
      BY <3>1, ContentIs, EmptySeq
    <3>3. Flushed(r) = Cells(r, r.begin, 0)
      BY <1>3, <3>1 DEF Flushed
    <3>4. Cells(r, r.begin, 0) = <<>>
      BY DEF Cells
    <3> QED BY <3>2, <3>3, <3>4
  <2> QED BY <2>1, <2>2
<1> QED BY <1>2, <1>3
(* Sequences are equal when their lengths and their elements are. *)
LEMMA ContentEquals ==
  ASSUME NEW S, NEW r, IsRing(r, S), NEW s \in Seq(S), Len(s) = r.size,
         \A i \in 1..r.size : r.cells[Place(r, i)] = s[i]
  PROVE  Content(r) = s
<1>1. Content(r) \in Seq(S) /\ Len(Content(r)) = Len(s)
  BY ContentIs
<1>2. \A i \in 1..Len(Content(r)) : Content(r)[i] = s[i]
  BY ContentIs
<1> QED BY <1>1, <1>2, SeqEqual

LEMMA WrapIs ==
  ASSUME NEW c \in Nat \ {0}, NEW a \in Nat, a < 2 * c
  PROVE  a % c = IF a < c THEN a ELSE a - c
<1>1. CASE a < c
  BY <1>1
<1>2. CASE ~(a < c)
  BY <1>2
<1> QED BY <1>1, <1>2

-----------------------------------------------------------------------------

(* Reading takes the cells that Peek returned off the front and no other, whether
   m_begin_ wraps or the buffer becomes empty (RingBuffer.cpp:14-61, 99-108). *)
THEOREM ReadingTakesTheFront ==
  ASSUME NEW S, NEW r, IsRing(r, S), NEW len \in Nat
  PROVE  LET n == Least(len, r.size)
             rest == AfterReading(r, len)
         IN  /\ IsRing(rest, S) /\ rest.size = r.size - n /\ rest.capacity = r.capacity
             /\ Peek(r, len) = SubSeq(Content(r), 1, n)
             /\ Content(rest) = SubSeq(Content(r), n + 1, r.size)
<1> DEFINE n == Least(len, r.size)
           rest == AfterReading(r, len)
<1>f. /\ r.capacity \in Nat /\ r.begin \in Nat /\ r.end \in Nat /\ r.size \in Nat
      /\ r.capacity > 0 /\ r.begin < r.capacity /\ r.end <= r.capacity /\ r.size <= r.capacity
      /\ r.begin < r.end => r.size = r.end - r.begin
      /\ ~(r.begin < r.end) /\ r.size # 0 => r.size = r.capacity - r.begin + r.end
      /\ r.size = 0 => r.begin = 0 /\ r.end = 0
  BY RingFacts
<1>0. n \in Nat /\ n <= r.size /\ r.size \in Nat
  BY <1>f, LeastIs
<1>1. Peek(r, len) = SubSeq(Content(r), 1, n)
  BY PeekIsFront
<1>r. rest = AfterRead(r, n)
  BY DEF AfterReading
<1> HIDE DEF n, rest
<1>2. /\ SubSeq(Content(r), n + 1, r.size) \in Seq(S)
      /\ Len(SubSeq(Content(r), n + 1, r.size)) = r.size - n
      /\ \A i \in 1..(r.size - n) :
            SubSeq(Content(r), n + 1, r.size)[i] = Content(r)[n + i]
  <2>1. n + 1 \in Int /\ r.size \in Int
    BY <1>0
  <2>2. \A i \in (n + 1)..r.size : Content(r)[i] \in S
    <3>1. \A i \in 1..r.size : Content(r)[i] \in S
      BY ContentIs, ElementOfSeq
    <3> QED BY <1>0, <3>1
  <2>3. /\ SubSeq(Content(r), n + 1, r.size) \in Seq(S)
        /\ Len(SubSeq(Content(r), n + 1, r.size)) =
              IF n + 1 <= r.size THEN r.size - (n + 1) + 1 ELSE 0
        /\ \A i \in 1 .. r.size - (n + 1) + 1 :
              SubSeq(Content(r), n + 1, r.size)[i] = Content(r)[(n + 1) + i - 1]
    BY <2>1, <2>2, SubSeqProperties
  <2> QED BY <1>0, <2>3
<1>3. CASE n = r.size
  <2>1. rest = Ring(r.cells, r.capacity, 0, 0, 0)
    BY <1>r, <1>3 DEF AfterRead, IsRing, Ring
  <2>2. IsRing(rest, S)
    <3>1. /\ r.capacity \in Nat \ {0} /\ r.cells \in [0..(r.capacity - 1) -> S]
          /\ 0 \in Nat /\ 0 < r.capacity /\ 0 <= r.capacity
      BY <1>f, RingCells
    <3> QED BY <2>1, <3>1, RingIs
  <2>3. rest.size = r.size - n /\ rest.capacity = r.capacity /\ rest.size = 0
    BY <1>0, <1>3, <2>1 DEF Ring
  <2>4. Content(rest) = SubSeq(Content(r), n + 1, r.size)
    <3>1. /\ Len(SubSeq(Content(r), n + 1, r.size)) = rest.size
          /\ \A i \in 1..rest.size : rest.cells[Place(rest, i)] = SubSeq(Content(r), n + 1, r.size)[i]
      BY <1>0, <1>2, <2>3
    <3> QED BY <1>2, <2>2, <3>1, ContentEquals
  <2> QED BY <1>1, <2>2, <2>3, <2>4 DEF n, rest
<1>4. CASE n # r.size
  <2> DEFINE begin == (r.begin + n) % r.capacity
  <2>1. begin = IF r.begin + n < r.capacity THEN r.begin + n ELSE r.begin + n - r.capacity
    <3>1. r.begin + n < 2 * r.capacity /\ r.begin + n \in Nat
      BY <1>0, <1>f
    <3>2. r.capacity \in Nat \ {0}
      BY <1>f
    <3> HIDE DEF begin
    <3>3. (r.begin + n) % r.capacity = IF r.begin + n < r.capacity THEN r.begin + n
                                       ELSE (r.begin + n) - r.capacity
      BY <3>1, <3>2, WrapIs
    <3> QED BY <3>1, <3>2, <3>3, <1>0, <1>f DEF begin
  <2>2. rest = Ring(r.cells, r.capacity, begin, r.end, r.size - n)
    BY <1>r, <1>4 DEF AfterRead, IsRing, Ring
  <2> HIDE DEF begin
  <2>3. /\ begin \in Nat /\ begin < r.capacity
        /\ r.size - n \in Nat /\ r.size - n <= r.capacity /\ r.size - n # 0
        /\ begin < r.end => r.size - n = r.end - begin
        /\ ~(begin < r.end) => r.size - n = r.capacity - begin + r.end
    <3>1. r.size - n \in Nat /\ r.size - n <= r.capacity /\ r.size - n # 0
      BY <1>0, <1>4, <1>f
    <3>2. CASE r.begin + n < r.capacity
      BY <1>0, <1>4, <2>1, <1>f, <3>1, <3>2
    <3>3. CASE ~(r.begin + n < r.capacity)
      BY <1>0, <1>4, <2>1, <1>f, <3>1, <3>3
    <3> QED BY <3>2, <3>3
  <2>4. IsRing(rest, S)
    <3>1. /\ r.capacity \in Nat \ {0} /\ r.cells \in [0..(r.capacity - 1) -> S]
          /\ r.end \in Nat /\ r.end <= r.capacity
      BY <1>f, RingCells
    <3> QED BY <2>2, <2>3, <3>1, RingIs
  <2>5. rest.cells = r.cells /\ rest.size = r.size - n /\ rest.capacity = r.capacity /\ rest.begin = begin
    BY <2>2 DEF Ring
  <2>6. \A i \in 1..(r.size - n) : Place(rest, i) = Place(r, n + i)
    <3> SUFFICES ASSUME NEW i \in 1..(r.size - n) PROVE Place(rest, i) = Place(r, n + i)
      OBVIOUS
    <3>1. i \in Nat /\ i >= 1 /\ i <= r.size - n
      BY <1>0
    <3>2. Place(rest, i) = IF begin + i - 1 < r.capacity THEN begin + i - 1
                           ELSE begin + i - 1 - r.capacity
      BY <2>5 DEF Place
    <3>3. Place(r, n + i) = IF r.begin + (n + i) - 1 < r.capacity THEN r.begin + (n + i) - 1
                            ELSE r.begin + (n + i) - 1 - r.capacity
      BY DEF Place
    <3> QED BY <1>0, <2>1, <1>f, <3>1, <3>2, <3>3
  <2>7. \A i \in 1..(r.size - n) : n + i \in 1..r.size
    BY <1>0
  <2>8. \A i \in 1..(r.size - n) : r.cells[Place(r, n + i)] = Content(r)[n + i]
    BY <2>7, ContentIs
  <2>9. Content(rest) = SubSeq(Content(r), n + 1, r.size)
    BY <1>2, <2>4, <2>5, <2>6, <2>8, ContentEquals
  <2> QED BY <1>1, <2>4, <2>5, <2>9 DEF n, rest
<1> QED BY <1>3, <1>4

-----------------------------------------------------------------------------

(* Where the next cell lies, in the pieces that follow the content: first cells behind the
   end, and the others from cell 0. *)
LEMMA FreePlaces ==
  ASSUME NEW S, NEW r, IsRing(r, S), NEW n \in Nat, NEW first \in 0..n,
         r.size + n <= r.capacity, r.end + first <= r.capacity,
         first < n => r.end + first = r.capacity /\ r.begin < r.end
  PROVE  /\ \A j \in 1..first : Place(r, r.size + j) = r.end + j - 1
         /\ \A j \in (first + 1)..n : Place(r, r.size + j) = j - first - 1
         /\ \A i \in 1..r.size : /\ Place(r, i) \notin r.end..(r.end + first - 1)
                                 /\ Place(r, i) \notin 0..(n - first - 1)
<1>f. /\ r.capacity \in Nat /\ r.begin \in Nat /\ r.end \in Nat /\ r.size \in Nat
      /\ r.capacity > 0 /\ r.begin < r.capacity /\ r.end <= r.capacity /\ r.size <= r.capacity
      /\ r.begin < r.end => r.size = r.end - r.begin
      /\ ~(r.begin < r.end) /\ r.size # 0 => r.size = r.capacity - r.begin + r.end
      /\ r.size = 0 => r.begin = 0 /\ r.end = 0
  BY RingFacts
<1>0. first \in Nat /\ first <= n
  OBVIOUS
<1>1. ASSUME NEW j \in 1..first PROVE Place(r, r.size + j) = r.end + j - 1
  <2>1. Place(r, r.size + j) = IF r.begin + (r.size + j) - 1 < r.capacity
                               THEN r.begin + (r.size + j) - 1
                               ELSE r.begin + (r.size + j) - 1 - r.capacity
    BY DEF Place
  <2>2. j \in Nat /\ j >= 1 /\ j <= first
    BY <1>0
  <2>3. CASE r.begin < r.end
    BY <1>f, <1>0, <2>1, <2>2, <2>3
  <2>4. CASE ~(r.begin < r.end) /\ r.size # 0
    BY <1>f, <1>0, <2>1, <2>2, <2>4
  <2>5. CASE r.size = 0
    BY <1>f, <1>0, <2>1, <2>2, <2>5
  <2> QED BY <2>3, <2>4, <2>5
<1>2. ASSUME NEW j \in (first + 1)..n PROVE Place(r, r.size + j) = j - first - 1
  <2>1. Place(r, r.size + j) = IF r.begin + (r.size + j) - 1 < r.capacity
                               THEN r.begin + (r.size + j) - 1
                               ELSE r.begin + (r.size + j) - 1 - r.capacity
    BY DEF Place
  <2>2. j \in Nat /\ j >= first + 1 /\ j <= n /\ r.end + first = r.capacity /\ r.begin < r.end
    BY <1>0
  <2> QED BY <1>f, <1>0, <2>1, <2>2
<1>3. ASSUME NEW i \in 1..r.size
      PROVE  /\ Place(r, i) \notin r.end..(r.end + first - 1)
             /\ Place(r, i) \notin 0..(n - first - 1)
  <2>1. Place(r, i) = IF r.begin + i - 1 < r.capacity THEN r.begin + i - 1
                                                     ELSE r.begin + i - 1 - r.capacity
    BY DEF Place
  <2>2. i \in Nat /\ i >= 1 /\ i <= r.size
    BY <1>f
  <2>3. CASE r.begin < r.end
    BY <1>f, <1>0, <2>1, <2>2, <2>3
  <2>4. CASE ~(r.begin < r.end)
    BY <1>f, <1>0, <2>1, <2>2, <2>4
  <2> QED BY <2>3, <2>4
<1> QED BY <1>1, <1>2, <1>3

(* What is copied there becomes the end of the content. *)
LEMMA FillAppends ==
  ASSUME NEW S, NEW r, IsRing(r, S), NEW s \in Seq(S), NEW first \in 0..Len(s),
         r.size + Len(s) <= r.capacity, r.end + first <= r.capacity,
         first < Len(s) => r.end + first = r.capacity /\ r.begin < r.end
  PROVE  LET filled == [r EXCEPT !.cells = Copy(Copy(@, r.end, SubSeq(s, 1, first)),
                                                0, SubSeq(s, first + 1, Len(s)))]
             after  == AfterWrite(filled, Len(s))
         IN  /\ IsRing(after, S)
             /\ after.size = r.size + Len(s) /\ after.capacity = r.capacity
             /\ after.begin = r.begin
             /\ Content(after) = Content(r) \o s
<1> DEFINE n == Len(s)
           one == SubSeq(s, 1, first)
           two == SubSeq(s, first + 1, n)
           some == Copy(r.cells, r.end, one)
           cells == Copy(some, 0, two)
           filled == [r EXCEPT !.cells = cells]
           after == AfterWrite(filled, n)
           end == IF n = 0 THEN r.end
                  ELSE IF r.begin >= r.end THEN r.end + n ELSE (r.end + n) % r.capacity
<1>f. /\ r.capacity \in Nat /\ r.begin \in Nat /\ r.end \in Nat /\ r.size \in Nat
      /\ r.capacity > 0 /\ r.begin < r.capacity /\ r.end <= r.capacity /\ r.size <= r.capacity
      /\ r.begin < r.end => r.size = r.end - r.begin
      /\ ~(r.begin < r.end) /\ r.size # 0 => r.size = r.capacity - r.begin + r.end
      /\ r.size = 0 => r.begin = 0 /\ r.end = 0
  BY RingFacts
<1>0. /\ n \in Nat /\ first \in Nat /\ first <= n /\ r.size + n <= r.capacity
      /\ r.end + first <= r.capacity
      /\ first < n => r.end + first = r.capacity /\ r.begin < r.end
  OBVIOUS
<1>s. \A i \in 1..n : s[i] \in S
  OBVIOUS
<1>1. one \in Seq(S) /\ Len(one) = first /\ \A i \in 1..first : one[i] = s[i]
  <2>1. 1 \in Int /\ first \in Int /\ \A i \in 1..first : s[i] \in S
    BY <1>0, <1>s
  <2>2. /\ one \in Seq(S) /\ Len(one) = IF 1 <= first THEN first - 1 + 1 ELSE 0
        /\ \A i \in 1 .. first - 1 + 1 : one[i] = s[1 + i - 1]
    BY <2>1, SubSeqProperties
  <2> HIDE DEF one
  <2> QED BY <1>0, <2>2
<1>2. two \in Seq(S) /\ Len(two) = n - first /\ \A i \in 1..(n - first) : two[i] = s[first + i]
  <2>1. first + 1 \in Int /\ n \in Int /\ \A i \in (first + 1)..n : s[i] \in S
    BY <1>0, <1>s
  <2>2. /\ two \in Seq(S) /\ Len(two) = IF first + 1 <= n THEN n - (first + 1) + 1 ELSE 0
        /\ \A i \in 1 .. n - (first + 1) + 1 : two[i] = s[(first + 1) + i - 1]
    BY <2>1, SubSeqProperties
  <2> HIDE DEF two, n
  <2> QED BY <1>0, <2>2
<1>a. after = Ring(cells, r.capacity, r.begin, end, r.size + n)
  <2> HIDE DEF cells, n
  <2>1. filled = Ring(cells, r.capacity, r.begin, r.end, r.size)
    BY DEF IsRing, Ring
  <2>2. CASE n = 0
    <3>1. r.size + n = r.size
      BY <1>f, <2>2
    <3> QED BY <2>1, <2>2, <3>1 DEF AfterWrite
  <2>3. CASE n # 0
    BY <2>1, <2>3 DEF AfterWrite, Ring
  <2> QED BY <2>2, <2>3
<1> HIDE DEF n, one, two
<1>3. /\ some \in [0..(r.capacity - 1) -> S]
      /\ \A j \in 0..(r.capacity - 1) :
            some[j] = IF j \in r.end..(r.end + first - 1) THEN one[j - r.end + 1] ELSE r.cells[j]
  <2>1. r.cells \in [0..(r.capacity - 1) -> S] /\ Len(one) = first
    BY <1>1, RingCells
  <2>2. some = [j \in 0..(r.capacity - 1) |-> IF j \in r.end..(r.end + first - 1)
                                             THEN one[j - r.end + 1] ELSE r.cells[j]]
    BY <2>1 DEF Copy
  <2>3. ASSUME NEW j \in 0..(r.capacity - 1), j \in r.end..(r.end + first - 1)
        PROVE  one[j - r.end + 1] \in S
    <3>1. j - r.end + 1 \in 1..first
      <4>1. /\ j \in Int /\ r.end \in Int /\ first \in Int
            /\ r.end <= j /\ j <= r.end + first - 1
        BY <1>f, <1>0, <2>3
      <4> QED BY <4>1
    <3> QED BY <1>1, <3>1
  <2> HIDE DEF some
  <2> QED BY <2>1, <2>2, <2>3
<1> HIDE DEF some
<1>4. /\ cells \in [0..(r.capacity - 1) -> S]
      /\ \A j \in 0..(r.capacity - 1) :
            cells[j] = IF j \in 0..(n - first - 1) THEN two[j + 1] ELSE some[j]
  <2>1. /\ 0 + Len(two) - 1 = n - first - 1
        /\ \A j \in 0..(r.capacity - 1) : j - 0 + 1 = j + 1
    BY <1>0, <1>2
  <2>2. cells = [j \in 0..(r.capacity - 1) |-> IF j \in 0..(n - first - 1)
                                              THEN two[j + 1] ELSE some[j]]
    BY <1>3, <2>1 DEF Copy
  <2>3. ASSUME NEW j \in 0..(r.capacity - 1), j \in 0..(n - first - 1)
        PROVE  two[j + 1] \in S
    <3>1. j + 1 \in 1..(n - first)
      BY <1>0, <2>3
    <3> QED BY <1>2, <3>1
  <2> HIDE DEF cells
  <2> QED BY <1>3, <2>2, <2>3
<1> HIDE DEF cells, end, after
<1>5. IsRing(after, S)
  <2>p. PICK c \in Nat, b \in Nat, e \in Nat, z \in Nat, m \in Nat :
              c = r.capacity /\ b = r.begin /\ e = r.end /\ z = r.size /\ m = n
    BY <1>f, <1>0
  <2>f. /\ c > 0 /\ b < c /\ e <= c /\ z <= c /\ z + m <= c
        /\ b < e => z = e - b
        /\ ~(b < e) /\ z # 0 => z = c - b + e
        /\ z = 0 => b = 0 /\ e = 0
    BY <1>f, <1>0, <2>p
  <2>1. /\ z + m \in Nat /\ end \in Nat /\ end <= c
        /\ b < end => z + m = end - b
        /\ ~(b < end) /\ z + m # 0 => z + m = c - b + end
        /\ z + m = 0 => b = 0 /\ end = 0
    <3>1. CASE m = 0
      <4>1. end = e
        BY <2>p, <3>1 DEF end
      <4> QED BY <2>f, <3>1, <4>1
    <3>2. CASE m # 0 /\ ~(b < e)
      <4>1. end = e + m
        BY <1>f, <2>p, <3>2 DEF end
      <4> QED BY <2>f, <3>2, <4>1
    <3>3. CASE m # 0 /\ b < e
      <4>1. end = (e + m) % c
        BY <1>f, <2>p, <3>3 DEF end
      <4>2. e + m \in Nat /\ e + m < 2 * c
        BY <2>f, <3>3
      <4>3. end = IF e + m < c THEN e + m ELSE (e + m) - c
        BY <2>f, <4>1, <4>2, WrapIs
      <4> QED BY <2>f, <3>3, <4>3
    <3> QED BY <3>1, <3>2, <3>3
  <2>2. r.capacity \in Nat \ {0} /\ r.begin \in Nat /\ r.begin < r.capacity
        /\ r.size + n <= r.capacity
    BY <1>f, <1>0
  <2>3. /\ r.size + n \in Nat /\ end \in Nat /\ end <= r.capacity
        /\ r.begin < end => r.size + n = end - r.begin
        /\ ~(r.begin < end) /\ r.size + n # 0 => r.size + n = r.capacity - r.begin + end
        /\ r.size + n = 0 => r.begin = 0 /\ end = 0
    BY <2>1, <2>p
  <2> QED BY <1>a, <1>4, <2>2, <2>3, RingIs
<1>6. /\ after.cells = cells /\ after.capacity = r.capacity /\ after.begin = r.begin
      /\ after.size = r.size + n
  BY <1>a DEF Ring
<1>7. /\ \A j \in 1..first : Place(r, r.size + j) = r.end + j - 1
      /\ \A j \in (first + 1)..n : Place(r, r.size + j) = j - first - 1
      /\ \A i \in 1..r.size : /\ Place(r, i) \notin r.end..(r.end + first - 1)
                              /\ Place(r, i) \notin 0..(n - first - 1)
  <2>1. first \in 0..n
    BY <1>0
  <2> QED BY <1>0, <2>1, FreePlaces
<1>8. ASSUME NEW i \in 1..r.size PROVE cells[Place(r, i)] = r.cells[Place(r, i)]
  <2>1. Place(r, i) \in 0..(r.capacity - 1)
    BY PlaceInside
  <2> QED BY <1>3, <1>4, <1>7, <2>1
<1>9. ASSUME NEW j \in 1..n PROVE cells[Place(r, r.size + j)] = s[j]
  <2>0. j \in Nat /\ j >= 1 /\ j <= n
    BY <1>0
  <2>1. CASE j <= first
    <3>1. Place(r, r.size + j) = r.end + j - 1
      BY <1>7, <1>0, <2>0, <2>1
    <3>2. /\ r.end + j - 1 \in 0..(r.capacity - 1)
          /\ r.end + j - 1 \in r.end..(r.end + first - 1)
          /\ r.end + j - 1 \notin 0..(n - first - 1)
          /\ (r.end + j - 1) - r.end + 1 = j /\ j \in 1..first
      <4>1. PICK c \in Nat, b \in Nat, e \in Nat, z \in Nat :
                  c = r.capacity /\ b = r.begin /\ e = r.end /\ z = r.size
        BY <1>f
      <4>2. /\ e + first <= c /\ z + n <= c
            /\ b < e => z = e - b
            /\ first < n => e + first = c /\ b < e
        BY <1>f, <1>0, <4>1
      <4>3. e + j - 1 \in 0..(c - 1) /\ e + j - 1 \in e..(e + first - 1)
        BY <1>0, <2>0, <2>1, <4>2
      <4>4. e + j - 1 \notin 0..(n - first - 1)
        <5>1. CASE first = n
          BY <1>0, <2>0, <5>1
        <5>2. CASE first < n
          BY <1>0, <2>0, <4>2, <5>2
        <5> QED BY <1>0, <5>1, <5>2
      <4>5. (e + j - 1) - e + 1 = j /\ j \in 1..first
        BY <1>0, <2>0, <2>1
      <4> QED BY <4>1, <4>3, <4>4, <4>5
    <3>3. cells[r.end + j - 1] = some[r.end + j - 1]
      BY <1>4, <3>2
    <3>4. some[r.end + j - 1] = one[(r.end + j - 1) - r.end + 1]
      BY <1>3, <3>2
    <3> QED BY <1>1, <3>1, <3>2, <3>3, <3>4
  <2>2. CASE ~(j <= first)
    <3>1. Place(r, r.size + j) = j - first - 1
      BY <1>7, <1>0, <2>0, <2>2
    <3>2. /\ j - first - 1 \in 0..(r.capacity - 1) /\ j - first - 1 \in 0..(n - first - 1)
          /\ (j - first - 1) + 1 = j - first /\ j - first \in 1..(n - first)
          /\ first + (j - first) = j
      BY <1>f, <1>0, <2>0, <2>2
    <3>3. cells[j - first - 1] = two[(j - first - 1) + 1]
      BY <1>4, <3>2
    <3>4. two[j - first] = s[first + (j - first)]
      BY <1>2, <3>2
    <3> QED BY <3>1, <3>2, <3>3, <3>4
  <2> QED BY <2>1, <2>2
<1>10. /\ Content(r) \o s \in Seq(S) /\ Len(Content(r) \o s) = r.size + n
       /\ \A i \in 1..(r.size + n) :
             (Content(r) \o s)[i] = IF i <= r.size THEN Content(r)[i] ELSE s[i - r.size]
  <2>1. Content(r) \in Seq(S) /\ Len(Content(r)) = r.size /\ Len(s) = n
    BY ContentIs DEF n
  <2>2. /\ Content(r) \o s \in Seq(S) /\ Len(Content(r) \o s) = Len(Content(r)) + Len(s)
        /\ \A i \in 1 .. Len(Content(r)) + Len(s) :
              (Content(r) \o s)[i] = IF i <= Len(Content(r)) THEN Content(r)[i]
                                    ELSE s[i - Len(Content(r))]
    BY <2>1, ConcatProperties
  <2> QED BY <2>1, <2>2
<1>11. ASSUME NEW i \in 1..after.size
       PROVE  after.cells[Place(after, i)] = (Content(r) \o s)[i]
  <2>0. i \in 1..(r.size + n) /\ i \in Nat /\ i >= 1 /\ i <= r.size + n
    BY <1>f, <1>0, <1>6
  <2>1. Place(after, i) = Place(r, i)
    BY <1>6 DEF Place
  <2>2. CASE i <= r.size
    <3>1. i \in 1..r.size
      BY <1>f, <2>0, <2>2
    <3>2. Content(r)[i] = r.cells[Place(r, i)]
      BY <3>1, ContentIs
    <3> QED BY <1>6, <1>8, <1>10, <2>0, <2>1, <2>2, <3>1, <3>2
  <2>3. CASE ~(i <= r.size)
    <3>1. i - r.size \in 1..n /\ r.size + (i - r.size) = i
      <4>1. i \in Int /\ r.size \in Int /\ n \in Int
        BY <1>f, <1>0, <2>0
      <4>2. i - r.size >= 1 /\ i - r.size <= n /\ i - r.size \in Int /\ r.size + (i - r.size) = i
        BY <2>0, <2>3, <4>1
      <4> QED BY <4>1, <4>2
    <3>2. cells[Place(r, r.size + (i - r.size))] = s[i - r.size]
      BY <1>9, <3>1
    <3> QED BY <1>6, <1>10, <2>0, <2>1, <2>3, <3>1, <3>2
  <2> QED BY <2>2, <2>3
<1>12. Content(after) = Content(r) \o s
  <2>1. Len(Content(r) \o s) = after.size
    BY <1>6, <1>10
  <2> QED BY <1>5, <1>10, <1>11, <2>1, ContentEquals
<1> QED BY <1>5, <1>6, <1>12 DEF after, cells, some, one, two, n

-----------------------------------------------------------------------------
(* Growing.                                                                     *)

LEMMA LeastMember ==
  ASSUME NEW T \in SUBSET Nat, T # {}
  PROVE  Min(T) \in T
<1> DEFINE R == OpToRel(<, Nat)
<1>1. IsWellFoundedOn(R, Nat)
  BY NatLessThanWellFounded, Zenon
<1>2. \A x, y \in Nat : x < y => <<x, y>> \in R
  BY Zenon DEF OpToRel
<1> HIDE DEF R
<1>3. PICK m \in T : \A x \in T : ~(<<x, m>> \in R)
  BY <1>1, WFMin
<1>4. \A x \in T : ~(x < m)
  BY <1>2, <1>3
<1>5. \A x \in T : m <= x
  BY <1>4
<1> QED BY <1>5 DEF Min

(* There are 2^k sets of k numbers, and k of them have one number. *)
LEMMA PowerIsEnough ==
  ASSUME NEW k \in Nat
  PROVE  2^k \in Nat /\ k <= 2^k
<1> DEFINE T == 1..k
           f == [i \in T |-> {i}]
<1>1. IsFiniteSet(T) /\ Cardinality(T) = k
  <2>1. 1 \in Int /\ k \in Int
    OBVIOUS
  <2>2. IsFiniteSet(T) /\ Cardinality(T) = IF 1 > k THEN 0 ELSE k - 1 + 1
    BY <2>1, FS_Interval
  <2> HIDE DEF T
  <2> QED BY <2>2
<1> HIDE DEF T
<1>2. IsFiniteSet(SUBSET T) /\ Cardinality(SUBSET T) = 2^k
  BY <1>1, FS_SUBSET
<1>3. f \in Injection(T, SUBSET T)
  <2>1. f \in [T -> SUBSET T]
    OBVIOUS
  <2>2. ASSUME NEW i \in T, NEW j \in T, f[i] = f[j] PROVE i = j
    <3>1. {i} = {j}
      BY <2>2
    <3> QED BY <3>1
  <2> QED BY <2>1, <2>2 DEF Injection, IsInjective
<1>4. Cardinality(T) <= Cardinality(SUBSET T)
  BY <1>2, <1>3, FS_Injection
<1>5. Cardinality(SUBSET T) \in Nat
  BY <1>2, FS_CardinalityType
<1> QED BY <1>1, <1>2, <1>4, <1>5

LEMMA Products ==
  ASSUME NEW a \in Nat, NEW b \in Nat
  PROVE  a * b \in Nat /\ (a > 0 => a * b >= b) /\ (b > 0 => a * b >= a)
<1>1. a * b \in Nat
  OBVIOUS
<1>2. a > 0 => a * b >= b
  OBVIOUS
<1>3. b > 0 => a * b >= a
  OBVIOUS
<1> QED BY <1>1, <1>2, <1>3

(* The loop of EnableWritableSpace ends, with room for what is needed, whatever the
   limit of doubling and the increment (RingBuffer.cpp:127-136). *)
THEOREM GrowthIsEnough ==
  ASSUME NEW old \in Nat \ {0}, NEW needed \in Nat \ {0}
  PROVE  NewCapacity(old, needed) \in Nat /\ NewCapacity(old, needed) >= needed
<1> DEFINE after(k) == IF old <= DoublingLimit THEN old * 2^k ELSE old + k * Increment
           enough == {k \in 1..needed : after(k) >= needed}
<1>0. Increment \in Nat /\ Increment > 0
  BY RingConstants
<1>1. ASSUME NEW k \in 1..needed PROVE after(k) \in Nat /\ after(k) >= k
  <2>0. k \in Nat
    OBVIOUS
  <2>1. 2^k \in Nat /\ k <= 2^k
    BY <2>0, PowerIsEnough
  <2>2. PICK p \in Nat : p = 2^k
    BY <2>1
  <2>3. old * p \in Nat /\ old * p >= p
    BY Products
  <2>4. PICK q \in Nat : q = k * Increment /\ q >= k
    BY <1>0, <2>0, Products
  <2> QED BY <2>0, <2>1, <2>2, <2>3, <2>4
<1>2. needed \in enough
  <2>1. needed \in 1..needed
    OBVIOUS
  <2>2. after(needed) >= needed
    BY <1>1, <2>1
  <2> HIDE DEF after
  <2> QED BY <2>1, <2>2
<1>3. Min(enough) \in enough
  <2>1. enough \in SUBSET Nat
    OBVIOUS
  <2> HIDE DEF enough
  <2> QED BY <1>2, <2>1, LeastMember
<1>4. NewCapacity(old, needed) = after(Min(enough))
  BY DEF NewCapacity
<1> HIDE DEF after
<1>5. Min(enough) \in 1..needed /\ after(Min(enough)) >= needed
  BY <1>3
<1> HIDE DEF enough
<1> QED BY <1>1, <1>4, <1>5

(* Growing makes room for n more cells and keeps the content in order, whether it is in
   one piece or wraps (RingBuffer.cpp:122-150). *)
THEOREM GrowingKeepsContent ==
  ASSUME NEW S, NEW r, IsRing(r, S), NEW n \in Nat
  PROVE  LET grown == EnableWritableSpace(r, n)
         IN  /\ IsRing(grown, S) /\ grown.size = r.size /\ r.size + n <= grown.capacity
             /\ grown.begin \in {0, r.begin}
             /\ Content(grown) = Content(r)
<1> DEFINE grown == EnableWritableSpace(r, n)
<1>f. /\ r.capacity \in Nat /\ r.capacity > 0 /\ r.size \in Nat
      /\ r.size <= r.capacity /\ r.size + n \in Nat
  BY RingFacts
<1>1. CASE r.capacity >= r.size + n
  BY <1>1, <1>f DEF EnableWritableSpace
<1>2. CASE ~(r.capacity >= r.size + n)
  <2> DEFINE capacity == NewCapacity(r.capacity, r.size + n)
             blank == [i \in 0..(capacity - 1) |-> r.cells[0]]
             cells == Copy(blank, 0, Content(r))
  <2>1. capacity \in Nat /\ r.size + n <= capacity /\ r.size <= capacity /\ capacity > 0
    <3>1. r.capacity \in Nat \ {0} /\ r.size + n \in Nat \ {0}
      BY <1>2, <1>f
    <3>2. NewCapacity(r.capacity, r.size + n) \in Nat
          /\ NewCapacity(r.capacity, r.size + n) >= r.size + n
      BY <3>1, GrowthIsEnough
    <3> HIDE DEF capacity
    <3>3. capacity \in Nat /\ capacity >= r.size + n
      BY <3>2 DEF capacity
    <3> QED BY <1>2, <1>f, <3>3
  <2>2. grown = Ring(cells, capacity, 0, r.size, r.size)
    BY <1>2 DEF EnableWritableSpace
  <2> HIDE DEF capacity
  <2>3. r.cells[0] \in S
    <3>1. 0 \in 0..(r.capacity - 1)
      BY <1>f
    <3> QED BY <3>1, RingCells
  <2>4. /\ Content(r) \in Seq(S) /\ Len(Content(r)) = r.size
        /\ \A i \in 1..r.size : Content(r)[i] \in S
    BY ContentIs, ElementOfSeq
  <2>5. cells = [j \in 0..(capacity - 1) |-> IF j \in 0..(r.size - 1) THEN Content(r)[j + 1]
                                                                  ELSE r.cells[0]]
    <3>1. 0 + Len(Content(r)) - 1 = r.size - 1 /\ \A j \in 0..(capacity - 1) : j - 0 + 1 = j + 1
      BY <1>f, <2>1, <2>4
    <3> QED BY <3>1 DEF Copy
  <2> HIDE DEF blank, cells
  <2>6. cells \in [0..(capacity - 1) -> S]
    <3>1. \A j \in 0..(r.size - 1) : j + 1 \in 1..r.size
      BY <1>f
    <3> QED BY <2>3, <2>4, <2>5, <3>1
  <2>7. IsRing(grown, S)
    <3>1. /\ capacity \in Nat \ {0} /\ 0 \in Nat /\ 0 < capacity
          /\ 0 < r.size => r.size = r.size - 0
          /\ ~(0 < r.size) /\ r.size # 0 => r.size = capacity - 0 + r.size
          /\ r.size = 0 => 0 = 0 /\ r.size = 0
      BY <1>f, <2>1
    <3> QED BY <1>f, <2>1, <2>2, <2>6, <3>1, RingIs
  <2>8. /\ grown.cells = cells /\ grown.capacity = capacity
        /\ grown.begin = 0 /\ grown.size = r.size
    BY <2>2 DEF Ring
  <2>9. ASSUME NEW i \in 1..grown.size PROVE grown.cells[Place(grown, i)] = Content(r)[i]
    <3>1. i \in Nat /\ i >= 1 /\ i <= r.size
      BY <1>f, <2>8
    <3>2. Place(grown, i) = IF 0 + i - 1 < capacity THEN 0 + i - 1 ELSE 0 + i - 1 - capacity
      BY <2>8 DEF Place
    <3>3. Place(grown, i) = i - 1
      BY <1>f, <2>1, <3>1, <3>2
    <3>4. /\ i - 1 \in 0..(capacity - 1) /\ i - 1 \in 0..(r.size - 1)
          /\ (i - 1) + 1 = i
      BY <1>f, <2>1, <3>1
    <3>5. cells[i - 1] = Content(r)[(i - 1) + 1]
      BY <2>5, <3>4
    <3> QED BY <2>8, <3>3, <3>4, <3>5
  <2>10. Content(grown) = Content(r)
    BY <2>4, <2>7, <2>8, <2>9, ContentEquals
  <2> HIDE DEF grown
  <2> QED BY <2>1, <2>7, <2>8, <2>10 DEF grown
<1> QED BY <1>1, <1>2

(* Write appends its bytes, in the space there is or after growing (RingBuffer.cpp:81-97,
   110-120). *)
THEOREM WriteAppends ==
  ASSUME NEW S, NEW r0, IsRing(r0, S), NEW s \in Seq(S)
  PROVE  /\ IsRing(Write(r0, s), S)
         /\ Write(r0, s).size = r0.size + Len(s)
         /\ Write(r0, s).begin \in {0, r0.begin}
         /\ Content(Write(r0, s)) = Content(r0) \o s
<1> DEFINE r == EnableWritableSpace(r0, Len(s))
           tail == IF r.begin >= r.end THEN Len(s) ELSE Least(TailSpace(r), Len(s))
<1>1. /\ IsRing(r, S) /\ r.size = r0.size /\ r0.size + Len(s) <= r.capacity
      /\ r.begin \in {0, r0.begin} /\ Content(r) = Content(r0)
  <2>1. Len(s) \in Nat
    OBVIOUS
  <2> QED BY <2>1, GrowingKeepsContent
<1>w. Write(r0, s) =
        AfterWrite([r EXCEPT !.cells = Copy(Copy(@, r.end, SubSeq(s, 1, tail)),
                                            0, SubSeq(s, tail + 1, Len(s)))], Len(s))
  BY DEF Write
<1> HIDE DEF r
<1>f. /\ r.capacity \in Nat /\ r.begin \in Nat /\ r.end \in Nat /\ r.size \in Nat
      /\ r.capacity > 0 /\ r.begin < r.capacity /\ r.end <= r.capacity /\ r.size <= r.capacity
      /\ r.begin < r.end => r.size = r.end - r.begin
      /\ ~(r.begin < r.end) /\ r.size # 0 => r.size = r.capacity - r.begin + r.end
      /\ r.size = 0 => r.begin = 0 /\ r.end = 0
  BY <1>1, RingFacts
<1>2. tail \in 0..Len(s) /\ r.size + Len(s) <= r.capacity /\ r.end + tail <= r.capacity
      /\ (tail < Len(s) => r.end + tail = r.capacity /\ r.begin < r.end)
  <2>p. PICK c \in Nat, b \in Nat, e \in Nat, z \in Nat, m \in Nat :
              c = r.capacity /\ b = r.begin /\ e = r.end /\ z = r.size /\ m = Len(s)
    BY <1>f
  <2>f. /\ c > 0 /\ b < c /\ e <= c /\ z <= c /\ z + m <= c
        /\ b < e => z = e - b
        /\ ~(b < e) /\ z # 0 => z = c - b + e
        /\ z = 0 => b = 0 /\ e = 0
    BY <1>f, <1>1, <2>p
  <2>1. CASE b < e
    <3>1. TailSpace(r) = c - e
      BY <2>p, <2>1 DEF TailSpace, Full
    <3>2. tail = IF c - e < m THEN c - e ELSE m
      BY <2>p, <2>1, <3>1 DEF Least
    <3> HIDE DEF tail
    <3>3. tail \in 0..m /\ e + tail <= c /\ (tail < m => e + tail = c)
      BY <2>f, <2>1, <3>2
    <3> QED BY <2>p, <2>f, <2>1, <3>3
  <2>2. CASE ~(b < e)
    <3>1. tail = m
      BY <2>p, <2>2
    <3> HIDE DEF tail
    <3>2. e + m <= c
      BY <2>f, <2>2
    <3> QED BY <2>p, <2>f, <3>1, <3>2
  <2> QED BY <2>1, <2>2
<1> HIDE DEF tail
<1> DEFINE after == AfterWrite([r EXCEPT !.cells = Copy(Copy(@, r.end, SubSeq(s, 1, tail)),
                                            0, SubSeq(s, tail + 1, Len(s)))], Len(s))
<1>3. /\ IsRing(after, S)
      /\ after.size = r.size + Len(s) /\ after.capacity = r.capacity
      /\ after.begin = r.begin
      /\ Content(after) = Content(r) \o s
  <2>1. IsRing(r, S)
    BY <1>1
  <2> QED BY <2>1, <1>2, FillAppends
<1> HIDE DEF after
<1>4. Write(r0, s) = after
  BY <1>w DEF after
<1> QED BY <1>1, <1>3, <1>4

-----------------------------------------------------------------------------
(* FetchDataFromFd.                                                             *)

LEMMA SubSeqOfFront ==
  ASSUME NEW S, NEW s \in Seq(S), NEW n \in 0..Len(s), NEW a \in 1..(n + 1), NEW b \in 0..n
  PROVE  SubSeq(SubSeq(s, 1, n), a, b) = SubSeq(s, a, b)
<1> DEFINE front == SubSeq(s, 1, n)
<1>0. n \in Nat /\ a \in Nat /\ b \in Nat /\ a >= 1 /\ b <= n /\ n <= Len(s) /\ Len(s) \in Nat
  OBVIOUS
<1>1. \A i \in 1..Len(s) : s[i] \in S
  OBVIOUS
<1>2. /\ front \in Seq(S) /\ Len(front) = IF 1 <= n THEN n - 1 + 1 ELSE 0
      /\ \A i \in 1 .. n - 1 + 1 : front[i] = s[1 + i - 1]
  <2>1. 1 \in Int /\ n \in Int /\ \A i \in 1..n : s[i] \in S
    BY <1>0, <1>1
  <2> QED BY <2>1, SubSeqProperties
<1> HIDE DEF front
<1>3. Len(front) = n /\ \A i \in 1..n : front[i] = s[i]
  BY <1>0, <1>2
<1>4. a \in Int /\ b \in Int /\ (\A i \in a..b : s[i] \in S) /\ (\A i \in a..b : front[i] \in S)
  <2>1. \A i \in a..b : i \in 1..n /\ i \in 1..Len(s)
    BY <1>0
  <2> QED BY <1>0, <1>1, <1>3, <2>1
<1>5. /\ SubSeq(s, a, b) \in Seq(S) /\ Len(SubSeq(s, a, b)) = IF a <= b THEN b - a + 1 ELSE 0
      /\ \A i \in 1 .. b - a + 1 : SubSeq(s, a, b)[i] = s[a + i - 1]
  BY <1>4, SubSeqProperties
<1>6. /\ SubSeq(front, a, b) \in Seq(S)
      /\ Len(SubSeq(front, a, b)) = IF a <= b THEN b - a + 1 ELSE 0
      /\ \A i \in 1 .. b - a + 1 : SubSeq(front, a, b)[i] = front[a + i - 1]
  BY <1>4, SubSeqProperties
<1>7. \A i \in 1 .. b - a + 1 : a + i - 1 \in 1..n
  BY <1>0
<1>8. \A i \in 1 .. b - a + 1 : SubSeq(front, a, b)[i] = SubSeq(s, a, b)[i]
  BY <1>3, <1>5, <1>6, <1>7
<1>9. \A i \in 1..Len(SubSeq(front, a, b)) : i \in 1 .. b - a + 1
  BY <1>0, <1>6
<1>10. SubSeq(front, a, b) = SubSeq(s, a, b)
  BY <1>5, <1>6, <1>8, <1>9, SeqEqual
<1> QED BY <1>10 DEF front

LEMMA FrontIs ==
  ASSUME NEW S, NEW s \in Seq(S), NEW n \in 0..Len(s)
  PROVE  /\ SubSeq(s, 1, n) \in Seq(S) /\ Len(SubSeq(s, 1, n)) = n
         /\ \A i \in 1..n : SubSeq(s, 1, n)[i] = s[i]
<1>1. n \in Nat /\ n <= Len(s) /\ Len(s) \in Nat
  OBVIOUS
<1>2. 1 \in Int /\ n \in Int /\ \A i \in 1..n : s[i] \in S
  BY <1>1
<1>3. /\ SubSeq(s, 1, n) \in Seq(S)
      /\ Len(SubSeq(s, 1, n)) = IF 1 <= n THEN n - 1 + 1 ELSE 0
      /\ \A i \in 1 .. n - 1 + 1 : SubSeq(s, 1, n)[i] = s[1 + i - 1]
  BY <1>2, SubSeqProperties
<1>4. n - 1 + 1 = n /\ \A i \in 1..n : 1 + i - 1 = i
  BY <1>1
<1> QED BY <1>1, <1>3, <1>4

LEMMA BackIs ==
  ASSUME NEW S, NEW s \in Seq(S), NEW n \in 0..Len(s)
  PROVE  /\ SubSeq(s, n + 1, Len(s)) \in Seq(S) /\ Len(SubSeq(s, n + 1, Len(s))) = Len(s) - n
         /\ \A i \in 1..(Len(s) - n) : SubSeq(s, n + 1, Len(s))[i] = s[n + i]
<1>1. n \in Nat /\ n <= Len(s) /\ Len(s) \in Nat
  OBVIOUS
<1>2. n + 1 \in Int /\ Len(s) \in Int /\ \A i \in (n + 1)..Len(s) : s[i] \in S
  BY <1>1
<1>3. /\ SubSeq(s, n + 1, Len(s)) \in Seq(S)
      /\ Len(SubSeq(s, n + 1, Len(s))) = IF n + 1 <= Len(s) THEN Len(s) - (n + 1) + 1 ELSE 0
      /\ \A i \in 1 .. Len(s) - (n + 1) + 1 : SubSeq(s, n + 1, Len(s))[i] = s[(n + 1) + i - 1]
  BY <1>2, SubSeqProperties
<1>4. /\ Len(s) - (n + 1) + 1 = Len(s) - n
      /\ \A i \in 1..(Len(s) - n) : (n + 1) + i - 1 = n + i
  BY <1>1
<1>5. Len(SubSeq(s, n + 1, Len(s))) = Len(s) - n
  BY <1>1, <1>3
<1> QED BY <1>3, <1>4, <1>5

LEMMA FrontAndBack ==
  ASSUME NEW S, NEW s \in Seq(S), NEW n \in 0..Len(s)
  PROVE  SubSeq(s, 1, n) \o SubSeq(s, n + 1, Len(s)) = s
<1>1. /\ 1 \in 1..(Len(s) + 1) /\ n \in (1 - 1)..Len(s) /\ Len(s) \in n..Len(s)
  OBVIOUS
<1>2. SubSeq(s, 1, n) \o SubSeq(s, n + 1, Len(s)) = SubSeq(s, 1, Len(s))
  BY <1>1, ConcatAdjacentSubSeq
<1> QED BY <1>2, SubSeqFull

(* readv writes behind the array exactly when the end stands at the capacity and cells
   before the begin are free (RingBuffer.cpp:165-168). *)
THEOREM OverrunsExactly ==
  ASSUME NEW S, NEW r, IsRing(r, S), NEW s \in Seq(S)
  PROVE  Overruns(r, s) <=> r.end = r.capacity /\ r.begin > 0 /\ s # <<>>
<1>f. /\ r.capacity \in Nat /\ r.begin \in Nat /\ r.end \in Nat /\ r.size \in Nat
      /\ r.capacity > 0 /\ r.begin < r.capacity /\ r.end <= r.capacity /\ r.size <= r.capacity
      /\ r.begin < r.end => r.size = r.end - r.begin
      /\ ~(r.begin < r.end) /\ r.size # 0 => r.size = r.capacity - r.begin + r.end
      /\ r.size = 0 => r.begin = 0 /\ r.end = 0
  BY RingFacts
<1>p. PICK c \in Nat, b \in Nat, e \in Nat, z \in Nat, n \in Nat :
            c = r.capacity /\ b = r.begin /\ e = r.end /\ z = r.size /\ n = Len(s)
  BY <1>f
<1>g. /\ c > 0 /\ b < c /\ e <= c /\ z <= c
      /\ b < e => z = e - b
      /\ ~(b < e) /\ z # 0 => z = c - b + e
      /\ z = 0 => b = 0 /\ e = 0
  BY <1>f, <1>p
<1>w. Writable(r) = c - z
  BY <1>p DEF Writable
<1>s. s # <<>> <=> n > 0
  BY <1>p, EmptySeq
<1>1. CASE TailSpace(r) > 0
  <2>1. TailSpace(r) = c - e
    BY <1>1, <1>p DEF TailSpace
  <2>2. Overruns(r, s) <=> e + Least(Least(n, c - z), c - e) > c
    BY <1>1, <1>p, <1>w, <2>1 DEF Overruns, Vectors
  <2> QED BY <1>1, <1>p, <1>g, <2>1, <2>2 DEF Least
<1>2. CASE ~(TailSpace(r) > 0)
  <2>1. Overruns(r, s) <=> e + Least(Least(n, c - z), c - z) > c
    BY <1>2, <1>p, <1>w DEF Overruns, Vectors
  <2>2. PICK l \in Nat : /\ l = Least(Least(n, c - z), c - z)
                         /\ l = IF n < c - z THEN n ELSE c - z
    <3>1. c - z \in Nat
      BY <1>g
    <3>2. Least(n, c - z) \in Nat /\ Least(Least(n, c - z), c - z) = Least(n, c - z)
      BY <3>1 DEF Least
    <3>3. Least(n, c - z) = IF n < c - z THEN n ELSE c - z
      BY DEF Least
    <3> QED BY <3>2, <3>3
  <2>3. CASE b > e \/ (b = e /\ z = c)
    <3>1. ~(e + l > c) /\ e # c
      BY <1>g, <2>2, <2>3
    <3> QED BY <1>p, <2>1, <2>2, <3>1
  <2>4. CASE ~(b > e \/ (b = e /\ z = c))
    <3>1. e = c /\ b < e
      BY <1>2, <1>g, <1>p, <2>4 DEF TailSpace, Full
    <3>2. e + l > c <=> b > 0 /\ n > 0
      BY <1>g, <2>2, <3>1
    <3> QED BY <1>p, <1>s, <2>1, <2>2, <3>1, <3>2
  <2> QED BY <2>3, <2>4
<1> QED BY <1>1, <1>2

(* Unless it overruns, readv appends what it takes, through the pieces of the buffer and
   the expansion space (RingBuffer.cpp:152-187). *)
THEOREM FetchAppends ==
  ASSUME NEW S, NEW r, IsRing(r, S), NEW s \in Seq(S), ~Overruns(r, s)
  PROVE  /\ IsRing(Fetch(r, s), S)
         /\ Fetch(r, s).size = r.size + Len(s)
         /\ Fetch(r, s).begin \in {0, r.begin}
         /\ Content(Fetch(r, s)) = Content(r) \o s
<1>f. /\ r.capacity \in Nat /\ r.begin \in Nat /\ r.end \in Nat /\ r.size \in Nat
      /\ r.capacity > 0 /\ r.begin < r.capacity /\ r.end <= r.capacity /\ r.size <= r.capacity
      /\ r.begin < r.end => r.size = r.end - r.begin
      /\ ~(r.begin < r.end) /\ r.size # 0 => r.size = r.capacity - r.begin + r.end
      /\ r.size = 0 => r.begin = 0 /\ r.end = 0
  BY RingFacts
<1>p. PICK c \in Nat, b \in Nat, e \in Nat, z \in Nat, n \in Nat :
            c = r.capacity /\ b = r.begin /\ e = r.end /\ z = r.size /\ n = Len(s)
  BY <1>f
<1>g. /\ c > 0 /\ b < c /\ e <= c /\ z <= c
      /\ b < e => z = e - b
      /\ ~(b < e) /\ z # 0 => z = c - b + e
      /\ z = 0 => b = 0 /\ e = 0
  BY <1>f, <1>p
<1>w. Writable(r) = c - z
  BY <1>p DEF Writable
<1> DEFINE v == Vectors(r)
           inside == Least(Len(s), Writable(r))
           first == Least(inside, v[1].len)
           front == SubSeq(s, 1, inside)
           back == SubSeq(s, inside + 1, Len(s))
           kept == AfterWrite([r EXCEPT !.cells = Copy(Copy(@, r.end, SubSeq(s, 1, first)),
                                                       0, SubSeq(s, first + 1, inside))], inside)
<1>v. v[1].at = r.end /\ v[2].at = 0
  BY DEF Vectors
<1>d. Fetch(r, s) = IF Len(s) > inside THEN Write(kept, back) ELSE kept
  BY <1>v DEF Fetch
<1>i. /\ inside \in Nat /\ inside <= n /\ z + inside <= c
      /\ inside < n => inside = c - z
  <2>1. inside = IF n < c - z THEN n ELSE c - z
    BY <1>p, <1>w DEF Least
  <2> HIDE DEF inside
  <2> QED BY <1>g, <2>1
<1>1. /\ first \in 0..inside /\ e + first <= c
      /\ first < inside => e + first = c /\ b < e
  <2>0. ~(e = c /\ b > 0 /\ n > 0)
    <3>1. s # <<>> <=> n > 0
      BY <1>p, EmptySeq
    <3> QED BY <1>p, <3>1, OverrunsExactly
  <2> HIDE DEF inside
  <2>1. CASE TailSpace(r) > 0
    <3>1. TailSpace(r) = c - e /\ ~(b > e) /\ c - e > 0
      BY <2>1, <1>p DEF TailSpace
    <3>2. v[1].len = c - e
      BY <2>1, <3>1 DEF Vectors
    <3>3. first = IF inside < c - e THEN inside ELSE c - e
      BY <3>2 DEF Least
    <3> HIDE DEF first
    <3>4. first \in 0..inside /\ e + first <= c /\ (first < inside => e + first = c)
      BY <1>i, <1>g, <3>1, <3>3
    <3>5. first < inside => b < e
      BY <1>i, <1>g, <3>1, <3>3
    <3> QED BY <3>4, <3>5
  <2>2. CASE ~(TailSpace(r) > 0)
    <3>1. v[1].len = c - z
      BY <2>2, <1>w DEF Vectors
    <3>2. first = inside
      BY <1>i, <1>g, <3>1 DEF Least
    <3>3. e + inside <= c
      <4>1. CASE b > e \/ (b = e /\ z = c)
        BY <1>i, <1>g, <4>1
      <4>2. CASE ~(b > e \/ (b = e /\ z = c))
        <5>1. e = c /\ b < e
          BY <2>2, <1>g, <1>p, <4>2 DEF TailSpace, Full
        <5> QED BY <1>i, <1>g, <2>0, <5>1
      <4> QED BY <4>1, <4>2
    <3> HIDE DEF first
    <3> QED BY <1>i, <3>2, <3>3
  <2> QED BY <2>1, <2>2
<1> HIDE DEF first, inside
<1>2. inside \in 0..Len(s)
  BY <1>i, <1>p
<1>3. front \in Seq(S) /\ Len(front) = inside
  BY <1>2, FrontIs
<1>4. /\ IsRing(kept, S) /\ kept.size = r.size + inside /\ kept.begin = r.begin
      /\ Content(kept) = Content(r) \o front
  <2> DEFINE filled == [r EXCEPT !.cells = Copy(Copy(@, r.end, SubSeq(front, 1, first)),
                                                0, SubSeq(front, first + 1, Len(front)))]
             after == AfterWrite(filled, Len(front))
  <2>1. /\ first \in 0..Len(front) /\ r.size + Len(front) <= r.capacity
        /\ r.end + first <= r.capacity
        /\ first < Len(front) => r.end + first = r.capacity /\ r.begin < r.end
    BY <1>1, <1>3, <1>i, <1>p
  <2> HIDE DEF front
  <2>2. /\ IsRing(after, S) /\ after.size = r.size + Len(front) /\ after.begin = r.begin
        /\ Content(after) = Content(r) \o front
    BY <1>3, <2>1, FillAppends
  <2>3. /\ SubSeq(front, 1, first) = SubSeq(s, 1, first)
        /\ SubSeq(front, first + 1, inside) = SubSeq(s, first + 1, inside)
    <3>1. /\ 1 \in 1..(inside + 1) /\ first \in 0..inside
          /\ first + 1 \in 1..(inside + 1) /\ inside \in 0..inside
      BY <1>1, <1>i
    <3>2. SubSeq(SubSeq(s, 1, inside), 1, first) = SubSeq(s, 1, first)
      BY <1>2, <3>1, SubSeqOfFront
    <3>3. SubSeq(SubSeq(s, 1, inside), first + 1, inside) = SubSeq(s, first + 1, inside)
      BY <1>2, <3>1, SubSeqOfFront
    <3> QED BY <3>2, <3>3 DEF front
  <2>4. after = kept
    BY <1>3, <2>3
  <2> HIDE DEF after, kept
  <2> QED BY <1>3, <2>2, <2>4
<1> HIDE DEF kept, front
<1>5. CASE Len(s) > inside
  <2>1. back \in Seq(S) /\ Len(back) = Len(s) - inside
    BY <1>2, BackIs
  <2> HIDE DEF back
  <2>2. /\ IsRing(Write(kept, back), S)
        /\ Write(kept, back).size = kept.size + Len(back)
        /\ Write(kept, back).begin \in {0, kept.begin}
        /\ Content(Write(kept, back)) = Content(kept) \o back
    BY <1>4, <2>1, WriteAppends
  <2>3. (Content(r) \o front) \o back = Content(r) \o (front \o back)
    <3>1. Content(r) \in Seq(S)
      BY ContentIs
    <3> QED BY <1>3, <2>1, <3>1, ConcatAssociative
  <2>4. front \o back = s
    BY <1>2, FrontAndBack DEF front, back
  <2>5. kept.size + Len(back) = r.size + Len(s)
    <3>1. PICK k \in Nat, m \in Nat : k = r.size /\ m = Len(s)
      BY <1>f
    <3>2. (k + inside) + (m - inside) = k + m
      BY <1>i
    <3> QED BY <1>4, <2>1, <3>1, <3>2
  <2>6. Fetch(r, s) = Write(kept, back)
    BY <1>d, <1>5
  <2> QED BY <1>4, <2>2, <2>3, <2>4, <2>5, <2>6
<1>6. CASE ~(Len(s) > inside)
  <2>1. inside = Len(s)
    BY <1>6, <1>i, <1>p
  <2>2. front = s
    BY <2>1, SubSeqFull DEF front
  <2> QED BY <1>d, <1>4, <1>6, <2>1, <2>2
<1> QED BY <1>5, <1>6

-----------------------------------------------------------------------------
(* MessageStream.                                                               *)

CellType == [frame : Nat, nth : Nat]

coming == Content(input) \o pipe

-----------------------------------------------------------------------------
(* Frames.                                                                      *)

LEMMA CellIs ==
  ASSUME NEW f \in Nat, NEW k \in Nat
  PROVE  Cell(f, k) \in CellType /\ Cell(f, k).frame = f /\ Cell(f, k).nth = k
BY DEF Cell, CellType

LEMMA HeaderIs ==
  ASSUME NEW f \in Nat
  PROVE  /\ Header(f) \in Seq(CellType) /\ Len(Header(f)) = HeaderLen
         /\ \A k \in 1..HeaderLen : Header(f)[k] = Cell(f, k)
<1>0. HeaderLen \in Nat
  BY StreamConstants
<1>1. Header(f) = [k \in 1..HeaderLen |-> Cell(f, k)]
  BY DEF Header
<1>2. \A k \in 1..HeaderLen : Cell(f, k) \in CellType
  BY <1>0, CellIs
<1>3. Header(f) \in [1..HeaderLen -> CellType]
  BY <1>1, <1>2
<1>4. Header(f) \in Seq(CellType) /\ Len(Header(f)) = HeaderLen
  BY <1>0, <1>3
<1> QED BY <1>1, <1>4

LEMMA PayloadIs ==
  ASSUME NEW f \in Nat, NEW len \in Nat
  PROVE  /\ Payload(f, len) \in Seq(CellType) /\ Len(Payload(f, len)) = len
         /\ \A k \in 1..len : Payload(f, len)[k] = Cell(f, HeaderLen + k)
<1>0. HeaderLen \in Nat
  BY StreamConstants
<1>1. Payload(f, len) = [k \in 1..len |-> Cell(f, HeaderLen + k)]
  BY DEF Payload
<1>2. \A k \in 1..len : Cell(f, HeaderLen + k) \in CellType
  BY <1>0, CellIs
<1>3. Payload(f, len) \in [1..len -> CellType]
  BY <1>1, <1>2
<1>4. Payload(f, len) \in Seq(CellType) /\ Len(Payload(f, len)) = len
  BY <1>3
<1> QED BY <1>1, <1>4

LEMMA FrameIs ==
  ASSUME NEW f \in Nat, NEW len \in Nat
  PROVE  LET w == Header(f) \o Payload(f, len)
         IN  /\ w \in Seq(CellType) /\ Len(w) = HeaderLen + len
             /\ \A k \in 1..(HeaderLen + len) : w[k] = Cell(f, k)
<1> DEFINE a == Header(f)
           b == Payload(f, len)
<1>0. HeaderLen \in Nat
  BY StreamConstants
<1>1. /\ a \in Seq(CellType) /\ Len(a) = HeaderLen
      /\ \A k \in 1..HeaderLen : a[k] = Cell(f, k)
  BY HeaderIs
<1>2. /\ b \in Seq(CellType) /\ Len(b) = len
      /\ \A k \in 1..len : b[k] = Cell(f, HeaderLen + k)
  BY PayloadIs
<1> HIDE DEF a, b
<1>3. /\ a \o b \in Seq(CellType) /\ Len(a \o b) = Len(a) + Len(b)
      /\ \A k \in 1 .. Len(a) + Len(b) : (a \o b)[k] = IF k <= Len(a) THEN a[k] ELSE b[k - Len(a)]
  <2>1. a \in Seq(CellType) /\ b \in Seq(CellType)
    BY <1>1, <1>2
  <2> QED BY <2>1, ConcatProperties
<1>4. a \o b \in Seq(CellType) /\ Len(a \o b) = HeaderLen + len
  BY <1>1, <1>2, <1>3
<1>5. ASSUME NEW k \in 1..(HeaderLen + len) PROVE (a \o b)[k] = Cell(f, k)
  <2>1. k \in Nat /\ (a \o b)[k] = IF k <= HeaderLen THEN a[k] ELSE b[k - HeaderLen]
    <3>1. k \in 1 .. Len(a) + Len(b) /\ k \in Nat
      BY <1>0, <1>1, <1>2
    <3> QED BY <1>1, <1>3, <3>1
  <2>2. CASE k <= HeaderLen
    BY <1>0, <1>1, <2>1, <2>2
  <2>3. CASE ~(k <= HeaderLen)
    <3>1. k - HeaderLen \in 1..len /\ HeaderLen + (k - HeaderLen) = k
      BY <1>0, <2>1, <2>3
    <3> QED BY <1>2, <2>1, <2>3, <3>1
  <2> QED BY <2>2, <2>3
<1> QED BY <1>4, <1>5 DEF a, b

(* Encode appends the frame. *)
LEMMA EncodeAppends ==
  ASSUME NEW r, IsRing(r, CellType), NEW f \in Nat, NEW len \in Nat
  PROVE  /\ IsRing(Encode(r, f, len), CellType)
         /\ Content(Encode(r, f, len)) = Content(r) \o (Header(f) \o Payload(f, len))
<1> DEFINE a == Header(f)
           b == Payload(f, len)
           headed == Write(r, a)
<1>1. a \in Seq(CellType) /\ b \in Seq(CellType)
  BY HeaderIs, PayloadIs
<1>2. IsRing(headed, CellType) /\ Content(headed) = Content(r) \o a
  <2> HIDE DEF a
  <2> QED BY <1>1, WriteAppends
<1>3. Encode(r, f, len) = Write(headed, b)
  BY DEF Encode
<1> HIDE DEF a, b, headed
<1>4. IsRing(Write(headed, b), CellType) /\ Content(Write(headed, b)) = Content(headed) \o b
  BY <1>1, <1>2, WriteAppends
<1>5. (Content(r) \o a) \o b = Content(r) \o (a \o b)
  <2>1. Content(r) \in Seq(CellType)
    BY ContentIs
  <2> QED BY <1>1, <2>1, ConcatAssociative
<1> QED BY <1>2, <1>3, <1>4, <1>5 DEF a, b

-----------------------------------------------------------------------------
(* Sequences of whole frames.                                                   *)

(* One more frame behind them. *)
LEMMA FrameAppended ==
  ASSUME NEW lens \in Seq(Nat), NEW s \in Seq(CellType), WholeFrames(s, lens),
         NEW len \in Nat, NEW w \in Seq(CellType), Len(w) = HeaderLen + len,
         \A k \in 1..(HeaderLen + len) : w[k] = Cell(Len(lens) + 1, k)
  PROVE  /\ WholeFrames(s \o w, Append(lens, len))
         /\ s \o w # <<>>
         /\ FirstFrame(s \o w, Append(lens, len)) = FirstFrame(s, lens)
<1> DEFINE t == s \o w
           more == Append(lens, len)
<1>p. PICK m \in Nat, h \in Nat, n \in Nat :
            m = Len(s) /\ h = HeaderLen /\ n = Len(lens) /\ h > 0
  <2>1. HeaderLen \in Nat /\ HeaderLen > 0
    BY StreamConstants
  <2>2. Len(s) \in Nat /\ Len(lens) \in Nat
    OBVIOUS
  <2> QED BY <2>1, <2>2
<1>1. /\ more \in Seq(Nat) /\ Len(more) = n + 1 /\ more[n + 1] = len
      /\ \A f \in 1..n : more[f] = lens[f] /\ lens[f] \in Nat
  BY <1>p
<1>2. /\ t \in Seq(CellType) /\ Len(t) = m + (h + len)
      /\ \A i \in 1..(m + (h + len)) : t[i] = IF i <= m THEN s[i] ELSE w[i - m]
  <2>1. /\ t \in Seq(CellType) /\ Len(t) = Len(s) + Len(w)
        /\ \A i \in 1 .. Len(s) + Len(w) : t[i] = IF i <= Len(s) THEN s[i] ELSE w[i - Len(s)]
    BY ConcatProperties
  <2> HIDE DEF t
  <2> QED BY <1>p, <2>1
<1> HIDE DEF t, more
<1>3. \A k \in 1..(h + len) : t[m + k] = Cell(n + 1, k)
  <2> SUFFICES ASSUME NEW k \in 1..(h + len) PROVE t[m + k] = Cell(n + 1, k)
    OBVIOUS
  <2>1. /\ m + k \in 1..(m + (h + len)) /\ ~(m + k <= m) /\ (m + k) - m = k
    OBVIOUS
  <2>2. t[m + k] = w[k]
    BY <1>2, <2>1
  <2> QED BY <1>p, <2>2
<1>4. WholeFrames(t, more)
  <2>0. DOMAIN t = 1..(m + (h + len))
    BY <1>2
  <2> SUFFICES ASSUME NEW i \in 1..(m + (h + len))
               PROVE  LET f    == t[i].frame
                          from == i - t[i].nth + 1
                          to   == i - t[i].nth + FrameLen(more, f)
                      IN  /\ f \in DOMAIN more /\ t[i].nth \in 1..FrameLen(more, f)
                          /\ FrameAt(t, more, f, from, to)
                          /\ IF to = Len(t) THEN f = Len(more) ELSE t[to + 1] = Cell(f + 1, 1)
    BY <2>0, Zenon DEF WholeFrames
  <2>1. CASE i <= m
    <3>1. i \in 1..m /\ t[i] = s[i]
      BY <1>2, <2>1
    <3>2. PICK f \in Nat, k \in Nat : f = s[i].frame /\ k = s[i].nth
      <4>1. s[i] \in CellType
        BY <1>p, <3>1, ElementOfSeq
      <4>2. s[i].frame \in Nat /\ s[i].nth \in Nat
        BY <4>1 DEF CellType
      <4> QED BY <4>2
    <3>3. /\ f \in 1..n /\ k \in 1..FrameLen(lens, f)
          /\ FrameAt(s, lens, f, i - k + 1, i - k + FrameLen(lens, f))
          /\ IF i - k + FrameLen(lens, f) = m THEN f = n
             ELSE s[(i - k + FrameLen(lens, f)) + 1] = Cell(f + 1, 1)
      <4>1. i \in DOMAIN s /\ DOMAIN lens = 1..n /\ Len(s) = m /\ Len(lens) = n
        BY <1>p, <3>1
      <4>2. /\ s[i].frame \in DOMAIN lens /\ s[i].nth \in 1..FrameLen(lens, s[i].frame)
            /\ FrameAt(s, lens, s[i].frame, i - s[i].nth + 1,
                       i - s[i].nth + FrameLen(lens, s[i].frame))
            /\ IF i - s[i].nth + FrameLen(lens, s[i].frame) = Len(s)
               THEN s[i].frame = Len(lens)
               ELSE s[(i - s[i].nth + FrameLen(lens, s[i].frame)) + 1] = Cell(s[i].frame + 1, 1)
        BY <4>1 DEF WholeFrames
      <4> QED BY <3>2, <4>1, <4>2
    <3>4. PICK l \in Nat : l = FrameLen(lens, f) /\ l = FrameLen(more, f)
      <4>1. more[f] = lens[f] /\ lens[f] \in Nat
        BY <1>1, <3>3
      <4>2. HeaderLen + lens[f] \in Nat
        BY <1>p, <4>1
      <4> QED BY <4>1, <4>2 DEF FrameLen
    <3>5. PICK from \in Nat, to \in Nat :
              /\ from = i - k + 1 /\ to = i - k + l /\ from >= 1 /\ to <= m
              /\ to = from + l - 1 /\ l >= 1
      <4>0. FrameAt(s, lens, f, i - k + 1, i - k + l) /\ k \in 1..l
        BY <3>3, <3>4
      <4>1. i - k + 1 >= 1 /\ i - k + l <= m
        BY <1>p, <4>0 DEF FrameAt
      <4>2. i \in Nat /\ i - k + 1 \in Nat /\ i - k + l \in Nat /\ l >= 1
        <5>1. i \in Nat /\ k \in Nat /\ k >= 1 /\ k <= l
          BY <3>1, <4>0
        <5> QED BY <4>1, <5>1
      <4> QED BY <4>1, <4>2
    <3>6. \A j \in 1..l : s[from + j - 1] = Cell(f, j)
      BY <3>3, <3>4, <3>5 DEF FrameAt
    <3>7. \A j \in 1..l : t[from + j - 1] = Cell(f, j)
      <4> SUFFICES ASSUME NEW j \in 1..l PROVE t[from + j - 1] = Cell(f, j)
        OBVIOUS
      <4>1. from + j - 1 \in 1..(m + (h + len)) /\ from + j - 1 <= m
        BY <3>5
      <4> QED BY <1>2, <3>6, <4>1
    <3>8. FrameAt(t, more, f, i - k + 1, i - k + l)
      <4>1. to <= Len(t)
        BY <1>2, <3>5
      <4> QED BY <3>4, <3>5, <3>7, <4>1 DEF FrameAt
    <3>9. i - k + l # Len(t) /\ t[(i - k + l) + 1] = Cell(f + 1, 1)
      <4>1. to # Len(t)
        <5>1. m < m + (h + len) /\ to <= m
          BY <1>p, <3>5
        <5> QED BY <1>2, <3>5, <5>1
      <4>2. CASE to = m
        <5>1. f = n
          BY <3>3, <3>4, <3>5, <4>2
        <5>2. t[m + 1] = Cell(n + 1, 1)
          BY <1>p, <1>3
        <5> QED BY <3>5, <4>1, <4>2, <5>1, <5>2
      <4>3. CASE to # m
        <5>1. s[to + 1] = Cell(f + 1, 1)
          BY <3>3, <3>4, <3>5, <4>3
        <5>2. to + 1 \in 1..(m + (h + len)) /\ to + 1 <= m
          BY <3>5, <4>3
        <5> QED BY <1>2, <3>5, <4>1, <5>1, <5>2
      <4> QED BY <4>2, <4>3
    <3>10. f \in DOMAIN more
      BY <1>1, <3>3
    <3> QED BY <3>1, <3>2, <3>3, <3>4, <3>8, <3>9, <3>10
  <2>2. CASE ~(i <= m)
    <3>1. PICK k \in 1..(h + len) : i = m + k
      <4>1. i - m \in 1..(h + len) /\ i = m + (i - m)
        BY <2>2
      <4> QED BY <4>1
    <3>2. t[i].frame = n + 1 /\ t[i].nth = k
      <4>1. PICK f \in Nat : f = n + 1
        OBVIOUS
      <4>2. t[i] = Cell(f, k)
        BY <1>3, <3>1, <4>1
      <4> QED BY <4>1, <4>2, CellIs DEF Cell
    <3>3. FrameLen(more, n + 1) = h + len
      BY <1>1, <1>p DEF FrameLen
    <3>4. i - k + 1 = m + 1 /\ i - k + (h + len) = m + (h + len)
      BY <3>1
    <3>5. FrameAt(t, more, n + 1, m + 1, m + (h + len))
      <4>1. \A j \in 1..(h + len) : (m + 1) + j - 1 = m + j
        OBVIOUS
      <4>2. (m + 1) + (h + len) - 1 = m + (h + len) /\ m + 1 >= 1
        OBVIOUS
      <4> QED BY <1>2, <1>3, <3>3, <4>1, <4>2 DEF FrameAt
    <3> QED BY <1>1, <1>2, <3>1, <3>2, <3>3, <3>4, <3>5
  <2> QED BY <2>1, <2>2
<1>5. t # <<>>
  BY <1>p, <1>2
<1>6. FirstFrame(t, more) = FirstFrame(s, lens)
  <2>1. CASE m = 0
    <3>1. s = <<>>
      BY <1>p, <2>1, EmptySeq
    <3>2. t[0 + 1] = Cell(n + 1, 1)
      BY <1>p, <1>3, <2>1
    <3>3. t[1].frame = n + 1
      BY <1>p, <3>2, CellIs
    <3> QED BY <1>p, <1>5, <3>1, <3>3 DEF FirstFrame
  <2>2. CASE m # 0
    <3>1. s # <<>> /\ t[1] = s[1]
      BY <1>p, <1>2, <2>2
    <3> QED BY <1>5, <3>1 DEF FirstFrame
  <2> QED BY <2>1, <2>2
<1> QED BY <1>4, <1>5, <1>6 DEF t, more

(* Cell i of s is the k-th of the l cells of frame f, which takes the cells from..to. *)
InFrame(s, lens, i, f, k, l, from, to) ==
    /\ f = s[i].frame /\ k = s[i].nth /\ l = FrameLen(lens, f)
    /\ k >= 1 /\ k <= l
    /\ from = i - k + 1 /\ to = i - k + l /\ from >= 1 /\ to <= Len(s)
    /\ \A j \in 1..l : s[from + j - 1] = Cell(f, j)
    /\ IF to = Len(s) THEN f = Len(lens) ELSE s[to + 1] = Cell(f + 1, 1)

(* The first frame taken from them. *)
LEMMA FrameTaken ==
  ASSUME NEW lens \in Seq(Nat), NEW s \in Seq(CellType), WholeFrames(s, lens), s # <<>>
  PROVE  LET f == s[1].frame
             l == FrameLen(lens, f)
             rest == SubSeq(s, l + 1, Len(s))
         IN  /\ f \in DOMAIN lens /\ l \in 1..Len(s)
             /\ \A k \in 1..l : s[k] = Cell(f, k)
             /\ f = Len(lens) => l = Len(s)
             /\ WholeFrames(rest, lens) /\ FirstFrame(rest, lens) = f + 1
<1>1. PICK m \in Nat, n \in Nat : m = Len(s) /\ n = Len(lens) /\ m > 0
  <2>1. Len(s) \in Nat /\ Len(lens) \in Nat /\ Len(s) > 0
    BY EmptySeq
  <2> QED BY <2>1
<1>s. DOMAIN s = 1..m /\ DOMAIN lens = 1..n /\ \A i \in 1..m : s[i] \in CellType
  BY <1>1, ElementOfSeq
(* Of a frame anywhere in s. *)
<1>2. ASSUME NEW i \in 1..m
      PROVE  \E f \in 1..n, k \in Nat, l \in Nat, from \in Nat, to \in Nat :
                InFrame(s, lens, i, f, k, l, from, to)
  <2>1. PICK f \in Nat, k \in Nat : f = s[i].frame /\ k = s[i].nth
    <3>1. s[i] \in CellType
      BY <1>s
    <3>2. s[i].frame \in Nat /\ s[i].nth \in Nat
      BY <3>1 DEF CellType
    <3> QED BY <3>2
  <2>2. /\ f \in 1..n /\ k \in 1..FrameLen(lens, f)
        /\ FrameAt(s, lens, f, i - k + 1, i - k + FrameLen(lens, f))
        /\ IF i - k + FrameLen(lens, f) = m THEN f = n
           ELSE s[(i - k + FrameLen(lens, f)) + 1] = Cell(f + 1, 1)
    <3>1. i \in DOMAIN s
      BY <1>s
    <3>2. /\ s[i].frame \in DOMAIN lens /\ s[i].nth \in 1..FrameLen(lens, s[i].frame)
          /\ FrameAt(s, lens, s[i].frame, i - s[i].nth + 1,
                     i - s[i].nth + FrameLen(lens, s[i].frame))
          /\ IF i - s[i].nth + FrameLen(lens, s[i].frame) = Len(s)
             THEN s[i].frame = Len(lens)
             ELSE s[(i - s[i].nth + FrameLen(lens, s[i].frame)) + 1] = Cell(s[i].frame + 1, 1)
      BY <3>1 DEF WholeFrames
    <3> QED BY <1>1, <1>s, <2>1, <3>2
  <2>3. PICK l \in Nat : l = FrameLen(lens, f) /\ k >= 1 /\ k <= l
    <3>1. lens[f] \in Nat /\ HeaderLen \in Nat
      BY <1>s, <2>2, StreamConstants
    <3>2. FrameLen(lens, f) \in Nat
      BY <3>1 DEF FrameLen
    <3> QED BY <2>2, <3>2
  <2>4. /\ i - k + 1 >= 1 /\ i - k + l <= m
        /\ \A j \in 1..l : s[(i - k + 1) + j - 1] = Cell(f, j)
    BY <1>1, <2>2, <2>3 DEF FrameAt
  <2>5. PICK from \in Nat, to \in Nat : from = i - k + 1 /\ to = i - k + l /\ from >= 1 /\ to <= m
    <3>1. i - k + 1 \in Nat /\ i - k + l \in Nat
      BY <2>3, <2>4
    <3> QED BY <2>4, <3>1
  <2>6. \A j \in 1..l : s[from + j - 1] = Cell(f, j)
    BY <2>4, <2>5
  <2>7. IF to = m THEN f = n ELSE s[to + 1] = Cell(f + 1, 1)
    BY <2>2, <2>3, <2>5
  <2>8. PICK g \in 1..n : g = f
    BY <2>2
  <2>9. InFrame(s, lens, i, g, k, l, from, to)
    BY <1>1, <2>1, <2>3, <2>5, <2>6, <2>7, <2>8 DEF InFrame
  <2> QED BY <2>9, Zenon
<1>3. PICK f \in 1..n, l \in Nat : f = s[1].frame /\ l = FrameLen(lens, f)
                                /\ l >= 1 /\ l <= m
                                /\ (\A j \in 1..l : s[j] = Cell(f, j))
                                /\ IF l = m THEN f = n ELSE s[l + 1] = Cell(f + 1, 1)
  <2>1. 1 \in 1..m
    BY <1>1
  <2>i. PICK f \in 1..n, k \in Nat, l \in Nat, from \in Nat, to \in Nat :
                InFrame(s, lens, 1, f, k, l, from, to)
    BY <1>2, <2>1
  <2>2. /\ f = s[1].frame /\ k = s[1].nth /\ l = FrameLen(lens, f)
        /\ k >= 1 /\ k <= l
        /\ from = 1 - k + 1 /\ to = 1 - k + l /\ from >= 1 /\ to <= m
        /\ \A j \in 1..l : s[from + j - 1] = Cell(f, j)
        /\ IF to = m THEN f = n ELSE s[to + 1] = Cell(f + 1, 1)
    BY <1>1, <2>i DEF InFrame
  <2>3. k = 1 /\ from = 1 /\ to = l
    BY <2>2
  <2>4. \A j \in 1..l : from + j - 1 = j
    BY <2>3
  <2>5. \A j \in 1..l : s[j] = Cell(f, j)
    BY <2>2, <2>4
  <2>6. l >= 1 /\ l <= m /\ IF l = m THEN f = n ELSE s[l + 1] = Cell(f + 1, 1)
    BY <2>2, <2>3
  <2>7. f = s[1].frame /\ l = FrameLen(lens, f)
    BY <2>2
  <2> WITNESS f \in 1..n, l \in Nat
  <2> QED BY <2>5, <2>6, <2>7
<1> DEFINE rest == SubSeq(s, l + 1, m)
<1>4. /\ rest \in Seq(CellType) /\ Len(rest) = m - l
      /\ \A i \in 1..(m - l) : rest[i] = s[l + i]
  <2>1. l + 1 \in Int /\ m \in Int /\ \A i \in (l + 1)..m : s[i] \in CellType
    BY <1>s, <1>3
  <2>2. /\ rest \in Seq(CellType) /\ Len(rest) = IF l + 1 <= m THEN m - (l + 1) + 1 ELSE 0
        /\ \A i \in 1 .. m - (l + 1) + 1 : rest[i] = s[(l + 1) + i - 1]
    BY <2>1, SubSeqProperties
  <2> HIDE DEF rest
  <2>3. m - (l + 1) + 1 = m - l /\ \A i \in 1..(m - l) : (l + 1) + i - 1 = l + i
    OBVIOUS
  <2>4. Len(rest) = m - l
    <3>1. l <= m
      BY <1>3
    <3>2. CASE l = m
      BY <2>2, <3>2
    <3>3. CASE l < m
      BY <2>2, <2>3, <3>3
    <3> QED BY <3>1, <3>2, <3>3
  <2> QED BY <2>2, <2>3, <2>4
<1> HIDE DEF rest
<1>5. WholeFrames(rest, lens)
  <2> SUFFICES ASSUME NEW i \in 1..(m - l)
               PROVE  LET g    == rest[i].frame
                          from == i - rest[i].nth + 1
                          to   == i - rest[i].nth + FrameLen(lens, g)
                      IN  /\ g \in DOMAIN lens /\ rest[i].nth \in 1..FrameLen(lens, g)
                          /\ FrameAt(rest, lens, g, from, to)
                          /\ IF to = Len(rest) THEN g = Len(lens) ELSE rest[to + 1] = Cell(g + 1, 1)
    <3>1. DOMAIN rest = 1..(m - l)
      BY <1>4
    <3> QED BY <3>1 DEF WholeFrames
  <2>0. l + i \in 1..m
    BY <1>3
  <2>i. PICK g \in 1..n, k \in Nat, h \in Nat, from \in Nat, to \in Nat :
                InFrame(s, lens, l + i, g, k, h, from, to)
    BY <1>2, <2>0
  <2>1. /\ g = s[l + i].frame /\ k = s[l + i].nth /\ h = FrameLen(lens, g)
        /\ k >= 1 /\ k <= h
        /\ from = (l + i) - k + 1 /\ to = (l + i) - k + h /\ from >= 1 /\ to <= m
        /\ \A j \in 1..h : s[from + j - 1] = Cell(g, j)
        /\ IF to = m THEN g = n ELSE s[to + 1] = Cell(g + 1, 1)
    BY <1>1, <2>i DEF InFrame
  <2>n. /\ k >= 1 /\ k <= h /\ from >= 1 /\ to <= m /\ l >= 1 /\ l <= m
        /\ from = (l + i) - k + 1 /\ to = (l + i) - k + h
        /\ i \in Nat /\ i >= 1 /\ i <= m - l
    BY <1>3, <2>1
  <2>e. to = from + h - 1
    BY <2>n
  <2>c. \A j \in 1..h : s[from + j - 1] = Cell(g, j)
    BY <2>1
  (* Another frame begins behind the first one. *)
  <2>2. from > l
    <3> SUFFICES ASSUME ~(from > l) PROVE FALSE
      OBVIOUS
    <3>1. from \in 1..l /\ from \in Nat
      BY <2>n
    <3>2. s[from] = Cell(f, from)
      BY <1>3, <3>1
    <3>3. s[from] = Cell(g, 1)
      <4>1. 1 \in 1..h /\ from + 1 - 1 = from
        BY <2>n
      <4> QED BY <2>c, <4>1
    <3>4. from = 1 /\ g = f
      <4>1. Cell(f, from) = Cell(g, 1)
        BY <3>2, <3>3
      <4>2. Cell(f, from).nth = from /\ Cell(g, 1).nth = 1
            /\ Cell(f, from).frame = f /\ Cell(g, 1).frame = g
        BY DEF Cell
      <4> QED BY <4>1, <4>2
    <3>5. h = l
      BY <1>3, <2>1, <3>4
    <3> QED BY <2>n, <3>4, <3>5
  <2>3. rest[i] = s[l + i] /\ DOMAIN lens = 1..n /\ Len(rest) = m - l /\ Len(lens) = n
    BY <1>1, <1>4, <1>s
  <2>4. PICK a \in Nat, b \in Nat : /\ a = i - k + 1 /\ b = i - k + h /\ a >= 1 /\ b <= m - l
                                  /\ from = l + a /\ to = l + b /\ b = a + h - 1
    <3>1. PICK a \in Nat : from = l + a /\ a >= 1
      <4>1. from - l \in Nat /\ from = l + (from - l) /\ from - l >= 1
        BY <2>n, <2>2
      <4> QED BY <4>1
    <3>2. PICK b \in Nat : b = a + h - 1
      <4>1. a + h - 1 \in Nat
        BY <2>n, <3>1
      <4> QED BY <4>1
    <3>3. /\ a = i - k + 1 /\ b = i - k + h /\ b <= m - l
          /\ to = l + b
      BY <2>n, <2>e, <3>1, <3>2
    <3> QED BY <3>1, <3>2, <3>3
  <2>5. \A j \in 1..h : rest[a + j - 1] = Cell(g, j)
    <3> SUFFICES ASSUME NEW j \in 1..h PROVE rest[a + j - 1] = Cell(g, j)
      OBVIOUS
    <3>1. a + j - 1 \in 1..(m - l) /\ l + (a + j - 1) = from + j - 1
      BY <2>4
    <3> QED BY <1>4, <2>c, <3>1
  <2>6. FrameAt(rest, lens, g, i - k + 1, i - k + h)
    BY <2>1, <2>3, <2>4, <2>5 DEF FrameAt
  <2>7. IF i - k + h = Len(rest) THEN g = n ELSE rest[(i - k + h) + 1] = Cell(g + 1, 1)
    <3>1. CASE b = m - l
      <4>1. to = m
        BY <2>4, <3>1
      <4> QED BY <2>1, <2>3, <2>4, <3>1, <4>1
    <3>2. CASE b # m - l
      <4>1. to # m /\ b + 1 \in 1..(m - l) /\ l + (b + 1) = to + 1
        BY <2>4, <3>2
      <4>2. rest[b + 1] = s[to + 1]
        <5>1. rest[b + 1] = s[l + (b + 1)]
          BY <1>4, <4>1
        <5> QED BY <4>1, <5>1
      <4> QED BY <2>1, <2>3, <2>4, <3>2, <4>1, <4>2
    <3> QED BY <3>1, <3>2
  <2> QED BY <2>1, <2>3, <2>6, <2>7
<1>6. FirstFrame(rest, lens) = f + 1
  <2>1. CASE l = m
    <3>1. rest = <<>> /\ f = n
      <4>1. Len(rest) = 0
        BY <1>4, <2>1
      <4> QED BY <1>3, <1>4, <2>1, <4>1, EmptySeq
    <3> QED BY <1>1, <3>1 DEF FirstFrame
  <2>2. CASE l # m
    <3>1. 1 \in 1..(m - l) /\ Len(rest) # 0
      BY <1>3, <1>4, <2>2
    <3>2. rest[1] = Cell(f + 1, 1)
      BY <1>3, <1>4, <2>2, <3>1
    <3>3. rest[1].frame = f + 1
      BY <3>2 DEF Cell
    <3>4. rest # <<>>
      BY <3>1
    <3> QED BY <3>3, <3>4 DEF FirstFrame
  <2> QED BY <2>1, <2>2
<1>7. f = n => l = m
  <2> SUFFICES ASSUME f = n, l # m PROVE FALSE
    OBVIOUS
  <2>1. s[l + 1] = Cell(n + 1, 1) /\ l + 1 \in 1..m
    BY <1>3
  <2>2. s[l + 1].frame \in 1..n
    <3>1. PICK g \in 1..n, k \in Nat, h \in Nat, from \in Nat, to \in Nat :
                InFrame(s, lens, l + 1, g, k, h, from, to)
      BY <1>2, <2>1
    <3> QED BY <3>1 DEF InFrame
  <2>3. s[l + 1].frame = n + 1
    BY <2>1 DEF Cell
  <2> QED BY <2>2, <2>3
<1> QED BY <1>1, <1>s, <1>3, <1>5, <1>6, <1>7 DEF rest

-----------------------------------------------------------------------------
(* The invariant.                                                               *)

(* While nothing has spoilt the stream: everything encoded is on its way, what is coming
   are whole frames and what was returned are the messages before them.  Without
   pipelining no second frame is coming behind the first, and m_input_buffer_ holds it
   from its first cell on. *)
Undisturbed ==
    /\ output.size = 0 /\ pipe \in Seq(CellType)
    /\ WholeFrames(coming, frames)
    /\ ReturnedBefore(FirstFrame(coming, frames))
    /\ Len(received) < FirstFrame(coming, frames)
    /\ ~pipelined => input.begin = 0 /\ (coming # <<>> => coming[1].frame = Len(frames))

StreamInv ==
    /\ pipelined \in BOOLEAN /\ frames \in Seq(Payloads)
    /\ receiver \in {"fetch", "decode"} /\ mishap \in {"none", "repeated", "overrun"}
    /\ received \in Seq(Seq(CellType)) /\ Len(received) <= Len(frames)
    /\ IsRing(output, CellType) /\ (mishap # "overrun" => IsRing(input, CellType))
    /\ mishap = "overrun" => pipelined
    /\ mishap = "none" => Undisturbed

LEMMA FirstFrameBound ==
  ASSUME NEW lens \in Seq(Nat), NEW s \in Seq(CellType), WholeFrames(s, lens)
  PROVE  FirstFrame(s, lens) \in 1..(Len(lens) + 1)
<1>1. CASE s = <<>>
  BY <1>1 DEF FirstFrame
<1>2. CASE s # <<>>
  <2>1. s[1].frame \in DOMAIN lens /\ DOMAIN lens = 1..Len(lens) /\ Len(lens) \in Nat
    BY <1>2, FrameTaken
  <2> QED BY <1>2, <2>1 DEF FirstFrame
<1> QED BY <1>1, <1>2

(* What the invariant says of the sequences. *)
LEMMA ComingIs ==
  ASSUME StreamInv, mishap = "none"
  PROVE  /\ frames \in Seq(Nat) /\ Len(frames) \in Nat
         /\ IsRing(input, CellType) /\ IsRing(output, CellType)
         /\ Content(input) \in Seq(CellType) /\ Len(Content(input)) = input.size
         /\ input.size \in Nat
         /\ pipe \in Seq(CellType) /\ coming \in Seq(CellType)
         /\ Len(coming) = input.size + Len(pipe)
         /\ \A i \in 1..input.size : coming[i] = Content(input)[i]
         /\ \A i \in 1..Len(pipe) : coming[input.size + i] = pipe[i]
<1>1. IsRing(input, CellType) /\ IsRing(output, CellType) /\ pipe \in Seq(CellType)
  BY DEF StreamInv, Undisturbed
<1>2. /\ Content(input) \in Seq(CellType) /\ Len(Content(input)) = input.size
      /\ input.size \in Nat
  BY <1>1, ContentIs, RingFacts
<1>3. /\ coming \in Seq(CellType) /\ Len(coming) = Len(Content(input)) + Len(pipe)
      /\ \A i \in 1 .. Len(Content(input)) + Len(pipe) :
            coming[i] = IF i <= Len(Content(input)) THEN Content(input)[i]
                        ELSE pipe[i - Len(Content(input))]
  BY <1>1, <1>2, ConcatProperties DEF coming
<1>4. PICK m \in Nat, n \in Nat : m = input.size /\ n = Len(pipe)
  BY <1>1, <1>2
<1>5. \A i \in 1..m : coming[i] = Content(input)[i]
  <2> SUFFICES ASSUME NEW i \in 1..m PROVE coming[i] = Content(input)[i]
    OBVIOUS
  <2>1. i \in 1..(m + n) /\ i <= m
    OBVIOUS
  <2> QED BY <1>2, <1>3, <1>4, <2>1
<1>6. \A i \in 1..n : coming[m + i] = pipe[i]
  <2> SUFFICES ASSUME NEW i \in 1..n PROVE coming[m + i] = pipe[i]
    OBVIOUS
  <2>1. m + i \in 1..(m + n) /\ ~(m + i <= m) /\ (m + i) - m = i
    OBVIOUS
  <2> QED BY <1>2, <1>3, <1>4, <2>1
<1>7. frames \in Seq(Nat) /\ Len(frames) \in Nat
  <2>1. frames \in Seq(Payloads) /\ Payloads \subseteq Nat
    BY StreamConstants DEF StreamInv
  <2>2. frames \in Seq(Nat)
    BY <2>1, SeqMonotonic
  <2> QED BY <2>2
<1> QED BY <1>1, <1>2, <1>3, <1>4, <1>5, <1>6, <1>7

(* StreamInv reads these variables and no other. *)
LEMMA UnchangedStream ==
  ASSUME StreamInv, UNCHANGED streamVars
  PROVE  StreamInv'
BY DEF StreamInv, Undisturbed, streamVars, coming, ReturnedBefore

LEMMA InitStep ==
  ASSUME StreamInit
  PROVE  StreamInv
<1> DEFINE r == NewRing(Cell(0, 0))
<1>1. /\ IsRing(r, CellType) /\ r.size = 0 /\ r.begin = 0
  <2> DEFINE cells == [i \in 0..(Initial - 1) |-> Cell(0, 0)]
  <2>1. r = Ring(cells, Initial, 0, 0, 0)
    BY DEF NewRing
  <2>2. cells \in [0..(Initial - 1) -> CellType]
    BY CellIs
  <2> HIDE DEF cells, r
  <2>3. Initial \in Nat \ {0} /\ 0 \in Nat /\ 0 < Initial /\ 0 <= Initial
    BY RingConstants
  <2>4. IsRing(r, CellType)
    BY <2>1, <2>2, <2>3, RingIs
  <2> QED BY <2>1, <2>4 DEF Ring
<1>2. output = r /\ input = r /\ pipe = <<>> /\ frames = <<>> /\ received = <<>>
      /\ mishap = "none" /\ receiver = "fetch" /\ pipelined \in BOOLEAN
  BY DEF StreamInit
<1> HIDE DEF r
<1>3. coming = <<>>
  <2>1. Content(input) \in Seq(CellType) /\ Len(Content(input)) = 0
    BY <1>1, <1>2, ContentIs
  <2>2. Content(input) = <<>>
    BY <2>1, EmptySeq
  <2> QED BY <1>2, <2>2 DEF coming
<1>4. /\ WholeFrames(coming, frames) /\ FirstFrame(coming, frames) = 1
  BY <1>2, <1>3 DEF WholeFrames, FirstFrame
<1>5. ReturnedBefore(1)
  <2>1. Range(received) = {} /\ DOMAIN received = {}
    BY <1>2 DEF Range
  <2>2. {h \in 1..(1 - 1) : frames[h] > 0} = {}
    OBVIOUS
  <2> QED BY <2>1, <2>2 DEF ReturnedBefore
<1>6. received \in Seq(Seq(CellType)) /\ frames \in Seq(Payloads) /\ pipe \in Seq(CellType)
      /\ Len(received) = 0 /\ Len(frames) = 0
  BY <1>2
<1> QED BY <1>1, <1>2, <1>3, <1>4, <1>5, <1>6 DEF StreamInv, Undisturbed

-----------------------------------------------------------------------------
(* The steps.                                                                   *)

(* The encoded message is one more frame, and writev hands out all of it. *)
LEMMA EncodedIs ==
  ASSUME StreamInv, mishap = "none", NEW len \in Payloads
  PROVE  LET encoded == Encode(output, Len(frames) + 1, len)
             w == Flushed(encoded)
         IN  /\ IsRing(encoded, CellType) /\ len \in Nat
             /\ w \in Seq(CellType) /\ Len(w) = HeaderLen + len /\ Len(w) = encoded.size
             /\ \A k \in 1..(HeaderLen + len) : w[k] = Cell(Len(frames) + 1, k)
<1> DEFINE f == Len(frames) + 1
           encoded == Encode(output, f, len)
           frame == Header(f) \o Payload(f, len)
<1>1. f \in Nat /\ len \in Nat /\ IsRing(output, CellType) /\ output.size = 0
  BY ComingIs, StreamConstants DEF StreamInv, Undisturbed
<1>2. Content(output) = <<>>
  <2>1. Content(output) \in Seq(CellType) /\ Len(Content(output)) = 0
    BY <1>1, ContentIs
  <2> QED BY <2>1, EmptySeq
<1> HIDE DEF f
<1>3. /\ frame \in Seq(CellType) /\ Len(frame) = HeaderLen + len
      /\ \A k \in 1..(HeaderLen + len) : frame[k] = Cell(f, k)
  BY <1>1, FrameIs
<1>4. IsRing(encoded, CellType) /\ Content(encoded) = Content(output) \o frame
  BY <1>1, EncodeAppends
<1> HIDE DEF encoded, frame
<1>5. Content(encoded) = frame
  BY <1>2, <1>3, <1>4, ConcatEmptySeq
<1>6. Flushed(encoded) = frame /\ Len(frame) = encoded.size
  BY <1>4, <1>5, FlushedIsContent, ContentIs
<1> QED BY <1>1, <1>3, <1>4, <1>6 DEF f, encoded

LEMMA SendStep ==
  ASSUME StreamInv, mishap = "none", NEW len \in Payloads, Send(len)
  PROVE  StreamInv'
<1> DEFINE encoded == Encode(output, Len(frames) + 1, len)
           w == Flushed(encoded)
<1>1. /\ IsRing(encoded, CellType) /\ len \in Nat
      /\ w \in Seq(CellType) /\ Len(w) = HeaderLen + len /\ Len(w) = encoded.size
      /\ \A k \in 1..(HeaderLen + len) : w[k] = Cell(Len(frames) + 1, k)
  BY EncodedIs
<1>2. /\ MaySend /\ frames' = Append(frames, len)
      /\ pipe' = pipe \o w /\ output' = AfterRead(encoded, Len(w))
      /\ UNCHANGED <<pipelined, input, receiver, received, mishap>>
  BY DEF Send
<1> HIDE DEF w, encoded
<1>c. /\ frames \in Seq(Nat) /\ Len(frames) \in Nat
      /\ Content(input) \in Seq(CellType) /\ input.size \in Nat
      /\ pipe \in Seq(CellType) /\ coming \in Seq(CellType)
      /\ Len(coming) = input.size + Len(pipe)
  BY ComingIs
<1>3. IsRing(output', CellType) /\ output'.size = 0
  <2>1. encoded.size \in Nat /\ Least(encoded.size, encoded.size) = encoded.size
    BY <1>1, RingFacts DEF Least
  <2>2. output' = AfterReading(encoded, encoded.size)
    BY <1>1, <1>2, <2>1 DEF AfterReading
  <2>3. /\ IsRing(AfterReading(encoded, encoded.size), CellType)
        /\ AfterReading(encoded, encoded.size).size = encoded.size - Least(encoded.size, encoded.size)
    BY <1>1, <2>1, ReadingTakesTheFront
  <2> QED BY <2>1, <2>2, <2>3
<1>4. coming' = coming \o w /\ pipe' \in Seq(CellType)
  <2>1. coming' = Content(input) \o (pipe \o w)
    BY <1>2 DEF coming
  <2>2. Content(input) \o (pipe \o w) = (Content(input) \o pipe) \o w
    <3>1. Content(input) \in Seq(CellType) /\ pipe \in Seq(CellType) /\ w \in Seq(CellType)
      BY <1>1, <1>c
    <3>2. PICK x \in Seq(CellType), y \in Seq(CellType), z \in Seq(CellType) :
                x = Content(input) /\ y = pipe /\ z = w
      BY <3>1
    <3>3. (x \o y) \o z = x \o (y \o z)
      BY ConcatAssociative
    <3> QED BY <3>2, <3>3
  <2>3. pipe \o w \in Seq(CellType)
    BY <1>1, <1>c, ConcatProperties
  <2> QED BY <1>2, <2>1, <2>2, <2>3 DEF coming
<1>5. WholeFrames(coming, frames)
  BY DEF StreamInv, Undisturbed
<1>6. /\ WholeFrames(coming', frames') /\ coming' # <<>>
      /\ FirstFrame(coming', frames') = FirstFrame(coming, frames)
  BY <1>1, <1>2, <1>4, <1>5, <1>c, FrameAppended
<1>7. PICK n \in Nat, first \in Nat : /\ n = Len(frames) /\ first = FirstFrame(coming, frames)
                                     /\ first >= 1 /\ first <= n + 1
  <2>1. FirstFrame(coming, frames) \in 1..(Len(frames) + 1)
    BY <1>5, <1>c, FirstFrameBound
  <2> QED BY <1>c, <2>1
<1>8. /\ frames' \in Seq(Payloads) /\ Len(frames') = n + 1
      /\ \A f \in 1..n : frames'[f] = frames[f]
  <2>1. frames \in Seq(Payloads)
    BY DEF StreamInv
  <2> QED BY <1>2, <1>7, <2>1
<1>9. ReturnedBefore(first)'
  <2>1. ReturnedBefore(first)
    BY <1>7 DEF StreamInv, Undisturbed
  <2>2. \A h \in 1..(first - 1) : frames'[h] = frames[h]
    <3>1. \A h \in 1..(first - 1) : h \in 1..n
      BY <1>7
    <3> QED BY <1>8, <3>1
  <2>3. {h \in 1..(first - 1) : frames'[h] > 0} = {h \in 1..(first - 1) : frames[h] > 0}
    BY <2>2
  <2>4. {Payload(g, frames'[g]) : g \in {h \in 1..(first - 1) : frames[h] > 0}}
           = {Payload(g, frames[g]) : g \in {h \in 1..(first - 1) : frames[h] > 0}}
    BY <2>2
  <2>5. received' = received
    BY <1>2
  <2> QED BY <2>1, <2>3, <2>4, <2>5 DEF ReturnedBefore
<1>10. ~pipelined => input.begin = 0 /\ coming'[1].frame = n + 1
  <2> SUFFICES ASSUME ~pipelined PROVE input.begin = 0 /\ coming'[1].frame = n + 1
    OBVIOUS
  <2>1. input.begin = 0 /\ pipe = <<>> /\ input.size = 0
    BY <1>2 DEF StreamInv, Undisturbed, MaySend
  <2>2. coming = <<>>
    BY <1>c, <2>1, EmptySeq
  <2>3. coming' = w
    BY <1>1, <1>4, <2>2, ConcatEmptySeq
  <2>4. 1 \in 1..(HeaderLen + len)
    BY <1>1, StreamConstants
  <2>5. w[1] = Cell(n + 1, 1)
    BY <1>1, <1>7, <2>4
  <2> QED BY <2>1, <2>3, <2>5 DEF Cell
<1>11. Undisturbed'
  <2>1. Len(received) < first
    BY <1>7 DEF StreamInv, Undisturbed
  <2> QED BY <1>2, <1>3, <1>4, <1>6, <1>7, <1>8, <1>9, <1>10, <2>1 DEF Undisturbed
<1>12. /\ pipelined \in BOOLEAN /\ receiver \in {"fetch", "decode"}
       /\ received \in Seq(Seq(CellType)) /\ Len(received) <= n /\ IsRing(input, CellType)
  BY <1>7 DEF StreamInv
<1>13. Len(received) <= n + 1
  BY <1>12
<1> QED BY <1>2, <1>3, <1>8, <1>11, <1>12, <1>13 DEF StreamInv

LEMMA SendInThreeStep ==
  ASSUME StreamInv, mishap = "none", NEW len \in Payloads, SendInThree(len)
  PROVE  StreamInv'
<1> DEFINE encoded == Encode(output, Len(frames) + 1, len)
<1>1. IsRing(encoded, CellType)
  BY EncodedIs
<1>2. /\ frames' = Append(frames, len) /\ output' = encoded /\ mishap' = "repeated"
      /\ UNCHANGED <<pipelined, input, receiver, received>>
  BY DEF SendInThree
<1> HIDE DEF encoded
<1>3. frames' \in Seq(Payloads) /\ Len(frames') = Len(frames) + 1
  BY <1>2 DEF StreamInv
<1>4. /\ pipelined \in BOOLEAN /\ receiver \in {"fetch", "decode"}
      /\ received \in Seq(Seq(CellType)) /\ Len(received) <= Len(frames)
      /\ IsRing(input, CellType) /\ Len(frames) \in Nat
  BY DEF StreamInv
<1>5. Len(received) <= Len(frames) + 1
  BY <1>4
<1> QED BY <1>1, <1>2, <1>3, <1>4, <1>5 DEF StreamInv

(* What readv takes off the pipe is appended to m_input_buffer_. *)
LEMMA FetchSomeStep ==
  ASSUME StreamInv, mishap = "none", FetchSome
  PROVE  StreamInv'
<1>1. PICK n \in 1..Least(Len(pipe), FetchLimit(input)) :
          /\ pipe' = SubSeq(pipe, n + 1, Len(pipe))
          /\ input' = Fetch(input, SubSeq(pipe, 1, n))
          /\ mishap' = IF Overruns(input, SubSeq(pipe, 1, n)) THEN "overrun" ELSE mishap
  BY DEF FetchSome
<1> DEFINE s == SubSeq(pipe, 1, n)
           rest == SubSeq(pipe, n + 1, Len(pipe))
<1>2. /\ receiver' = "decode" /\ UNCHANGED <<pipelined, frames, output, received>>
  BY DEF FetchSome
<1>c. /\ IsRing(input, CellType) /\ pipe \in Seq(CellType)
      /\ Content(input) \in Seq(CellType)
  BY ComingIs
<1>3. n \in 0..Len(pipe)
  <2>1. Len(pipe) \in Nat /\ FetchLimit(input) \in Int
    <3>1. Writable(input) \in Int /\ Package \in Int
      BY <1>c, RingFacts, RingConstants DEF Writable
    <3> QED BY <1>c, <3>1 DEF FetchLimit
  <2>2. Least(Len(pipe), FetchLimit(input)) <= Len(pipe)
    BY <2>1 DEF Least
  <2>3. Least(Len(pipe), FetchLimit(input)) \in Int
    BY <2>1 DEF Least
  <2> QED BY <2>1, <2>2, <2>3
<1>4. s \in Seq(CellType) /\ rest \in Seq(CellType) /\ s \o rest = pipe
  BY <1>3, <1>c, FrontIs, BackIs, FrontAndBack
<1> HIDE DEF s, rest
<1>i. /\ pipelined \in BOOLEAN /\ frames \in Seq(Payloads)
      /\ received \in Seq(Seq(CellType)) /\ Len(received) <= Len(frames)
      /\ IsRing(output, CellType)
  BY DEF StreamInv
<1>u. /\ output.size = 0
      /\ WholeFrames(coming, frames)
      /\ ReturnedBefore(FirstFrame(coming, frames))
      /\ Len(received) < FirstFrame(coming, frames)
      /\ ~pipelined => input.begin = 0 /\ (coming # <<>> => coming[1].frame = Len(frames))
  BY DEF StreamInv, Undisturbed
<1>5. CASE Overruns(input, s)
  <2>1. mishap' = "overrun"
    BY <1>1, <1>5 DEF s
  <2>2. input.begin > 0
    BY <1>4, <1>5, <1>c, OverrunsExactly
  <2>3. pipelined
    BY <1>u, <2>2
  <2> QED BY <1>2, <1>i, <2>1, <2>3 DEF StreamInv
<1>6. CASE ~Overruns(input, s)
  <2>1. mishap' = "none" /\ input' = Fetch(input, s) /\ pipe' = rest
    BY <1>1, <1>6 DEF s, rest
  <2>2. /\ IsRing(input', CellType) /\ Content(input') = Content(input) \o s
        /\ input'.begin \in {0, input.begin}
    BY <1>4, <1>6, <1>c, <2>1, FetchAppends
  <2>3. coming' = coming
    <3>1. coming' = (Content(input) \o s) \o rest
      BY <2>1, <2>2 DEF coming
    <3>2. (Content(input) \o s) \o rest = Content(input) \o (s \o rest)
      <4>1. Content(input) \in Seq(CellType) /\ s \in Seq(CellType) /\ rest \in Seq(CellType)
        BY <1>4, <1>c
      <4>2. PICK x \in Seq(CellType), y \in Seq(CellType), z \in Seq(CellType) :
                  x = Content(input) /\ y = s /\ z = rest
        BY <4>1
      <4>3. (x \o y) \o z = x \o (y \o z)
        BY ConcatAssociative
      <4> QED BY <4>2, <4>3
    <3> QED BY <1>4, <3>1, <3>2 DEF coming
  <2>4. ReturnedBefore(FirstFrame(coming, frames))'
    BY <1>2, <1>u, <2>3 DEF ReturnedBefore
  <2>5. Undisturbed'
    BY <1>2, <1>4, <1>u, <2>1, <2>2, <2>3, <2>4 DEF Undisturbed
  <2> QED BY <1>2, <1>i, <2>1, <2>2, <2>5 DEF StreamInv
<1> QED BY <1>5, <1>6

LEMMA DecodeNothingStep ==
  ASSUME StreamInv, DecodeNothing
  PROVE  StreamInv'
BY DEF StreamInv, Undisturbed, DecodeNothing, coming, ReturnedBefore

(* What Decode finds when the first frame is complete. *)
LEMMA DecodedIs ==
  ASSUME StreamInv, mishap = "none", Decodable(input)
  PROVE  LET f == coming[1].frame
             len == PackageSize(input)
             headed == AfterReading(input, HeaderLen)
             rest == AfterReading(headed, len)
         IN  /\ coming # <<>> /\ f \in DOMAIN frames /\ len = frames[f] /\ len \in Nat
             /\ HeaderLen + len <= input.size
             /\ Peek(headed, len) = Payload(f, len)
             /\ IsRing(rest, CellType) /\ rest.size = input.size - (HeaderLen + len)
             /\ Content(rest) \o pipe = SubSeq(coming, HeaderLen + len + 1, Len(coming))
<1> DEFINE f == coming[1].frame
           len == PackageSize(input)
           headed == AfterReading(input, HeaderLen)
           rest == AfterReading(headed, len)
           c == Content(input)
<1>c. /\ IsRing(input, CellType) /\ frames \in Seq(Nat)
      /\ c \in Seq(CellType) /\ Len(c) = input.size
      /\ pipe \in Seq(CellType) /\ coming \in Seq(CellType)
      /\ Len(coming) = input.size + Len(pipe)
      /\ \A i \in 1..input.size : coming[i] = c[i]
      /\ \A i \in 1..Len(pipe) : coming[input.size + i] = pipe[i]
  BY ComingIs
<1>1. PICK h \in Nat, z \in Nat, p \in Nat : /\ h = HeaderLen /\ h > 0 /\ z = input.size
                                       /\ h <= z /\ p = Len(pipe)
  <2>1. HeaderLen \in Nat /\ HeaderLen > 0 /\ input.size \in Nat /\ Len(pipe) \in Nat
    BY <1>c, StreamConstants
  <2>2. HeaderLen <= input.size
    BY <2>1 DEF Decodable
  <2> QED BY <2>1, <2>2
<1>2. coming # <<>> /\ coming[1] = c[1]
  <2>1. 1 \in 1..z /\ Len(coming) # 0
    BY <1>1, <1>c
  <2> QED BY <1>1, <1>c, <2>1
<1>3. WholeFrames(coming, frames)
  BY DEF StreamInv, Undisturbed
<1>4. f \in DOMAIN frames /\ \A k \in 1..FrameLen(frames, f) : coming[k] = Cell(f, k)
  BY <1>2, <1>3, <1>c, FrameTaken
<1>5. len = frames[f]
  <2>1. Least(h, z) = h
    BY <1>1 DEF Least
  <2>2. Peek(input, h) = SubSeq(c, 1, h)
    BY <1>1, <1>c, <2>1, PeekIsFront
  <2>3. h \in 0..Len(c) /\ 1 \in 1..h
    BY <1>1, <1>c
  <2>4. SubSeq(c, 1, h)[1] = c[1]
    BY <1>c, <2>3, FrontIs
  <2>5. Peek(input, HeaderLen)[1] = coming[1]
    BY <1>1, <1>2, <2>2, <2>4
  <2> QED BY <2>5 DEF PackageSize
<1>6. len \in Nat
  <2>1. frames \in Seq(Nat) /\ f \in DOMAIN frames
    BY <1>4, <1>c
  <2> HIDE DEF f, len
  <2>2. frames[f] \in Nat
    BY <2>1
  <2> QED BY <1>5, <2>2
<1>7. h + len <= z
  BY <1>1 DEF Decodable
<1> HIDE DEF f, len, headed, rest, c
<1>8. /\ IsRing(headed, CellType) /\ headed.size = z - h
      /\ Content(headed) = SubSeq(c, h + 1, z)
  <2>1. Least(h, z) = h
    BY <1>1 DEF Least
  <2>2. LET n == Least(h, input.size)
            after == AfterReading(input, h)
        IN  /\ IsRing(after, CellType) /\ after.size = input.size - n
            /\ after.capacity = input.capacity
            /\ Peek(input, h) = SubSeq(Content(input), 1, n)
            /\ Content(after) = SubSeq(Content(input), n + 1, input.size)
    BY <1>c, ReadingTakesTheFront
  <2> QED BY <1>1, <2>1, <2>2 DEF headed, c
<1>9. /\ Content(headed) \in Seq(CellType) /\ Len(Content(headed)) = z - h
      /\ \A i \in 1..(z - h) : Content(headed)[i] = c[h + i]
  <2>1. h \in 0..Len(c) /\ Len(c) = z
    BY <1>1, <1>c
  <2> QED BY <1>8, <1>c, <2>1, BackIs
<1>10. /\ IsRing(rest, CellType) /\ rest.size = z - h - len
       /\ Peek(headed, len) = SubSeq(Content(headed), 1, len)
       /\ Content(rest) = SubSeq(Content(headed), len + 1, z - h)
  <2>1. Least(len, z - h) = len
    BY <1>1, <1>6, <1>7 DEF Least
  <2>2. LET n == Least(len, headed.size)
            after == AfterReading(headed, len)
        IN  /\ IsRing(after, CellType) /\ after.size = headed.size - n
            /\ after.capacity = headed.capacity
            /\ Peek(headed, len) = SubSeq(Content(headed), 1, n)
            /\ Content(after) = SubSeq(Content(headed), n + 1, headed.size)
    BY <1>6, <1>8, ReadingTakesTheFront
  <2> QED BY <1>8, <2>1, <2>2 DEF rest
<1>11. len \in 0..Len(Content(headed)) /\ Len(Content(headed)) = z - h
  BY <1>1, <1>6, <1>7, <1>9
<1>12. Peek(headed, len) = Payload(f, len)
  <2>0. f \in Nat
    BY <1>4, <1>c
  <2>1. /\ Payload(f, len) \in Seq(CellType) /\ Len(Payload(f, len)) = len
        /\ \A k \in 1..len : Payload(f, len)[k] = Cell(f, h + k)
    BY <1>1, <1>6, <2>0, PayloadIs
  <2>2. /\ Peek(headed, len) \in Seq(CellType) /\ Len(Peek(headed, len)) = len
        /\ \A k \in 1..len : Peek(headed, len)[k] = Content(headed)[k]
    BY <1>9, <1>10, <1>11, FrontIs
  <2>3. ASSUME NEW k \in 1..len PROVE Peek(headed, len)[k] = Payload(f, len)[k]
    <3>1. k \in 1..(z - h) /\ h + k \in 1..z /\ h + k \in 1..(h + len)
      BY <1>1, <1>6, <1>7
    <3>2. FrameLen(frames, f) = h + len
      BY <1>1, <1>5 DEF FrameLen
    <3>3. c[h + k] = Cell(f, h + k)
      BY <1>1, <1>4, <1>c, <3>1, <3>2
    <3> QED BY <1>9, <2>1, <2>2, <3>1, <3>3
  <2> QED BY <2>1, <2>2, <2>3, SeqEqual
<1>13. /\ Content(rest) \in Seq(CellType) /\ Len(Content(rest)) = z - h - len
       /\ \A i \in 1..(z - h - len) : Content(rest)[i] = c[h + len + i]
  <2>1. /\ Content(rest) \in Seq(CellType) /\ Len(Content(rest)) = (z - h) - len
        /\ \A i \in 1..((z - h) - len) : Content(rest)[i] = Content(headed)[len + i]
    BY <1>9, <1>10, <1>11, BackIs
  <2>2. ASSUME NEW i \in 1..((z - h) - len) PROVE Content(rest)[i] = c[h + len + i]
    <3>1. len + i \in 1..(z - h) /\ h + (len + i) = h + len + i
      BY <1>6, <1>7
    <3> QED BY <1>9, <2>1, <3>1
  <2> QED BY <2>1, <2>2
<1>14. Content(rest) \o pipe = SubSeq(coming, h + len + 1, Len(coming))
  <2> DEFINE l == h + len
             a == Content(rest)
             b == SubSeq(coming, l + 1, Len(coming))
  <2>0. l \in Nat /\ l <= z /\ Len(coming) = z + p /\ l \in 0..Len(coming) /\ z - h - len = z - l
    BY <1>1, <1>6, <1>7, <1>c
  <2>1. /\ b \in Seq(CellType) /\ Len(b) = (z + p) - l
        /\ \A i \in 1..((z + p) - l) : b[i] = coming[l + i]
    <3>1. coming \in Seq(CellType) /\ l \in 0..Len(coming)
      BY <1>c, <2>0
    <3>2. /\ b \in Seq(CellType) /\ Len(b) = Len(coming) - l
          /\ \A i \in 1..(Len(coming) - l) : b[i] = coming[l + i]
      BY <3>1, BackIs
    <3> QED BY <2>0, <3>2
  <2>2. /\ a \in Seq(CellType) /\ Len(a) = z - l
        /\ \A i \in 1..(z - l) : a[i] = c[l + i]
    BY <1>13, <2>0
  <2> HIDE DEF l, a, b
  <2>3. /\ a \o pipe \in Seq(CellType) /\ Len(a \o pipe) = Len(a) + Len(pipe)
        /\ \A i \in 1 .. Len(a) + Len(pipe) :
              (a \o pipe)[i] = IF i <= Len(a) THEN a[i] ELSE pipe[i - Len(a)]
    BY <1>c, <2>2, ConcatProperties
  <2>4. Len(a \o pipe) = Len(b)
    BY <1>1, <2>0, <2>1, <2>2, <2>3
  <2>5. ASSUME NEW i \in 1..Len(b) PROVE (a \o pipe)[i] = b[i]
    <3>1. i \in Nat /\ i >= 1 /\ i <= (z + p) - l /\ i \in 1..((z + p) - l)
      BY <2>0, <2>1
    <3>2. b[i] = coming[l + i]
      BY <2>1, <3>1
    <3>3. (a \o pipe)[i] = IF i <= z - l THEN a[i] ELSE pipe[i - (z - l)]
      <4>1. i \in 1 .. Len(a) + Len(pipe)
        BY <1>1, <2>0, <2>2, <3>1
      <4> QED BY <2>2, <2>3, <4>1
    <3>4. CASE i <= z - l
      <4>1. i \in 1..(z - l) /\ l + i \in 1..z
        BY <2>0, <3>1, <3>4
      <4>2. a[i] = c[l + i] /\ coming[l + i] = c[l + i]
        BY <1>1, <1>c, <2>2, <4>1
      <4> QED BY <3>2, <3>3, <3>4, <4>2
    <3>5. CASE ~(i <= z - l)
      <4>1. PICK j \in 1..p : j = i - (z - l) /\ l + i = z + j
        <5>1. i - (z - l) \in 1..p /\ l + i = z + (i - (z - l))
          BY <2>0, <3>1, <3>5
        <5> QED BY <5>1
      <4>2. coming[z + j] = pipe[j]
        BY <1>1, <1>c
      <4> QED BY <3>2, <3>3, <3>5, <4>1, <4>2
    <3> QED BY <3>4, <3>5
  <2>6. a \o pipe = b
    BY <2>1, <2>3, <2>4, <2>5, SeqEqual
  <2> QED BY <2>6 DEF a, b, l
<1>15. rest.size = input.size - (HeaderLen + len)
  BY <1>1, <1>6, <1>10
<1> QED BY <1>1, <1>2, <1>4, <1>5, <1>6, <1>7, <1>10, <1>12, <1>14, <1>15
        DEF f, len, headed, rest

(* The message of frame f comes behind those before it. *)
LEMMA MessageReturned ==
  ASSUME NEW f \in Nat, NEW len \in Nat, frames[f] = len, f >= 1,
         received \in Seq(Seq(CellType)), ReturnedBefore(f),
         \A h \in 1..(f - 1) : frames[h] \in Nat,
         frames' = frames,
         received' = IF Payload(f, len) = <<>> THEN received ELSE Append(received, Payload(f, len))
  PROVE  /\ received' \in Seq(Seq(CellType)) /\ Len(received') <= Len(received) + 1
         /\ ReturnedBefore(f + 1)'
<1> DEFINE message == Payload(f, len)
           before(g) == {Payload(h, frames[h]) : h \in {k \in 1..(g - 1) : frames[k] > 0}}
<1>1. /\ message \in Seq(CellType) /\ Len(message) = len
      /\ \A k \in 1..len : message[k] = Cell(f, HeaderLen + k)
  BY PayloadIs
<1>2. message = <<>> <=> len = 0
  BY <1>1, EmptySeq
<1>3. \A h \in 1..f : h \in 1..(f - 1) \/ h = f
  OBVIOUS
<1>4. f \in 1..f /\ 1..(f - 1) \subseteq 1..f /\ f + 1 - 1 = f
  OBVIOUS
<1>r. Range(received) = before(f)
  BY DEF ReturnedBefore
<1>o. \A i, j \in DOMAIN received : i < j => received[i][1].frame < received[j][1].frame
  BY DEF ReturnedBefore
<1> HIDE DEF message
<1>5. CASE len = 0
  <2>1. received' = received
    BY <1>2, <1>5 DEF message
  <2>2. {k \in 1..((f + 1) - 1) : frames[k] > 0} = {k \in 1..(f - 1) : frames[k] > 0}
    <3>1. (f + 1) - 1 = f /\ ~(frames[f] > 0)
      BY <1>5
    <3> QED BY <1>3, <1>4, <3>1
  <2>3. ReturnedBefore(f + 1)'
    BY <1>o, <1>r, <2>1, <2>2 DEF ReturnedBefore
  <2>4. Len(received) <= Len(received) + 1
    OBVIOUS
  <2> QED BY <2>1, <2>3, <2>4
<1>6. CASE len # 0
  <2>1. received' = Append(received, message)
    BY <1>2, <1>6 DEF message
  <2>2. PICK n \in Nat : n = Len(received)
    OBVIOUS
  <2>3. /\ received' \in Seq(Seq(CellType)) /\ Len(received') = n + 1
        /\ DOMAIN received = 1..n /\ DOMAIN received' = 1..(n + 1)
        /\ received'[n + 1] = message /\ \A i \in 1..n : received'[i] = received[i]
    BY <1>1, <2>1, <2>2
  <2>4. Range(received') = Range(received) \cup {message}
    <3>1. \A i \in 1..(n + 1) : i \in 1..n \/ i = n + 1
      OBVIOUS
    <3>2. n + 1 \in 1..(n + 1) /\ 1..n \subseteq 1..(n + 1)
      OBVIOUS
    <3>3. \A x \in Range(received') : x \in Range(received) \cup {message}
      BY <2>3, <3>1 DEF Range
    <3>4. \A x \in Range(received) \cup {message} : x \in Range(received')
      BY <2>3, <3>2 DEF Range
    <3> QED BY <3>3, <3>4
  <2>5. {k \in 1..((f + 1) - 1) : frames[k] > 0} = {k \in 1..(f - 1) : frames[k] > 0} \cup {f}
    <3>1. (f + 1) - 1 = f /\ frames[f] > 0
      BY <1>6
    <3> QED BY <1>3, <1>4, <3>1
  <2>6. before(f + 1) = before(f) \cup {message}
    BY <2>5 DEF message
  <2>7. ASSUME NEW i \in 1..n PROVE received[i][1].frame < f
    <3>1. received[i] \in before(f)
      BY <1>r, <2>3 DEF Range
    <3>2. PICK h \in 1..(f - 1) : frames[h] > 0 /\ received[i] = Payload(h, frames[h])
      BY <3>1
    <3>3. frames[h] \in Nat /\ 1 \in 1..frames[h] /\ h \in Nat /\ h < f
      BY <3>2
    <3>4. received[i][1] = Cell(h, HeaderLen + 1)
      <4>1. PICK p \in Nat : p = frames[h] /\ 1 \in 1..p
        BY <3>3
      <4>2. \A k \in 1..p : Payload(h, p)[k] = Cell(h, HeaderLen + k)
        BY <3>3, PayloadIs
      <4>3. Payload(h, p)[1] = Cell(h, HeaderLen + 1)
        BY <4>1, <4>2
      <4> QED BY <3>2, <4>1, <4>3
    <3>5. Cell(h, HeaderLen + 1).frame = h
      BY DEF Cell
    <3> QED BY <3>3, <3>4, <3>5
  <2>8. received'[n + 1][1].frame = f
    <3>1. 1 \in 1..len
      BY <1>6
    <3> QED BY <1>1, <2>3, <3>1 DEF Cell
  <2>9. ASSUME NEW i \in 1..(n + 1), NEW j \in 1..(n + 1), i < j
        PROVE  received'[i][1].frame < received'[j][1].frame
    <3>1. i \in 1..n /\ (j \in 1..n \/ j = n + 1)
      BY <2>9
    <3>2. CASE j \in 1..n
      BY <1>o, <2>3, <2>9, <3>1, <3>2
    <3>3. CASE j = n + 1
      BY <2>3, <2>7, <2>8, <3>1, <3>3
    <3> QED BY <3>1, <3>2, <3>3
  <2>10. ReturnedBefore(f + 1)'
    <3>1. Range(received') =
             {Payload(g, frames'[g]) : g \in {h \in 1..((f + 1) - 1) : frames'[h] > 0}}
      <4>1. frames' = frames
        OBVIOUS
      <4>2. Range(received') = before(f + 1)
        BY <1>r, <2>4, <2>6
      <4> QED BY <4>1, <4>2
    <3>2. \A i, j \in DOMAIN received' : i < j => received'[i][1].frame < received'[j][1].frame
      BY <2>3, <2>9
    <3> QED BY <3>1, <3>2 DEF ReturnedBefore
  <2>11. Len(received') <= n + 1
    BY <2>3
  <2> QED BY <2>2, <2>3, <2>10, <2>11
<1> QED BY <1>5, <1>6

LEMMA DecodeOneStep ==
  ASSUME StreamInv, mishap = "none", DecodeOne
  PROVE  StreamInv'
<1> DEFINE f == coming[1].frame
           len == PackageSize(input)
           headed == AfterReading(input, HeaderLen)
           rest == AfterReading(headed, len)
           l == HeaderLen + len
<1>d. Decodable(input)
  BY DEF DecodeOne
<1>1. /\ coming # <<>> /\ f \in DOMAIN frames /\ len = frames[f] /\ len \in Nat
      /\ l <= input.size
      /\ Peek(headed, len) = Payload(f, len)
      /\ IsRing(rest, CellType) /\ rest.size = input.size - l
      /\ Content(rest) \o pipe = SubSeq(coming, l + 1, Len(coming))
  BY <1>d, DecodedIs
<1>2. /\ input' = rest /\ receiver' = "fetch"
      /\ received' = IF Payload(f, len) = <<>> THEN received ELSE Append(received, Payload(f, len))
      /\ UNCHANGED <<pipelined, frames, output, pipe, mishap>>
  BY <1>1 DEF DecodeOne
<1> HIDE DEF f, len, headed, rest
<1>t. l <= input.size
  BY <1>1
<1>c. /\ frames \in Seq(Nat) /\ input.size \in Nat /\ Len(pipe) \in Nat
      /\ coming \in Seq(CellType) /\ Len(coming) = input.size + Len(pipe)
  BY ComingIs
<1>i. /\ pipelined \in BOOLEAN /\ frames \in Seq(Payloads)
      /\ received \in Seq(Seq(CellType)) /\ Len(received) <= Len(frames)
      /\ IsRing(output, CellType)
  BY DEF StreamInv
<1>u. /\ output.size = 0 /\ pipe \in Seq(CellType)
      /\ WholeFrames(coming, frames)
      /\ ReturnedBefore(FirstFrame(coming, frames))
      /\ Len(received) < FirstFrame(coming, frames)
      /\ ~pipelined => input.begin = 0 /\ (coming # <<>> => coming[1].frame = Len(frames))
  BY DEF StreamInv, Undisturbed
<1>3. /\ FirstFrame(coming, frames) = f /\ l = FrameLen(frames, f)
  BY <1>1 DEF FirstFrame, FrameLen, f
<1>4. PICK n \in Nat : n = Len(frames) /\ f \in 1..n /\ f \in Nat /\ f >= 1 /\ f <= n
  <2>1. Len(frames) \in Nat /\ DOMAIN frames = 1..Len(frames)
    BY <1>c
  <2>2. f \in 1..Len(frames)
    BY <1>1, <2>1
  <2>3. f \in Nat /\ f >= 1 /\ f <= Len(frames)
    BY <2>1, <2>2
  <2> QED BY <2>1, <2>2, <2>3
<1>g. PICK g \in Nat, p \in Nat : g = f /\ p = len
  BY <1>1, <1>4
<1>5. coming' = SubSeq(coming, l + 1, Len(coming))
  BY <1>1, <1>2 DEF coming
<1>6. /\ f = n => l = Len(coming)
      /\ WholeFrames(coming', frames) /\ FirstFrame(coming', frames) = f + 1
  BY <1>1, <1>3, <1>4, <1>5, <1>c, <1>u, FrameTaken DEF f
<1>7. /\ received' \in Seq(Seq(CellType)) /\ Len(received') <= Len(received) + 1
      /\ ReturnedBefore(g + 1)'
  <2>1. \A h \in 1..(g - 1) : frames[h] \in Nat
    <3>1. \A h \in 1..(g - 1) : h \in 1..n
      BY <1>4, <1>g
    <3> QED BY <1>4, <1>c, <3>1
  <2>2. ReturnedBefore(g)
    BY <1>3, <1>g, <1>u
  <2>3. frames[g] = p /\ g >= 1 /\ frames' = frames
    BY <1>1, <1>2, <1>4, <1>g
  <2>4. received' = IF Payload(g, p) = <<>> THEN received ELSE Append(received, Payload(g, p))
    BY <1>2, <1>g
  <2>5. received \in Seq(Seq(CellType))
    BY <1>i
  <2> QED BY <2>1, <2>2, <2>3, <2>4, <2>5, MessageReturned
<1>8. Len(received') < f + 1 /\ Len(received') <= n
  <2>1. PICK a \in Nat, b \in Nat : a = Len(received) /\ b = Len(received')
    BY <1>7, <1>i
  <2>2. a < f /\ b <= a + 1
    BY <1>3, <1>7, <1>u, <2>1
  <2> QED BY <1>4, <2>1, <2>2
<1>9. ~pipelined => input'.begin = 0 /\ coming' = <<>>
  <2> SUFFICES ASSUME ~pipelined PROVE input'.begin = 0 /\ coming' = <<>>
    OBVIOUS
  <2>1. f = n
    BY <1>1, <1>4, <1>u DEF f
  <2>2. l = input.size + Len(pipe)
    BY <1>6, <1>c, <2>1
  <2>3. l \in Nat
    BY <1>1, StreamConstants
  <2> HIDE DEF l
  <2>4. Len(pipe) = 0 /\ l = input.size /\ l = Len(coming)
    <3>1. PICK x \in Nat, y \in Nat, z \in Nat : x = l /\ y = input.size /\ z = Len(pipe)
      BY <1>c, <2>3
    <3>2. x <= y /\ x = y + z
      BY <1>t, <2>2, <3>1
    <3>3. z = 0 /\ x = y
      BY <3>2
    <3> QED BY <1>6, <2>1, <3>1, <3>3
  <2>5. rest.size = 0
    BY <1>1, <2>3, <2>4
  <2>6. rest.begin = 0
    BY <1>1, <2>5, RingFacts
  <2>7. coming' = <<>>
    <3>1. l + 1 \in Int /\ Len(coming) \in Int /\ Len(coming) < l + 1
      BY <2>3, <2>4
    <3>2. SubSeq(coming, l + 1, Len(coming)) = <<>>
      BY <3>1, SubSeqEmpty
    <3> QED BY <1>5, <3>2
  <2> QED BY <1>2, <2>6, <2>7
<1>10. Undisturbed'
  <2>1. /\ output'.size = 0 /\ pipe' \in Seq(CellType) /\ WholeFrames(coming', frames')
        /\ FirstFrame(coming', frames') = f + 1
    BY <1>2, <1>6, <1>u
  <2>2. FirstFrame(coming', frames') = g + 1
    BY <1>g, <2>1
  <2>3. ReturnedBefore(FirstFrame(coming, frames))'
    BY <1>7, <2>2 DEF ReturnedBefore
  <2> QED BY <1>2, <1>8, <1>9, <2>1, <2>3 DEF Undisturbed
<1> QED BY <1>1, <1>2, <1>4, <1>7, <1>8, <1>10, <1>i DEF StreamInv

LEMMA StreamStep ==
  ASSUME StreamInv, StreamNext
  PROVE  StreamInv'
<1>1. mishap = "none"
  BY DEF StreamNext
<1>2. ASSUME NEW len \in Payloads, Send(len) PROVE StreamInv'
  BY <1>1, <1>2, SendStep
<1>3. ASSUME NEW len \in Payloads, SendInThree(len) PROVE StreamInv'
  BY <1>1, <1>3, SendInThreeStep
<1>4. CASE FetchSome
  BY <1>1, <1>4, FetchSomeStep
<1>5. CASE DecodeNothing
  BY <1>5, DecodeNothingStep
<1>6. CASE DecodeOne
  BY <1>1, <1>6, DecodeOneStep
<1> QED BY <1>2, <1>3, <1>4, <1>5, <1>6 DEF StreamNext, Receive

LEMMA InvAlways == Spec => []StreamInv
<1>1. Init => StreamInv
  BY InitStep DEF Init
<1>2. StreamInv /\ [Next]_vars => StreamInv'
  <2> SUFFICES ASSUME StreamInv, [Next]_vars PROVE StreamInv'
    OBVIOUS
  <2>1. CASE StreamNext
    BY <2>1, StreamStep
  <2>2. CASE UNCHANGED streamVars
    BY <2>2, UnchangedStream
  <2> QED BY <2>1, <2>2 DEF Next, vars
<1> QED BY <1>1, <1>2, PTL DEF Spec

-----------------------------------------------------------------------------

(* Every variable holds a value of its type, and m_size_ agrees with m_begin_ and m_end_
   in both buffers after every step of the codec and of readv and writev
   (RingBuffer.cpp:14-187). *)
THEOREM StreamTypeCorrect == Spec => []StreamTypeOK
<1>1. StreamInv => StreamTypeOK
  BY DEF StreamInv, StreamTypeOK, IsRing
<1> QED BY <1>1, InvAlways, PTL

(* Through every wrap and growth of the buffers and every way of cutting the stream, what
   is coming are whole frames in order, and what Decode returned (Codec.h:45-61) are the
   messages before them, each once. *)
THEOREM MessagesArriveInOrder == Spec => []StreamInOrder
<1>1. StreamInv => StreamInOrder
  BY DEF StreamInv, Undisturbed, StreamInOrder, coming
<1> QED BY <1>1, InvAlways, PTL

(* readv (RingBuffer.cpp:165-168) stays inside the array while the sender waits until its
   message was taken. *)
THEOREM NoOverrunWithoutPipelining == Spec => []OverrunOnlyWhenPipelined
<1>1. StreamInv => OverrunOnlyWhenPipelined
  BY DEF StreamInv, OverrunOnlyWhenPipelined
<1> QED BY <1>1, InvAlways, PTL
=============================================================================
