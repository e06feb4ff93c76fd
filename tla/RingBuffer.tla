----------------------------- MODULE RingBuffer -----------------------------
(***************************************************************************)
(* RingBuffer (common/buffer/RingBuffer.h, common/RingBuffer.cpp) as       *)
(* operators on its value: the cells of m_buffer_, counted from zero, and  *)
(* m_begin_, m_end_ and m_size_.                                           *)
(*                                                                         *)
(* A buffer that was empty and is filled exactly keeps its end at the      *)
(* capacity and does not wrap it; what is offered to readv when nothing is *)
(* left behind the end then begins after the last cell.                    *)
(***************************************************************************)
EXTENDS Integers, Sequences, FiniteSetsExt

CONSTANTS Initial,          \* DEFAULT_BUFFER_LEN
          DoublingLimit,    \* MULTIPLY_EXPANSION_LIMIT
          Increment,        \* SINGLE_EXPANSION
          Package           \* MAX_PACKAGE_LEN

ASSUME RingConstants == {Initial, DoublingLimit, Increment, Package} \subseteq Nat \ {0}

Empty(r)    == r.begin = r.end /\ r.size = 0
Full(r)     == r.begin = r.end /\ r.size = r.capacity
Writable(r) == r.capacity - r.size

Ring(cells, capacity, begin, end, size) ==
    [cells |-> cells, capacity |-> capacity, begin |-> begin, end |-> end, size |-> size]

NewRing(cell) == Ring([i \in 0..(Initial - 1) |-> cell], Initial, 0, 0, 0)

-----------------------------------------------------------------------------
(* Broken variants of single operators, no part of the buffer: each stands in    *)
(* for the one it is named after to show that a property notices.                *)

AfterWriteUnwrapped(r, n) == [r EXCEPT !.size = @ + n, !.end = @ + n]

AfterReadKeepsBegin(r, n) == [r EXCEPT !.size = @ - n]

-----------------------------------------------------------------------------

TailSpace(r)   == IF r.begin > r.end \/ Full(r) THEN 0 ELSE r.capacity - r.end
TailContent(r) == IF r.begin < r.end \/ Empty(r) THEN 0 ELSE r.capacity - r.begin

(* std::copy out of and into the buffer; what would go past it is lost here. *)
Cells(r, from, n) == [i \in 1..n |-> r.cells[from + i - 1]]
Copy(cells, at, s) ==
    [i \in DOMAIN cells |-> IF i \in at..(at + Len(s) - 1) THEN s[i - at + 1] ELSE cells[i]]

Least(a, b) == IF a < b THEN a ELSE b

Peek(r, len) ==
    LET n    == Least(len, r.size)
        tail == Least(TailContent(r), n)
    IN  IF r.begin < r.end THEN Cells(r, r.begin, n)
                           ELSE Cells(r, r.begin, tail) \o Cells(r, 0, n - tail)

Content(r) == Peek(r, r.size)

AfterRead(r, n) ==
    IF n = r.size THEN [r EXCEPT !.size = 0, !.begin = 0, !.end = 0]
                  ELSE [r EXCEPT !.size = @ - n, !.begin = (@ + n) % r.capacity]

AfterWrite(r, n) ==
    IF n = 0 THEN r
    ELSE [r EXCEPT !.size = @ + n,
                   !.end  = IF r.begin >= r.end THEN @ + n ELSE (@ + n) % r.capacity]

(* Read returns Peek(r, len) and leaves: *)
AfterReading(r, len) == AfterRead(r, Least(len, r.size))

(* EnableWritableSpace; the loop tests the old capacity each time. *)
NewCapacity(old, needed) ==
    LET after(k) == IF old <= DoublingLimit THEN old * 2^k ELSE old + k * Increment
    IN  after(Min({k \in 1..needed : after(k) >= needed}))

EnableWritableSpace(r, n) ==
    IF r.capacity >= r.size + n THEN r
    ELSE LET capacity == NewCapacity(r.capacity, r.size + n)
             blank    == [i \in 0..(capacity - 1) |-> r.cells[0]]
         IN  Ring(Copy(blank, 0, Content(r)), capacity, 0, r.size, r.size)

(* With the space in two parts the one behind the end is filled first. *)
Write(r0, s) ==
    LET r    == EnableWritableSpace(r0, Len(s))
        tail == IF r.begin >= r.end THEN Len(s) ELSE Least(TailSpace(r), Len(s))
    IN  AfterWrite([r EXCEPT !.cells = Copy(Copy(@, r.end, SubSeq(s, 1, tail)),
                                            0, SubSeq(s, tail + 1, Len(s)))],
                   Len(s))

-----------------------------------------------------------------------------
(* FetchDataFromFd.                                                             *)

(* The pieces of the buffer that readv gets, before the expansion space. *)
Vectors(r) ==
    IF TailSpace(r) > 0 THEN <<[at |-> r.end, len |-> TailSpace(r)], [at |-> 0, len |-> r.begin]>>
                        ELSE <<[at |-> r.end, len |-> Writable(r)], [at |-> 0, len |-> 0]>>

(* How much one readv may take: the expansion space is left out when there is room
   for a package. *)
FetchLimit(r) == Writable(r) + (IF Writable(r) < Package THEN Package ELSE 0)

(* readv of the bytes s: the vectors are filled in order, and what went to the
   expansion space is appended. *)
Fetch(r, s) ==
    LET v      == Vectors(r)
        inside == Least(Len(s), Writable(r))
        first  == Least(inside, v[1].len)
        filled == [r EXCEPT !.cells = Copy(Copy(@, v[1].at, SubSeq(s, 1, first)),
                                           v[2].at, SubSeq(s, first + 1, inside))]
        kept   == AfterWrite(filled, inside)
    IN  IF Len(s) > inside THEN Write(kept, SubSeq(s, inside + 1, Len(s))) ELSE kept

(* The readv of s writes behind the end of the array. *)
Overruns(r, s) ==
    LET v == Vectors(r)[1]
    IN  v.at + Least(Least(Len(s), Writable(r)), v.len) > r.capacity

-----------------------------------------------------------------------------
(* FlushDataToFd hands writev the content as it lies, in one piece or two. *)

Flushed(r) == IF TailContent(r) > 0
              THEN Cells(r, r.begin, TailContent(r)) \o Cells(r, 0, r.size - TailContent(r))
              ELSE Cells(r, r.begin, r.size)

-----------------------------------------------------------------------------
(* What is checked.                                                             *)

(* m_size_ is what m_begin_ and m_end_ say it is, and an empty buffer starts over. *)
RingOK(r) ==
    /\ r.capacity \in Nat /\ DOMAIN r.cells = 0..(r.capacity - 1)
    /\ r.begin \in 0..(r.capacity - 1) /\ r.end \in 0..r.capacity
    /\ r.size \in 0..r.capacity
    /\ r.size = IF r.begin < r.end THEN r.end - r.begin
                ELSE IF Empty(r) THEN 0
                ELSE r.capacity - r.begin + r.end
    /\ r.size = 0 => r.begin = 0

=============================================================================
