------------------------- MODULE ConnectionsProofs -------------------------
(***************************************************************************)
(* Proofs about Connections, for any connections, descriptors and numbers  *)
(* of requests: what keeps the tasks, the coroutines and the poller of a   *)
(* worker together, and when.                                              *)
(***************************************************************************)
EXTENDS Connections, FiniteSetTheorems, SequenceTheorems, WellFoundedInduction, TLAPS

(* The inductive invariant. *)

Alive == {"new", "fetch", "reading", "decode", "flush", "writing"}
Kept  == Alive \cup {"ended"}

(* After the loop of Start. *)
Over == loop \in {"cleanup", "off"}

TaskSet == [does : {"establish", "start", "close", "clean"}, conn : Conn]

(* A sequence without repetition, but for the members of R. *)
Has(s, t)       == \E i \in 1..Len(s) : s[i] = t
Distinct(s, R)  == \A i, j \in 1..Len(s) : s[i] = s[j] => i = j \/ s[i] \in R
Queued(does, c) == Has(deferred, Task(does, c))

(* The tasks that may be queued twice, and what comes of a task of Close that is not the only
   one to close its connection: it resumes a coroutine that has ended. *)
Doubled == [does : {"close"}, conn : closedTwice]
Dead    == cur # None /\ cur = closing /\ cur \in closedTwice /\ at[cur] = "ended"

(* Every pointer leads to a connection that accept4 has returned a descriptor for. *)
Live == {c \in Conn : at[c] # "none"}

Known ==
    /\ \A c \in Live : fdOf[c] \in Fd
    /\ \A t \in TaskSet : Has(deferred, t) => t.conn \in Live
    /\ cur \in Live \cup {None} /\ closing \in Live \cup {None}
    /\ \A fd \in Fd : {conns[fd], onRead[fd], onWrite[fd]} \subseteq Live \cup {None}

TypeInv == TypeOK /\ Known

(* A descriptor denotes the connection that has its number, from accept4 until the task
   that closes it; and is in m_connections_ between Establish and its destruction. *)
Owners ==
    /\ \A fd \in Fd : sock[fd] # None =>
          fdOf[sock[fd]] = fd /\ at[sock[fd]] \notin {"none", "gone"}
    /\ \A fd \in Fd : conns[fd] # None =>
          fdOf[conns[fd]] = fd /\ at[conns[fd]] \in Kept
    /\ \A c \in Conn : at[c] \in {"accepted", "handed"} =>
          fdOf[c] \in Fd /\ sock[fdOf[c]] = c /\ conns[fdOf[c]] = None
    /\ \A c \in Conn : at[c] \in Kept =>
          /\ fdOf[c] \in Fd /\ conns[fdOf[c]] = c
          /\ sock[fdOf[c]] \in {c, None}
          /\ c # closing /\ ~Over => sock[fdOf[c]] = c

(* A task is queued once, while its connection is where the task expects it; but for the
   tasks of Close of a connection that is closed twice. *)
Tasks ==
    /\ Distinct(deferred, Doubled)
    /\ \A c \in Conn :
          /\ loop = "wait" \/ Over => \A does \in {"start", "close", "clean"} : ~Queued(does, c)
          /\ Queued("establish", c) => at[c] = "handed"
          /\ Queued("start", c) => at[c] = "new" /\ cur # c
          /\ Queued("close", c) => c \in asked
          /\ Queued("close", c) =>
                \/ closing # c /\ at[c] \in Alive \ {"new"}
                \/ c \in closedTwice /\ at[c] \in (Kept \cup {"gone"}) \ {"new"}
          /\ Queued("clean", c) => at[c] = "ended" /\ (closing = c => Dead)
          /\ at[c] = "ended" => Queued("clean", c) \/ closing = c \/ Over

(* One coroutine runs at a time, and only to its end when its descriptor was closed.  The
   process ends in no way but by the second task of a connection that is closed twice. *)
Turns ==
    /\ cur # None => (at[cur] \in Alive /\ loop \in {"batch", "drain", "cleanup"}) \/ Dead
    /\ \A c \in Conn \ {cur} : at[c] \notin {"fetch", "decode", "flush"}
    /\ closing # None => loop \in {"drain", "ended"}
    /\ closing # None /\ ~Dead =>
          /\ at[closing] \in Kept /\ sock[fdOf[closing]] = None
          /\ cur = closing \/ (cur = None /\ at[closing] = "ended")
    /\ cur # None /\ (cur = closing \/ Over) /\ ~Dead =>
          sock[fdOf[cur]] = None /\ at[cur] \in {"reading", "writing", "fetch"}
    /\ Over => stopped
    /\ loop = "off" => \A fd \in Fd : ~Registered(fd)
    /\ loop = "ended" => closedTwice # {}
    /\ raised = IF loop = "ended" THEN "crash" ELSE "nothing"

(* Who is registered waits, and who waits is registered unless its descriptor was
   closed, which resumes it at once. *)
Waiters ==
    /\ \A fd \in Fd :
          /\ onRead[fd] # None =>
                at[onRead[fd]] = "reading" /\ fdOf[onRead[fd]] = fd /\ sock[fd] = onRead[fd]
          /\ onWrite[fd] # None =>
                at[onWrite[fd]] = "writing" /\ fdOf[onWrite[fd]] = fd /\ sock[fd] = onWrite[fd]
    /\ \A c \in Conn :
          /\ at[c] = "reading" /\ sock[fdOf[c]] = c => onRead[fdOf[c]] = c
          /\ at[c] = "writing" /\ sock[fdOf[c]] = c => onWrite[fdOf[c]] = c
          /\ at[c] \in {"reading", "writing"} /\ c # cur => sock[fdOf[c]] = c

ConnInv == TypeOK /\ Owners /\ Tasks /\ Turns /\ Waiters

IInv == TypeInv /\ (reused \/ ConnInv)

-----------------------------------------------------------------------------
(* Sequences, and those without repetition. *)

LEMMA AppendHas ==
  ASSUME NEW S, NEW s \in Seq(S), NEW t \in S, NEW R
  PROVE  /\ Append(s, t) \in Seq(S)
         /\ \A u : Has(Append(s, t), u) <=> Has(s, u) \/ u = t
         /\ Distinct(s, R) /\ (~Has(s, t) \/ t \in R) => Distinct(Append(s, t), R)
<1> DEFINE a == Append(s, t)
<1>1. /\ a \in Seq(S) /\ Len(a) = Len(s) + 1 /\ Len(s) \in Nat
      /\ \A i \in 1..Len(s) : a[i] = s[i]
      /\ a[Len(s) + 1] = t
  BY AppendProperties
<1> HIDE DEF a
<1>2. \A i \in 1..Len(a) : i \in 1..Len(s) \/ i = Len(s) + 1
  BY <1>1
<1>3. \A u : Has(a, u) <=> Has(s, u) \/ u = t
  <2>1. Len(s) + 1 \in 1..Len(a) /\ 1..Len(s) \subseteq 1..Len(a)
    BY <1>1
  <2> QED BY <1>1, <1>2, <2>1 DEF Has
<1>4. Distinct(s, R) /\ (~Has(s, t) \/ t \in R) => Distinct(a, R)
  BY <1>1, <1>2 DEF Has, Distinct
<1> QED BY <1>1, <1>3, <1>4 DEF a

LEMMA TailHas ==
  ASSUME NEW S, NEW s \in Seq(S), s # <<>>, NEW R
  PROVE  /\ Tail(s) \in Seq(S)
         /\ Has(s, Head(s)) /\ Head(s) \in S
         /\ \A u : Has(Tail(s), u) => Has(s, u)
         /\ \A u : Has(s, u) /\ u # Head(s) => Has(Tail(s), u)
         /\ Distinct(s, R) => /\ Distinct(Tail(s), R)
                              /\ Has(Tail(s), Head(s)) => Head(s) \in R
<1> DEFINE r == Tail(s)
<1>1. /\ r \in Seq(S) /\ Len(r) = Len(s) - 1 /\ Len(s) \in Nat \ {0}
      /\ \A i \in 1..Len(r) : r[i] = s[i + 1]
      /\ Head(s) = s[1] /\ Head(s) \in S
  BY HeadTailProperties, EmptySeq
<1> HIDE DEF r
<1>2. \A i \in 1..Len(r) : i + 1 \in 1..Len(s) /\ i + 1 # 1
  BY <1>1
<1>3. \A i \in 1..Len(s) : i = 1 \/ (i - 1 \in 1..Len(r) /\ r[i - 1] = s[i])
  BY <1>1
<1>4. 1 \in 1..Len(s)
  BY <1>1
<1>5. Distinct(s, R) => Distinct(r, R)
  BY <1>1, <1>2 DEF Distinct
<1>6. Distinct(s, R) /\ Has(r, Head(s)) => Head(s) \in R
  BY <1>1, <1>2, <1>4 DEF Has, Distinct
<1>7. \A u : Has(s, u) /\ u # Head(s) => Has(r, u)
  BY <1>1, <1>3 DEF Has
<1>8. Has(s, Head(s)) /\ \A u : Has(r, u) => Has(s, u)
  BY <1>1, <1>2, <1>4 DEF Has
<1> QED BY <1>1, <1>5, <1>6, <1>7, <1>8 DEF r

LEMMA TaskIs ==
  /\ \A x, y, c, d : Task(x, c) = Task(y, d) <=> x = y /\ c = d
  /\ \A x \in {"establish", "start", "close", "clean"}, c \in Conn :
        Task(x, c) \in TaskSet /\ Task(x, c).conn = c
  /\ \A x, c : Task(x, c) \in Doubled <=> x = "close" /\ c \in closedTwice
BY DEF Task, TaskSet, Doubled

-----------------------------------------------------------------------------
(* The types of the variables, for the steps of every action. *)

(* What EpollWait hands out are pointers. *)
LEMMA PointersFinite == IsFiniteSet(Pointer)
<1> DEFINE ways == {"read", "write"}
           f == [x \in Fd \X ways |-> [fd |-> x[1], way |-> x[2]]]
<1>1. IsFiniteSet(ways)
  <2>1. IsFiniteSet({"read"}) /\ IsFiniteSet({"write"})
    BY FS_Singleton
  <2>2. ways = {"read"} \cup {"write"}
    OBVIOUS
  <2> HIDE DEF ways
  <2> QED BY <2>1, <2>2, FS_Union
<1>2. IsFiniteSet(Fd \X ways)
  BY <1>1, PollerConstants, FS_Product
<1>3. f \in [Fd \X ways -> Pointer]
  BY DEF Pointer
<1>4. \A p \in Pointer : \E x \in Fd \X ways : f[x] = p
  <2> SUFFICES ASSUME NEW p \in Pointer PROVE f[<<p.fd, p.way>>] = p /\ <<p.fd, p.way>> \in Fd \X ways
    OBVIOUS
  <2> QED BY DEF Pointer
<1>5. f \in Surjection(Fd \X ways, Pointer)
  <2> HIDE DEF f, ways
  <2> QED BY <1>3, <1>4 DEF Surjection
<1> HIDE DEF f, ways
<1> QED BY <1>2, <1>5, FS_Surjection

LEMMA EpollWaitType ==
  ASSUME NEW fds, NEW order \in EpollWait(fds)
  PROVE  order \in Seq(Pointer)
<1> DEFINE S == Callbacks(fds)
<1>1. S \in SUBSET Pointer
  BY DEF Callbacks
<1>2. Cardinality(S) \in Nat
  BY <1>1, PointersFinite, FS_Subset, FS_CardinalityType
<1>3. order \in [1..Cardinality(S) -> S]
  BY DEF EpollWait, SetToSeqs
<1> HIDE DEF S
<1>4. order \in [1..Cardinality(S) -> Pointer]
  BY <1>1, <1>3
<1> QED BY <1>2, <1>4

(* The clean-up takes the lowest of the registered descriptors. *)
LEMMA MinIsMember ==
  ASSUME NEW S \in SUBSET Nat, S # {}
  PROVE  Min(S) \in S
<1> DEFINE R == OpToRel(<, Nat)
<1>1. IsWellFoundedOn(R, Nat)
  BY NatLessThanWellFounded, Zenon
<1>2. \A x, y \in Nat : x < y => <<x, y>> \in R
  BY Zenon DEF OpToRel
<1> HIDE DEF R
<1>3. PICK m \in S : \A x \in S : ~(<<x, m>> \in R)
  BY <1>1, WFMin
<1>4. \A x \in S : ~(x < m)
  BY <1>2, <1>3
<1>5. \A x \in S : m <= x
  BY <1>4
<1> QED BY <1>5 DEF Min

(* Pointers that were known remain so, and a connection is never forgotten. *)
LEMMA KnownStays ==
  ASSUME TypeInv, TypeOK', UNCHANGED fdOf, Live' = Live,
         \A t \in TaskSet : Has(deferred', t) => Has(deferred, t) \/ t.conn \in Live,
         cur' \in Live \cup {None}, closing' \in Live \cup {None},
         \A fd \in Fd : {conns'[fd], onRead'[fd], onWrite'[fd]} \subseteq Live \cup {None}
  PROVE  TypeInv'
BY DEF TypeInv, Known

LEMMA IdleType ==
  ASSUME TypeInv, UNCHANGED vars
  PROVE  TypeInv'
<1> USE DEF vars, pollerVars, kernel, sever, history, start
<1>1. TypeOK'
  BY DEF TypeInv, TypeOK, PollerTypeOK
<1>2. Known'
  BY DEF TypeInv, Known, Live
<1> QED BY <1>1, <1>2 DEF TypeInv

LEMMA PeerType ==
  ASSUME TypeInv, NEW c \in Conn, PeerSends(c) \/ PeerEnds(c) \/ PeerReads(c)
  PROVE  TypeInv'
<1> USE DEF pollerVars, sever, history, start
<1>1. sent' \in [Conn -> 0..(2 * MaxRequests)] /\ arrived' \in [Conn -> Nat]
  <2>1. sent \in [Conn -> 0..(2 * MaxRequests)] /\ arrived \in [Conn -> Nat]
    BY DEF TypeInv, TypeOK
  <2>2. CASE PeerSends(c)
    <3>1. sent[c] + 1 \in 0..(2 * MaxRequests) /\ arrived[c] + 1 \in Nat
      BY <2>1, <2>2, ConnectionConstants DEF PeerSends
    <3> QED BY <2>1, <2>2, <3>1 DEF PeerSends
  <2> QED BY <2>1, <2>2 DEF PeerEnds, PeerReads
<1>2. fin' \in [Conn -> BOOLEAN] /\ room' \in [Conn -> BOOLEAN]
  BY DEF TypeInv, TypeOK, PeerSends, PeerEnds, PeerReads
<1>3. UNCHANGED <<pollerVars, sock, answered, sever, start, at, deferred, cur>>
  BY DEF PeerSends, PeerEnds, PeerReads
<1>4. TypeOK'
  BY <1>1, <1>2, <1>3 DEF TypeInv, TypeOK, PollerTypeOK
<1>5. Known'
  BY <1>3 DEF TypeInv, Known, Live
<1> QED BY <1>4, <1>5 DEF TypeInv

LEMMA AcceptType ==
  ASSUME TypeInv, NEW c \in Conn, NEW fd \in Fd, Accept(c, fd)
  PROVE  TypeInv'
<1> USE DEF pollerVars, start
<1>e. /\ at[c] = "none"
      /\ sock' = [sock EXCEPT ![fd] = c] /\ fdOf' = [fdOf EXCEPT ![c] = fd]
      /\ at' = [at EXCEPT ![c] = "accepted"] /\ reused' \in BOOLEAN
      /\ UNCHANGED <<pollerVars, arrived, fin, room, sent, answered, conns, buffered, asked,
                     closedTwice, start, deferred, cur>>
  BY DEF Accept, TypeInv, TypeOK
<1>1. TypeOK'
  BY <1>e DEF TypeInv, TypeOK, PollerTypeOK, Places
<1>2. Live' = Live \cup {c} /\ fdOf'[c] = fd /\ \A d \in Live : fdOf'[d] = fdOf[d]
  BY <1>e DEF TypeInv, TypeOK, Live
<1>3. Known'
  BY <1>e, <1>2 DEF TypeInv, Known
<1> QED BY <1>1, <1>3 DEF TypeInv

(* A task that is added is for a connection that is known. *)
LEMMA AddedTask ==
  ASSUME TypeInv, NEW c \in Live, NEW does \in {"establish", "start", "close", "clean"},
         deferred' = Append(deferred, Task(does, c))
  PROVE  /\ deferred' \in Seq(TaskSet)
         /\ \A t \in TaskSet : Has(deferred', t) => Has(deferred, t) \/ t.conn \in Live
<1>1. deferred \in Seq(TaskSet) /\ Task(does, c) \in TaskSet /\ Task(does, c).conn = c
  BY TaskIs DEF TypeInv, TypeOK, TaskSet, Live
<1> QED BY <1>1, AppendHas

LEMMA HandOverType ==
  ASSUME TypeInv, NEW c \in Conn, HandOver(c)
  PROVE  TypeInv'
<1> USE DEF HandOver, pollerVars, kernel, sever, history, start
<1>1. c \in Live /\ Live' = Live
  BY DEF TypeInv, TypeOK, Live
<1>2. /\ deferred' \in Seq(TaskSet)
      /\ \A t \in TaskSet : Has(deferred', t) => Has(deferred, t) \/ t.conn \in Live
  BY <1>1, AddedTask
<1>3. TypeOK'
  BY <1>2 DEF TypeInv, TypeOK, PollerTypeOK, TaskSet, Places
<1> QED BY <1>1, <1>2, <1>3, KnownStays DEF TypeInv, Known

LEMMA LoopMovesType ==
  ASSUME TypeInv, BatchDone \/ DrainDone \/ StopSeen \/ Exit \/ RunsOff \/ Stop
  PROVE  TypeInv'
<1>1. /\ loop' \in {loop, "drain", "wait", "cleanup", "off", "ended"}
      /\ raised' \in {raised, "crash"} /\ stopped' \in {stopped, TRUE}
      /\ UNCHANGED <<pollerVars, kernel, sever, batch, closing, at, deferred, cur>>
  BY DEF BatchDone, DrainDone, StopSeen, Exit, RunsOff, Stop, Raise
<1> USE DEF pollerVars, kernel, sever, history
<1>2. TypeOK'
  BY <1>1 DEF TypeInv, TypeOK, PollerTypeOK
<1>3. Known'
  BY <1>1 DEF TypeInv, Known, Live
<1> QED BY <1>2, <1>3 DEF TypeInv

LEMMA EpollReturnsType ==
  ASSUME TypeInv, EpollReturns
  PROVE  TypeInv'
<1>1. /\ loop' = "batch" /\ batch' \in Seq(Pointer)
      /\ UNCHANGED <<pollerVars, kernel, sever, closing, stopped, raised, at, deferred, cur>>
  BY EpollWaitType DEF EpollReturns
<1> USE DEF pollerVars, kernel, sever, history
<1>2. TypeOK'
  BY <1>1 DEF TypeInv, TypeOK, PollerTypeOK
<1>3. Known'
  BY <1>1 DEF TypeInv, Known, Live
<1> QED BY <1>2, <1>3 DEF TypeInv

LEMMA RunBatchType ==
  ASSUME TypeInv, RunBatch
  PROVE  TypeInv'
<1> USE DEF RunBatch, pollerVars, kernel, sever, history
<1>1. Tail(batch) \in Seq(Pointer) /\ cur' \in Live \cup {None}
  <2>1. Head(batch) \in Pointer /\ Tail(batch) \in Seq(Pointer)
    BY HeadTailProperties DEF TypeInv, TypeOK
  <2>2. PICK fd \in Fd : cur' = onRead[fd] \/ cur' = onWrite[fd]
    BY <2>1 DEF Runnable, Pointer
  <2> QED BY <2>1, <2>2 DEF TypeInv, Known
<1>2. TypeOK'
  BY <1>1 DEF TypeInv, TypeOK, PollerTypeOK, Live
<1>3. Live' = Live
  BY DEF Live
<1> QED BY <1>1, <1>2, <1>3 DEF TypeInv, Known

LEMMA CancelKeepsType ==
  ASSUME PollerTypeOK, NEW fd, CancelRegister(fd)
  PROVE  /\ PollerTypeOK'
         /\ \A x \in Fd : onRead'[x] \in {onRead[x], None} /\ onWrite'[x] \in {onWrite[x], None}
BY DEF PollerTypeOK, CancelRegister

LEMMA CleanupType ==
  ASSUME TypeInv, Cleanup
  PROVE  TypeInv'
<1> DEFINE left == {x \in Fd : Registered(x)}
           fd == Min(left)
<1>e. /\ left # {} /\ cur' = GetCallBack(fd)
      /\ CancelRegister(fd) /\ sock' = [sock EXCEPT ![fd] = None]
      /\ UNCHANGED <<arrived, fin, room, sent, answered, sever, start, at, deferred>>
  BY DEF Cleanup
<1>m. fd \in Fd
  <2>1. left \in SUBSET Nat
    BY ConnectionConstants
  <2>2. fd \in left
    <3> HIDE DEF left
    <3> QED BY <1>e, <2>1, MinIsMember
  <2> QED BY <2>2
<1> HIDE DEF left, fd
<1> USE DEF sever, history, start
<1>1. /\ PollerTypeOK'
      /\ \A x \in Fd : onRead'[x] \in {onRead[x], None} /\ onWrite'[x] \in {onWrite[x], None}
  BY <1>e, CancelKeepsType DEF TypeInv, TypeOK
<1>2. cur' \in Live \cup {None} /\ Live' = Live
  BY <1>e, <1>m DEF GetCallBack, TypeInv, Known, Live
<1>3. TypeOK'
  BY <1>e, <1>1, <1>2 DEF TypeInv, TypeOK, Live
<1> QED BY <1>e, <1>1, <1>2, <1>3 DEF TypeInv, Known

(* A task at the front is for a connection that is known; and so are those behind it. *)
LEMMA FrontTask ==
  ASSUME TypeInv, NEW c \in Conn, NEW does \in {"establish", "start", "close", "clean"},
         Runs(does, c)
  PROVE  /\ c \in Live /\ fdOf[c] \in Fd
         /\ Tail(deferred) \in Seq(TaskSet)
         /\ \A t \in TaskSet : Has(Tail(deferred), t) => Has(deferred, t)
<1>1. deferred \in Seq(TaskSet) /\ deferred # <<>> /\ Head(deferred) = Task(does, c)
  BY DEF TypeInv, TypeOK, TaskSet, Runs
<1>2. /\ Has(deferred, Task(does, c)) /\ Tail(deferred) \in Seq(TaskSet)
      /\ \A t \in TaskSet : Has(Tail(deferred), t) => Has(deferred, t)
  BY <1>1, TailHas
<1>3. c \in Live
  BY <1>2, TaskIs DEF TypeInv, Known
<1> QED BY <1>2, <1>3 DEF TypeInv, Known

LEMMA EstablishType ==
  ASSUME TypeInv, NEW c \in Conn, Establish(c)
  PROVE  TypeInv'
<1> DEFINE here == IF conns[fdOf[c]] = None THEN c ELSE conns[fdOf[c]]
           rest == Tail(deferred)
<1> USE DEF pollerVars, kernel, history, start
<1>e. /\ conns' = [conns EXCEPT ![fdOf[c]] = here]
      /\ at' = [at EXCEPT ![c] = IF here = c THEN "new" ELSE "gone"]
      /\ deferred' = Append(rest, Task("start", here))
      /\ UNCHANGED <<pollerVars, kernel, fdOf, buffered, history, start, cur>>
  BY DEF Establish
<1>r. /\ c \in Live /\ fdOf[c] \in Fd /\ rest \in Seq(TaskSet)
      /\ \A t \in TaskSet : Has(rest, t) => Has(deferred, t)
  BY FrontTask DEF Establish
<1>h. here \in Live
  BY <1>r DEF TypeInv, Known
<1> HIDE DEF here, rest
<1>1. Live' = Live
  BY <1>e, <1>r DEF TypeInv, TypeOK, Live
<1>2. /\ deferred' \in Seq(TaskSet)
      /\ \A t \in TaskSet : Has(deferred', t) => Has(deferred, t) \/ t.conn \in Live
  <2>1. Task("start", here) \in TaskSet /\ Task("start", here).conn = here
    BY <1>h, TaskIs DEF Live
  <2> QED BY <1>e, <1>r, <1>h, <2>1, AppendHas
<1>3. TypeOK'
  <2>1. at' \in [Conn -> Places]
    BY <1>e DEF TypeInv, TypeOK, Places
  <2>2. conns' \in [Fd -> Conn \cup {None}]
    BY <1>e, <1>h DEF TypeInv, TypeOK, Live
  <2> QED BY <1>e, <1>2, <2>1, <2>2 DEF TypeInv, TypeOK, PollerTypeOK, TaskSet
<1>4. \A fd \in Fd : conns'[fd] \in Live \cup {None}
  BY <1>e, <1>h DEF TypeInv, TypeOK, Known
<1> QED BY <1>e, <1>1, <1>2, <1>3, <1>4, KnownStays DEF TypeInv, Known

LEMMA StartCoroutineType ==
  ASSUME TypeInv, NEW c \in Conn, StartCoroutine(c)
  PROVE  TypeInv'
<1> USE DEF StartCoroutine, pollerVars, kernel, sever, history, start
<1>1. /\ c \in Live /\ deferred' \in Seq(TaskSet)
      /\ \A t \in TaskSet : Has(deferred', t) => Has(deferred, t)
  BY FrontTask
<1>2. TypeOK'
  BY <1>1 DEF TypeInv, TypeOK, PollerTypeOK, TaskSet
<1>3. Live' = Live
  BY DEF Live
<1> QED BY <1>1, <1>2, <1>3, KnownStays DEF TypeInv, Known

LEMMA CloseFdType ==
  ASSUME TypeInv, NEW fd, CloseFd(fd)
  PROVE  /\ PollerTypeOK' /\ sock' \in [Fd -> Conn \cup {None}]
         /\ \A x \in Fd : onRead'[x] \in {onRead[x], None} /\ onWrite'[x] \in {onWrite[x], None}
         /\ loop' \in {loop, "ended"} /\ raised' \in {raised, "close error"}
<1>1. /\ PollerTypeOK'
      /\ \A x \in Fd : onRead'[x] \in {onRead[x], None} /\ onWrite'[x] \in {onWrite[x], None}
  BY CancelKeepsType DEF CloseFd, TypeInv, TypeOK
<1> QED BY <1>1 DEF CloseFd, TypeInv, TypeOK, Raise, Goes

LEMMA LocalCloseType ==
  ASSUME TypeInv, NEW c \in Conn, LocalClose(c)
  PROVE  TypeInv'
<1> USE DEF history
<1>1. /\ c \in Live /\ deferred' \in Seq(TaskSet)
      /\ \A t \in TaskSet : Has(deferred', t) => Has(deferred, t)
      /\ UNCHANGED <<arrived, fin, room, sent, answered, fdOf, buffered, history, batch, stopped>>
  BY FrontTask DEF LocalClose
<1>2. /\ PollerTypeOK' /\ sock' \in [Fd -> Conn \cup {None}]
      /\ \A x \in Fd : onRead'[x] \in {onRead[x], None} /\ onWrite'[x] \in {onWrite[x], None}
      /\ loop' \in {loop, "ended"} /\ raised' \in {raised, "close error", "crash"}
      /\ cur' \in {cur, c, None} /\ closing' \in {closing, c} /\ UNCHANGED <<conns, at>>
  <2>1. CASE at[c] = "gone"
    BY <2>1 DEF LocalClose, CloseFreed, Raise, pollerVars, TypeInv, TypeOK, PollerTypeOK, Known
  <2>2. CASE at[c] # "gone"
    BY <2>2, CloseFdType DEF LocalClose, CloseAndResume
  <2> QED BY <2>1, <2>2
<1>3. TypeOK'
  BY <1>1, <1>2 DEF TypeInv, TypeOK, TaskSet
<1>4. Live' = Live
  BY <1>2 DEF Live
<1> QED BY <1>1, <1>2, <1>3, <1>4, KnownStays DEF TypeInv, Known

(* What CleanConnection does to the connections. *)
LEMMA DestroyType ==
  ASSUME TypeInv, NEW fd \in Fd, conns[fd] # None, Destroy(fd)
  PROVE  /\ at' \in [Conn -> Places] /\ conns' \in [Fd -> Conn \cup {None}] /\ Live' = Live
         /\ \A x \in Fd : conns'[x] \in Live \cup {None}
<1>1. conns[fd] \in Live
  BY DEF TypeInv, Known
<1> QED BY <1>1 DEF TypeInv, TypeOK, Known, Destroy, Live, Places

LEMMA LocalClosedType ==
  ASSUME TypeInv, LocalClosed
  PROVE  TypeInv'
<1> USE DEF pollerVars, kernel, history
<1>1. fdOf[closing] \in Fd
  BY DEF LocalClosed, TypeInv, Known
<1>2. /\ at' \in [Conn -> Places] /\ conns' \in [Fd -> Conn \cup {None}] /\ Live' = Live
      /\ \A x \in Fd : conns'[x] \in Live \cup {None}
      /\ loop' \in {loop, "ended"} /\ raised' \in {raised, "not exist"}
  <2>1. CASE conns[fdOf[closing]] = None
    BY <2>1 DEF LocalClosed, NotExist, Raise, TypeInv, TypeOK, Known, Live
  <2>2. CASE conns[fdOf[closing]] # None
    BY <1>1, <2>2, DestroyType DEF LocalClosed, Goes
  <2> QED BY <2>1, <2>2
<1>3. /\ closing' = None
      /\ UNCHANGED <<pollerVars, kernel, fdOf, buffered, history, batch, stopped, deferred, cur>>
  BY DEF LocalClosed
<1>4. TypeOK'
  BY <1>2, <1>3 DEF TypeInv, TypeOK, PollerTypeOK
<1> QED BY <1>2, <1>3, <1>4, KnownStays DEF TypeInv, Known

LEMMA RemoteClosedType ==
  ASSUME TypeInv, NEW c \in Conn, RemoteClosed(c)
  PROVE  TypeInv'
<1> USE DEF history
<1>1. /\ c \in Live /\ fdOf[c] \in Fd /\ deferred' \in Seq(TaskSet)
      /\ \A t \in TaskSet : Has(deferred', t) => Has(deferred, t)
      /\ UNCHANGED <<arrived, fin, room, sent, answered, fdOf, buffered, history,
                     batch, closing, stopped, cur>>
  BY FrontTask DEF RemoteClosed
<1>2. /\ at' \in [Conn -> Places] /\ conns' \in [Fd -> Conn \cup {None}] /\ Live' = Live
      /\ \A x \in Fd : conns'[x] \in Live \cup {None}
      /\ PollerTypeOK' /\ sock' \in [Fd -> Conn \cup {None}]
      /\ \A x \in Fd : onRead'[x] \in {onRead[x], None} /\ onWrite'[x] \in {onWrite[x], None}
      /\ loop' \in {loop, "ended"} /\ raised' \in {raised, "close error", "not exist"}
  <2>1. CASE conns[fdOf[c]] = None
    BY <2>1 DEF RemoteClosed, NotExist, Raise, pollerVars, TypeInv, TypeOK, PollerTypeOK, Known,
                Live
  <2>2. CASE conns[fdOf[c]] # None
    BY <1>1, <2>2, DestroyType, CloseFdType DEF RemoteClosed
  <2> QED BY <2>1, <2>2
<1>3. TypeOK'
  BY <1>1, <1>2 DEF TypeInv, TypeOK, TaskSet
<1> QED BY <1>1, <1>2, <1>3, KnownStays DEF TypeInv, Known

(* The coroutine that runs is known, and stays so. *)
LEMMA RunningKnown ==
  ASSUME TypeInv, NEW c \in Conn, cur = c
  PROVE  /\ c \in Live /\ fdOf[c] \in Fd
         /\ \A place \in Places \ {"none"} :
               at' = [at EXCEPT ![c] = place] => at' \in [Conn -> Places] /\ Live' = Live
<1>1. c \in Live /\ fdOf[c] \in Fd
  BY PollerConstants DEF TypeInv, Known
<1>2. ASSUME NEW place \in Places \ {"none"}, at' = [at EXCEPT ![c] = place]
      PROVE  at' \in [Conn -> Places] /\ Live' = Live
  <2>1. at \in [Conn -> Places] /\ at[c] # "none"
    BY <1>1 DEF TypeInv, TypeOK, Live
  <2> QED BY <1>2, <2>1 DEF Live
<1> QED BY <1>1, <1>2

LEMMA WaitsType ==
  ASSUME TypeInv, NEW c \in Conn, ReadWaits(c) \/ WriteWaits(c)
  PROVE  TypeInv'
<1> USE DEF kernel, sever, history
<1>1. cur = c /\ cur' = None /\ UNCHANGED <<kernel, sever, batch, closing, stopped, deferred>>
  BY DEF ReadWaits, WriteWaits, Reading, SwitchBack
<1>2. at' \in [Conn -> Places] /\ Live' = Live
  BY <1>1, RunningKnown DEF ReadWaits, WriteWaits, Go, Places
<1>3. /\ PollerTypeOK'
      /\ \A x \in Fd : onRead'[x] \in {onRead[x], c} /\ onWrite'[x] \in {onWrite[x], c}
      /\ loop' \in {loop, "ended"} /\ raised' \in {raised, "register twice"}
  <2> USE DEF pollerVars, Raise, Goes, TypeInv, TypeOK, PollerTypeOK
  <2>1. CASE ReadWaits(c)
    BY <2>1 DEF ReadWaits, RegisterRead
  <2>2. CASE WriteWaits(c)
    BY <2>2 DEF WriteWaits, RegisterWrite
  <2> QED BY <2>1, <2>2
<1>4. TypeOK'
  BY <1>1, <1>2, <1>3 DEF TypeInv, TypeOK
<1>5. c \in Live
  BY <1>1, RunningKnown
<1>6. \A x \in Fd : onRead'[x] \in Live \cup {None} /\ onWrite'[x] \in Live \cup {None}
  BY <1>3, <1>5 DEF TypeInv, Known
<1> QED BY <1>1, <1>2, <1>4, <1>6, KnownStays DEF TypeInv, Known

(* A registration is taken back, or there was none. *)
LEMMA DoneWaitingType ==
  ASSUME TypeInv, NEW c \in Conn, DoneWaiting(c)
  PROVE  /\ PollerTypeOK'
         /\ \A x \in Fd : onRead'[x] \in {onRead[x], None} /\ onWrite'[x] \in {onWrite[x], None}
<1>1. CASE at[c] \in {"reading", "writing"}
  BY <1>1, CancelKeepsType DEF DoneWaiting, TypeInv, TypeOK
<1>2. CASE at[c] \notin {"reading", "writing"}
  BY <1>2 DEF DoneWaiting, pollerVars, TypeInv, TypeOK, PollerTypeOK
<1> QED BY <1>1, <1>2

LEMMA ReadGetsType ==
  ASSUME TypeInv, NEW c \in Conn, ReadGets(c)
  PROVE  TypeInv'
<1> DEFINE s == sock[fdOf[c]]
<1> USE DEF history, start
<1>1. /\ cur = c /\ s # None /\ DoneWaiting(c) /\ at' = [at EXCEPT ![c] = "decode"]
      /\ buffered' = [buffered EXCEPT ![c] = @ + arrived[s]]
      /\ arrived' = [arrived EXCEPT ![s] = 0]
      /\ UNCHANGED <<sock, fin, room, sent, answered, conns, fdOf, history, start, deferred, cur>>
  BY DEF ReadGets, Reading, ReadFinds, Go
<1>2. c \in Live /\ at' \in [Conn -> Places] /\ Live' = Live /\ s \in Conn
  BY <1>1, RunningKnown DEF TypeInv, TypeOK, Places
<1> HIDE DEF s
<1>3. buffered' \in [Conn -> Nat] /\ arrived' \in [Conn -> Nat]
  <2>1. buffered \in [Conn -> Nat] /\ arrived \in [Conn -> Nat]
    BY DEF TypeInv, TypeOK
  <2>2. buffered[c] + arrived[s] \in Nat
    BY <1>2, <2>1
  <2> QED BY <1>1, <2>1, <2>2
<1>4. /\ PollerTypeOK'
      /\ \A x \in Fd : onRead'[x] \in {onRead[x], None} /\ onWrite'[x] \in {onWrite[x], None}
  BY <1>1, DoneWaitingType
<1>5. TypeOK'
  BY <1>1, <1>2, <1>3, <1>4 DEF TypeInv, TypeOK
<1> QED BY <1>1, <1>2, <1>4, <1>5, KnownStays DEF TypeInv, Known

LEMMA ReadEndsType ==
  ASSUME TypeInv, NEW c \in Conn, ReadEnds(c)
  PROVE  TypeInv'
<1> USE DEF kernel, start
<1>1. /\ cur = c /\ cur' = None /\ DoneWaiting(c) /\ at' = [at EXCEPT ![c] = "ended"]
      /\ deferred' = Append(deferred, Task("clean", c)) /\ MaybeAgain(c)
      /\ UNCHANGED <<kernel, conns, fdOf, buffered, asked, reused, start>>
  BY DEF ReadEnds, Reading, EndOfStream, SwitchBack, Go
<1>2. c \in Live /\ at' \in [Conn -> Places] /\ Live' = Live
  BY <1>1, RunningKnown DEF Places
<1>3. /\ deferred' \in Seq(TaskSet)
      /\ \A t \in TaskSet : Has(deferred', t) => Has(deferred, t) \/ t.conn \in Live
  BY <1>1, <1>2, AddedTask
<1>4. /\ PollerTypeOK'
      /\ \A x \in Fd : onRead'[x] \in {onRead[x], None} /\ onWrite'[x] \in {onWrite[x], None}
  BY <1>1, DoneWaitingType
<1>5. closedTwice' \subseteq Conn
  BY <1>1 DEF TypeInv, TypeOK, MaybeAgain
<1>6. TypeOK'
  BY <1>1, <1>2, <1>3, <1>4, <1>5 DEF TypeInv, TypeOK, TaskSet
<1> QED BY <1>1, <1>2, <1>3, <1>4, <1>6, KnownStays DEF TypeInv, Known

LEMMA GoesOnType ==
  ASSUME TypeInv, NEW c \in Conn, ReadFails(c) \/ DecodeNothing(c) \/ WriteFails(c)
  PROVE  TypeInv'
<1> USE DEF pollerVars, kernel, sever, history, start
<1>1. /\ cur = c /\ cur' \in {cur, None}
      /\ UNCHANGED <<pollerVars, kernel, sever, start, deferred>>
  BY DEF ReadFails, Reading, DecodeNothing, WriteFails, SwitchBack
<1>2. c \in Live /\ at' \in [Conn -> Places] /\ Live' = Live
  BY <1>1, RunningKnown DEF ReadFails, DecodeNothing, WriteFails, Go, Places
<1>3. TypeOK'
  BY <1>1, <1>2 DEF TypeInv, TypeOK, PollerTypeOK
<1> QED BY <1>1, <1>2, <1>3, KnownStays DEF TypeInv, Known

LEMMA RespondType ==
  ASSUME TypeInv, NEW c \in Conn, Respond(c)
  PROVE  TypeInv'
<1> USE DEF pollerVars, kernel, start
<1>1. /\ cur = c /\ at' = [at EXCEPT ![c] = "flush"]
      /\ buffered[c] >= 2 /\ buffered' = [buffered EXCEPT ![c] = @ - 2]
      /\ UNCHANGED <<pollerVars, kernel, conns, fdOf, reused, start, cur>>
  BY DEF Respond, HasFrame, Go
<1>2. c \in Live /\ at' \in [Conn -> Places] /\ Live' = Live
  BY <1>1, RunningKnown DEF Places
<1>3. /\ deferred' \in Seq(TaskSet) /\ asked' \subseteq Conn /\ closedTwice' \subseteq Conn
      /\ \A t \in TaskSet : Has(deferred', t) => Has(deferred, t) \/ t.conn \in Live
  <2>1. CASE UNCHANGED <<deferred, asked, closedTwice>>
    BY <2>1 DEF TypeInv, TypeOK, TaskSet
  <2>2. CASE /\ deferred' = Append(deferred, Task("close", c))
             /\ asked' = asked \cup {c} /\ MaybeAgain(c)
    BY <1>2, <2>2, AddedTask DEF TypeInv, TypeOK, MaybeAgain
  <2> QED BY <2>1, <2>2 DEF Respond
<1>4. buffered' \in [Conn -> Nat]
  <2>1. buffered \in [Conn -> Nat]
    BY DEF TypeInv, TypeOK
  <2>2. buffered[c] - 2 \in Nat
    BY <1>1, <2>1
  <2> QED BY <1>1, <2>1, <2>2
<1>5. TypeOK'
  BY <1>1, <1>2, <1>3, <1>4 DEF TypeInv, TypeOK, PollerTypeOK, TaskSet
<1> QED BY <1>1, <1>2, <1>3, <1>5, KnownStays DEF TypeInv, Known

LEMMA WriteDoneType ==
  ASSUME TypeInv, NEW c \in Conn, WriteDone(c)
  PROVE  TypeInv'
<1> DEFINE s == sock[fdOf[c]]
<1> USE DEF sever, history, start
<1>1. /\ cur = c /\ s # None /\ DoneWaiting(c) /\ at' = [at EXCEPT ![c] = "fetch"]
      /\ answered' = [answered EXCEPT ![s] = @ + 1]
      /\ room' \in {room, [room EXCEPT ![s] = FALSE]}
      /\ UNCHANGED <<sock, arrived, fin, sent, sever, start, deferred, cur>>
  BY DEF WriteDone, Go
<1>2. c \in Live /\ at' \in [Conn -> Places] /\ Live' = Live /\ s \in Conn
  BY <1>1, RunningKnown DEF TypeInv, TypeOK, Places
<1> HIDE DEF s
<1>3. answered' \in [Conn -> Nat] /\ room' \in [Conn -> BOOLEAN]
  <2>1. answered \in [Conn -> Nat] /\ room \in [Conn -> BOOLEAN]
    BY DEF TypeInv, TypeOK
  <2>2. answered[s] + 1 \in Nat
    BY <1>2, <2>1
  <2> QED BY <1>1, <2>1, <2>2
<1>4. /\ PollerTypeOK'
      /\ \A x \in Fd : onRead'[x] \in {onRead[x], None} /\ onWrite'[x] \in {onWrite[x], None}
  BY <1>1, DoneWaitingType
<1>5. TypeOK'
  BY <1>1, <1>2, <1>3, <1>4 DEF TypeInv, TypeOK
<1> QED BY <1>1, <1>2, <1>4, <1>5, KnownStays DEF TypeInv, Known

-----------------------------------------------------------------------------
(* What the steps on which a connection depends have in common. *)

(* What a coroutine that runs may rely on. *)
LEMMA RunningOwns ==
  ASSUME ConnInv, NEW c \in Conn, cur = c, at[c] \in Alive
  PROVE  /\ fdOf[c] \in Fd /\ at[c] \in Alive /\ conns[fdOf[c]] = c
         /\ sock[fdOf[c]] \in {c, None}
         /\ loop \in {"batch", "drain", "cleanup"} /\ ~Dead
         /\ sock[fdOf[c]] = c =>
               /\ closing = None /\ loop # "cleanup"
               /\ onRead[fdOf[c]] = IF at[c] = "reading" THEN c ELSE None
               /\ onWrite[fdOf[c]] = IF at[c] = "writing" THEN c ELSE None
         /\ sock[fdOf[c]] = None =>
               /\ closing = c \/ loop = "cleanup"
               /\ at[c] \in {"reading", "writing", "fetch"}
         /\ \A d \in Conn : at[d] \in Kept /\ fdOf[d] = fdOf[c] => d = c
<1> USE PollerConstants
<1>1. cur # None /\ ~Dead
  BY DEF ConnInv, TypeOK, Dead, Alive
<1>2. fdOf[c] \in Fd /\ at[c] \in Alive /\ conns[fdOf[c]] = c /\ sock[fdOf[c]] \in {c, None}
  BY <1>1 DEF ConnInv, Owners, Turns, Kept
<1>3. loop \in {"batch", "drain", "cleanup"}
  BY <1>1 DEF ConnInv, Turns
<1>4. sock[fdOf[c]] = c => closing = None /\ loop # "cleanup"
  BY <1>1 DEF ConnInv, Turns, Over
<1>5. sock[fdOf[c]] = c =>
               /\ onRead[fdOf[c]] = IF at[c] = "reading" THEN c ELSE None
               /\ onWrite[fdOf[c]] = IF at[c] = "writing" THEN c ELSE None
  <2>1. onRead[fdOf[c]] # None => at[onRead[fdOf[c]]] = "reading" /\ sock[fdOf[c]] = onRead[fdOf[c]]
    BY <1>2 DEF ConnInv, Waiters
  <2>2. onWrite[fdOf[c]] # None => at[onWrite[fdOf[c]]] = "writing" /\ sock[fdOf[c]] = onWrite[fdOf[c]]
    BY <1>2 DEF ConnInv, Waiters
  <2>3. /\ at[c] = "reading" /\ sock[fdOf[c]] = c => onRead[fdOf[c]] = c
        /\ at[c] = "writing" /\ sock[fdOf[c]] = c => onWrite[fdOf[c]] = c
    BY DEF ConnInv, Waiters
  <2> QED BY <2>1, <2>2, <2>3
<1>6. sock[fdOf[c]] = None => closing = c \/ loop = "cleanup"
  BY <1>1, <1>2, <1>3 DEF ConnInv, Owners, Kept, Over
<1>7. sock[fdOf[c]] = None => at[c] \in {"reading", "writing", "fetch"}
  BY <1>1, <1>6 DEF ConnInv, Turns, Over
<1>8. \A d \in Conn : at[d] \in Kept /\ fdOf[d] = fdOf[c] => d = c
  BY <1>2 DEF ConnInv, Owners
<1> QED BY <1>1, <1>2, <1>3, <1>4, <1>5, <1>6, <1>7, <1>8

(* A descriptor that is free, and not the one that a task of Close has just closed. *)
LEMMA NobodyHere ==
  ASSUME ConnInv, NEW fd \in Fd, sock[fd] = None, ~Over,
         closing = None \/ fdOf[closing] # fd
  PROVE  /\ conns[fd] = None
         /\ \A c \in Conn : fdOf[c] = fd => at[c] \in {"none", "gone"}
         /\ onRead[fd] = None /\ onWrite[fd] = None
<1> USE PollerConstants
<1>1. \A c \in Conn : fdOf[c] = fd => at[c] \in {"none", "gone"}
  <2> SUFFICES ASSUME NEW c \in Conn, fdOf[c] = fd PROVE at[c] \in {"none", "gone"}
    OBVIOUS
  <2>1. at[c] \in Places
    BY DEF ConnInv, TypeOK
  <2>2. at[c] \notin {"accepted", "handed"}
    BY DEF ConnInv, Owners
  <2>3. at[c] \notin Kept
    BY <2>1, PollerConstants DEF ConnInv, Owners
  <2> QED BY <2>1, <2>2, <2>3 DEF Places, Kept, Alive
<1>2. conns[fd] = None
  <2>1. conns[fd] # None => conns[fd] \in Conn
    BY DEF ConnInv, TypeOK
  <2>2. conns[fd] # None => fdOf[conns[fd]] = fd /\ at[conns[fd]] \in Kept
    BY DEF ConnInv, Owners
  <2> QED BY <1>1, <2>1, <2>2 DEF Kept, Alive
<1>3. onRead[fd] = None /\ onWrite[fd] = None
  BY DEF ConnInv, TypeOK, PollerTypeOK, Waiters
<1> QED BY <1>1, <1>2, <1>3

(* A task that is run leaves the queue, and only one of Close may be there again. *)
LEMMA HeadTask ==
  ASSUME ConnInv, NEW c \in Conn, NEW does \in {"establish", "start", "close", "clean"},
         Runs(does, c)
  PROVE  /\ Tail(deferred) \in Seq(TaskSet) /\ Distinct(Tail(deferred), Doubled)
         /\ Queued(does, c) /\ loop = "drain" /\ cur = None /\ closing = None /\ ~Dead
         /\ \A u : Has(Tail(deferred), u) => Has(deferred, u)
         /\ \A u : Has(deferred, u) /\ u # Task(does, c) => Has(Tail(deferred), u)
         /\ Has(Tail(deferred), Task(does, c)) => does = "close" /\ c \in closedTwice
<1>1. deferred \in Seq(TaskSet) /\ Distinct(deferred, Doubled)
  BY DEF ConnInv, TypeOK, Tasks, TaskSet
<1>2. deferred # <<>> /\ Head(deferred) = Task(does, c)
  BY DEF Runs
<1> QED BY <1>1, <1>2, TailHas, TaskIs DEF Runs, Queued, Dead

(* A connection whose descriptor is taken from the poller. *)
LEMMA FreedWaiters ==
  ASSUME ConnInv, NEW c \in Conn, NEW fd \in Fd,
         fdOf[c] = fd, at[c] \in Kept, cur \in {c, None},
         CancelRegister(fd),
         fdOf' = fdOf,
         \A x \in Fd \ {fd} : sock'[x] = sock[x],
         \A d \in Conn \ {c} : at'[d] = at[d],
         at'[c] \in {"reading", "writing"} => cur' = c /\ sock'[fd] # c
  PROVE  Waiters'
<1> USE PollerConstants
<1>1. onRead \in [Fd -> Conn \cup {None}] /\ onWrite \in [Fd -> Conn \cup {None}]
  BY DEF ConnInv, TypeOK, PollerTypeOK
<1>2. /\ onRead'[fd] = None /\ onWrite'[fd] = None
      /\ \A x \in Fd \ {fd} : onRead'[x] = onRead[x] /\ onWrite'[x] = onWrite[x]
  BY <1>1 DEF CancelRegister
<1>3. \A d \in Conn \ {c} : at[d] \in {"reading", "writing"} =>
          sock[fdOf[d]] = d /\ fdOf[d] \in Fd \ {fd}
  BY DEF ConnInv, Owners, Waiters, Kept, Alive
<1>4. \A x \in Fd \ {fd} :
          /\ onRead[x] # None => onRead[x] \in Conn \ {c}
          /\ onWrite[x] # None => onWrite[x] \in Conn \ {c}
  BY <1>1 DEF ConnInv, Waiters
<1>5. \A x \in Fd :
          /\ onRead'[x] # None => at'[onRead'[x]] = "reading" /\ fdOf[onRead'[x]] = x
                                  /\ sock'[x] = onRead'[x]
          /\ onWrite'[x] # None => at'[onWrite'[x]] = "writing" /\ fdOf[onWrite'[x]] = x
                                   /\ sock'[x] = onWrite'[x]
  BY <1>2, <1>4 DEF ConnInv, Waiters
<1>6. \A d \in Conn \ {c} :
          /\ at'[d] = "reading" => onRead'[fdOf[d]] = d
          /\ at'[d] = "writing" => onWrite'[fdOf[d]] = d
          /\ at'[d] \in {"reading", "writing"} => sock'[fdOf[d]] = d
  BY <1>2, <1>3 DEF ConnInv, Waiters
<1> QED BY <1>5, <1>6 DEF Waiters

(* The registration of a coroutine whose system call succeeds, if it had one, is gone. *)
LEMMA DoneWaitingCancels ==
  ASSUME ConnInv, NEW c \in Conn, cur = c, at[c] \in Alive, sock[fdOf[c]] # None,
         DoneWaiting(c)
  PROVE  CancelRegister(fdOf[c])
<1> USE PollerConstants
<1>1. sock[fdOf[c]] = c
  BY RunningOwns
<1>2. /\ fdOf[c] \in Fd
      /\ onRead[fdOf[c]] = IF at[c] = "reading" THEN c ELSE None
      /\ onWrite[fdOf[c]] = IF at[c] = "writing" THEN c ELSE None
  BY <1>1, RunningOwns
<1>3. onRead \in [Fd -> Conn \cup {None}] /\ onWrite \in [Fd -> Conn \cup {None}]
  BY DEF ConnInv, TypeOK, PollerTypeOK
<1>4. CASE at[c] \in {"reading", "writing"}
  BY <1>4 DEF DoneWaiting
<1>5. CASE at[c] \notin {"reading", "writing"}
  <2>1. onRead = [onRead EXCEPT ![fdOf[c]] = None]
    BY <1>2, <1>3, <1>5
  <2>2. onWrite = [onWrite EXCEPT ![fdOf[c]] = None]
    BY <1>2, <1>3, <1>5
  <2> QED BY <1>5, <2>1, <2>2 DEF DoneWaiting, CancelRegister, pollerVars
<1> QED BY <1>4, <1>5


-----------------------------------------------------------------------------
(* The outside. *)

LEMMA PeerSendsStep ==
  ASSUME ConnInv, TypeOK', NEW c \in Conn, PeerSends(c)
  PROVE  ConnInv'
<1> USE PollerConstants, ConnectionConstants
<1>e. /\ sent' = [sent EXCEPT ![c] = @ + 1]
      /\ arrived' = [arrived EXCEPT ![c] = @ + 1]
      /\ sent[c] < 2 * MaxRequests
      /\ UNCHANGED <<pollerVars, sock, fin, room, answered, sever, start, at, deferred, cur>>
  BY DEF PeerSends
<1> USE DEF pollerVars, sever, history, start
<1>2. Owners'
  BY <1>e DEF ConnInv, Owners, Over
<1>3. Tasks'
  BY <1>e DEF ConnInv, Tasks, Over, Queued, Doubled, Dead
<1>4. Turns'
  BY <1>e DEF ConnInv, Turns, Over, Registered, Dead
<1>5. Waiters'
  BY <1>e DEF ConnInv, Waiters
<1> QED BY <1>2, <1>3, <1>4, <1>5 DEF ConnInv

LEMMA PeerEndsStep ==
  ASSUME ConnInv, TypeOK', NEW c \in Conn, PeerEnds(c)
  PROVE  ConnInv'
<1> USE DEF PeerEnds, sever, history, start, pollerVars
<1>2. Owners'
  BY DEF ConnInv, Owners, Over
<1>3. Tasks'
  BY DEF ConnInv, TypeOK, Tasks, Over, Queued, Doubled, Dead
<1>4. Turns'
  BY DEF ConnInv, Turns, Over, Registered, Dead
<1>5. Waiters'
  BY DEF ConnInv, Waiters
<1> QED BY <1>2, <1>3, <1>4, <1>5 DEF ConnInv

LEMMA PeerReadsStep ==
  ASSUME ConnInv, TypeOK', NEW c \in Conn, PeerReads(c)
  PROVE  ConnInv'
<1> USE DEF PeerReads, sever, history, start, pollerVars
<1>2. Owners'
  BY DEF ConnInv, Owners, Over
<1>3. Tasks'
  BY DEF ConnInv, Tasks, Over, Queued, Doubled, Dead
<1>4. Turns'
  BY DEF ConnInv, Turns, Over, Registered, Dead
<1>5. Waiters'
  BY DEF ConnInv, Waiters
<1> QED BY <1>2, <1>3, <1>4, <1>5 DEF ConnInv

LEMMA AcceptStep ==
  ASSUME ConnInv, TypeOK', NEW c \in Conn, NEW fd \in Fd, Accept(c, fd), ~reused'
  PROVE  ConnInv'
<1> USE PollerConstants, ConnectionConstants
<1>e. /\ at[c] = "none" /\ sock[fd] = None /\ ~stopped
      /\ closing = None \/ fdOf[closing] # fd
      /\ sock' = [sock EXCEPT ![fd] = c]
      /\ fdOf' = [fdOf EXCEPT ![c] = fd]
      /\ at' = [at EXCEPT ![c] = "accepted"]
      /\ UNCHANGED <<pollerVars, arrived, fin, room, sent, answered, conns, buffered, asked,
                     closedTwice, start, deferred, cur>>
  BY DEF Accept
<1> USE DEF pollerVars, start
<1>t. /\ sock \in [Fd -> Conn \cup {None}] /\ conns \in [Fd -> Conn \cup {None}]
      /\ fdOf \in [Conn -> Fd \cup {None}] /\ at \in [Conn -> Places]
  BY DEF ConnInv, TypeOK
<1>0. /\ ~Over
      /\ conns[fd] = None
      /\ \A d \in Conn : fdOf[d] = fd => at[d] \in {"none", "gone"}
  <2>1. ~Over
    BY <1>e DEF ConnInv, Turns
  <2> QED BY <1>e, <2>1, NobodyHere
<1>n. /\ \A d \in Conn : d # c => fdOf'[d] = fdOf[d] /\ at'[d] = at[d]
      /\ \A x \in Fd : x # fd => sock'[x] = sock[x]
      /\ fdOf'[c] = fd /\ at'[c] = "accepted" /\ sock'[fd] = c
  BY <1>e, <1>t
<1>2. Owners'
  <2>1. \A x \in Fd : sock'[x] # None =>
            fdOf'[sock'[x]] = x /\ at'[sock'[x]] \notin {"none", "gone"}
    BY <1>e, <1>n, <1>t DEF ConnInv, Owners
  <2>2. \A x \in Fd : conns[x] # None => fdOf'[conns[x]] = x /\ at'[conns[x]] \in Kept
    BY <1>e, <1>n, <1>t DEF ConnInv, Owners, Kept, Alive
  <2>3. \A d \in Conn : at'[d] \in {"accepted", "handed"} =>
            fdOf'[d] \in Fd /\ sock'[fdOf'[d]] = d /\ conns[fdOf'[d]] = None
    BY <1>e, <1>n, <1>0 DEF ConnInv, Owners
  <2>4. \A d \in Conn : at'[d] \in Kept =>
          /\ fdOf'[d] \in Fd /\ conns[fdOf'[d]] = d
          /\ sock'[fdOf'[d]] \in {d, None}
          /\ d # closing /\ ~Over => sock'[fdOf'[d]] = d
    BY <1>e, <1>n, <1>0 DEF ConnInv, Owners, Kept, Alive
  <2> QED BY <1>e, <2>1, <2>2, <2>3, <2>4 DEF Owners, Over
<1>3. Tasks'
  BY <1>e, <1>n DEF ConnInv, Tasks, Kept, Alive, Over, Queued, Doubled, Dead
<1>4. Turns'
  <2>1. /\ cur # None => cur \in Conn /\ cur # c
        /\ closing # None => closing \in Conn /\ closing # c /\ fdOf[closing] # fd
    BY <1>e DEF ConnInv, TypeOK, Turns, Kept, Alive, Dead
  <2>2. Dead' <=> Dead
    BY <1>e, <1>n, <2>1 DEF Dead
  <2>3. cur # None /\ cur = closing /\ ~Dead =>
            sock'[fdOf'[cur]] = None /\ at'[cur] \in {"reading", "writing", "fetch"}
    <3> SUFFICES ASSUME cur # None, cur = closing, ~Dead
                 PROVE  sock'[fdOf'[cur]] = None /\ at'[cur] \in {"reading", "writing", "fetch"}
      OBVIOUS
    <3>1. sock[fdOf[cur]] = None /\ at[cur] \in {"reading", "writing", "fetch"}
      BY DEF ConnInv, Turns
    <3>2. fdOf[cur] \in Fd
      BY <2>1, <3>1 DEF ConnInv, Owners, Kept, Alive
    <3> QED BY <1>n, <2>1, <3>1, <3>2
  <2>4. closing # None /\ ~Dead => at'[closing] \in Kept /\ sock'[fdOf'[closing]] = None
    <3> SUFFICES ASSUME closing # None, ~Dead
                 PROVE  at'[closing] \in Kept /\ sock'[fdOf'[closing]] = None
      OBVIOUS
    <3>1. at[closing] \in Kept /\ sock[fdOf[closing]] = None
      BY DEF ConnInv, Turns
    <3>2. fdOf[closing] \in Fd
      BY <2>1, <3>1 DEF ConnInv, Owners
    <3> QED BY <1>n, <2>1, <3>1, <3>2
  <2> QED BY <1>0, <1>e, <1>n, <2>1, <2>2, <2>3, <2>4 DEF ConnInv, Turns, Over, Registered, Alive
<1>5. Waiters'
  <2>1. onRead \in [Fd -> Conn \cup {None}] /\ onWrite \in [Fd -> Conn \cup {None}]
    BY DEF ConnInv, TypeOK, PollerTypeOK
  <2>2. \A x \in Fd :
          /\ onRead[x] # None => onRead[x] \in Conn \ {c} /\ x # fd
          /\ onWrite[x] # None => onWrite[x] \in Conn \ {c} /\ x # fd
    BY <1>e, <2>1 DEF ConnInv, Waiters
  <2>3. \A d \in Conn : at[d] \in {"reading", "writing"} => d # c /\ fdOf[d] # fd
    BY <1>0, <1>e
  <2> QED BY <1>e, <1>n, <2>2, <2>3 DEF ConnInv, Waiters
<1> QED BY <1>2, <1>3, <1>4, <1>5 DEF ConnInv

LEMMA HandOverStep ==
  ASSUME ConnInv, TypeOK', NEW c \in Conn, HandOver(c)
  PROVE  ConnInv'
<1> USE PollerConstants
<1>e. /\ at[c] = "accepted"
      /\ at' = [at EXCEPT ![c] = "handed"]
      /\ deferred' = Append(deferred, Task("establish", c))
      /\ UNCHANGED <<pollerVars, kernel, sever, start, cur>>
  BY DEF HandOver
<1>d. /\ deferred' \in Seq(TaskSet) /\ Distinct(deferred', Doubled')
      /\ \A u : Has(deferred', u) <=> Has(deferred, u) \/ u = Task("establish", c)
  <2>1. deferred \in Seq(TaskSet) /\ Distinct(deferred, Doubled) /\ Task("establish", c) \in TaskSet
    BY TaskIs DEF ConnInv, TypeOK, Tasks, TaskSet
  <2>2. ~Has(deferred, Task("establish", c))
    BY <1>e DEF ConnInv, Tasks, Queued
  <2>3. Doubled' = Doubled
    BY <1>e DEF sever, history, Doubled
  <2> QED BY <1>e, <2>1, <2>2, <2>3, AppendHas
<1> USE DEF start, kernel, sever, history, pollerVars
<1>n. at'[c] = "handed" /\ \A d \in Conn : d # c => at'[d] = at[d]
  BY <1>e DEF ConnInv, TypeOK
<1>0. cur # c /\ closing # c
  BY <1>e DEF ConnInv, Turns, Kept, Alive, Dead
<1>2. Owners'
  <2>1. \A fd \in Fd : sock[fd] \in Conn \cup {None} /\ conns[fd] \in Conn \cup {None}
    BY DEF ConnInv, TypeOK
  <2> QED BY <1>e, <1>n, <2>1 DEF ConnInv, Owners, Kept, Alive, Over
<1>3. Tasks'
  <2>1. Dead' <=> Dead
    BY <1>0, <1>e, <1>n DEF ConnInv, TypeOK, Dead
  <2>2. \A d \in Conn, does \in {"start", "close", "clean"} : Queued(does, d)' <=> Queued(does, d)
    BY <1>d, TaskIs DEF Queued
  <2>3. \A d \in Conn : Queued("establish", d)' => Queued("establish", d) \/ d = c
    BY <1>d, TaskIs DEF Queued
  <2> QED BY <1>0, <1>d, <1>e, <1>n, <2>1, <2>2, <2>3 DEF ConnInv, Tasks, Over, Alive, Kept
<1>4. Turns'
  <2>1. cur \in Conn \cup {None} /\ closing \in Conn \cup {None}
    BY DEF ConnInv, TypeOK
  <2> QED BY <1>0, <1>e, <1>n, <2>1 DEF ConnInv, Turns, Over, Alive, Kept, Registered, Dead
<1>5. Waiters'
  <2>1. \A x \in Fd : onRead[x] \in Conn \cup {None} /\ onWrite[x] \in Conn \cup {None}
    BY DEF ConnInv, TypeOK, PollerTypeOK
  <2> QED BY <1>e, <1>n, <2>1 DEF ConnInv, Waiters
<1> QED BY <1>2, <1>3, <1>4, <1>5 DEF ConnInv

LEMMA StopStep ==
  ASSUME ConnInv, TypeOK', Stop
  PROVE  ConnInv'
<1> USE DEF Stop, pollerVars, kernel, sever, history
<1>2. Owners'
  BY DEF ConnInv, Owners, Over
<1>3. Tasks'
  BY DEF ConnInv, Tasks, Over, Queued, Doubled, Dead
<1>4. Turns'
  BY DEF ConnInv, Turns, Over, Registered, Dead
<1>5. Waiters'
  BY DEF ConnInv, Waiters
<1> QED BY <1>2, <1>3, <1>4, <1>5 DEF ConnInv

-----------------------------------------------------------------------------
(* The loop. *)


LEMMA EpollReturnsStep ==
  ASSUME ConnInv, TypeOK', EpollReturns
  PROVE  ConnInv'
<1>e. /\ loop = "wait" /\ loop' = "batch" /\ batch' \in Seq(Pointer)
      /\ UNCHANGED <<pollerVars, kernel, sever, closing, stopped, raised, at, deferred, cur>>
  BY EpollWaitType DEF EpollReturns
<1> USE DEF pollerVars, kernel, sever, history
<1>2. Owners'
  BY <1>e DEF ConnInv, Owners, Over
<1>3. Tasks'
  BY <1>e DEF ConnInv, Tasks, Over, Queued, Doubled, Dead
<1>4. Turns'
  BY <1>e DEF ConnInv, Turns, Over, Registered, Dead
<1>5. Waiters'
  BY <1>e DEF ConnInv, Waiters
<1> QED BY <1>2, <1>3, <1>4, <1>5 DEF ConnInv

LEMMA RunBatchStep ==
  ASSUME ConnInv, TypeOK', RunBatch
  PROVE  ConnInv'
<1> USE PollerConstants
<1> USE DEF pollerVars, kernel, sever, history, start, RunBatch
<1>0. /\ Tail(batch) \in Seq(Pointer)
      /\ cur' \in Conn \cup {None}
      /\ cur' # None => at[cur'] \in {"reading", "writing"}
      /\ closing = None /\ ~Over
  <2>1. Head(batch) \in Pointer /\ Tail(batch) \in Seq(Pointer)
    BY HeadTailProperties DEF ConnInv, TypeOK
  <2>2. PICK fd \in Fd : cur' = onRead[fd] \/ cur' = onWrite[fd]
    BY <2>1 DEF Runnable, Pointer
  <2>3. cur' \in Conn \cup {None}
    BY <2>2 DEF ConnInv, TypeOK, PollerTypeOK
  <2>4. cur' # None => at[cur'] \in {"reading", "writing"}
    BY <2>2 DEF ConnInv, Waiters
  <2>5. closing = None /\ ~Over
    BY DEF ConnInv, Turns, Over
  <2> QED BY <2>1, <2>3, <2>4, <2>5
<1>2. Owners'
  BY DEF ConnInv, Owners, Over
<1>3. Tasks'
  <2>1. \A c \in Conn : at[c] = "new" => cur' # c
    BY <1>0
  <2> QED BY <2>1 DEF ConnInv, Tasks, Over, Queued, Doubled, Dead
<1>4. Turns'
  <2>1. cur' # None => at[cur'] \in Alive
    BY <1>0 DEF Alive
  <2>2. ~(cur' # None /\ (cur' = closing' \/ Over'))
    BY <1>0 DEF Over
  <2>3. \A c \in Conn : at[c] \notin {"fetch", "decode", "flush"}
    BY DEF ConnInv, Turns, Dead
  <2> QED BY <1>0, <2>1, <2>2, <2>3 DEF ConnInv, Turns, Over, Registered, Dead
<1>5. Waiters'
  <2>1. \A c \in Conn : at[c] \in {"reading", "writing"} => sock[fdOf[c]] = c
    BY DEF ConnInv, Waiters
  <2> QED BY <2>1 DEF ConnInv, Waiters
<1> QED BY <1>2, <1>3, <1>4, <1>5 DEF ConnInv

LEMMA BatchDoneStep ==
  ASSUME ConnInv, TypeOK', BatchDone
  PROVE  ConnInv'
<1> USE DEF BatchDone, pollerVars, kernel, sever, history
<1>2. Owners'
  BY DEF ConnInv, Owners, Over
<1>3. Tasks'
  BY DEF ConnInv, Tasks, Over, Queued, Doubled, Dead
<1>4. Turns'
  BY DEF ConnInv, Turns, Over, Registered, Dead
<1>5. Waiters'
  BY DEF ConnInv, Waiters
<1> QED BY <1>2, <1>3, <1>4, <1>5 DEF ConnInv

LEMMA DrainDoneStep ==
  ASSUME ConnInv, TypeOK', DrainDone
  PROVE  ConnInv'
<1> USE PollerConstants
<1> USE DEF pollerVars, kernel, sever, history, start, DrainDone
<1>2. Owners'
  BY DEF ConnInv, Owners, Over
<1>3. Tasks'
  <2>1. \A t : ~Has(deferred, t)
    BY DEF Has
  <2> QED BY <2>1 DEF ConnInv, Tasks, Over, Queued, Doubled, Dead
<1>4. Turns'
  BY DEF ConnInv, Turns, Over, Registered, Dead
<1>5. Waiters'
  BY DEF ConnInv, Waiters
<1> QED BY <1>2, <1>3, <1>4, <1>5 DEF ConnInv

LEMMA StopSeenStep ==
  ASSUME ConnInv, TypeOK', StopSeen
  PROVE  ConnInv'
<1> USE DEF StopSeen, pollerVars, kernel, sever, history
<1>2. Owners'
  BY DEF ConnInv, Owners, Over
<1>3. Tasks'
  BY DEF ConnInv, Tasks, Over, Queued, Doubled, Dead
<1>4. Turns'
  BY DEF ConnInv, Turns, Over, Registered, Dead
<1>5. Waiters'
  BY DEF ConnInv, Waiters
<1> QED BY <1>2, <1>3, <1>4, <1>5 DEF ConnInv


LEMMA CleanupStep ==
  ASSUME ConnInv, TypeOK', Cleanup
  PROVE  ConnInv'
<1> USE PollerConstants
<1> DEFINE left == {x \in Fd : Registered(x)}
           fd == Min(left)
           c == GetCallBack(fd)
<1>e. /\ loop = "cleanup" /\ cur = None /\ left # {}
      /\ cur' = c
      /\ CancelRegister(fd) /\ sock' = [sock EXCEPT ![fd] = None]
      /\ UNCHANGED <<arrived, fin, room, sent, answered, sever, start, at, deferred>>
  BY DEF Cleanup
<1>m. fd \in Fd /\ Registered(fd)
  <2>1. left \in SUBSET Nat
    BY ConnectionConstants
  <2>2. fd \in left
    <3> HIDE DEF left
    <3> QED BY <1>e, <2>1, MinIsMember
  <2> QED BY <2>2
<1> HIDE DEF fd
<1>c. c \in Conn /\ at[c] \in {"reading", "writing"} /\ fdOf[c] = fd /\ sock[fd] = c
  <2>1. c \in {onRead[fd], onWrite[fd]} /\ c # None
    BY <1>m DEF GetCallBack, Registered
  <2> HIDE DEF c
  <2>2. c \in Conn
    <3>1. onRead[fd] \in Conn \cup {None} /\ onWrite[fd] \in Conn \cup {None}
      BY <1>m DEF ConnInv, TypeOK, PollerTypeOK
    <3> QED BY <2>1, <3>1
  <2> QED BY <1>m, <2>1, <2>2 DEF ConnInv, Waiters
<1> HIDE DEF c
<1>k. at[c] \in Kept /\ at[c] \in Alive /\ conns[fd] = c /\ closing = None /\ stopped
  BY <1>c, <1>e DEF ConnInv, Owners, Turns, Kept, Alive, Over
<1> USE DEF sever, history, start
<1>n. sock'[fd] = None /\ \A x \in Fd : x # fd => sock'[x] = sock[x]
  BY <1>m, <1>e DEF ConnInv, TypeOK
<1>2. Owners'
  <2>1. \A d \in Conn \ {c} : at[d] \in {"accepted", "handed"} \cup Kept => fdOf[d] # fd
    BY <1>c, <1>k DEF ConnInv, Owners
  <2>2. \A d \in Conn \ {c} : at[d] \in {"accepted", "handed"} =>
            fdOf[d] \in Fd /\ sock'[fdOf[d]] = d /\ conns[fdOf[d]] = None
    BY <1>n, <2>1 DEF ConnInv, Owners
  <2>3. \A d \in Conn \ {c} : at[d] \in Kept =>
            fdOf[d] \in Fd /\ conns[fdOf[d]] = d /\ sock'[fdOf[d]] \in {d, None}
    BY <1>n, <2>1 DEF ConnInv, Owners
  <2>4. \A x \in Fd : sock'[x] # None => fdOf[sock'[x]] = x /\ at[sock'[x]] \notin {"none", "gone"}
    BY <1>n DEF ConnInv, Owners
  <2>5. Over'
    BY <1>e DEF Over
  <2>6. at[c] \notin {"accepted", "handed"}
    BY <1>c
  <2> QED BY <1>c, <1>e, <1>k, <1>m, <1>n, <2>2, <2>3, <2>4, <2>5, <2>6 DEF ConnInv, Owners
<1>3. Tasks'
  BY <1>c, <1>e DEF ConnInv, Tasks, Over, Queued, Doubled, Dead
<1>4. Turns'
  BY <1>c, <1>e, <1>k, <1>n DEF ConnInv, Turns, Over, Dead
<1>5. Waiters'
  <2>1. sock'[fd] # c
    BY <1>c, <1>n
  <2> QED BY <1>c, <1>e, <1>k, <1>m, <1>n, <2>1, FreedWaiters
<1> QED BY <1>2, <1>3, <1>4, <1>5 DEF ConnInv

LEMMA ExitStep ==
  ASSUME ConnInv, TypeOK', Exit
  PROVE  ConnInv'
<1> USE DEF Exit, pollerVars, kernel, sever, history
<1>2. Owners'
  BY DEF ConnInv, Owners, Over
<1>3. Tasks'
  BY DEF ConnInv, Tasks, Over, Queued, Doubled, Dead
<1>4. Turns'
  BY DEF ConnInv, Turns, Over, Registered, Dead
<1>5. Waiters'
  BY DEF ConnInv, Waiters
<1> QED BY <1>2, <1>3, <1>4, <1>5 DEF ConnInv

-----------------------------------------------------------------------------
(* The deferred tasks. *)

LEMMA EstablishStep ==
  ASSUME ConnInv, TypeOK', NEW c \in Conn, Establish(c)
  PROVE  ConnInv'
<1> USE PollerConstants
<1> DEFINE fd == fdOf[c]
           rest == Tail(deferred)
<1>c. /\ Runs("establish", c) /\ at[c] = "handed" /\ fd \in Fd
      /\ sock[fd] = c /\ conns[fd] = None
      /\ loop = "drain" /\ cur = None /\ closing = None
      /\ rest \in Seq(TaskSet) /\ Distinct(rest, Doubled)
      /\ \A u : Has(rest, u) <=> Has(deferred, u) /\ u # Task("establish", c)
  <2>1. Runs("establish", c)
    BY DEF Establish
  <2>2. at[c] = "handed"
    BY <2>1, HeadTask DEF ConnInv, Tasks
  <2> QED BY <2>1, <2>2, HeadTask DEF ConnInv, Owners
<1>e. /\ conns' = [conns EXCEPT ![fd] = c]
      /\ at' = [at EXCEPT ![c] = "new"]
      /\ deferred' = Append(rest, Task("start", c))
      /\ UNCHANGED <<pollerVars, kernel, fdOf, buffered, history, start, cur>>
  BY <1>c DEF Establish
<1>d. /\ deferred' \in Seq(TaskSet) /\ Distinct(deferred', Doubled')
      /\ \A u : Has(deferred', u) <=>
            (Has(deferred, u) /\ u # Task("establish", c)) \/ u = Task("start", c)
  <2>1. ~Has(rest, Task("start", c))
    BY <1>c DEF ConnInv, Tasks, Queued
  <2>2. Task("start", c) \in TaskSet
    BY TaskIs
  <2>3. Doubled' = Doubled
    BY <1>e DEF history, Doubled
  <2> HIDE DEF rest
  <2> QED BY <1>c, <1>e, <2>1, <2>2, <2>3, AppendHas
<1> HIDE DEF fd, rest
<1> USE DEF start, kernel, pollerVars
<1>n. /\ at'[c] = "new" /\ \A d \in Conn : d # c => at'[d] = at[d]
      /\ conns'[fd] = c /\ \A x \in Fd : x # fd => conns'[x] = conns[x]
  BY <1>c, <1>e DEF ConnInv, TypeOK
<1>o. \A d \in Conn \ {c} : at[d] \in {"accepted", "handed"} \cup Kept => fdOf[d] # fd
  BY <1>c DEF ConnInv, Owners, fd
<1>2. Owners'
  <2>1. \A x \in Fd : sock[x] \in Conn \cup {None} /\ conns[x] \in Conn \cup {None}
    BY DEF ConnInv, TypeOK
  <2>2. \A x \in Fd : sock[x] # None => fdOf[sock[x]] = x /\ at'[sock[x]] \notin {"none", "gone"}
    BY <1>n, <2>1 DEF ConnInv, Owners
  <2>3. \A x \in Fd : conns'[x] # None => fdOf[conns'[x]] = x /\ at'[conns'[x]] \in Kept
    <3>1. \A x \in Fd \ {fd} : conns[x] # None => conns[x] \in Conn \ {c}
      BY <1>c, <2>1 DEF ConnInv, Owners, Kept, Alive
    <3> QED BY <1>c, <1>n, <3>1 DEF ConnInv, Owners, Kept, Alive, fd
  <2>4. \A d \in Conn : at'[d] \in {"accepted", "handed"} =>
            fdOf[d] \in Fd /\ sock[fdOf[d]] = d /\ conns'[fdOf[d]] = None
    BY <1>n, <1>o DEF ConnInv, Owners
  <2>5. \A d \in Conn : at'[d] \in Kept =>
          /\ fdOf[d] \in Fd /\ conns'[fdOf[d]] = d
          /\ sock[fdOf[d]] \in {d, None}
          /\ d # closing /\ ~Over => sock[fdOf[d]] = d
    <3>1. fdOf[c] \in Fd /\ conns'[fdOf[c]] = c /\ sock[fdOf[c]] = c
      BY <1>c, <1>n DEF fd
    <3>2. \A d \in Conn \ {c} : at[d] \in Kept => conns'[fdOf[d]] = conns[fdOf[d]]
      BY <1>n, <1>o DEF ConnInv, Owners
    <3> QED BY <1>n, <3>1, <3>2 DEF ConnInv, Owners
  <2> QED BY <1>e, <2>2, <2>3, <2>4, <2>5 DEF Owners, Over
<1>3. Tasks'
  <2>1. ~Dead'
    BY <1>c, <1>e DEF Dead
  <2>2. \A d \in Conn, does \in {"close", "clean"} : Queued(does, d)' <=> Queued(does, d)
    BY <1>d, TaskIs DEF Queued
  <2>3. \A d \in Conn : /\ Queued("establish", d)' => Queued("establish", d) /\ d # c
                        /\ Queued("start", d)' => Queued("start", d) \/ d = c
    BY <1>d, TaskIs DEF Queued
  <2> QED BY <1>c, <1>d, <1>e, <1>n, <2>1, <2>2, <2>3 DEF ConnInv, Tasks, Over, Alive, Kept, history
<1>4. Turns'
  BY <1>c, <1>e, <1>n DEF ConnInv, Turns, Over, Alive, Registered, Dead
<1>5. Waiters'
  <2>1. \A x \in Fd : onRead[x] \in Conn \cup {None} /\ onWrite[x] \in Conn \cup {None}
    BY DEF ConnInv, TypeOK, PollerTypeOK
  <2> QED BY <1>c, <1>e, <1>n, <2>1 DEF ConnInv, Waiters
<1> QED BY <1>2, <1>3, <1>4, <1>5 DEF ConnInv

LEMMA StartCoroutineStep ==
  ASSUME ConnInv, TypeOK', NEW c \in Conn, StartCoroutine(c)
  PROVE  ConnInv'
<1> USE PollerConstants
<1> USE DEF pollerVars, kernel, sever, history, start, StartCoroutine
<1>0. /\ deferred' \in Seq(TaskSet) /\ Distinct(deferred', Doubled')
      /\ \A u : Has(deferred', u) <=> Has(deferred, u) /\ u # Task("start", c)
      /\ at[c] = "new" /\ loop = "drain" /\ cur = None /\ closing = None
  <2>1. Runs("start", c)
    OBVIOUS
  <2>2. at[c] = "new"
    BY <2>1, HeadTask DEF ConnInv, Tasks
  <2>3. Doubled' = Doubled
    BY DEF Doubled
  <2> QED BY <2>1, <2>2, <2>3, HeadTask
<1>2. Owners'
  BY DEF ConnInv, Owners, Over
<1>3. Tasks'
  BY <1>0, TaskIs DEF ConnInv, Tasks, Over, Queued, Doubled, Dead
<1>4. Turns'
  BY <1>0 DEF ConnInv, Turns, Over, Registered, Alive, Dead
<1>5. Waiters'
  BY <1>0 DEF ConnInv, Waiters
<1> QED BY <1>2, <1>3, <1>4, <1>5 DEF ConnInv

LEMMA LocalCloseStep ==
  ASSUME ConnInv, TypeOK', NEW c \in Conn, LocalClose(c)
  PROVE  ConnInv'
<1> USE PollerConstants
<1> DEFINE fd == fdOf[c]
           rest == Tail(deferred)
<1>h. /\ loop = "drain" /\ cur = None /\ closing = None /\ ~Dead /\ c \in asked
      /\ \/ at[c] \in {"reading", "writing"}
         \/ c \in closedTwice /\ at[c] \in {"reading", "writing", "ended", "gone"}
      /\ rest \in Seq(TaskSet) /\ Distinct(rest, Doubled)
      /\ \A u : Has(rest, u) => Has(deferred, u)
      /\ \A u : Has(deferred, u) /\ u # Task("close", c) => Has(rest, u)
      /\ Has(rest, Task("close", c)) => c \in closedTwice
  <2>1. Runs("close", c)
    BY DEF LocalClose
  <2>2. at[c] \in (Kept \cup {"gone"}) \ {"new"} /\ c \in asked
        /\ (c \in closedTwice \/ at[c] \in Alive \ {"new"})
    BY <2>1, HeadTask DEF ConnInv, Tasks, Kept
  <2>3. at[c] \notin {"fetch", "decode", "flush"}
    BY <2>1, HeadTask DEF ConnInv, Turns
  <2> QED BY <2>1, <2>2, <2>3, HeadTask DEF Kept, Alive
<1>u. /\ deferred' = rest
      /\ UNCHANGED <<arrived, fin, room, sent, answered, fdOf, buffered, history, batch, stopped,
                     conns, at>>
  BY DEF LocalClose, CloseFreed, CloseAndResume
<1> USE DEF history
<1>v. Doubled' = Doubled
  BY <1>u DEF Doubled
<1>g. CASE at[c] = "gone"
  <2>e. /\ loop' = "ended" /\ raised' = "crash" /\ c \in closedTwice
        /\ UNCHANGED <<onRead, onWrite, sock, cur, closing>>
    BY <1>g, <1>h DEF LocalClose, CloseFreed, Raise, pollerVars
  <2> HIDE DEF fd, rest
  <2>1. Owners'
    BY <1>h, <1>u, <2>e DEF ConnInv, Owners, Over
  <2>2. Tasks'
    BY <1>h, <1>u, <1>v, <2>e, TaskIs DEF ConnInv, Tasks, Over, Queued, Alive, Kept, Dead
  <2>3. Turns'
    BY <1>h, <1>u, <2>e DEF ConnInv, Turns, Over, Dead
  <2>4. Waiters'
    BY <1>h, <1>u, <2>e DEF ConnInv, Waiters
  <2> QED BY <2>1, <2>2, <2>3, <2>4 DEF ConnInv
<1>k. CASE at[c] # "gone"
  <2>c. /\ at[c] \in {"reading", "writing", "ended"} /\ fd \in Fd
        /\ sock[fd] = c /\ conns[fd] = c
    BY <1>h, <1>k DEF ConnInv, Owners, Kept, Alive, Over
  <2>e. /\ cur' = c /\ closing' = c /\ CancelRegister(fd) /\ sock' = [sock EXCEPT ![fd] = None]
        /\ UNCHANGED <<raised, loop>>
    BY <1>k, <2>c DEF LocalClose, CloseAndResume, CloseFd, Goes
  <2> HIDE DEF fd, rest
  <2>n. sock'[fd] = None /\ \A x \in Fd : x # fd => sock'[x] = sock[x]
    BY <2>c, <2>e DEF ConnInv, TypeOK
  <2>d. Dead' <=> c \in closedTwice /\ at[c] = "ended"
    BY <1>u, <2>e DEF Dead
  <2>3. Tasks'
    BY <1>h, <1>u, <1>v, <2>c, <2>d, <2>e, TaskIs DEF ConnInv, Tasks, Over, Queued, Alive, Kept
  <2>2. Owners'
    <3>1. \A d \in Conn \ {c} : at[d] \in {"accepted", "handed"} \cup Kept => fdOf[d] # fd
      BY <2>c DEF ConnInv, Owners
    <3>2. \A d \in Conn \ {c} : at[d] \in {"accepted", "handed"} =>
              fdOf[d] \in Fd /\ sock'[fdOf[d]] = d /\ conns[fdOf[d]] = None
      BY <2>n, <3>1 DEF ConnInv, Owners
    <3>3. \A d \in Conn \ {c} : at[d] \in Kept =>
              fdOf[d] \in Fd /\ conns[fdOf[d]] = d /\ sock'[fdOf[d]] = d
      BY <1>h, <2>n, <3>1 DEF ConnInv, Owners, Over
    <3>4. \A x \in Fd : sock'[x] # None => fdOf[sock'[x]] = x /\ at[sock'[x]] \notin {"none", "gone"}
      BY <2>n DEF ConnInv, Owners
    <3> QED BY <1>u, <2>c, <2>e, <2>n, <3>2, <3>3, <3>4 DEF ConnInv, Owners, fd
  <2>4. Turns'
    BY <1>h, <1>u, <2>c, <2>d, <2>e, <2>n DEF ConnInv, Turns, Over, Alive, Kept, fd
  <2>5. Waiters'
    <3>1. at[c] \in Kept /\ fdOf[c] = fd /\ sock'[fd] # c
      BY <2>c, <2>n DEF Kept, Alive, fd
    <3> QED BY <1>h, <1>u, <2>c, <2>e, <2>n, <3>1, FreedWaiters
  <2> QED BY <2>2, <2>3, <2>4, <2>5 DEF ConnInv
<1> QED BY <1>g, <1>k

(* A kept connection that is destroyed, and whose descriptor is free then. *)
LEMMA DestroyedOwners ==
  ASSUME ConnInv, NEW c \in Conn, NEW fd \in Fd,
         fdOf[c] = fd, conns[fd] = c,
         at' = [at EXCEPT ![c] = "gone"], conns' = [conns EXCEPT ![fd] = None],
         sock'[fd] = None, \A x \in Fd \ {fd} : sock'[x] = sock[x],
         UNCHANGED <<fdOf, loop>>, closing' \in {closing, None}, closing \in {c, None}
  PROVE  /\ at' \in [Conn -> Places] /\ conns' \in [Fd -> Conn \cup {None}]
         /\ at'[c] = "gone" /\ \A d \in Conn \ {c} : at'[d] = at[d]
         /\ Owners'
<1> USE PollerConstants
<1>1. /\ at' \in [Conn -> Places] /\ conns' \in [Fd -> Conn \cup {None}]
      /\ at'[c] = "gone" /\ \A d \in Conn \ {c} : at'[d] = at[d]
      /\ conns'[fd] = None /\ \A x \in Fd \ {fd} : conns'[x] = conns[x]
  BY DEF ConnInv, TypeOK, Places
<1>2. \A d \in Conn \ {c} : at[d] \in {"accepted", "handed"} \cup Kept => fdOf[d] # fd
  BY DEF ConnInv, Owners
<1>3. \A x \in Fd \ {fd} : sock[x] \in (Conn \ {c}) \cup {None} /\ conns[x] \in (Conn \ {c}) \cup {None}
  <2>1. \A x \in Fd : sock[x] \in Conn \cup {None} /\ conns[x] \in Conn \cup {None}
    BY DEF ConnInv, TypeOK
  <2>2. \A x \in Fd \ {fd} : sock[x] # c /\ conns[x] # c
    BY DEF ConnInv, Owners
  <2> QED BY <2>1, <2>2
<1>4. \A x \in Fd : sock'[x] # None => fdOf[sock'[x]] = x /\ at'[sock'[x]] \notin {"none", "gone"}
  BY <1>1, <1>3 DEF ConnInv, Owners
<1>5. \A x \in Fd : conns'[x] # None => fdOf[conns'[x]] = x /\ at'[conns'[x]] \in Kept
  BY <1>1, <1>3 DEF ConnInv, Owners
<1>6. \A d \in Conn : at'[d] \in {"accepted", "handed"} =>
            fdOf[d] \in Fd /\ sock'[fdOf[d]] = d /\ conns'[fdOf[d]] = None
  BY <1>1, <1>2 DEF ConnInv, Owners
<1>7. \A d \in Conn : at'[d] \in Kept =>
          /\ fdOf[d] \in Fd /\ conns'[fdOf[d]] = d
          /\ sock'[fdOf[d]] \in {d, None}
          /\ ~Over => sock'[fdOf[d]] = d
  <2>1. at'[c] \notin Kept
    BY <1>1 DEF Kept, Alive
  <2>2. \A d \in Conn \ {c} : at'[d] \in Kept =>
            /\ fdOf[d] \in Fd \ {fd} /\ conns[fdOf[d]] = d
            /\ sock[fdOf[d]] \in {d, None} /\ (~Over => sock[fdOf[d]] = d)
    BY <1>1, <1>2 DEF ConnInv, Owners
  <2> QED BY <1>1, <2>1, <2>2
<1> QED BY <1>1, <1>4, <1>5, <1>6, <1>7 DEF Owners, Over

LEMMA LocalClosedStep ==
  ASSUME ConnInv, TypeOK', LocalClosed
  PROVE  ConnInv'
<1> USE PollerConstants
<1>0. closing \in Conn /\ loop = "drain" /\ cur = None
  BY DEF LocalClosed, ConnInv, TypeOK
<1> DEFINE c == closing
           fd == fdOf[c]
<1>c. /\ at[c] = "ended" /\ fd \in Fd /\ conns[fd] = c /\ sock[fd] = None
      /\ ~Queued("clean", c) /\ (Queued("close", c) => c \in closedTwice)
  <2>1. ~Dead
    BY <1>0 DEF Dead
  <2> QED BY <1>0, <2>1 DEF ConnInv, Owners, Turns, Tasks, Kept
<1>e. /\ at' = [at EXCEPT ![c] = "gone"] /\ conns' = [conns EXCEPT ![fd] = None]
      /\ closing' = None
      /\ UNCHANGED <<pollerVars, kernel, fdOf, buffered, history, batch, stopped, deferred, cur,
                     raised, loop>>
  BY <1>0, <1>c DEF LocalClosed, Destroy, Goes
<1> USE DEF pollerVars, kernel
<1>n. /\ at' \in [Conn -> Places] /\ conns' \in [Fd -> Conn \cup {None}]
      /\ at'[c] = "gone" /\ \A d \in Conn \ {c} : at'[d] = at[d]
      /\ Owners'
  BY <1>0, <1>c, <1>e, DestroyedOwners
<1> HIDE DEF fd
<1>3. Tasks'
  BY <1>0, <1>c, <1>e, <1>n, TaskIs DEF ConnInv, Tasks, Over, Queued,
     Kept, Alive, Doubled, Dead, history
<1>4. Turns'
  BY <1>0, <1>c, <1>e, <1>n DEF ConnInv, Turns, Over, Registered, Dead
<1>5. Waiters'
  <2>1. \A x \in Fd : onRead[x] \in Conn \cup {None} /\ onWrite[x] \in Conn \cup {None}
    BY DEF ConnInv, TypeOK, PollerTypeOK
  <2> QED BY <1>0, <1>c, <1>e, <1>n, <2>1 DEF ConnInv, Waiters
<1> QED BY <1>n, <1>3, <1>4, <1>5 DEF ConnInv

LEMMA RemoteClosedStep ==
  ASSUME ConnInv, TypeOK', NEW c \in Conn, RemoteClosed(c)
  PROVE  ConnInv'
<1> USE PollerConstants
<1> DEFINE fd == fdOf[c]
           rest == Tail(deferred)
<1>c. /\ at[c] = "ended" /\ fd \in Fd /\ (Queued("close", c) => c \in closedTwice)
      /\ sock[fd] = c /\ conns[fd] = c
      /\ loop = "drain" /\ cur = None /\ closing = None
      /\ rest \in Seq(TaskSet) /\ Distinct(rest, Doubled)
      /\ \A u : Has(rest, u) <=> Has(deferred, u) /\ u # Task("clean", c)
  <2>1. Runs("clean", c)
    BY DEF RemoteClosed
  <2>2. at[c] = "ended" /\ (Queued("close", c) => c \in closedTwice)
    BY <2>1, HeadTask DEF ConnInv, Tasks, Alive
  <2>3. loop = "drain" /\ cur = None /\ closing = None
    BY <2>1, HeadTask
  <2>4. fd \in Fd /\ sock[fd] = c /\ conns[fd] = c
    BY <2>2, <2>3 DEF ConnInv, Owners, Kept, Over
  <2> QED BY <2>1, <2>2, <2>3, <2>4, HeadTask
<1>e. /\ CancelRegister(fd)
      /\ sock' = [sock EXCEPT ![fd] = None]
      /\ at' = [at EXCEPT ![c] = "gone"] /\ conns' = [conns EXCEPT ![fd] = None]
      /\ deferred' = rest
      /\ UNCHANGED <<arrived, fin, room, sent, answered, fdOf, buffered, history, batch, closing,
                     stopped, cur, raised, loop>>
  BY <1>c DEF RemoteClosed, Destroy, CloseFd, Goes
<1> HIDE DEF fd, rest
<1>s. /\ sock' \in [Fd -> Conn \cup {None}]
      /\ sock'[fd] = None /\ \A x \in Fd \ {fd} : sock'[x] = sock[x]
  BY <1>c, <1>e DEF ConnInv, TypeOK
<1>n. /\ at' \in [Conn -> Places] /\ conns' \in [Fd -> Conn \cup {None}]
      /\ at'[c] = "gone" /\ \A d \in Conn \ {c} : at'[d] = at[d]
      /\ Owners'
  BY <1>c, <1>e, <1>s, DestroyedOwners DEF fd
<1>3. Tasks'
  BY <1>c, <1>e, <1>n, TaskIs DEF ConnInv, Tasks, Over, Queued, Kept, Alive, Dead, Doubled, history
<1>4. Turns'
  BY <1>c, <1>e, <1>n DEF ConnInv, Turns, Over, Dead
<1>5. Waiters'
  <2>1. at[c] \in Kept /\ fdOf[c] = fd
    BY <1>c DEF Kept, Alive, fd
  <2> QED BY <1>c, <1>e, <1>s, <1>n, <2>1, FreedWaiters
<1> QED BY <1>n, <1>3, <1>4, <1>5 DEF ConnInv

LEMMA RunsOffStep ==
  ASSUME ConnInv, TypeOK', RunsOff
  PROVE  ConnInv'
<1> USE DEF RunsOff, Raise, pollerVars, kernel, sever, history
<1>1. Dead /\ Dead' /\ loop \in {"drain", "ended"} /\ closedTwice # {}
  BY PollerConstants DEF ConnInv, Turns, Alive, Dead
<1>2. Owners'
  BY <1>1 DEF ConnInv, Owners, Over
<1>3. Tasks'
  BY <1>1 DEF ConnInv, Tasks, Over, Queued, Doubled
<1>4. Turns'
  BY <1>1 DEF ConnInv, Turns, Over, Registered
<1>5. Waiters'
  BY DEF ConnInv, Waiters
<1> QED BY <1>2, <1>3, <1>4, <1>5 DEF ConnInv

-----------------------------------------------------------------------------
(* The coroutine of a connection. *)

LEMMA ReadWaitsStep ==
  ASSUME ConnInv, TypeOK', NEW c \in Conn, ReadWaits(c)
  PROVE  ConnInv'
<1> USE PollerConstants
<1> DEFINE fd == fdOf[c]
<1>c. /\ cur = c /\ at[c] \in {"new", "fetch", "reading"} /\ fd \in Fd
      /\ sock[fd] = c /\ closing = None /\ loop \in {"batch", "drain"}
      /\ onRead[fd] = (IF at[c] = "reading" THEN c ELSE None)
      /\ conns[fd] = c
  <2>1. cur = c /\ at[c] \in {"new", "fetch", "reading"} /\ sock[fd] # None
    BY DEF ReadWaits, Reading, ReadFinds
  <2> QED BY <2>1, RunningOwns DEF Alive
<1>e. /\ onRead' = [onRead EXCEPT ![fd] = c]
      /\ onWrite' = onWrite /\ loop' = loop /\ raised' = raised
  <2>1. CASE at[c] = "reading"
    <3>1. onRead \in [Fd -> Conn \cup {None}]
      BY DEF ConnInv, TypeOK, PollerTypeOK
    <3>2. onRead = [onRead EXCEPT ![fd] = c]
      BY <1>c, <2>1, <3>1
    <3> QED BY <2>1, <3>2 DEF ReadWaits, pollerVars
  <2>2. CASE at[c] # "reading"
    BY <1>c, <2>2 DEF ReadWaits, RegisterRead, Goes
  <2> QED BY <2>1, <2>2
<1>f. /\ at' = [at EXCEPT ![c] = "reading"] /\ cur' = None
      /\ UNCHANGED <<kernel, sever, batch, closing, stopped, deferred>>
  BY DEF ReadWaits, Go, SwitchBack
<1> HIDE DEF fd
<1> USE DEF kernel, sever, history
<1>n. at'[c] = "reading" /\ \A d \in Conn : d # c => at'[d] = at[d]
  BY <1>f DEF ConnInv, TypeOK
<1>m. onRead'[fd] = c /\ \A x \in Fd : x # fd => onRead'[x] = onRead[x]
  BY <1>c, <1>e DEF ConnInv, TypeOK, PollerTypeOK
<1>2. Owners'
  BY <1>c, <1>e, <1>f, <1>n DEF ConnInv, Owners, Kept, Alive, Over
<1>3. Tasks'
  BY <1>c, <1>e, <1>f, <1>n DEF ConnInv, Tasks, Over, Queued, Alive, Doubled, Dead
<1>4. Turns'
  BY <1>c, <1>e, <1>f, <1>n DEF ConnInv, Turns, Over, Dead
<1>5. Waiters'
  <2>0. onRead \in [Fd -> Conn \cup {None}] /\ onWrite \in [Fd -> Conn \cup {None}]
    BY DEF ConnInv, TypeOK, PollerTypeOK
  <2>1. \A x \in Fd : onRead'[x] # None =>
            at'[onRead'[x]] = "reading" /\ fdOf[onRead'[x]] = x /\ sock[x] = onRead'[x]
    <3>1. \A x \in Fd \ {fd} : onRead[x] # None =>
              at'[onRead[x]] = "reading" /\ fdOf[onRead[x]] = x /\ sock[x] = onRead[x]
      BY <1>n, <2>0 DEF ConnInv, Waiters
    <3>2. at'[c] = "reading" /\ fdOf[c] = fd /\ sock[fd] = c
      BY <1>c, <1>n DEF fd
    <3> QED BY <1>m, <3>1, <3>2
  <2>2. \A x \in Fd : onWrite[x] # None =>
            at'[onWrite[x]] = "writing" /\ fdOf[onWrite[x]] = x /\ sock[x] = onWrite[x]
    <3>1. \A x \in Fd : onWrite[x] # None => onWrite[x] \in Conn
      BY <2>0
    <3>2. at[c] # "writing"
      BY <1>c
    <3> QED BY <1>n, <3>1, <3>2 DEF ConnInv, Waiters
  <2>3. \A d \in Conn :
          /\ at'[d] = "reading" /\ sock[fdOf[d]] = d => onRead'[fdOf[d]] = d
          /\ at'[d] = "writing" /\ sock[fdOf[d]] = d => onWrite[fdOf[d]] = d
          /\ at'[d] \in {"reading", "writing"} => sock[fdOf[d]] = d
    BY <1>c, <1>n, <1>m DEF ConnInv, Owners, Waiters, Kept, Alive, fd
  <2> QED BY <1>e, <1>f, <2>1, <2>2, <2>3 DEF Waiters
<1> QED BY <1>2, <1>3, <1>4, <1>5 DEF ConnInv

LEMMA ReadGetsStep ==
  ASSUME ConnInv, TypeOK', NEW c \in Conn, ReadGets(c)
  PROVE  ConnInv'
<1> USE PollerConstants
<1> DEFINE fd == fdOf[c]
<1>c. /\ cur = c /\ at[c] \in {"new", "fetch", "reading"} /\ fd \in Fd
      /\ sock[fd] = c /\ closing = None /\ loop \in {"batch", "drain"}
      /\ conns[fd] = c
  <2>1. cur = c /\ at[c] \in {"new", "fetch", "reading"} /\ sock[fd] # None
    <3>1. Reading(c, "data")
      BY DEF ReadGets
    <3> QED BY <3>1 DEF Reading, ReadFinds
  <2> QED BY <2>1, RunningOwns DEF Alive
<1>e. /\ CancelRegister(fd)
      /\ buffered' = [buffered EXCEPT ![c] = @ + arrived[c]]
      /\ arrived' = [arrived EXCEPT ![c] = 0]
      /\ at' = [at EXCEPT ![c] = "decode"]
      /\ UNCHANGED <<sock, fin, room, sent, answered, conns, fdOf, history, start, deferred, cur>>
  BY <1>c, DoneWaitingCancels DEF ReadGets, Go, Alive
<1> HIDE DEF fd
<1> USE DEF start
<1>n. at'[c] = "decode" /\ \A d \in Conn : d # c => at'[d] = at[d]
  BY <1>e DEF ConnInv, TypeOK
<1>2. Owners'
  BY <1>c, <1>e, <1>n DEF ConnInv, Owners, Kept, Alive, Over
<1>3. Tasks'
  BY <1>c, <1>e, <1>n DEF ConnInv, Tasks, Over, Queued, Alive, Doubled, Dead, history
<1>4. Turns'
  BY <1>c, <1>e, <1>n DEF ConnInv, Turns, Over, Alive, Dead
<1>5. Waiters'
  BY <1>c, <1>e, <1>n, FreedWaiters DEF fd, Kept, Alive
<1> QED BY <1>2, <1>3, <1>4, <1>5 DEF ConnInv

LEMMA ReadEndsStep ==
  ASSUME ConnInv, TypeOK', NEW c \in Conn, ReadEnds(c)
  PROVE  ConnInv'
<1> USE PollerConstants
<1> DEFINE fd == fdOf[c]
<1>c. /\ cur = c /\ at[c] \in {"new", "fetch", "reading"} /\ fd \in Fd
      /\ sock[fd] = c /\ closing = None /\ loop \in {"batch", "drain"}
      /\ conns[fd] = c /\ ~Dead
  <2>1. Reading(c, "end")
    BY DEF ReadEnds
  <2>2. cur = c /\ at[c] \in {"new", "fetch", "reading"} /\ sock[fd] # None /\ fin[sock[fd]]
    BY <2>1 DEF Reading, ReadFinds
  <2>3. sock[fd] = c
    BY <2>2, RunningOwns DEF Alive
  <2> QED BY <2>2, <2>3, RunningOwns DEF Alive
<1>q. deferred \in Seq(TaskSet) /\ Distinct(deferred, Doubled) /\ Task("clean", c) \in TaskSet
  BY TaskIs DEF ConnInv, TypeOK, Tasks, TaskSet
<1>e. /\ CancelRegister(fd)
      /\ deferred' = Append(deferred, Task("clean", c))
      /\ at' = [at EXCEPT ![c] = "ended"] /\ cur' = None
      /\ closedTwice \subseteq closedTwice' /\ (c \in asked => c \in closedTwice')
      /\ UNCHANGED <<kernel, conns, fdOf, buffered, asked, reused, start>>
  BY <1>c, DoneWaitingCancels DEF ReadEnds, Go, SwitchBack, EndOfStream, MaybeAgain, Alive
<1> HIDE DEF fd
<1> USE DEF start, sever, history, kernel
<1>d. /\ deferred' \in Seq(TaskSet) /\ Distinct(deferred', Doubled')
      /\ \A u : Has(deferred', u) <=> Has(deferred, u) \/ u = Task("clean", c)
  <2>1. ~Has(deferred, Task("clean", c))
    BY <1>c DEF ConnInv, Tasks, Queued
  <2>2. Doubled \subseteq Doubled'
    BY <1>e DEF Doubled
  <2>3. Distinct(deferred, Doubled')
    BY <1>q, <2>2 DEF Distinct
  <2> QED BY <1>e, <1>q, <2>1, <2>3, AppendHas
<1>n. at'[c] = "ended" /\ \A d \in Conn : d # c => at'[d] = at[d]
  BY <1>e DEF ConnInv, TypeOK
<1>2. Owners'
  BY <1>c, <1>e, <1>n DEF ConnInv, Owners, Kept, Alive, Over
<1>3. Tasks'
  BY <1>c, <1>d, <1>e, <1>n, TaskIs DEF ConnInv, Tasks, Over, Queued, Kept, Alive
<1>4. Turns'
  BY <1>c, <1>e, <1>n DEF ConnInv, Turns, Over, Alive, Dead
<1>5. Waiters'
  BY <1>c, <1>e, <1>n, FreedWaiters DEF fd, Kept, Alive
<1> QED BY <1>2, <1>3, <1>4, <1>5 DEF ConnInv

LEMMA ReadFailsStep ==
  ASSUME ConnInv, TypeOK', NEW c \in Conn, ReadFails(c)
  PROVE  ConnInv'
<1> USE PollerConstants
<1>c. /\ cur = c /\ at[c] \in {"new", "fetch", "reading"} /\ fdOf[c] \in Fd
      /\ sock[fdOf[c]] = None /\ conns[fdOf[c]] = c
      /\ closing = c \/ (closing = None /\ loop = "cleanup")
      /\ ~Dead
      /\ loop \in {"batch", "drain", "cleanup"}
  <2>1. cur = c /\ at[c] \in {"new", "fetch", "reading"} /\ sock[fdOf[c]] = None
    BY DEF ReadFails, Reading, ReadFinds
  <2>2. loop = "cleanup" => closing = None
    BY DEF ConnInv, Turns
  <2> QED BY <2>1, <2>2, RunningOwns DEF Alive
<1>e. /\ at' = [at EXCEPT ![c] = "ended"] /\ cur' = None
      /\ UNCHANGED <<pollerVars, kernel, sever, start, deferred>>
  BY DEF ReadFails, Go, SwitchBack
<1> USE DEF pollerVars, kernel, sever, history, start
<1>n. at' \in [Conn -> Places] /\ at'[c] = "ended" /\ \A d \in Conn : d # c => at'[d] = at[d]
  BY <1>e DEF ConnInv, TypeOK, Places
<1>2. Owners'
  BY <1>c, <1>e, <1>n DEF ConnInv, Owners, Kept, Alive, Over
<1>3. Tasks'
  BY <1>c, <1>e, <1>n DEF ConnInv, Tasks, Over, Queued, Kept, Alive, Doubled, Dead
<1>4. Turns'
  BY <1>c, <1>e, <1>n DEF ConnInv, Turns, Over, Registered, Kept, Alive, Dead
<1>5. Waiters'
  <2>1. \A x \in Fd : onRead[x] \in (Conn \ {c}) \cup {None} /\ onWrite[x] \in (Conn \ {c}) \cup {None}
    <3>1. \A x \in Fd : onRead[x] \in Conn \cup {None} /\ onWrite[x] \in Conn \cup {None}
      BY DEF ConnInv, TypeOK, PollerTypeOK
    <3>2. \A x \in Fd : onRead[x] # c /\ onWrite[x] # c
      BY <1>c DEF ConnInv, Waiters
    <3> QED BY <3>1, <3>2
  <2> QED BY <1>c, <1>e, <1>n, <2>1 DEF ConnInv, Waiters
<1> QED BY <1>2, <1>3, <1>4, <1>5 DEF ConnInv

LEMMA DecodeNothingStep ==
  ASSUME ConnInv, TypeOK', NEW c \in Conn, DecodeNothing(c)
  PROVE  ConnInv'
<1> USE PollerConstants
<1>c. /\ cur = c /\ at[c] = "decode" /\ fdOf[c] \in Fd
      /\ sock[fdOf[c]] = c /\ closing = None /\ loop \in {"batch", "drain"}
      /\ conns[fdOf[c]] = c
  <2>1. cur = c /\ at[c] = "decode"
    BY DEF DecodeNothing
  <2> QED BY <2>1, RunningOwns DEF Alive
<1>e. /\ at' = [at EXCEPT ![c] = "fetch"]
      /\ UNCHANGED <<pollerVars, kernel, sever, start, deferred, cur>>
  BY DEF DecodeNothing, Go
<1> USE DEF start, kernel, sever, history, pollerVars
<1>n. at' \in [Conn -> Places] /\ at'[c] = "fetch" /\ \A d \in Conn : d # c => at'[d] = at[d]
  BY <1>e DEF ConnInv, TypeOK, Places
<1>2. Owners'
  BY <1>c, <1>e, <1>n DEF ConnInv, Owners, Kept, Alive, Over
<1>3. Tasks'
  BY <1>c, <1>e, <1>n DEF ConnInv, Tasks, Over, Queued, Alive, Doubled, Dead
<1>4. Turns'
  BY <1>c, <1>e, <1>n DEF ConnInv, Turns, Over, Alive, Registered, Dead
<1>5. Waiters'
  BY <1>c, <1>e, <1>n DEF ConnInv, Waiters
<1> QED BY <1>2, <1>3, <1>4, <1>5 DEF ConnInv

LEMMA RespondStep ==
  ASSUME ConnInv, TypeOK', NEW c \in Conn, Respond(c)
  PROVE  ConnInv'
<1> USE PollerConstants
<1>c. /\ cur = c /\ at[c] = "decode" /\ fdOf[c] \in Fd
      /\ sock[fdOf[c]] = c /\ closing = None /\ loop \in {"batch", "drain"}
      /\ conns[fdOf[c]] = c
  <2>1. cur = c /\ at[c] = "decode"
    BY DEF Respond
  <2> QED BY <2>1, RunningOwns DEF Alive
<1>e. /\ buffered' = [buffered EXCEPT ![c] = @ - 2] /\ buffered[c] >= 2
      /\ at' = [at EXCEPT ![c] = "flush"]
      /\ UNCHANGED <<pollerVars, kernel, conns, fdOf, start, cur>>
  BY DEF Respond, HasFrame, Go
<1>d. /\ deferred' \in Seq(TaskSet) /\ Distinct(deferred', Doubled')
      /\ \A u : Has(deferred', u) =>
            Has(deferred, u) \/ (u = Task("close", c) /\ c \in asked')
      /\ \A u : Has(deferred, u) => Has(deferred', u)
      /\ asked \subseteq asked' /\ closedTwice \subseteq closedTwice'
  <2>1. deferred \in Seq(TaskSet) /\ Distinct(deferred, Doubled) /\ Task("close", c) \in TaskSet
    BY TaskIs DEF ConnInv, TypeOK, Tasks, TaskSet
  <2>2. CASE UNCHANGED <<deferred, asked, closedTwice>>
    BY <2>1, <2>2 DEF Doubled
  <2>3. CASE /\ deferred' = Append(deferred, Task("close", c))
             /\ asked' = asked \cup {c} /\ MaybeAgain(c)
    <3>1. Doubled \subseteq Doubled' /\ closedTwice \subseteq closedTwice'
      BY <2>3 DEF MaybeAgain, Doubled
    <3>2. ~Has(deferred, Task("close", c)) \/ Task("close", c) \in Doubled'
      <4>1. Has(deferred, Task("close", c)) => c \in asked
        BY DEF ConnInv, Tasks, Queued
      <4>2. Has(deferred, Task("close", c)) => c \in closedTwice'
        BY <2>3, <4>1 DEF MaybeAgain
      <4> QED BY <4>2 DEF Task, Doubled
    <3>3. Distinct(deferred, Doubled')
      BY <2>1, <3>1 DEF Distinct
    <3> QED BY <2>1, <2>3, <3>1, <3>2, <3>3, AppendHas
  <2> QED BY <2>2, <2>3 DEF Respond
<1> USE DEF start, kernel, pollerVars
<1>n. at'[c] = "flush" /\ \A d \in Conn : d # c => at'[d] = at[d]
  BY <1>e DEF ConnInv, TypeOK
<1>2. Owners'
  BY <1>c, <1>e, <1>n DEF ConnInv, Owners, Kept, Alive, Over
<1>3. Tasks'
  BY <1>c, <1>d, <1>e, <1>n, TaskIs DEF ConnInv, Tasks, Over, Queued, Alive, Doubled, Dead
<1>4. Turns'
  BY <1>c, <1>e, <1>n DEF ConnInv, Turns, Over, Alive, Registered, Dead
<1>5. Waiters'
  BY <1>c, <1>e, <1>n DEF ConnInv, Waiters
<1> QED BY <1>2, <1>3, <1>4, <1>5 DEF ConnInv

LEMMA WriteWaitsStep ==
  ASSUME ConnInv, TypeOK', NEW c \in Conn, WriteWaits(c)
  PROVE  ConnInv'
<1> USE PollerConstants
<1> DEFINE fd == fdOf[c]
<1>c. /\ cur = c /\ at[c] \in {"flush", "writing"} /\ fd \in Fd
      /\ sock[fd] = c /\ closing = None /\ loop \in {"batch", "drain"}
      /\ onWrite[fd] = (IF at[c] = "writing" THEN c ELSE None)
      /\ conns[fd] = c
  <2>1. cur = c /\ at[c] \in {"flush", "writing"} /\ sock[fd] # None
    BY DEF WriteWaits
  <2> QED BY <2>1, RunningOwns DEF Alive
<1>e. /\ onWrite' = [onWrite EXCEPT ![fd] = c]
      /\ onRead' = onRead /\ loop' = loop /\ raised' = raised
  <2>1. CASE at[c] = "writing"
    <3>1. onWrite \in [Fd -> Conn \cup {None}]
      BY DEF ConnInv, TypeOK, PollerTypeOK
    <3>2. onWrite = [onWrite EXCEPT ![fd] = c]
      BY <1>c, <2>1, <3>1
    <3> QED BY <2>1, <3>2 DEF WriteWaits, pollerVars
  <2>2. CASE at[c] # "writing"
    BY <1>c, <2>2 DEF WriteWaits, RegisterWrite, Goes
  <2> QED BY <2>1, <2>2
<1>f. /\ at' = [at EXCEPT ![c] = "writing"] /\ cur' = None
      /\ UNCHANGED <<kernel, sever, batch, closing, stopped, deferred>>
  BY DEF WriteWaits, Go, SwitchBack
<1> HIDE DEF fd
<1> USE DEF kernel, sever, history
<1>n. at'[c] = "writing" /\ \A d \in Conn : d # c => at'[d] = at[d]
  BY <1>f DEF ConnInv, TypeOK
<1>m. onWrite'[fd] = c /\ \A x \in Fd : x # fd => onWrite'[x] = onWrite[x]
  BY <1>c, <1>e DEF ConnInv, TypeOK, PollerTypeOK
<1>2. Owners'
  BY <1>c, <1>e, <1>f, <1>n DEF ConnInv, Owners, Kept, Alive, Over
<1>3. Tasks'
  BY <1>c, <1>e, <1>f, <1>n DEF ConnInv, Tasks, Over, Queued, Alive, Doubled, Dead
<1>4. Turns'
  BY <1>c, <1>e, <1>f, <1>n DEF ConnInv, Turns, Over, Dead
<1>5. Waiters'
  <2>0. onWrite \in [Fd -> Conn \cup {None}] /\ onRead \in [Fd -> Conn \cup {None}]
    BY DEF ConnInv, TypeOK, PollerTypeOK
  <2>1. \A x \in Fd : onWrite'[x] # None =>
            at'[onWrite'[x]] = "writing" /\ fdOf[onWrite'[x]] = x /\ sock[x] = onWrite'[x]
    <3>1. \A x \in Fd \ {fd} : onWrite[x] # None =>
              at'[onWrite[x]] = "writing" /\ fdOf[onWrite[x]] = x /\ sock[x] = onWrite[x]
      BY <1>n, <2>0 DEF ConnInv, Waiters
    <3>2. at'[c] = "writing" /\ fdOf[c] = fd /\ sock[fd] = c
      BY <1>c, <1>n DEF fd
    <3> QED BY <1>m, <3>1, <3>2
  <2>2. \A x \in Fd : onRead[x] # None =>
            at'[onRead[x]] = "reading" /\ fdOf[onRead[x]] = x /\ sock[x] = onRead[x]
    <3>1. \A x \in Fd : onRead[x] # None => onRead[x] \in Conn
      BY <2>0
    <3>2. at[c] # "reading"
      BY <1>c
    <3> QED BY <1>n, <3>1, <3>2 DEF ConnInv, Waiters
  <2>3. \A d \in Conn :
          /\ at'[d] = "writing" /\ sock[fdOf[d]] = d => onWrite'[fdOf[d]] = d
          /\ at'[d] = "reading" /\ sock[fdOf[d]] = d => onRead[fdOf[d]] = d
          /\ at'[d] \in {"writing", "reading"} => sock[fdOf[d]] = d
    BY <1>c, <1>n, <1>m DEF ConnInv, Owners, Waiters, Kept, Alive, fd
  <2> QED BY <1>e, <1>f, <2>1, <2>2, <2>3 DEF Waiters
<1> QED BY <1>2, <1>3, <1>4, <1>5 DEF ConnInv

LEMMA WriteDoneStep ==
  ASSUME ConnInv, TypeOK', NEW c \in Conn, WriteDone(c)
  PROVE  ConnInv'
<1> USE PollerConstants
<1> DEFINE fd == fdOf[c]
<1>c. /\ cur = c /\ at[c] \in {"flush", "writing"} /\ fd \in Fd
      /\ sock[fd] = c /\ closing = None /\ loop \in {"batch", "drain"}
      /\ conns[fd] = c
  <2>1. cur = c /\ at[c] \in {"flush", "writing"} /\ sock[fd] # None
    BY DEF WriteDone
  <2> QED BY <2>1, RunningOwns DEF Alive
<1>e. /\ CancelRegister(fd)
      /\ answered' = [answered EXCEPT ![c] = @ + 1]
      /\ room' \in {room, [room EXCEPT ![c] = FALSE]}
      /\ at' = [at EXCEPT ![c] = "fetch"]
      /\ UNCHANGED <<sock, arrived, fin, sent, sever, start, deferred, cur>>
  BY <1>c, DoneWaitingCancels DEF WriteDone, Go, Alive
<1> HIDE DEF fd
<1> USE DEF start, sever, history
<1>n. at'[c] = "fetch" /\ \A d \in Conn : d # c => at'[d] = at[d]
  BY <1>e DEF ConnInv, TypeOK
<1>2. Owners'
  BY <1>c, <1>e, <1>n DEF ConnInv, Owners, Kept, Alive, Over
<1>3. Tasks'
  BY <1>c, <1>e, <1>n DEF ConnInv, Tasks, Over, Queued, Alive, Doubled, Dead
<1>4. Turns'
  BY <1>c, <1>e, <1>n DEF ConnInv, Turns, Over, Alive, Dead
<1>5. Waiters'
  BY <1>c, <1>e, <1>n, FreedWaiters DEF fd, Kept, Alive
<1> QED BY <1>2, <1>3, <1>4, <1>5 DEF ConnInv

LEMMA WriteFailsStep ==
  ASSUME ConnInv, TypeOK', NEW c \in Conn, WriteFails(c)
  PROVE  ConnInv'
<1> USE PollerConstants
<1>c. /\ cur = c /\ at[c] \in {"flush", "writing"} /\ fdOf[c] \in Fd
      /\ sock[fdOf[c]] = None /\ conns[fdOf[c]] = c
      /\ closing = c \/ (closing = None /\ loop = "cleanup")
      /\ ~Dead
      /\ loop \in {"batch", "drain", "cleanup"}
  <2>1. cur = c /\ at[c] \in {"flush", "writing"} /\ sock[fdOf[c]] = None
    BY DEF WriteFails
  <2>2. loop = "cleanup" => closing = None
    BY DEF ConnInv, Turns
  <2> QED BY <2>1, <2>2, RunningOwns DEF Alive
<1>e. /\ at' = [at EXCEPT ![c] = "fetch"] /\ cur' = cur
      /\ UNCHANGED <<pollerVars, kernel, sever, start, deferred>>
  BY DEF WriteFails, Go
<1> USE DEF pollerVars, kernel, sever, history, start
<1>n. at' \in [Conn -> Places] /\ at'[c] = "fetch" /\ \A d \in Conn : d # c => at'[d] = at[d]
  BY <1>e DEF ConnInv, TypeOK, Places
<1>2. Owners'
  BY <1>c, <1>e, <1>n DEF ConnInv, Owners, Kept, Alive, Over
<1>3. Tasks'
  BY <1>c, <1>e, <1>n DEF ConnInv, Tasks, Over, Queued, Kept, Alive, Doubled, Dead
<1>4. Turns'
  BY <1>c, <1>e, <1>n DEF ConnInv, Turns, Over, Registered, Kept, Alive, Dead
<1>5. Waiters'
  <2>1. \A x \in Fd : onRead[x] \in (Conn \ {c}) \cup {None} /\ onWrite[x] \in (Conn \ {c}) \cup {None}
    <3>1. \A x \in Fd : onRead[x] \in Conn \cup {None} /\ onWrite[x] \in Conn \cup {None}
      BY DEF ConnInv, TypeOK, PollerTypeOK
    <3>2. \A x \in Fd : onRead[x] # c /\ onWrite[x] # c
      BY <1>c DEF ConnInv, Waiters
    <3> QED BY <3>1, <3>2
  <2> QED BY <1>c, <1>e, <1>n, <2>1 DEF ConnInv, Waiters
<1> QED BY <1>2, <1>3, <1>4, <1>5 DEF ConnInv

-----------------------------------------------------------------------------
(* The invariant, and what follows from it. *)

LEMMA InitiallyInv ==
  ASSUME Init
  PROVE  IInv
<1> USE PollerConstants, ConnectionConstants
<1> USE DEF Init, PollerInit
<1>0. deferred = <<>> /\ \A t : ~Has(deferred, t)
  BY DEF Has
<1>1. TypeOK
  <2>1. <<>> \in Seq(TaskSet) /\ <<>> \in Seq(Pointer)
    BY EmptySeq
  <2>2. at \in [Conn -> Places]
    BY DEF Places
  <2>3. sent \in [Conn -> 0..(2 * MaxRequests)]
    <3>1. 0 \in 0..(2 * MaxRequests)
      OBVIOUS
    <3> QED BY <3>1
  <2>4. arrived \in [Conn -> Nat] /\ answered \in [Conn -> Nat] /\ buffered \in [Conn -> Nat]
    OBVIOUS
  <2>5. fin \in [Conn -> BOOLEAN] /\ room \in [Conn -> BOOLEAN] /\ stopped \in BOOLEAN
    OBVIOUS
  <2> QED BY <2>1, <2>2, <2>3, <2>4, <2>5 DEF TypeOK, PollerTypeOK, TaskSet
<1>2. Known
  BY <1>0 DEF Known, Live
<1>3. Owners
  BY DEF Owners, Kept, Alive
<1>4. Tasks
  BY <1>0 DEF Tasks, Queued, Distinct
<1>5. Turns
  BY DEF Turns, Over
<1>6. Waiters
  BY DEF Waiters
<1> QED BY <1>1, <1>2, <1>3, <1>4, <1>5, <1>6 DEF ConnInv, TypeInv, IInv

LEMMA TypeStep ==
  ASSUME TypeInv, [Next]_vars
  PROVE  TypeInv'
<1>1. CASE Loop
  <2>1. ASSUME NEW c \in Conn, Deferred(c) PROVE TypeInv'
    BY <2>1, EstablishType, StartCoroutineType, LocalCloseType, RemoteClosedType DEF Deferred
  <2>2. ASSUME NEW c \in Conn, Coroutine(c) PROVE TypeInv'
    BY <2>2, WaitsType, ReadGetsType, ReadEndsType, GoesOnType, RespondType, WriteDoneType
       DEF Coroutine
  <2> QED BY <1>1, <2>1, <2>2, EpollReturnsType, RunBatchType, LoopMovesType, CleanupType,
             LocalClosedType DEF Loop
<1>2. CASE Stop
  BY <1>2, LoopMovesType
<1>3. ASSUME NEW c \in Conn, Outside(c) PROVE TypeInv'
  BY <1>3, PeerType, HandOverType, AcceptType DEF Outside
<1>4. CASE UNCHANGED vars
  BY <1>4, IdleType
<1> QED BY <1>1, <1>2, <1>3, <1>4 DEF Next

LEMMA ConnStep ==
  ASSUME ConnInv, TypeOK', ~reused', Next
  PROVE  ConnInv'
<1>1. CASE Loop
  <2>1. ASSUME NEW c \in Conn, Deferred(c) PROVE ConnInv'
    BY <2>1, EstablishStep, StartCoroutineStep, LocalCloseStep, RemoteClosedStep DEF Deferred
  <2>2. ASSUME NEW c \in Conn, Coroutine(c) PROVE ConnInv'
    BY <2>2, ReadWaitsStep, ReadGetsStep, ReadEndsStep, ReadFailsStep, DecodeNothingStep,
       RespondStep, WriteWaitsStep, WriteDoneStep, WriteFailsStep DEF Coroutine
  <2> QED BY <1>1, <2>1, <2>2, EpollReturnsStep, RunBatchStep, BatchDoneStep, DrainDoneStep,
             StopSeenStep, CleanupStep, ExitStep, LocalClosedStep, RunsOffStep DEF Loop
<1>2. CASE Stop
  BY <1>2, StopStep
<1>3. ASSUME NEW c \in Conn, Outside(c) PROVE ConnInv'
  BY <1>3, PeerSendsStep, PeerEndsStep, PeerReadsStep, HandOverStep, AcceptStep DEF Outside
<1> QED BY <1>1, <1>2, <1>3 DEF Next

LEMMA IdleStep ==
  ASSUME ConnInv, TypeOK', UNCHANGED vars
  PROVE  ConnInv'
<1> USE DEF vars, pollerVars, kernel, sever, history, start
<1>1. Owners'
  BY DEF ConnInv, Owners, Over
<1>2. Tasks'
  BY DEF ConnInv, Tasks, Over, Queued, Doubled, Dead
<1>3. Turns'
  BY DEF ConnInv, Turns, Over, Registered, Dead
<1>4. Waiters'
  BY DEF ConnInv, Waiters
<1> QED BY <1>1, <1>2, <1>3, <1>4 DEF ConnInv

(* A number that was given away again while its Close task ran stays so. *)
LEMMA ReusedStays ==
  ASSUME reused, [Next]_vars
  PROVE  reused'
<1> USE DEF sever, history
<1>1. CASE Loop
  <2>1. ASSUME NEW c \in Conn, Deferred(c) PROVE reused'
    BY <2>1 DEF Deferred, Establish, StartCoroutine, LocalClose, RemoteClosed
  <2>2. ASSUME NEW c \in Conn, Coroutine(c) PROVE reused'
    BY <2>2 DEF Coroutine, ReadWaits, ReadGets, ReadEnds, ReadFails, DecodeNothing, Respond,
       WriteWaits, WriteDone, WriteFails
  <2> QED BY <1>1, <2>1, <2>2 DEF Loop, EpollReturns, RunBatch, BatchDone, DrainDone, StopSeen,
             Cleanup, Exit, LocalClosed, RunsOff
<1>2. CASE Stop
  BY <1>2 DEF Stop
<1>3. ASSUME NEW c \in Conn, Outside(c) PROVE reused'
  BY <1>3 DEF Outside, PeerSends, PeerEnds, PeerReads, HandOver, Accept
<1>4. CASE UNCHANGED vars
  BY <1>4 DEF vars
<1> QED BY <1>1, <1>2, <1>3, <1>4 DEF Next

LEMMA Invariance == Spec => []IInv
<1>1. Init => IInv
  BY InitiallyInv
<1>2. IInv /\ [Next]_vars => IInv'
  <2> SUFFICES ASSUME IInv, [Next]_vars PROVE IInv'
    OBVIOUS
  <2>1. TypeInv'
    BY TypeStep DEF IInv
  <2>2. reused => reused'
    BY ReusedStays
  <2>3. ConnInv /\ ~reused' => ConnInv'
    BY <2>1, ConnStep, IdleStep DEF TypeInv
  <2> QED BY <2>1, <2>2, <2>3 DEF IInv
<1> QED BY <1>1, <1>2, PTL DEF Spec

(* Every variable of a worker and of its connections keeps its type. *)
THEOREM ConnectionsTypeCorrect == Spec => []TypeOK
<1>1. IInv => TypeOK
  BY DEF IInv, TypeInv
<1> QED BY <1>1, Invariance, PTL

LEMMA WaitersFromInv ==
  ASSUME IInv
  PROVE  WaitersAgree
<1> USE PollerConstants
<1> SUFFICES ASSUME ConnInv PROVE WaitersAgree
  BY DEF IInv, WaitersAgree
<1>1. \A fd \in Fd :
          /\ onRead[fd] # None => at[onRead[fd]] = "reading" /\ fdOf[onRead[fd]] = fd
          /\ onWrite[fd] # None => at[onWrite[fd]] = "writing" /\ fdOf[onWrite[fd]] = fd
          /\ Registered(fd) => sock[fd] = GetCallBack(fd)
  BY DEF ConnInv, Waiters, Registered, GetCallBack
<1>2. \A c \in Conn \ {cur} :
          /\ at[c] = "reading" => onRead[fdOf[c]] = c
          /\ at[c] = "writing" => onWrite[fdOf[c]] = c
  BY DEF ConnInv, Waiters
<1> QED BY <1>1, <1>2 DEF WaitersAgree

(* Whoever is registered with the poller waits for just that, alone on its descriptor,
   and whoever waits is registered (Poller.cpp:39-91, Hook.cpp:148-171), until the number
   of a descriptor is given away again while the task of Close that closed it runs. *)
THEOREM WaitersAlwaysAgree == Spec => []WaitersAgree
<1>1. IInv => WaitersAgree
  BY WaitersFromInv
<1> QED BY <1>1, Invariance, PTL

(* With the same exception no coroutine is resumed before its start or after its end,
   whatever pointer, task or clean-up leads to it (Scheduler.cpp:145-156,
   TcpConnection.cpp:18-43), but by a task of Close of a connection that has a second task
   to close it: nothing but that task can do it. *)
THEOREM NoneIsResumedAfterEnd == Spec => []NoneResumedAfterEnd
<1>1. IInv => NoneResumedAfterEnd
  BY DEF IInv, ConnInv, Turns, Dead, Alive, NoneResumedAfterEnd
<1> QED BY <1>1, Invariance, PTL

(* With the same exception no exception ends the worker, whether or not a connection is
   closed from both sides: no descriptor is registered twice, every CleanConnection finds its
   connection and every close its descriptor (Poller.h:41-50, TcpSever.cpp:41-45,
   TcpConnection.cpp:32-35, 78-81).  And the process crashes only when a connection has had
   a second task to close it. *)
THEOREM NothingIsRaised == Spec => []NothingRaised
<1>1. IInv => NothingRaised
  BY DEF IInv, ConnInv, Turns, NothingRaised
<1> QED BY <1>1, Invariance, PTL

LEMMA OpenFromInv ==
  ASSUME IInv
  PROVE  OpenIffKept
<1> USE PollerConstants
<1> SUFFICES ASSUME ConnInv, loop = "wait", NEW fd \in Fd
             PROVE  /\ conns[fd] # None => sock[fd] = conns[fd]
                    /\ sock[fd] # None =>
                          conns[fd] = sock[fd] \/ at[sock[fd]] \in {"accepted", "handed"}
  BY DEF IInv, OpenIffKept
<1>0. closing = None /\ ~Over
  BY DEF ConnInv, Turns, Over
<1>1. CASE conns[fd] # None
  <2>1. conns[fd] \in Conn /\ fdOf[conns[fd]] = fd /\ at[conns[fd]] \in Kept
    <3>1. conns[fd] \in Conn
      BY <1>1 DEF ConnInv, TypeOK
    <3> QED BY <1>1, <3>1 DEF ConnInv, Owners
  <2>2. sock[fd] = conns[fd]
    BY <1>0, <2>1 DEF ConnInv, Owners
  <2> QED BY <2>2
<1>2. CASE conns[fd] = None
  <2>1. SUFFICES ASSUME sock[fd] # None
                 PROVE  at[sock[fd]] \in {"accepted", "handed"}
    BY <1>2
  <2>2. /\ sock[fd] \in Conn /\ fdOf[sock[fd]] = fd
        /\ at[sock[fd]] \in Places \ {"none", "gone"}
    <3>1. sock[fd] \in Conn /\ \A c \in Conn : at[c] \in Places
      BY <2>1 DEF ConnInv, TypeOK
    <3> QED BY <2>1, <3>1 DEF ConnInv, Owners
  <2>3. at[sock[fd]] \notin Kept
    BY <1>2, <2>2 DEF ConnInv, Owners
  <2> QED BY <2>2, <2>3 DEF Places, Kept, Alive
<1> QED BY <1>1, <1>2

(* With the same exception, whenever the worker is about to wait, a connection in
   m_connections_ has its descriptor, and an open descriptor has its connection there unless
   it is still being handed over (TcpSever.cpp:39-47, 81-85). *)
THEOREM OpenExactlyWhileKept == Spec => []OpenIffKept
<1>1. IInv => OpenIffKept
  BY OpenFromInv
<1> QED BY <1>1, Invariance, PTL

LEMMA StopFromInv ==
  ASSUME IInv
  PROVE  StopEndsWaiters
<1> USE PollerConstants
<1> SUFFICES ASSUME ConnInv, loop = "off", NEW c \in Conn, at[c] \in {"reading", "writing"}
             PROVE  FALSE
  BY DEF IInv, StopEndsWaiters
<1>1. cur # c /\ fdOf[c] \in Fd
  BY DEF ConnInv, Turns, Dead, Owners, Kept, Alive
<1>2. onRead[fdOf[c]] = c \/ onWrite[fdOf[c]] = c
  BY <1>1 DEF ConnInv, Waiters
<1>3. Registered(fdOf[c])
  BY <1>2 DEF Registered
<1> QED BY <1>1, <1>3 DEF ConnInv, Turns

(* With the same exception, when Start has returned no coroutine is left waiting
   (Scheduler.cpp:171-188). *)
THEOREM NobodyWaitsAfterStop == Spec => []StopEndsWaiters
<1>1. IInv => StopEndsWaiters
  BY StopFromInv
<1> QED BY <1>1, Invariance, PTL

=============================================================================
