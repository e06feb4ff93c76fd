-------------------------- MODULE TimerQueueProofs --------------------------
(***************************************************************************)
(* Proofs about TimerQueue for any number of timers, any intervals and any *)
(* lateness.                                                               *)
(***************************************************************************)
EXTENDS TimerQueue, NaturalsInduction, WellFoundedInduction, TLAPS

Times == -MaxLate..MaxInterval

(* A non-empty set of naturals has a least element. *)
LEMMA LeastNat ==
    ASSUME NEW S \in SUBSET Nat, S # {}
    PROVE  \E m \in S : \A x \in S : m <= x
<1> DEFINE R == OpToRel(<, Nat)
<1>1. IsWellFoundedOn(R, Nat)
  BY NatLessThanWellFounded, Zenon
<1>2. \A x, y \in Nat : x < y => <<x, y>> \in R
  BY Zenon DEF OpToRel
<1> HIDE DEF R
<1>3. PICK m \in S : \A x \in S : ~(<<x, m>> \in R)
  BY <1>1, WFMin
<1>4. \A x \in S : ~(x < m)
  BY <1>2, <1>3
<1> QED BY <1>4

(* GetEarliestTime returns the deadline of a timer that none precedes. *)
LEMMA EarliestIs ==
    ASSUME NEW S \in SUBSET Id, S # {}, NEW l \in [Id -> Times]
    PROVE  /\ Earliest(S, l) \in Times
           /\ \E m \in S : l[m] = Earliest(S, l)
           /\ \A i \in S : Earliest(S, l) <= l[i]
<1> DEFINE T == {l[i] : i \in S}
           N == {t + MaxLate : t \in T}
<1>1. MaxLate \in Nat /\ MaxInterval \in Nat
  BY TimerConstants DEF TimerConstants
<1>2. T \subseteq Times
  OBVIOUS
<1>3. N \in SUBSET Nat /\ N # {}
  BY <1>1, <1>2 DEF Times
<1>4. PICK n \in N : \A x \in N : n <= x
  BY <1>3, LeastNat
<1>5. \E t \in T : \A x \in T : t <= x
  <2>1. PICK t \in T : n = t + MaxLate
    OBVIOUS
  <2>2. ASSUME NEW x \in T PROVE t <= x
    <3>1. n <= x + MaxLate
      BY <1>4
    <3> QED BY <2>1, <3>1, <1>1, <1>2 DEF Times
  <2> QED BY <2>2
<1>6. Min(T) \in T /\ \A x \in T : Min(T) <= x
  <2> HIDE DEF T
  <2> QED BY <1>5 DEF Min
<1>7. Earliest(S, l) = Min(T)
  BY DEF Earliest
<1> QED BY <1>2, <1>6, <1>7

(* ... and is determined by that. *)
LEMMA EarliestOnly ==
    ASSUME NEW S \in SUBSET Id, NEW l \in [Id -> Times], NEW e \in Int,
           \E m \in S : l[m] = e, \A i \in S : e <= l[i]
    PROVE  Earliest(S, l) = e
<1>1. Earliest(S, l) \in Int
  BY EarliestIs, TimerConstants DEF Times, TimerConstants
<1>2. Earliest(S, l) <= e
  BY EarliestIs
<1>3. e <= Earliest(S, l)
  BY EarliestIs
<1> QED BY <1>1, <1>2, <1>3

LEMMA EarliestType ==
    ASSUME NEW S \in SUBSET Id, NEW l \in [Id -> Times]
    PROVE  Earliest(S, l) \in Int /\ Earliest(S, l) <= Never
<1>1. MaxLate \in Nat /\ MaxInterval \in Nat
  BY TimerConstants DEF TimerConstants
<1>2. CASE S = {}
  BY <1>1, <1>2 DEF Earliest, Never
<1>3. CASE S # {}
  <2>1. Earliest(S, l) \in Times
    BY <1>3, EarliestIs
  <2> QED BY <1>1, <2>1 DEF Times, Never
<1> QED BY <1>2, <1>3

LEMMA ResetType ==
    ASSUME TypeOK, NEW t \in Int, t <= Never, ResetTimerFd(t)
    PROVE  fd' \in 0..MaxInterval /\ readable' \in BOOLEAN
<1>1. MaxInterval \in Nat
  BY TimerConstants DEF TimerConstants
<1>2. fd \in 0..MaxInterval /\ readable \in BOOLEAN
  BY DEF TypeOK
<1>3. CASE t > 0
  <2>1. readable' = FALSE
    BY <1>3 DEF ResetTimerFd
  <2>2. fd' = IF t = Never THEN 0 ELSE t
    BY <1>3 DEF ResetTimerFd
  <2>3. fd' \in 0..MaxInterval
    BY <1>1, <1>3, <2>2 DEF Never
  <2> QED BY <2>1, <2>3
<1>4. CASE ~(t > 0)
  BY <1>2, <1>4 DEF ResetTimerFd
<1> QED BY <1>3, <1>4

(* The control part of the state: everything but the three numbers. *)
LEMMA TypeStep == TypeOK /\ BookInv /\ [Next]_vars => TypeOK'
<1> SUFFICES ASSUME TypeOK, BookInv, [Next]_vars PROVE TypeOK'
  OBVIOUS
<1>c. MaxTimers \in Nat /\ MaxInterval \in Nat \ {0} /\ MaxLate \in Nat
  BY TimerConstants DEF TimerConstants
<1>t. left \in [Id -> Times] /\ Expired \subseteq active /\ active \subseteq Id
  BY DEF TypeOK, Times, Expired
<1>1. CASE Tick
  <2>1. left' \in [Id -> -MaxLate..MaxInterval]
    <3>1. \A i \in Id : left'[i] = IF i \in active /\ left[i] > -MaxLate
                                  THEN left[i] - 1 ELSE left[i]
      BY <1>1 DEF Tick
    <3>2. left' = [i \in Id |-> left'[i]]
      BY <1>1 DEF Tick
    <3> QED BY <1>c, <1>t, <3>1, <3>2 DEF Times
  <2>2. fd' \in 0..MaxInterval
    BY <1>1, <1>c DEF Tick, TypeOK
  <2>3. readable' \in BOOLEAN
    BY <1>1 DEF Tick
  <2> QED BY <1>1, <2>1, <2>2, <2>3 DEF Tick, TypeOK, handleVars
<1>2. CASE EpollReturns
  BY <1>2 DEF EpollReturns, TypeOK, timerVars, handleVars
<1>3. CASE HandleExpireEvent
  BY <1>3, <1>t DEF HandleExpireEvent, TypeOK, BookInv, SetsAgree
<1>4. ASSUME NEW id \in Id, RunTimer(id) PROVE TypeOK'
  BY <1>4 DEF RunTimer, TypeOK, timerVars, fdVars
<1>5. CASE TimerReturns
  BY <1>5 DEF TimerReturns, TypeOK, fdVars
<1>6. CASE Settle
  <2> DEFINE kept == {i \in batch : Kept(i)}
             rest == (active \cup kept) \ cancel
             due  == [i \in Id |-> IF i \in kept THEN interval[i] ELSE left[i]]
  <2>1. due \in [Id -> Times]
    BY <1>c, <1>t DEF TypeOK, Times
  <2>2. rest \subseteq Id
    BY DEF TypeOK
  <2>3. fd' \in 0..MaxInterval /\ readable' \in BOOLEAN
    <3>1. CASE rest = {}
      BY <1>6, <3>1 DEF Settle, TypeOK
    <3>2. CASE rest # {}
      <4>1. ResetTimerFd(Earliest(rest, due))
        BY <1>6, <3>2 DEF Settle
      <4> HIDE DEF rest, due
      <4> QED BY <4>1, <2>1, <2>2, EarliestType, ResetType
    <3> QED BY <3>1, <3>2
  <2>4. left' = due /\ active' = rest /\ timers' \subseteq timers
    BY <1>6 DEF Settle
  <2>5. UNCHANGED <<made, interval, repeat, pending, todo, running, cancelled>>
    BY <1>6 DEF Settle
  <2>6. handling' = FALSE /\ batch' = {} /\ cancel' = {} /\ todo = {} /\ running = 0
    BY <1>6 DEF Settle
  <2>7. left' \in [Id -> -MaxLate..MaxInterval] /\ active' \subseteq Id
    BY <2>1, <2>2, <2>4 DEF Times
  <2> QED BY <2>3, <2>4, <2>5, <2>6, <2>7 DEF TypeOK
<1>7. ASSUME NEW n \in 1..MaxInterval, NEW r \in BOOLEAN, AddTimer(n, r) PROVE TypeOK'
  <2>1. made + 1 \in Id /\ made' = made + 1 /\ made' \in 0..MaxTimers
    BY <1>7, <1>c DEF AddTimer, TypeOK, Id
  <2>2. fd' \in 0..MaxInterval /\ readable' \in BOOLEAN
    <3>1. n \in Int /\ n <= Never
      BY <1>c DEF Never
    <3>2. UNCHANGED <<fd, readable>> \/ ResetTimerFd(n)
      BY <1>7 DEF AddTimer
    <3>3. CASE UNCHANGED <<fd, readable>>
      BY <3>3 DEF TypeOK
    <3> QED BY <3>1, <3>2, <3>3, ResetType
  <2>3. left' \in [Id -> -MaxLate..MaxInterval]
    BY <1>7, <1>c, <2>1 DEF AddTimer, TypeOK
  <2>4. interval' \in [Id -> 0..MaxInterval] /\ repeat' \in [Id -> BOOLEAN]
    BY <1>7, <1>c, <2>1 DEF AddTimer, TypeOK
  <2>5. timers' \subseteq Id \cup {Sentinel} /\ active' \subseteq Id
    BY <1>7, <2>1 DEF AddTimer, TypeOK
  <2>6. UNCHANGED <<pending, handleVars, cancelled>>
    BY <1>7 DEF AddTimer
  <2> QED BY <2>1, <2>2, <2>3, <2>4, <2>5, <2>6 DEF TypeOK, handleVars
<1>8. ASSUME NEW id \in Id, CancelTimer(id) PROVE TypeOK'
  <2>1. fd' \in 0..MaxInterval /\ readable' \in BOOLEAN
    <3> DEFINE after == Earliest(active \ {id}, left)
    <3>1. UNCHANGED <<fd, readable>> \/ ResetTimerFd(after)
      BY <1>8 DEF CancelTimer, CancelLater, CancelNow
    <3>2. after \in Int /\ after <= Never
      BY <1>t, EarliestType
    <3>3. CASE UNCHANGED <<fd, readable>>
      BY <3>3 DEF TypeOK
    <3> HIDE DEF after
    <3> QED BY <3>1, <3>2, <3>3, ResetType
  <2>2. /\ timers' \subseteq timers /\ active' \subseteq active
        /\ cancel' \subseteq cancel \cup {id} /\ cancelled' = cancelled \cup {id}
        /\ UNCHANGED <<made, left, interval, repeat, pending, handling, batch, todo,
                       running>>
    BY <1>8 DEF CancelTimer, CancelLater, CancelNow
  <2> QED BY <2>1, <2>2 DEF TypeOK
<1>9. CASE UNCHANGED vars
  BY <1>9 DEF vars, timerVars, fdVars, handleVars, TypeOK
<1> QED BY <1>1, <1>2, <1>3, <1>4, <1>5, <1>6, <1>7, <1>8, <1>9 DEF Next, Handling

(* The two sets of timers stay together, and what is cancelled goes. *)
LEMMA BookStep == TypeOK /\ BookInv /\ [Next]_vars => BookInv'
<1> SUFFICES ASSUME TypeOK, BookInv, [Next]_vars PROVE BookInv'
  OBVIOUS
<1> USE DEF BookInv, SetsAgree, Sentinel
<1>c. /\ made \in Nat /\ batch \subseteq timers /\ todo \subseteq batch
      /\ active \subseteq timers /\ timers \subseteq 0..made /\ cancelled \subseteq 1..made
      /\ 0 \notin active /\ 0 \notin batch /\ running \in batch \cup {0}
  BY TimerConstants DEF TypeOK, Id, TimerConstants
<1>1. CASE Tick
  BY <1>1 DEF Tick, handleVars
<1>2. CASE EpollReturns
  BY <1>2 DEF EpollReturns, timerVars, handleVars
<1>3. CASE HandleExpireEvent
  <2>1. Expired \subseteq active
    BY DEF Expired
  <2>2. batch = {} /\ running = 0 /\ cancel = {}
    BY <1>3, <1>c DEF HandleExpireEvent
  <2>3. SetsAgree'
    BY <1>3, <1>c, <2>1, <2>2 DEF HandleExpireEvent
  <2>4. timers' = timers \cup {0} /\ 0 \in 0..made /\ 0 \notin cancelled
    BY <1>3, <1>c DEF HandleExpireEvent
  <2>5. (timers \subseteq 0..made /\ cancelled \subseteq 1..made
         /\ cancelled \cap timers \subseteq cancel)'
    BY <1>3, <1>c, <2>4 DEF HandleExpireEvent
  <2>6. (~handling => batch = {} /\ cancel = {})'
    BY <1>3, <2>2 DEF HandleExpireEvent
  <2>7. (running \notin todo)'
    BY <1>3, <1>c, <2>1, <2>2 DEF HandleExpireEvent
  <2> QED BY <2>3, <2>5, <2>6, <2>7
<1>4. ASSUME NEW id \in Id, RunTimer(id) PROVE BookInv'
  BY <1>4, <1>c DEF RunTimer, timerVars, fdVars
<1>5. CASE TimerReturns
  BY <1>5, <1>c DEF TimerReturns, fdVars
<1>6. CASE Settle
  <2> DEFINE kept == {i \in batch : Kept(i)}
  <2>1. /\ running = 0 /\ todo = {} /\ running' = 0 /\ todo' = {}
        /\ timers' = (timers \ (batch \ kept)) \ cancel
        /\ active' = (active \cup kept) \ cancel
        /\ batch' = {} /\ cancel' = {} /\ UNCHANGED <<made, cancelled>>
    BY <1>6 DEF Settle
  <2>2. active = timers \ ({0} \cup batch) /\ kept \subseteq batch
    BY <2>1, <1>c
  <2> HIDE DEF kept
  <2>3. kept \subseteq timers /\ 0 \notin kept
    BY <1>c, <2>2
  <2>4. active' = timers' \ {0}
    <3>1. ASSUME NEW i PROVE i \in active' <=> i \in timers' \ {0}
      <4>1. i \in active <=> i \in timers /\ i # 0 /\ i \notin batch
        BY <2>2
      <4>2. i \in active' <=> (i \in active \/ i \in kept) /\ i \notin cancel
        BY <2>1
      <4>3. i \in timers' <=> i \in timers /\ (i \notin batch \/ i \in kept) /\ i \notin cancel
        BY <2>1
      <4>4. i \in kept => i \in timers /\ i # 0
        BY <2>3
      <4> QED BY <4>1, <4>2, <4>3, <4>4
    <3> QED BY <3>1
  <2>5. SetsAgree'
    BY <2>1, <2>4
  <2> QED BY <1>c, <2>1, <2>5
<1>7. ASSUME NEW n \in 1..MaxInterval, NEW r \in BOOLEAN, AddTimer(n, r) PROVE BookInv'
  <2>1. /\ made' = made + 1 /\ timers' = timers \cup {made + 1}
        /\ active' = active \cup {made + 1}
        /\ UNCHANGED <<handling, batch, todo, running, cancel, cancelled>>
    BY <1>7 DEF AddTimer, handleVars
  <2>2. made + 1 \notin timers /\ made + 1 \notin batch /\ made + 1 # 0
        /\ made + 1 \notin cancelled
    BY <1>c
  <2>3. timers' \subseteq 0..made' /\ cancelled' \subseteq 1..made'
    BY <1>c, <2>1
  <2>4. SetsAgree'
    BY <2>1, <2>2
  <2> QED BY <2>1, <2>2, <2>3, <2>4
<1>8. ASSUME NEW id \in Id, CancelTimer(id) PROVE BookInv'
  <2>1. id \in 1..made /\ cancelled' = cancelled \cup {id}
        /\ UNCHANGED <<made, handling, batch, todo, running>>
    BY <1>8, <1>c DEF CancelTimer, Id
  <2>2. CASE handling
    <3>1. cancel' = cancel \cup {id} /\ UNCHANGED <<timers, active>>
      BY <1>8, <2>2 DEF CancelTimer, CancelLater
    <3> QED BY <1>c, <2>1, <2>2, <3>1
  <2>3. CASE ~handling
    <3>1. timers' = timers \ {id} /\ active' = active \ {id} /\ UNCHANGED cancel
      BY <1>8, <2>3 DEF CancelTimer, CancelNow
    <3> QED BY <1>c, <2>1, <2>3, <3>1
  <2> QED BY <2>2, <2>3
<1>9. CASE UNCHANGED vars
  BY <1>9 DEF vars, timerVars, fdVars, handleVars
<1> QED BY <1>1, <1>2, <1>3, <1>4, <1>5, <1>6, <1>7, <1>8, <1>9 DEF Next, Handling

LEMMA BookInit == Init => TypeOK /\ BookInv
<1> SUFFICES ASSUME Init PROVE TypeOK /\ BookInv
  OBVIOUS
<1>c. MaxTimers \in Nat /\ MaxInterval \in Nat \ {0} /\ MaxLate \in Nat
  BY TimerConstants DEF TimerConstants
<1>1. TypeOK
  <2>1. left \in [Id -> -MaxLate..MaxInterval] /\ interval \in [Id -> 0..MaxInterval]
    BY <1>c DEF Init
  <2>2. made \in 0..MaxTimers /\ fd \in 0..MaxInterval
    BY <1>c DEF Init
  <2>3. repeat \in [Id -> BOOLEAN]
    BY DEF Init
  <2>4. /\ timers = {} /\ active = {} /\ readable = FALSE /\ pending = FALSE
        /\ handling = FALSE /\ batch = {} /\ todo = {} /\ running = 0
        /\ cancel = {} /\ cancelled = {}
    BY DEF Init
  <2> QED BY <2>1, <2>2, <2>3, <2>4 DEF TypeOK
<1>2. BookInv
  BY DEF Init, BookInv, SetsAgree
<1> QED BY <1>1, <1>2

(* Every variable keeps its type; in particular no deadline and no setting of the
   timerfd leaves the range of the intervals. *)
THEOREM TypeCorrect == Spec => []TypeOK
<1>1. TypeOK /\ BookInv /\ [Next]_vars => (TypeOK /\ BookInv)'
  BY TypeStep, BookStep
<1> QED BY BookInit, <1>1, PTL DEF Spec

(* No pointer in m_active_timers_ or active_temp dangles, and no timer is dropped
   from the set while it is in the map (Timer.cpp:17-95), whatever is added and
   cancelled from inside the tasks of timers, and however late the loop is. *)
THEOREM SetsStayTogether == Spec => []SetsAgree
<1>1. TypeOK /\ BookInv /\ [Next]_vars => (TypeOK /\ BookInv)'
  BY TypeStep, BookStep
<1>2. BookInv => SetsAgree
  BY DEF BookInv
<1> QED BY BookInit, <1>1, <1>2, PTL DEF Spec

(* A cancelled timer is gone once no HandleExpireEvent is running (Timer.cpp:17-35,
   62-83): a cancellation that was put off is not forgotten. *)
THEOREM CancelTakesEffect == Spec => []CancelledIsGone
<1>1. TypeOK /\ BookInv /\ [Next]_vars => (TypeOK /\ BookInv)'
  BY TypeStep, BookStep
<1>2. BookInv => CancelledIsGone
  BY DEF BookInv, CancelledIsGone
<1> QED BY BookInit, <1>1, <1>2, PTL DEF Spec

-----------------------------------------------------------------------------
(* The timerfd.                                                              *)

LEMMA MinOfTwo ==
    ASSUME NEW a \in Int, NEW b \in Int
    PROVE  Min({a, b}) < b <=> a < b
<1>1. Min({a, b}) \in {a, b} /\ Min({a, b}) <= a /\ Min({a, b}) <= b
  <2>1. \E x \in {a, b} : \A y \in {a, b} : x <= y
    <3>1. CASE a <= b
      BY <3>1
    <3>2. CASE ~(a <= b)
      BY <3>2
    <3> QED BY <3>1, <3>2
  <2> QED BY <2>1 DEF Min
<1> QED BY <1>1

(* The clock: the timerfd runs down together with the deadlines. *)
LEMMA ArmedTick ==
    ASSUME SlowCallbacks = FALSE, TypeOK, BookInv, ArmedInv, Tick
    PROVE  ArmedInv'
<1>c. MaxInterval \in Nat /\ MaxLate \in Nat
  BY TimerConstants DEF TimerConstants
<1>t. /\ left \in [Id -> Times] /\ active \subseteq Id
      /\ fd \in Nat /\ readable \in BOOLEAN
  BY <1>c DEF TypeOK, Times
<1>1. /\ UNCHANGED <<timers, active, interval, handling, batch>>
      /\ fd' = (IF fd > 0 THEN fd - 1 ELSE 0)
  BY DEF Tick, handleVars
<1>r. readable' <=> (readable \/ fd = 1)
  BY DEF Tick
<1>2. \A i \in active : left'[i] = IF left[i] > -MaxLate THEN left[i] - 1 ELSE left[i]
  BY <1>t DEF Tick
<1>3. \A i \in active : left[i] \in Int /\ (left[i] <= 0 => left'[i] <= 0)
                       /\ (left[i] > 0 => left'[i] = left[i] - 1)
  BY <1>c, <1>t, <1>2 DEF Times
<1>4. (\A i \in timers \ {Sentinel} : interval[i] > 0)'
  BY <1>1 DEF ArmedInv
<1>5. (readable => fd = 0)'
  BY <1>t, <1>1, <1>r DEF ArmedInv
<1>6. CASE handling
  <2>1. ~readable /\ fd = 0 /\ \A i \in active : (i \in batch) <=> (left[i] <= 0)
    BY <1>6 DEF ArmedInv
  <2>2. \A i \in active \ batch : left[i] > 1
    BY <1>6 DEF Tick
  <2>3. \A i \in active : (i \in batch) <=> (left'[i] <= 0)
    BY <1>3, <2>1, <2>2
  <2>4. ~readable' /\ fd' = 0
    BY <1>1, <1>r, <2>1
  <2> QED BY <1>1, <1>4, <1>5, <1>6, <2>3, <2>4 DEF ArmedInv
<1>7. CASE ~handling /\ readable
  <2>1. Expired' # {}
    BY <1>1, <1>3, <1>7 DEF ArmedInv, Expired
  <2>2. readable'
    BY <1>r, <1>7
  <2> QED BY <2>2, <1>1, <1>4, <1>5, <1>7, <2>1 DEF ArmedInv
<1>8. CASE ~handling /\ ~readable /\ active = {}
  <2>1. fd = 0
    BY <1>8 DEF ArmedInv
  <2>2. fd' = 0 /\ ~readable'
    BY <1>1, <1>r, <1>8, <2>1
  <2> QED BY <1>1, <1>4, <1>5, <1>8, <2>2 DEF ArmedInv
<1>9. CASE ~handling /\ ~readable /\ active # {}
  <2>1. fd = Earliest(active, left) /\ fd > 0
    BY <1>9 DEF ArmedInv
  <2>2. PICK m \in active : left[m] = fd
    BY <1>9, <1>t, <2>1, EarliestIs
  <2>3. \A i \in active : fd <= left[i]
    BY <1>9, <1>t, <2>1, EarliestIs
  <2>4. fd' = fd - 1 /\ left'[m] = fd' /\ \A i \in active : fd' <= left'[i]
    BY <1>1, <1>3, <1>t, <2>1, <2>2, <2>3
  <2>5. CASE fd = 1
    <3>1. m \in Expired' /\ readable'
      BY <1>1, <1>r, <2>4, <2>5 DEF Expired
    <3> QED BY <1>1, <1>4, <1>5, <1>9, <3>1 DEF ArmedInv
  <2>6. CASE fd # 1
    <3>1. ~readable' /\ fd' > 0 /\ fd' \in Int
      BY <1>1, <1>r, <1>9, <1>t, <2>1, <2>4, <2>6
    <3>2. left' \in [Id -> Times]
      BY TypeStep DEF Next, TypeOK, Times
    <3>3. Earliest(active, left') = fd'
      BY <1>t, <2>4, <3>1, <3>2, EarliestOnly
    <3> QED BY <1>1, <1>4, <1>5, <1>9, <3>1, <3>3 DEF ArmedInv
  <2> QED BY <2>5, <2>6
<1> QED BY <1>6, <1>7, <1>8, <1>9

(* HandleExpireEvent starts: with nothing expired the timerfd stays as it was. *)
LEMMA ArmedHandle ==
    ASSUME TypeOK, BookInv, ArmedInv, HandleExpireEvent
    PROVE  ArmedInv'
<1>c. MaxInterval \in Nat /\ MaxLate \in Nat
  BY TimerConstants DEF TimerConstants
<1>t. left \in [Id -> Times] /\ active \subseteq Id /\ fd \in Nat
  BY <1>c DEF TypeOK, Times
<1>1. /\ ~handling /\ ~readable' /\ batch' = Expired
      /\ UNCHANGED <<active, left, interval, fd>> /\ timers' = timers \cup {Sentinel}
  BY DEF HandleExpireEvent
<1>h. handling' <=> Expired # {}
  BY DEF HandleExpireEvent
<1>2. (\A i \in timers \ {Sentinel} : interval[i] > 0)'
  BY <1>1 DEF ArmedInv
<1>3. Expired # {} <=> readable
  <2>1. ASSUME ~readable, Expired # {} PROVE FALSE
    <3>1. active # {}
      BY <2>1 DEF Expired
    <3>2. fd = Earliest(active, left) /\ fd > 0
      BY <1>1, <2>1, <3>1 DEF ArmedInv
    <3>3. \A i \in active : Earliest(active, left) <= left[i]
      BY <1>t, <3>1, EarliestIs
    <3>4. PICK i \in active : left[i] <= 0 /\ left[i] \in Int
      BY <1>c, <1>t, <2>1 DEF Expired, Times
    <3>5. fd <= left[i]
      BY <3>2, <3>3
    <3> QED BY <1>t, <3>2, <3>4, <3>5
  <2>2. readable => Expired # {}
    BY <1>1 DEF ArmedInv
  <2> QED BY <2>1, <2>2
<1>4. CASE readable
  <2>1. fd' = 0 /\ handling'
    BY <1>1, <1>h, <1>3, <1>4 DEF ArmedInv
  <2>2. \A i \in active' : (i \in batch') <=> (left'[i] <= 0)
    BY <1>1 DEF Expired
  <2> QED BY <1>1, <1>2, <2>1, <2>2 DEF ArmedInv
<1>5. CASE ~readable
  <2>1. ~handling'
    BY <1>h, <1>3, <1>5
  <2>2. IF active = {} THEN fd = 0 ELSE fd = Earliest(active, left) /\ fd > 0
    BY <1>1, <1>5 DEF ArmedInv
  <2>3. (IF active = {} THEN fd = 0 ELSE fd = Earliest(active, left) /\ fd > 0)'
    BY <1>1, <2>2
  <2> QED BY <1>1, <1>2, <2>1, <2>3 DEF ArmedInv
<1> QED BY <1>4, <1>5

(* The end of HandleExpireEvent: whatever is left is in the future. *)
LEMMA ArmedSettle ==
    ASSUME TypeOK, BookInv, ArmedInv, Settle
    PROVE  ArmedInv'
<1> DEFINE kept == {i \in batch : Kept(i)}
           rest == (active \cup kept) \ cancel
           due  == [i \in Id |-> IF i \in kept THEN interval[i] ELSE left[i]]
<1>c. MaxInterval \in Nat /\ MaxLate \in Nat
  BY TimerConstants DEF TimerConstants
<1>t. /\ left \in [Id -> Times] /\ interval \in [Id -> 0..MaxInterval]
      /\ active \subseteq Id /\ batch \subseteq Id
  BY DEF TypeOK, Times
<1>1. /\ handling /\ running = 0 /\ todo = {} /\ ~handling'
      /\ timers' = (timers \ (batch \ kept)) \ cancel
      /\ active' = rest /\ left' = due /\ UNCHANGED interval
  BY DEF Settle
<1>2. ~readable /\ fd = 0 /\ (\A i \in timers \ {Sentinel} : interval[i] > 0)
  BY <1>1 DEF ArmedInv
<1>3. rest \subseteq Id /\ due \in [Id -> Times]
  BY <1>c, <1>t DEF Times
<1>4. \A i \in rest : due[i] > 0
  <2>1. \A i \in kept : i \in timers /\ i # Sentinel
    BY <1>t, <1>c, TimerConstants DEF BookInv, SetsAgree, Id, Sentinel
  <2>2. \A i \in active : i \notin batch
    <3>1. active = timers \ ({Sentinel} \cup (batch \ (todo \cup {running})))
      BY DEF BookInv, SetsAgree
    <3>2. 0 \notin batch
      BY <1>t, <1>c, TimerConstants DEF Id, TimerConstants
    <3> QED BY <1>1, <3>1, <3>2
  <2>3. \A i \in active : left[i] > 0
    <3>1. \A i \in active : ~(left[i] <= 0)
      BY <1>1, <2>2 DEF ArmedInv
    <3>2. \A i \in active : left[i] \in Int
      BY <1>c, <1>t DEF Times
    <3> QED BY <3>1, <3>2
  <2> QED BY <1>2, <1>t, <2>1, <2>3
<1>5. (\A i \in timers \ {Sentinel} : interval[i] > 0)'
  BY <1>1, <1>2
<1>6. CASE rest = {}
  <2>1. fd' = 0 /\ ~readable'
    BY <1>2, <1>6 DEF Settle
  <2> QED BY <1>1, <1>5, <1>6, <2>1 DEF ArmedInv
<1>7. CASE rest # {}
  <2>1. ResetTimerFd(Earliest(rest, due))
    BY <1>7 DEF Settle
  <2> HIDE DEF rest, due
  <2>2. Earliest(rest, due) \in Times /\ Earliest(rest, due) > 0
    BY <1>3, <1>4, <1>7, EarliestIs
  <2>3. Earliest(rest, due) # Never
    BY <1>c, <2>2 DEF Times, Never
  <2>4. fd' = Earliest(rest, due) /\ readable' = FALSE
    BY <2>1, <2>2, <2>3 DEF ResetTimerFd
  <2>5. fd' > 0 /\ ~readable'
    BY <2>2, <2>4
  <2> QED BY <1>1, <1>5, <1>7, <2>4, <2>5 DEF ArmedInv
<1> QED BY <1>6, <1>7

(* CancelTimer: the timerfd follows the header, and when the new header is already
   due, what has fired stays readable. *)
LEMMA ArmedCancel ==
    ASSUME TypeOK, BookInv, ArmedInv, NEW id \in Id, CancelTimer(id)
    PROVE  ArmedInv'
<1> DEFINE rest  == active \ {id}
           after == Earliest(rest, left)
           now   == Earliest(active, left)
<1>c. MaxInterval \in Nat /\ MaxLate \in Nat
  BY TimerConstants DEF TimerConstants
<1>t. left \in [Id -> Times] /\ active \subseteq Id /\ rest \subseteq Id /\ fd \in Nat
  BY <1>c DEF TypeOK, Times
<1>1. UNCHANGED <<left, interval, handling, batch>> /\ timers' \subseteq timers
  BY DEF CancelTimer, CancelLater, CancelNow
<1>2. (\A i \in timers \ {Sentinel} : interval[i] > 0)'
  BY <1>1 DEF ArmedInv
<1>3. CASE handling
  <2>1. UNCHANGED <<active, fd, readable>>
    BY <1>3 DEF CancelTimer, CancelLater
  <2> QED BY <1>1, <1>2, <1>3, <2>1 DEF ArmedInv
<1>4. CASE ~handling
  <2>1. active' = rest /\ IF now < after THEN ResetTimerFd(after)
                                         ELSE UNCHANGED <<fd, readable>>
    BY <1>4 DEF CancelTimer, CancelNow
  <2>2. now \in Int /\ after \in Int /\ after <= Never
    BY <1>t, EarliestType
  <2>3. after = Never <=> rest = {}
    <3>1. rest # {} => after \in Times
      BY <1>t, EarliestIs
    <3>2. rest = {} => after = Never
      BY DEF Earliest
    <3> HIDE DEF rest, after
    <3> QED BY <1>c, <3>1, <3>2 DEF Times, Never
  <2>4. now <= after
    <3>1. CASE rest = {}
      BY <1>t, <2>3, <3>1, EarliestType
    <3>2. CASE rest # {}
      <4>1. PICK m \in rest : left[m] = after
        BY <1>t, <3>2, EarliestIs
      <4>2. now <= left[m]
        BY <1>t, EarliestIs
      <4> QED BY <4>1, <4>2
    <3> QED BY <3>1, <3>2
  <2>5. CASE now < after /\ after > 0
    <3>1. fd' = (IF after = Never THEN 0 ELSE after) /\ readable' = FALSE
      BY <2>1, <2>5 DEF ResetTimerFd
    <3>2. ~readable' /\ ~handling'
      BY <1>1, <1>4, <3>1
    <3>3. CASE rest = {}
      <4>1. fd' = 0
        BY <2>3, <3>1, <3>3
      <4> QED BY <1>2, <2>1, <3>2, <3>3, <4>1 DEF ArmedInv
    <3>4. CASE rest # {}
      <4>1. fd' = after /\ fd' > 0
        BY <2>3, <2>5, <3>1, <3>4
      <4>2. fd' = Earliest(active', left')
        BY <1>1, <2>1, <4>1
      <4> QED BY <1>2, <2>1, <3>2, <3>4, <4>1, <4>2 DEF ArmedInv
    <3> QED BY <3>3, <3>4
  <2>6. CASE ~(now < after /\ after > 0)
    <3>1. UNCHANGED <<fd, readable>>
      BY <2>1, <2>6 DEF ResetTimerFd
    <3>2. CASE readable
      <4>1. after <= 0
        <5>1. PICK i \in active : left[i] <= 0 /\ left[i] \in Int
          BY <1>4, <1>c, <1>t, <3>2 DEF ArmedInv, Expired, Times
        <5>2. now <= left[i]
          BY <1>t, EarliestIs
        <5> HIDE DEF now, after
        <5> QED BY <2>2, <2>4, <2>6, <5>1, <5>2
      <4>2. rest # {}
        <5> HIDE DEF rest, after
        <5> QED BY <1>c, <2>3, <4>1 DEF Never
      <4>3. PICK m \in rest : left[m] = after
        BY <1>t, <4>2, EarliestIs
      <4>4. Expired' # {}
        BY <1>1, <2>1, <4>1, <4>3 DEF Expired
      <4>5. fd = 0
        BY <3>2 DEF ArmedInv
      <4> QED BY <1>1, <1>2, <1>4, <3>1, <3>2, <4>4, <4>5 DEF ArmedInv
    <3>3. CASE ~readable /\ active = {}
      <4>1. active' = {} /\ fd = 0
        BY <1>4, <2>1, <3>3 DEF ArmedInv
      <4> QED BY <1>1, <1>2, <1>4, <3>1, <3>3, <4>1 DEF ArmedInv
    <3>4. CASE ~readable /\ active # {}
      <4>1. fd = now /\ fd > 0
        BY <1>4, <3>4 DEF ArmedInv
      <4>2. after = now
        <5> HIDE DEF now, after
        <5> QED BY <1>t, <2>2, <2>4, <2>6, <4>1
      <4>3. now # Never
        <5>1. now \in Times
          BY <1>t, <3>4, EarliestIs
        <5> HIDE DEF now
        <5> QED BY <1>c, <5>1 DEF Times, Never
      <4>4. rest # {}
        BY <2>3, <4>2, <4>3
      <4>5. fd' = Earliest(active', left') /\ fd' > 0 /\ active' # {}
        BY <1>1, <2>1, <3>1, <4>1, <4>2, <4>4
      <4> QED BY <1>1, <1>2, <1>4, <3>1, <3>4, <4>5 DEF ArmedInv
    <3> QED BY <3>2, <3>3, <3>4
  <2> QED BY <2>5, <2>6
<1> QED BY <1>3, <1>4

(* AddTimer: a timer that is added from the task of another one never moves the
   header, for the one that is run is still in the set and is due. *)
LEMMA ArmedAdd ==
    ASSUME TypeOK, BookInv, ArmedInv,
           NEW n \in 1..MaxInterval, NEW r \in BOOLEAN, AddTimer(n, r)
    PROVE  ArmedInv'
<1> DEFINE id  == made + 1
           now == Earliest(active, left)
<1>c. MaxInterval \in Nat /\ MaxLate \in Nat /\ MaxTimers \in Nat
  BY TimerConstants DEF TimerConstants
<1>t. /\ left \in [Id -> Times] /\ interval \in [Id -> 0..MaxInterval]
      /\ active \subseteq Id /\ batch \subseteq Id /\ fd \in Nat
      /\ made \in 0..MaxTimers
  BY <1>c DEF TypeOK, Times
<1>i. id \in Id /\ n \in Times /\ n > 0 /\ n # Never /\ n < Never
  BY <1>c, <1>t DEF AddTimer, Id, Times, Never
<1>1. /\ InLoopCode
      /\ timers' = timers \cup {id} /\ active' = active \cup {id}
      /\ left' = [left EXCEPT ![id] = n] /\ interval' = [interval EXCEPT ![id] = n]
      /\ UNCHANGED <<handling, batch>>
  BY DEF AddTimer, handleVars
<1>n. id \notin timers /\ id \notin active /\ id \notin batch
  <2>1. timers \subseteq 0..made /\ active \subseteq timers /\ batch \subseteq timers
    BY DEF BookInv, SetsAgree
  <2> QED BY <1>t, <2>1
<1>w. now \in Int /\ now <= Never /\ (active = {} => now = Never)
  BY <1>t, EarliestType DEF Earliest
<1>h. IF n < now THEN fd' = n /\ ~readable' ELSE UNCHANGED <<fd, readable>>
  <2>1. IF HeaderMoved(now, Min({n, now})) THEN ResetTimerFd(n)
                                           ELSE UNCHANGED <<fd, readable>>
    BY DEF AddTimer
  <2>2. HeaderMoved(now, Min({n, now})) <=> n < now
    <3> HIDE DEF now
    <3> QED BY <1>w, MinOfTwo DEF HeaderMoved
  <2>3. ResetTimerFd(n) => fd' = n /\ ~readable'
    BY <1>i DEF ResetTimerFd
  <2> QED BY <2>1, <2>2, <2>3
<1>l. left'[id] = n /\ \A i \in active : left'[i] = left[i]
  BY <1>1, <1>t, <1>i, <1>n
<1>2. (\A i \in timers \ {Sentinel} : interval[i] > 0)'
  <2>1. \A i \in timers \ {Sentinel} : interval[i] > 0 /\ i \in Id
    BY DEF ArmedInv, TypeOK
  <2>2. \A i \in Id : interval'[i] = IF i = id THEN n ELSE interval[i]
    BY <1>1, <1>t, <1>i
  <2> HIDE DEF id
  <2> QED BY <1>1, <1>i, <2>1, <2>2
<1>d. ASSUME NEW i \in active, left[i] <= 0 PROVE UNCHANGED <<fd, readable>>
  <2>1. now <= left[i] /\ left[i] \in Int
    BY <1>c, <1>t, EarliestIs DEF Times
  <2>2. ~(n < now)
    <3> HIDE DEF now
    <3> QED BY <1>d, <1>i, <1>w, <2>1
  <2> QED BY <1>h, <2>2
<1>3. CASE handling
  <2>1. ~readable /\ fd = 0 /\ \A i \in active : (i \in batch) <=> (left[i] <= 0)
    BY <1>3 DEF ArmedInv
  <2>2. running \in active /\ running \in batch
    <3>1. running # 0 /\ running \in batch
      BY <1>1, <1>3 DEF InLoopCode, TypeOK
    <3> QED BY <3>1 DEF BookInv, SetsAgree, Sentinel
  <2>3. UNCHANGED <<fd, readable>>
    BY <1>d, <2>1, <2>2
  <2>4. \A i \in active' : (i \in batch') <=> (left'[i] <= 0)
    <3>1. \A i \in active : (i \in batch') <=> (left'[i] <= 0)
      BY <1>1, <1>l, <2>1
    <3>2. ~(id \in batch') /\ ~(left'[id] <= 0)
      BY <1>1, <1>l, <1>n, <1>i
    <3> HIDE DEF id
    <3> QED BY <1>1, <3>1, <3>2
  <2> QED BY <1>1, <1>2, <1>3, <2>1, <2>3, <2>4 DEF ArmedInv
<1>4. CASE ~handling /\ readable
  <2>1. PICK i \in active : left[i] <= 0
    BY <1>4 DEF ArmedInv, Expired
  <2>2. UNCHANGED <<fd, readable>> /\ fd = 0
    BY <1>d, <1>4, <2>1 DEF ArmedInv
  <2>3. i \in Expired'
    BY <1>1, <1>l, <2>1 DEF Expired
  <2> QED BY <1>1, <1>2, <1>4, <2>2, <2>3 DEF ArmedInv
<1>5. CASE ~handling /\ ~readable
  <2>1. left' \in [Id -> Times] /\ active' \subseteq Id
    BY <1>1, <1>i, <1>t
  <2>2. CASE n < now
    <3>1. \A i \in active : now <= left[i] /\ left[i] \in Int
      BY <1>c, <1>t, EarliestIs DEF Times
    <3>2. \A i \in active' : n <= left'[i]
      <4>1. \A i \in active : n <= left'[i]
        <5> HIDE DEF now
        <5> QED BY <1>i, <1>l, <1>w, <2>2, <3>1
      <4>2. n <= left'[id]
        BY <1>l
      <4> HIDE DEF id
      <4> QED BY <1>1, <4>1, <4>2
    <3>3. Earliest(active', left') = n
      <4>1. id \in active' /\ left'[id] = n /\ n \in Int
        BY <1>1, <1>l
      <4> HIDE DEF id
      <4> QED BY <2>1, <3>2, <4>1, EarliestOnly
    <3>4. fd' = n /\ ~readable' /\ fd' > 0 /\ active' # {}
      BY <1>h, <1>i, <1>1, <2>2
    <3> QED BY <1>1, <1>2, <1>5, <3>3, <3>4 DEF ArmedInv
  <2>3. CASE ~(n < now)
    <3>1. UNCHANGED <<fd, readable>>
      BY <1>h, <2>3
    <3>2. active # {}
      <4> HIDE DEF now
      <4> QED BY <1>i, <1>w, <2>3
    <3>3. fd = now /\ fd > 0
      BY <1>5, <3>2 DEF ArmedInv
    <3>4. PICK m \in active : left[m] = now
      BY <1>t, <3>2, EarliestIs
    <3>5. \A i \in active : now <= left[i]
      BY <1>t, EarliestIs
    <3>6. now <= n
      <4> HIDE DEF now
      <4> QED BY <1>w, <2>3
    <3>7. \A i \in active' : now <= left'[i]
      <4> HIDE DEF now, id
      <4> QED BY <1>1, <1>l, <3>5, <3>6
    <3>8. m \in active' /\ left'[m] = now
      BY <1>1, <1>l, <3>4
    <3>9. Earliest(active', left') = now
      <4> HIDE DEF now
      <4> QED BY <1>w, <2>1, <3>7, <3>8, EarliestOnly
    <3> QED BY <1>1, <1>2, <1>5, <3>1, <3>3, <3>8, <3>9 DEF ArmedInv
  <2> QED BY <2>2, <2>3
<1> QED BY <1>3, <1>4, <1>5

LEMMA ArmedStep ==
    ASSUME SlowCallbacks = FALSE, TypeOK, BookInv, ArmedInv, [Next]_vars
    PROVE  ArmedInv'
<1>1. CASE EpollReturns
  BY <1>1 DEF EpollReturns, ArmedInv, Expired, timerVars, handleVars
<1>2. ASSUME NEW id \in Id, RunTimer(id) PROVE ArmedInv'
  BY <1>2 DEF RunTimer, ArmedInv, Expired, timerVars, fdVars
<1>3. CASE TimerReturns
  <2>1. handling
    BY <1>3 DEF TimerReturns, TypeOK, BookInv
  <2>2. active' \subseteq active /\ UNCHANGED <<timers, left, interval, fdVars, handling, batch>>
    BY <1>3 DEF TimerReturns
  <2> QED BY <2>1, <2>2 DEF ArmedInv, fdVars
<1>4. CASE UNCHANGED vars
  BY <1>4 DEF vars, timerVars, fdVars, handleVars, ArmedInv, Expired
<1> QED BY <1>1, <1>2, <1>3, <1>4, ArmedTick, ArmedHandle, ArmedSettle, ArmedAdd,
           ArmedCancel DEF Next, Handling

(* When no timer comes due while others are being run, the timerfd is always set
   for the earliest timer or has fired because one is due (Timer.cpp:7-35, 44-95):
   the only thing that can leave a timer without a wakeup is a slow callback. *)
THEOREM ArmedInTime == SlowCallbacks = FALSE => (Spec => []ArmedForEarliest)
<1> SUFFICES ASSUME SlowCallbacks = FALSE PROVE Spec => []ArmedForEarliest
  OBVIOUS
<1>1. Init => ArmedInv
  BY DEF Init, ArmedInv
<1>2. TypeOK /\ BookInv /\ ArmedInv /\ [Next]_vars => (TypeOK /\ BookInv /\ ArmedInv)'
  BY TypeStep, BookStep, ArmedStep
<1>3. ArmedInv => ArmedForEarliest
  BY DEF ArmedInv, ArmedForEarliest
<1> QED BY BookInit, <1>1, <1>2, <1>3, PTL DEF Spec

=============================================================================
