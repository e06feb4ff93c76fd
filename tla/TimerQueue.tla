----------------------------- MODULE TimerQueue -----------------------------
(***************************************************************************)
(* TimerQueue (common/timer): the timers of one scheduler over one         *)
(* timerfd.  Everything runs in the loop's thread; what interleaves is the *)
(* clock, and the loop, which may look at a readable timerfd late and      *)
(* after other callbacks have added or cancelled timers.                   *)
(*                                                                         *)
(* A deadline is kept as the time left until it, so the clock needs no     *)
(* bound.  The unit of time is that of the intervals; two deadlines in the *)
(* same unit are still different instants, as the nanoseconds of           *)
(* TimeStamp make them, and so are a deadline and the moment it is looked  *)
(* at: the case of two equal ones, of which m_active_timers_ would drop    *)
(* the second, is left out.                                                *)
(*                                                                         *)
(* The build is one with assertions compiled out: those at Timer.cpp:34    *)
(* and 46 count the sentinel before line 48 has inserted it.               *)
(***************************************************************************)
EXTENDS Integers, FiniteSets, FiniteSetsExt

CONSTANTS MaxTimers,        \* bound: timers made
          MaxInterval,      \* bound on their intervals
          MaxLate,          \* bound: lateness is not told apart beyond this
          SlowCallbacks     \* a timer may come due while others are being run

ASSUME TimerConstants ==
    /\ MaxTimers \in Nat
    /\ MaxInterval \in Nat \ {0}
    /\ MaxLate \in Nat
    /\ SlowCallbacks \in BOOLEAN

Id       == 1..MaxTimers    \* Timer::id starts at 1
Sentinel == 0               \* the timer that HandleExpireEvent compares with

VARIABLES
    made,                   \* ids handed out so far
    timers,                 \* the ids in m_timers_
    active,                 \* m_active_timers_
    left,                   \* m_expire_, as the time left until it
    interval, repeat,       \* m_interval_, m_repeat_
    fd,                     \* the timerfd: time until it fires, 0 when disarmed
    readable,               \* it has fired and was not read
    pending,                \* epoll_wait has reported it to the loop
    handling,               \* m_handling_event_
    batch, todo, running,   \* active_temp, what of it is still to be run, and the
                            \* timer whose task is being run (0 for none)
    cancel,                 \* m_cancel_timer_
    cancelled               \* history: the ids CancelTimer was called with

timerVars  == <<made, timers, active, left, interval, repeat>>
fdVars     == <<fd, readable, pending>>
handleVars == <<handling, batch, todo, running, cancel>>
vars       == <<timerVars, fdVars, handleVars, cancelled>>

Init ==
    /\ made = 0 /\ timers = {} /\ active = {}
    /\ left = [i \in Id |-> 0] /\ interval = [i \in Id |-> 0]
    /\ repeat = [i \in Id |-> FALSE]
    /\ fd = 0 /\ readable = FALSE /\ pending = FALSE
    /\ handling = FALSE /\ batch = {} /\ todo = {} /\ running = 0
    /\ cancel = {}
    /\ cancelled = {}

-----------------------------------------------------------------------------
(* The clock and the timerfd.                                              *)

(* GetEarliestTime; no timer is as good as one in the far future. *)
Never == MaxInterval + 1
Earliest(S, l) == IF S = {} THEN Never ELSE Min({l[i] : i \in S})

(* Broken variant of ResetTimerFd, not part of Next: the time is added up. *)
ResetTimerFdAddsUp(t) ==
    IF t > 0
    THEN fd' = (IF t = Never THEN 0 ELSE fd + t) /\ readable' = FALSE
    ELSE UNCHANGED <<fd, readable>>

(* ResetTimerFd.  timerfd_settime forgets an expiration that was not read; it
   refuses a negative value, and then nothing changes. *)
ResetTimerFd(t) ==
    IF t > 0
    THEN fd' = (IF t = Never THEN 0 ELSE t) /\ readable' = FALSE
    ELSE UNCHANGED <<fd, readable>>

(* What is due waits to be handled.  Unless callbacks are slow, no other timer
   comes due between the start of HandleExpireEvent and its ResetTimerFd. *)
Tick ==
    /\ handling /\ ~SlowCallbacks => \A i \in active \ batch : left[i] > 1
    /\ left' = [i \in Id |-> IF i \in active /\ left[i] > -MaxLate
                             THEN left[i] - 1 ELSE left[i]]
    /\ fd' = IF fd > 0 THEN fd - 1 ELSE 0
    /\ readable' = (readable \/ fd = 1)
    /\ UNCHANGED <<made, timers, active, interval, repeat, pending, handleVars, cancelled>>

EpollReturns ==
    /\ ~handling /\ ~pending /\ readable
    /\ pending' = TRUE
    /\ UNCHANGED <<timerVars, fd, readable, handleVars, cancelled>>

-----------------------------------------------------------------------------
(* Broken variants of single operations, none of them part of Next: each stands  *)
(* in for the one it is named after to show that a property notices.             *)

HeaderMovedOnlyFromEmpty(before, after) == before = Never

CancelDuringHandling(id) ==
    /\ timers' = timers \ {id} /\ active' = active \ {id}
    /\ UNCHANGED <<fd, readable, cancel>>

CancelIgnored(id) == UNCHANGED <<timers, active, fd, readable, cancel>>

ExpiredStrictly == {i \in active : left[i] < 0}

-----------------------------------------------------------------------------
(* The operations.                                                         *)

(* The loop is in a callback or a deferred task, or in the task of a timer. *)
InLoopCode == ~handling \/ running # 0

HeaderMoved(before, after) == after < before

(* AddTimer; only an earlier header moves the timerfd. *)
AddTimer(n, r) ==
    LET id == made + 1
    IN  /\ InLoopCode /\ made < MaxTimers
        /\ made' = id
        /\ timers' = timers \cup {id} /\ active' = active \cup {id}
        /\ left' = [left EXCEPT ![id] = n]
        /\ interval' = [interval EXCEPT ![id] = n]
        /\ repeat' = [repeat EXCEPT ![id] = r]
        /\ IF HeaderMoved(Earliest(active, left), Min({n, Earliest(active, left)}))
           THEN ResetTimerFd(n) ELSE UNCHANGED <<fd, readable>>
        /\ UNCHANGED <<pending, handleVars, cancelled>>

(* CancelTimer: put off until HandleExpireEvent is through, or done at once. *)
CancelLater(id) ==
    /\ cancel' = cancel \cup {id}
    /\ UNCHANGED <<timers, active, fd, readable>>

CancelNow(id) ==
    LET after == Earliest(active \ {id}, left)
    IN  /\ timers' = timers \ {id} /\ active' = active \ {id}
        /\ IF Earliest(active, left) < after
           THEN ResetTimerFd(after) ELSE UNCHANGED <<fd, readable>>
        /\ UNCHANGED cancel

CancelTimer(id) ==
    /\ InLoopCode /\ id <= made
    /\ IF handling THEN CancelLater(id) ELSE CancelNow(id)
    /\ cancelled' = cancelled \cup {id}
    /\ UNCHANGED <<made, left, interval, repeat, pending, handling, batch, todo, running>>

(* HandleExpireEvent up to its first loop.  With nothing expired it only reads. *)
Expired == {i \in active : left[i] <= 0}

HandleExpireEvent ==
    /\ ~handling /\ pending
    /\ pending' = FALSE /\ readable' = FALSE
    /\ timers' = timers \cup {Sentinel}
    /\ batch' = Expired /\ todo' = Expired
    /\ handling' = (Expired # {})
    /\ UNCHANGED <<made, active, left, interval, repeat, fd, running, cancel, cancelled>>

(* The first loop, earliest timer first: its task is called, and then it leaves
   m_active_timers_. *)
RunTimer(id) ==
    /\ running = 0 /\ id \in todo
    /\ left[id] = Earliest(todo, left)
    /\ running' = id
    /\ todo' = todo \ {id}
    /\ UNCHANGED <<timerVars, fdVars, handling, batch, cancel, cancelled>>

TimerReturns ==
    /\ running # 0
    /\ running' = 0
    /\ active' = active \ {running}
    /\ UNCHANGED <<made, timers, left, interval, repeat, fdVars, handling, batch, todo,
                   cancel, cancelled>>

(* The rest: repeated timers start over, the others and the cancelled ones go,
   and the timerfd is set for the earliest that is left. *)
Kept(id) == repeat[id] /\ id \notin cancel

Settle ==
    LET kept == {i \in batch : Kept(i)}
        rest == (active \cup kept) \ cancel
        due  == [i \in Id |-> IF i \in kept THEN interval[i] ELSE left[i]]
    IN  /\ handling /\ running = 0 /\ todo = {}
        /\ timers' = (timers \ (batch \ kept)) \ cancel
        /\ active' = rest
        /\ left' = due
        /\ IF rest # {} THEN ResetTimerFd(Earliest(rest, due)) ELSE UNCHANGED <<fd, readable>>
        /\ handling' = FALSE /\ batch' = {} /\ cancel' = {}
        /\ UNCHANGED <<made, interval, repeat, pending, todo, running, cancelled>>

-----------------------------------------------------------------------------

Handling == (\E id \in Id : RunTimer(id)) \/ TimerReturns \/ Settle

Next == \/ Tick
        \/ EpollReturns
        \/ HandleExpireEvent
        \/ Handling
        \/ \E n \in 1..MaxInterval, r \in BOOLEAN : AddTimer(n, r)
        \/ \E id \in Id : CancelTimer(id)

Spec == Init /\ [][Next]_vars

(* Time passes, and the loop comes back to epoll_wait and handles what it
   returns.  Nobody has to add or to cancel a timer. *)
Fairness == /\ WF_vars(Tick)
            /\ WF_vars(EpollReturns)
            /\ WF_vars(HandleExpireEvent)
            /\ WF_vars(Handling)

FairSpec == Spec /\ Fairness

-----------------------------------------------------------------------------
(* What is checked.                                                        *)

(* Every variable holds a value of its type. *)
TypeOK ==
    /\ made \in 0..MaxTimers
    /\ timers \subseteq Id \cup {Sentinel} /\ active \subseteq Id
    /\ left \in [Id -> -MaxLate..MaxInterval]
    /\ interval \in [Id -> 0..MaxInterval] /\ repeat \in [Id -> BOOLEAN]
    /\ fd \in 0..MaxInterval /\ readable \in BOOLEAN /\ pending \in BOOLEAN
    /\ handling \in BOOLEAN /\ batch \subseteq Id /\ todo \subseteq batch
    /\ running \in batch \cup {0}
    /\ cancel \subseteq Id /\ cancelled \subseteq Id

(* m_active_timers_ and active_temp hold pointers into m_timers_: none dangles,
   and a timer is missing from m_active_timers_ only between its erase in the first
   loop of HandleExpireEvent and the second loop (Timer.cpp:56-73). *)
SetsAgree ==
    /\ batch \subseteq timers
    /\ active = timers \ ({Sentinel} \cup (batch \ (todo \cup {running})))

(* The timerfd is set for the earliest timer, or has fired because one is due. *)
ArmedForEarliest ==
    ~handling => IF readable THEN Expired # {}
                             ELSE fd = IF active = {} THEN 0 ELSE Earliest(active, left)

(* A cancelled timer is gone as soon as no HandleExpireEvent is running: its task
   may still run once, if it was due in the same batch, and never after that
   (Timer.cpp:37-43). *)
CancelledIsGone == ~handling => cancelled \cap timers = {}

(* What makes SetsAgree and CancelledIsGone inductive: ids are fresh, and while
   HandleExpireEvent runs every cancelled timer that is left is on its list. *)
BookInv ==
    /\ SetsAgree
    /\ timers \subseteq 0..made /\ cancelled \subseteq 1..made
    /\ cancelled \cap timers \subseteq cancel
    /\ ~handling => batch = {} /\ cancel = {}
    /\ running \notin todo

(* What makes ArmedForEarliest inductive when no timer comes due during
   HandleExpireEvent: the timerfd is idle while the batch is run, and outside
   the batch every timer is in the future. *)
ArmedInv ==
    /\ readable => fd = 0
    /\ ~handling =>
          IF readable THEN Expired # {}
          ELSE IF active = {} THEN fd = 0
          ELSE fd = Earliest(active, left) /\ fd > 0
    /\ handling =>
          /\ ~readable /\ fd = 0
          /\ \A i \in active : (i \in batch) <=> (left[i] <= 0)
    /\ \A i \in timers \ {Sentinel} : interval[i] > 0

(* A timer is run, however often it repeats, unless it is cancelled
   (Timer.cpp:37-43: HandleExpireEvent runs the expired timers and keeps the
   repeated ones that were not cancelled). *)
EveryTimerRuns ==
    \A id \in Id : id \in active ~> (running = id \/ id \in cancelled)

=============================================================================
