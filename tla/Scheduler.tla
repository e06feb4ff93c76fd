----------------------------- MODULE Scheduler -----------------------------
(***************************************************************************)
(* The event loop of coroutine/Scheduler.cpp and the three ways other      *)
(* threads reach it: AddDefer (and AddTask, which is AddDefer for a thread *)
(* that is not the loop's), Stop, and the file descriptors of the poller.  *)
(*                                                                         *)
(* The loop sleeps in epoll_wait.  A thread that has queued a task or set  *)
(* m_stop_ reads m_state_ and writes the eventfd only when it finds the    *)
(* loop in EpollWait (or DoNothing); a loop that is busy is trusted to     *)
(* look again before it sleeps.  Whether that works is the question here.  *)
(*                                                                         *)
(* m_state_ and m_stop_ are stored with release and loaded with acquire    *)
(* order, which lets a store be overtaken by a later load of another       *)
(* variable; on x86 that is the store buffer.  StoreBuffers = TRUE gives   *)
(* the loop and the callers of Stop such a buffer; FALSE is sequential     *)
(* consistency.  Atomic read-modify-writes and system calls find the       *)
(* buffer of their thread empty.                                           *)
(***************************************************************************)
EXTENDS Integers, Sequences, FiniteSets

CONSTANTS Poster,           \* threads, other than the loop's, that defer tasks
          Stopper,          \* threads, other than the loop's, that call Stop once
          Task,             \* bound: every task is deferred at most once
          StopTask,         \* the tasks whose body is Stop(), as TcpSever defers it
          Fd,               \* descriptors registered beside the eventfd
          MaxEvents,        \* bound: how often descriptors become ready
          EpollTimeout,     \* Start was given a timeout other than -1
          StoreBuffers

ASSUME SchedulerConstants ==
    /\ IsFiniteSet(Poster)
    /\ StopTask \subseteq Task
    /\ MaxEvents \in Nat
    /\ EpollTimeout \in BOOLEAN
    /\ StoreBuffers \in BOOLEAN
    /\ "loop" \notin Stopper
    /\ "eventfd" \notin Fd

VARIABLES
    stop, state,            \* m_stop_, m_state_
    queue, size, taken,     \* m_extra_tasks_ and what was taken from it
    eventfd,                \* the counter of m_event_fd_ is not zero
    ready, events,          \* descriptors that are ready; how often one became so
    loop, active,           \* where Start is; what EpollWait returned, unhandled
    pc,                     \* where each AddDefer is
    spc,                    \* where each Stop is
    buffer                  \* stores not yet in memory, oldest first

tasks  == <<queue, size, taken>>
io     == <<eventfd, ready, events>>
memory == <<stop, state, buffer>>
vars   == <<memory, tasks, io, loop, active, pc, spc>>

Q == INSTANCE TaskQueue WITH Element <- Task

Thread == {"loop"} \cup Stopper

Init ==
    /\ stop = TRUE /\ state = "DoNothing"
    /\ Q!QueueInit
    /\ eventfd = FALSE /\ ready = {} /\ events = 0
    /\ loop = "new" /\ active = {}
    /\ pc = [p \in Poster |-> "idle"]
    /\ spc = [s \in Stopper |-> "idle"]
    /\ buffer = [t \in Thread |-> <<>>]

-----------------------------------------------------------------------------
(* Broken variants of single actions, none of them part of Next: each stands in *)
(* for the action it is named after to show that a property notices.            *)

Goto(from, to) == loop = from /\ loop' = to

PostLoadStateIgnoresDoNothing(p) ==
    /\ pc[p] = "load"
    /\ pc' = [pc EXCEPT ![p] = IF state = "EpollWait" THEN "notify" ELSE "idle"]
    /\ UNCHANGED <<memory, tasks, io, loop, active, spc>>

EpollTimeoutRetries ==
    /\ loop = "wait" /\ buffer["loop"] = <<>>
    /\ EpollTimeout /\ ready = {} /\ ~eventfd
    /\ UNCHANGED vars

StopsItselfTestReversed ==
    IF stop THEN stop' = TRUE /\ UNCHANGED <<state, buffer>> ELSE UNCHANGED memory

DrainOneWithoutSize ==
    /\ Goto("drain", "run")
    /\ queue # <<>>
    /\ taken' = Append(taken, Head(queue))
    /\ queue' = Tail(queue)
    /\ size' = size - 1
    /\ UNCHANGED <<memory, io, active, pc, spc>>

RearmKeepsState ==
    /\ Goto("rearm", "check")
    /\ UNCHANGED <<memory, tasks, io, active, pc, spc>>

CheckAgainForgotten ==
    /\ Goto("check", "test")
    /\ UNCHANGED <<memory, tasks, io, active, pc, spc>>

-----------------------------------------------------------------------------
(* Memory.                                                                 *)

Store(t, var, val) ==
    IF StoreBuffers
    THEN /\ buffer' = [buffer EXCEPT ![t] = Append(@, <<var, val>>)]
         /\ UNCHANGED <<stop, state>>
    ELSE /\ stop'  = IF var = "stop" THEN val ELSE stop
         /\ state' = IF var = "state" THEN val ELSE state
         /\ UNCHANGED buffer

(* m_stop_ as thread t reads it: its own last store to it, if still buffered. *)
LoadStop(t) ==
    LET own == {i \in DOMAIN buffer[t] : buffer[t][i][1] = "stop"}
    IN  IF own = {} THEN stop
        ELSE buffer[t][CHOOSE i \in own : \A j \in own : j <= i][2]

Fenced(t) == buffer[t] = <<>>

Flush(t) ==
    /\ buffer[t] # <<>>
    /\ LET w == Head(buffer[t])
       IN  /\ stop'  = IF w[1] = "stop" THEN w[2] ELSE stop
           /\ state' = IF w[1] = "state" THEN w[2] ELSE state
    /\ buffer' = [buffer EXCEPT ![t] = Tail(@)]
    /\ UNCHANGED <<tasks, io, loop, active, pc, spc>>

-----------------------------------------------------------------------------
(* AddDefer, and AddTask, by a thread other than the loop's.               *)

Post(p, e) ==
    /\ pc[p] = "idle"
    /\ Q!Put(e)
    /\ pc' = [pc EXCEPT ![p] = "count"]
    /\ UNCHANGED <<memory, io, loop, active, spc>>

PostCount(p) ==
    /\ pc[p] = "count"
    /\ Q!Count
    /\ pc' = [pc EXCEPT ![p] = "load"]
    /\ UNCHANGED <<memory, io, loop, active, spc>>

PostLoadState(p) ==
    /\ pc[p] = "load"
    /\ pc' = [pc EXCEPT ![p] = IF state \in {"EpollWait", "DoNothing"}
                               THEN "notify" ELSE "idle"]
    /\ UNCHANGED <<memory, tasks, io, loop, active, spc>>

PostNotify(p) ==
    /\ pc[p] = "notify"
    /\ eventfd' = TRUE
    /\ pc' = [pc EXCEPT ![p] = "idle"]
    /\ UNCHANGED <<memory, tasks, ready, events, loop, active, spc>>

-----------------------------------------------------------------------------
(* Stop by a thread other than the loop's.  Before Start, and after another  *)
(* Stop, m_stop_ is already true and the call does nothing.                  *)

StopTest(s) ==
    /\ spc[s] = "idle"
    /\ spc' = [spc EXCEPT ![s] = IF LoadStop(s) THEN "ignored" ELSE "store"]
    /\ UNCHANGED <<memory, tasks, io, loop, active, pc>>

StopStore(s) ==
    /\ spc[s] = "store"
    /\ Store(s, "stop", TRUE)
    /\ spc' = [spc EXCEPT ![s] = "load"]
    /\ UNCHANGED <<tasks, io, loop, active, pc>>

StopLoadState(s) ==
    /\ spc[s] = "load"
    /\ spc' = [spc EXCEPT ![s] = IF state = "EpollWait" THEN "notify" ELSE "returned"]
    /\ UNCHANGED <<memory, tasks, io, loop, active, pc>>

StopNotify(s) ==
    /\ spc[s] = "notify" /\ Fenced(s)
    /\ eventfd' = TRUE
    /\ spc' = [spc EXCEPT ![s] = "returned"]
    /\ UNCHANGED <<memory, tasks, ready, events, loop, active, pc>>

-----------------------------------------------------------------------------
(* Start.                                                                  *)

Begin ==
    /\ Goto("new", "enter")
    /\ Store("loop", "stop", FALSE)
    /\ UNCHANGED <<tasks, io, active, pc, spc>>

EnterWait ==
    /\ Goto("enter", "test")
    /\ Store("loop", "state", "EpollWait")
    /\ UNCHANGED <<tasks, io, active, pc, spc>>

TestStop ==
    /\ loop = "test"
    /\ loop' = IF LoadStop("loop") THEN "leave" ELSE "wait"
    /\ UNCHANGED <<memory, tasks, io, active, pc, spc>>

EpollReturns ==
    /\ Goto("wait", "returned") /\ Fenced("loop")
    /\ active' = ready \cup (IF eventfd THEN {"eventfd"} ELSE {})
    /\ active' # {}
    /\ UNCHANGED <<memory, tasks, io, pc, spc>>

(* epoll_wait returned 0: the deferred tasks are not looked at. *)
EpollTimesOut ==
    /\ Goto("wait", "test") /\ Fenced("loop")
    /\ EpollTimeout /\ ready = {} /\ ~eventfd
    /\ UNCHANGED <<memory, tasks, io, active, pc, spc>>

HandleActive ==
    /\ Goto("returned", "handle")
    /\ Store("loop", "state", "HandleActiveFd")
    /\ UNCHANGED <<tasks, io, active, pc, spc>>

(* What the code run by the loop may do to its own scheduler: nothing, AddDefer,
   or Stop (timers do; TcpConnection::Close defers).  Both find a state that
   needs no Notify. *)
MayDefer == \/ UNCHANGED tasks
            \/ Fenced("loop") /\ \E e \in Task \ StopTask : Q!PutCounted(e)

StopsItself == IF LoadStop("loop") THEN UNCHANGED memory
                                   ELSE Store("loop", "stop", TRUE)

ReadEventFd ==
    /\ loop = "handle" /\ "eventfd" \in active /\ Fenced("loop")
    /\ eventfd' = FALSE
    /\ active' = active \ {"eventfd"}
    /\ UNCHANGED <<memory, tasks, ready, events, loop, pc, spc>>

RunCallback(f) ==
    /\ loop = "handle" /\ f \in active
    /\ active' = active \ {f}
    /\ ready' = ready \ {f}
    /\ MayDefer
    /\ StopsItself \/ UNCHANGED memory
    /\ UNCHANGED <<eventfd, events, loop, pc, spc>>

HandleExtra ==
    /\ Goto("handle", "drain") /\ active = {}
    /\ Store("loop", "state", "HandleExtraState")
    /\ UNCHANGED <<tasks, io, active, pc, spc>>

DrainOne ==
    /\ Goto("drain", "run") /\ Fenced("loop")
    /\ Q!Take
    /\ UNCHANGED <<memory, io, active, pc, spc>>

(* task(): the body of the task dequeued last. *)
RunTask ==
    /\ Goto("run", "drain")
    /\ MayDefer
    /\ IF taken[Len(taken)] \in StopTask THEN StopsItself ELSE UNCHANGED memory
    /\ UNCHANGED <<io, active, pc, spc>>

Drained ==
    /\ Goto("drain", "rearm") /\ size = 0
    /\ UNCHANGED <<memory, tasks, io, active, pc, spc>>

Rearm ==
    /\ Goto("rearm", "check")
    /\ Store("loop", "state", "EpollWait")
    /\ UNCHANGED <<tasks, io, active, pc, spc>>

CheckAgain ==
    /\ loop = "check"
    /\ loop' = IF size # 0 THEN "renotify" ELSE "test"
    /\ UNCHANGED <<memory, tasks, io, active, pc, spc>>

Renotify ==
    /\ Goto("renotify", "test") /\ Fenced("loop")
    /\ eventfd' = TRUE
    /\ UNCHANGED <<memory, tasks, ready, events, active, pc, spc>>

(* The loop is over; every registered descriptor is closed and its callback run
   once more. *)
Leave ==
    /\ Goto("leave", "cleanup")
    /\ Store("loop", "state", "DoNothing")
    /\ active' = Fd
    /\ UNCHANGED <<tasks, io, pc, spc>>

(* AddDefer notifies now, as the state is DoNothing, but nobody drains. *)
CleanUp(f) ==
    /\ loop = "cleanup" /\ f \in active /\ Fenced("loop")
    /\ active' = active \ {f}
    /\ ready' = ready \ {f}
    /\ MayDefer
    /\ eventfd' = (eventfd \/ queue' # queue)
    /\ UNCHANGED <<memory, events, loop, pc, spc>>

Exit ==
    /\ Goto("cleanup", "done") /\ active = {}
    /\ UNCHANGED <<memory, tasks, io, active, pc, spc>>

-----------------------------------------------------------------------------

BecomesReady(f) ==
    /\ f \notin ready /\ events < MaxEvents
    /\ loop \notin {"cleanup", "done"}
    /\ ready' = ready \cup {f}
    /\ events' = events + 1
    /\ UNCHANGED <<memory, tasks, eventfd, loop, active, pc, spc>>

LoopStep ==
    \/ Begin \/ EnterWait \/ TestStop \/ EpollReturns \/ EpollTimesOut
    \/ HandleActive \/ ReadEventFd \/ (\E f \in Fd : RunCallback(f)) \/ HandleExtra
    \/ DrainOne \/ RunTask \/ Drained \/ Rearm \/ CheckAgain \/ Renotify
    \/ Leave \/ (\E f \in Fd : CleanUp(f)) \/ Exit

PostStep(p) == PostCount(p) \/ PostLoadState(p) \/ PostNotify(p)

StopStep(s) == StopStore(s) \/ StopLoadState(s) \/ StopNotify(s)

Next == \/ LoopStep
        \/ \E p \in Poster : PostStep(p) \/ \E e \in Task : Post(p, e)
        \/ \E s \in Stopper : StopStep(s) \/ StopTest(s)
        \/ \E t \in Thread : Flush(t)
        \/ \E f \in Fd : BecomesReady(f)

Spec == Init /\ [][Next]_vars

(* Threads that are in the middle of a call get to finish it, the loop's thread
   runs, and a store buffer drains.  Nothing obliges anybody to defer a task, to
   call Stop, or a descriptor to become ready. *)
Fairness == /\ WF_vars(LoopStep)
            /\ \A p \in Poster : WF_vars(PostStep(p))
            /\ \A s \in Stopper : WF_vars(StopStep(s))
            /\ \A t \in Thread : WF_vars(Flush(t))

FairSpec == Spec /\ Fairness

-----------------------------------------------------------------------------
(* What is checked.                                                        *)

LoopPC == {"new", "enter", "test", "wait", "returned", "handle", "drain", "run",
           "rearm", "check", "renotify", "leave", "cleanup", "done"}
SchedulerState == {"DoNothing", "EpollWait", "HandleActiveFd", "HandleExtraState"}

(* Every variable holds a value of its type. *)
TypeOK ==
    /\ stop \in BOOLEAN /\ state \in SchedulerState
    /\ Q!QueueTypeOK
    /\ eventfd \in BOOLEAN /\ ready \subseteq Fd /\ events \in 0..MaxEvents
    /\ loop \in LoopPC /\ active \subseteq Fd \cup {"eventfd"}
    /\ pc \in [Poster -> {"idle", "count", "load", "notify"}]
    /\ spc \in [Stopper -> {"idle", "ignored", "store", "load", "notify", "returned"}]
    /\ buffer \in [Thread -> Seq(({"stop"} \X BOOLEAN) \cup ({"state"} \X SchedulerState))]

(* The loop does not sleep on a queued task unless something is under way that
   will wake it: the eventfd is readable, or the AddDefer that queued the task,
   or one behind it, has yet to look at m_state_ or to write the eventfd. *)
NoLostWakeup ==
    loop = "wait" /\ queue # <<>> =>
        eventfd \/ \E p \in Poster : pc[p] \in {"count", "load", "notify"}

(* The loop does not sleep after m_stop_ was set, unless the Stop that set it
   has yet to look at m_state_ or to write the eventfd. *)
NoLostStop ==
    loop = "wait" /\ stop =>
        eventfd \/ \E s \in Stopper : spc[s] \in {"load", "notify"}

(* The inductive invariant behind the two, under sequential consistency.  m_state_
   is a function of where Start is; m_size_ lags the queue by the AddDefer calls
   that have linked and not yet counted; and a task queued while the loop is on
   its way to sleep has a wake-up under way. *)
StateOf(l) ==
    CASE l \in {"new", "enter", "cleanup", "done"} -> "DoNothing"
      [] l = "handle"                             -> "HandleActiveFd"
      [] l \in {"drain", "run", "rearm"}          -> "HandleExtraState"
      [] OTHER                                    -> "EpollWait"

Counting == {p \in Poster : pc[p] = "count"}

WakeupUnderWay == eventfd \/ \E p \in Poster : pc[p] \in {"count", "load", "notify"}

SleepInv ==
    /\ \A t \in Thread : Fenced(t)
    /\ state = StateOf(loop)
    /\ Len(queue) = size + Cardinality(Counting)
    /\ loop \in {"new", "enter", "test", "wait"} /\ queue # <<>> => WakeupUnderWay
    /\ NoLostStop

(* Dequeue, whose result the loop calls, is entered only when the queue holds a
   task (Scheduler.cpp:160-162), and no task runs twice. *)
QueueUsedSafely == Q!SizeNeverOverstates /\ Q!TakenOnce

(* A deferred task is run, or the scheduler is being stopped. *)
EveryTaskRuns ==
    \A e \in Task : e \in Q!Contents(queue) ~> (e \in Q!Contents(taken) \/ stop)

(* A Stop that found the scheduler running ends Start, so that the thread in it
   can be joined. *)
StopEndsStart ==
    (\E s \in Stopper : spc[s] \in {"load", "notify", "returned"}) ~> loop = "done"

(* The same for the Stop that TcpSever::Stop defers when another thread calls it:
   test_tcp_sever_and_client.cpp:58-59 joins the thread of Start right after. *)
DeferredStopEndsStart ==
    \A e \in StopTask : e \in Q!Contents(queue) ~> loop = "done"

=============================================================================
