------------------------------ MODULE TcpSever ------------------------------
(***************************************************************************)
(* How a TcpSever starts, accepts and stops: the thread that runs it, one  *)
(* SchedulerThread per worker with the condition variable on which its     *)
(* owner waits, the acceptor's coroutine inside the hooked accept4, and    *)
(* the handing of connections to the workers.                              *)
(*                                                                         *)
(* What a worker does with a connection is module Connections; that a      *)
(* deferred task is run and a loop notices its m_stop_ is module           *)
(* Scheduler.  Here a loop is a queue that is drained and a flag that is   *)
(* looked at once per round.                                               *)
(*                                                                         *)
(* Several circumstances are fatal to a server.  They are part of the      *)
(* model: fate says how it broke, and properties say when it may.          *)
(***************************************************************************)
EXTENDS Integers, Sequences, FiniteSets, Functions

CONSTANTS Sizes,            \* numbers of workers to start a server with
          MaxConnections,   \* bound: connections that peers ask for
          MaxStops,         \* bound: calls of Stop from other threads
          MaxFailures       \* bound: attempts to accept that fail

ASSUME SeverConstants ==
    /\ Sizes \subseteq Nat
    /\ {MaxConnections, MaxStops, MaxFailures} \subseteq Nat

VARIABLES
    size,                   \* m_schedulers_.size(), never changes
    main, owner,            \* where the server's thread is, and with which worker
    deferred, timer,        \* its m_extra_tasks_, and the DoAfter of AcceptTask
    stopFlag,               \* its m_stop_
    acceptor, registered,   \* where the acceptor is; its entry in the poller
    listener, backlog,      \* m_accept_socket_ and the connections it has ready
    index,                  \* the static index of GetNextScheduler
    pc,                     \* where each worker's thread is
    published,              \* m_scheduler_ # nullptr
    asleep,                 \* the owner waits on m_condition_variable_
    stop, tasks,            \* m_stop_ and m_extra_tasks_ of the worker's scheduler
    established,            \* connections it has taken over
    fate,                   \* "fine", or what has ended the process
    came, failures,         \* peers that ask to be served, failed attempts
    stops, mishaps          \* history: calls of Stop, and circumstances to remember

thread  == <<main, owner, deferred, timer, stopFlag>>
accept  == <<acceptor, registered, listener, backlog, index, came, failures>>
workers == <<pc, published, asleep, stop, tasks, established>>
history == <<stops, mishaps>>
vars    == <<size, thread, accept, workers, fate, history>>

Worker == 0..(size - 1)

Init ==
    /\ size \in Sizes
    /\ main = "made" /\ owner = 0 /\ deferred = <<>> /\ timer = FALSE /\ stopFlag = TRUE
    /\ acceptor = "made" /\ registered = FALSE /\ listener = "made" /\ backlog = 0
    /\ index = 0 /\ came = 0 /\ failures = 0
    /\ pc = [w \in Worker |-> "none"] /\ published = [w \in Worker |-> FALSE]
    /\ asleep = [w \in Worker |-> FALSE] /\ stop = [w \in Worker |-> TRUE]
    /\ tasks = [w \in Worker |-> 0] /\ established = [w \in Worker |-> 0]
    /\ fate = "fine" /\ stops = 0 /\ mishaps = {}

Breaks(how) == fate' = how

Remember(what, happened) == mishaps' = mishaps \cup {m \in {what} : happened}

-----------------------------------------------------------------------------
(* Broken variants of single definitions, no part of the system: each stands in  *)
(* for the one it is named after to show that a property notices.                *)

WithdrawSilently(w) ==
    /\ pc[w] = "leave" /\ pc' = [pc EXCEPT ![w] = "ended"]
    /\ published' = [published EXCEPT ![w] = FALSE]
    /\ UNCHANGED <<size, thread, accept, asleep, stop, tasks, established, fate, history>>

EstablishUntested(w) ==
    /\ pc[w] = "drain"
    /\ tasks' = [tasks EXCEPT ![w] = @ - 1]
    /\ established' = [established EXCEPT ![w] = @ + 1]
    /\ UNCHANGED <<size, thread, accept, pc, published, asleep, stop, fate, history>>

StopWorkerWithoutWaiting ==
    /\ main = "stopping" /\ owner < size
    /\ stop' = [stop EXCEPT ![owner] = TRUE]
    /\ owner' = owner + 1
    /\ UNCHANGED <<size, main, deferred, timer, stopFlag, accept, pc, published, asleep,
                   tasks, established, fate, history>>

RegistrationKept == registered' = registered

AcceptWaitsUnregistered ==
    /\ main = "accepting" /\ acceptor = "try" /\ listener = "listening" /\ backlog = 0
    /\ acceptor' = "retry" /\ main' = "drain"
    /\ UNCHANGED <<size, owner, deferred, timer, stopFlag, registered, listener, backlog,
                   index, came, failures, workers, fate, history>>

-----------------------------------------------------------------------------
(* Outside: peers, threads that call Stop.                                       *)

Connect ==
    /\ listener = "listening" /\ came < MaxConnections
    /\ backlog' = backlog + 1 /\ came' = came + 1
    /\ UNCHANGED <<size, thread, acceptor, registered, listener, index, failures, workers,
                   fate, history>>

(* TcpSever::Stop in another thread defers itself. *)
CallStop ==
    /\ stops < MaxStops
    /\ stops' = stops + 1
    /\ Remember("stopped before Start", main = "made")
    /\ deferred' = Append(deferred, "Stop")
    /\ UNCHANGED <<size, main, owner, timer, stopFlag, accept, workers, fate>>

-----------------------------------------------------------------------------
(* Start: the workers one by one, each awaited, and then the server's own loop.  *)

Start ==
    /\ main = "made"
    /\ deferred' = Append(deferred, "SwapIn")
    /\ main' = "starting"
    /\ UNCHANGED <<size, owner, timer, stopFlag, accept, workers, fate, history>>

SpawnWorker ==
    /\ main = "starting" /\ owner < size
    /\ pc' = [pc EXCEPT ![owner] = "made"]
    /\ main' = "awaiting"
    /\ UNCHANGED <<size, owner, deferred, timer, stopFlag, accept, published, asleep, stop,
                   tasks, established, fate, history>>

(* A wait on the condition variable: the test of its predicate and falling asleep
   are one step, under m_mutex_; a notification leads to another test. *)
Sleep(w) == ~asleep[w] /\ asleep' = [asleep EXCEPT ![w] = TRUE]
Wake(w)  == asleep' = [asleep EXCEPT ![w] = FALSE]

AwaitPublished ==
    /\ main = "awaiting" /\ ~asleep[owner]
    /\ IF published[owner]
       THEN main' = "starting" /\ owner' = owner + 1 /\ UNCHANGED asleep
       ELSE Sleep(owner) /\ UNCHANGED <<main, owner>>
    /\ UNCHANGED <<size, deferred, timer, stopFlag, accept, pc, published, stop, tasks,
                   established, fate, history>>

EnterLoop ==
    /\ main = "starting" /\ owner = size
    /\ stopFlag' = FALSE /\ main' = "wait"
    /\ UNCHANGED <<size, owner, deferred, timer, accept, workers, fate, history>>

-----------------------------------------------------------------------------
(* SchedulerThread::ThreadFunction.                                              *)

Goes(w, from, to) == pc[w] = from /\ pc' = [pc EXCEPT ![w] = to]

(* Scheduler's constructor leaves m_stop_ true. *)
Publish(w) ==
    /\ Goes(w, "made", "enter")
    /\ published' = [published EXCEPT ![w] = TRUE]
    /\ Wake(w)
    /\ UNCHANGED <<size, thread, accept, stop, tasks, established, fate, history>>

WorkerEnters(w) ==
    /\ Goes(w, "enter", "wait")
    /\ stop' = [stop EXCEPT ![w] = FALSE]
    /\ UNCHANGED <<size, thread, accept, published, asleep, tasks, established, fate, history>>

WorkerWakes(w) ==
    /\ Goes(w, "wait", "drain")
    /\ tasks[w] > 0 \/ stop[w]
    /\ UNCHANGED <<size, thread, accept, published, asleep, stop, tasks, established, fate,
                   history>>

Establish(w) ==
    /\ pc[w] = "drain" /\ tasks[w] > 0
    /\ tasks' = [tasks EXCEPT ![w] = @ - 1]
    /\ established' = [established EXCEPT ![w] = @ + 1]
    /\ UNCHANGED <<size, thread, accept, pc, published, asleep, stop, fate, history>>

WorkerDrained(w) ==
    /\ Goes(w, "drain", "test") /\ tasks[w] = 0
    /\ UNCHANGED <<size, thread, accept, published, asleep, stop, tasks, established, fate,
                   history>>

WorkerTests(w) ==
    /\ Goes(w, "test", IF stop[w] THEN "leave" ELSE "wait")
    /\ UNCHANGED <<size, thread, accept, published, asleep, stop, tasks, established, fate,
                   history>>

Withdraw(w) ==
    /\ Goes(w, "leave", "ended")
    /\ published' = [published EXCEPT ![w] = FALSE]
    /\ Wake(w)
    /\ UNCHANGED <<size, thread, accept, stop, tasks, established, fate, history>>

-----------------------------------------------------------------------------
(* The server's loop.                                                            *)

Readable == registered /\ backlog > 0

(* epoll_wait reports the listener before any deferred task is looked at. *)
ResumeAcceptor ==
    /\ main = "wait" /\ ~stopFlag /\ Readable
    /\ main' = "accepting"
    /\ UNCHANGED <<size, owner, deferred, timer, stopFlag, accept, workers, fate, history>>

WakeForTasks ==
    /\ main = "wait" /\ ~stopFlag /\ ~Readable /\ deferred # <<>>
    /\ main' = "drain"
    /\ UNCHANGED <<size, owner, deferred, timer, stopFlag, accept, workers, fate, history>>

Drained ==
    /\ main = "drain" /\ deferred = <<>>
    /\ main' = "wait"
    /\ UNCHANGED <<size, owner, deferred, timer, stopFlag, accept, workers, fate, history>>

(* The task that Start and CloseAcceptor defer.  A coroutine that ran into Terminal
   goes on behind it. *)
SwapInTask ==
    /\ main = "drain" /\ deferred # <<>> /\ Head(deferred) = "SwapIn"
    /\ deferred' = Tail(deferred)
    /\ IF acceptor = "ended" THEN Breaks("ended coroutine resumed") /\ main' = "broken"
                             ELSE main' = "accepting" /\ UNCHANGED fate
    /\ UNCHANGED <<size, owner, timer, stopFlag, accept, workers, history>>

(* After the loop: Stop has taken the acceptor's registration back, so that none is
   left to be closed (Ended says so). *)
CleanUp ==
    /\ main = "wait" /\ stopFlag
    /\ main' = "off"
    /\ UNCHANGED <<size, owner, deferred, timer, stopFlag, accept, workers, fate, history>>

-----------------------------------------------------------------------------
(* Stop, in the server's thread: from a deferred task or from the timer.         *)

(* The hooked close takes the registration back. *)
CloseAcceptor(queue) ==
    /\ listener' = "closed" /\ registered' = FALSE
    /\ deferred' = Append(queue, "SwapIn")

BeginStop(queue) ==
    /\ CloseAcceptor(queue)
    /\ main' = "stopping" /\ owner' = 0
    /\ UNCHANGED <<size, stopFlag, acceptor, backlog, index, came, failures, workers, fate,
                   history>>

StopTask ==
    /\ main = "drain" /\ deferred # <<>> /\ Head(deferred) = "Stop"
    /\ BeginStop(Tail(deferred))
    /\ UNCHANGED timer

StopTimer ==
    /\ main = "wait" /\ ~stopFlag /\ timer
    /\ BeginStop(deferred)
    /\ timer' = FALSE

(* SchedulerThread::Stop.  Scheduler::Stop does nothing when m_stop_ is true, as it
   is until the worker has stored false on entering its loop. *)
StopWorker ==
    /\ main = "stopping" /\ owner < size
    /\ IF published[owner]
       THEN /\ stop' = [stop EXCEPT ![owner] = TRUE]
            /\ Remember("stopped while entering", pc[owner] = "enter")
            /\ main' = "joining" /\ UNCHANGED owner
       ELSE owner' = owner + 1 /\ UNCHANGED <<main, stop, mishaps>>
    /\ UNCHANGED <<size, deferred, timer, stopFlag, accept, pc, published, asleep, tasks,
                   established, fate, stops>>

AwaitWithdrawn ==
    /\ main = "joining" /\ ~asleep[owner]
    /\ IF published[owner]
       THEN Sleep(owner) /\ UNCHANGED <<main, owner>>
       ELSE /\ pc[owner] = "ended"
            /\ main' = "stopping" /\ owner' = owner + 1 /\ UNCHANGED asleep
    /\ UNCHANGED <<size, deferred, timer, stopFlag, accept, pc, published, stop, tasks,
                   established, fate, history>>

StopItself ==
    /\ main = "stopping" /\ owner = size
    /\ stopFlag' = TRUE /\ main' = "drain"
    /\ UNCHANGED <<size, owner, deferred, timer, accept, workers, fate, history>>

-----------------------------------------------------------------------------
(* AcceptTask and accept4: "try" is before its first attempt, "retry" in the      *)
(* Yield before its second.                                                      *)

In(place) == main = "accepting" /\ acceptor = place

Yields(place) == acceptor' = place /\ main' = "drain"

BindAndListen ==
    /\ In("made") /\ listener = "made"
    /\ listener' = "listening" /\ acceptor' = "try"
    /\ UNCHANGED <<size, thread, registered, backlog, index, came, failures, workers, fate,
                   history>>

(* The address is taken, or the socket closed: Stop in three seconds. *)
BindFails ==
    /\ In("made")
    /\ timer' = TRUE /\ Yields("ended")
    /\ Remember("no address", listener = "made")
    /\ UNCHANGED <<size, owner, deferred, stopFlag, registered, listener, backlog, index,
                   came, failures, workers, fate, stops>>

(* RegisterRead throws when the descriptor is registered; AcceptTask is noexcept. *)
AcceptWaits ==
    /\ In("try") /\ listener = "listening" /\ backlog = 0
    /\ IF registered
       THEN /\ Breaks("registered twice") /\ main' = "broken"
            /\ UNCHANGED <<acceptor, registered>>
       ELSE Yields("retry") /\ registered' = TRUE /\ UNCHANGED fate
    /\ UNCHANGED <<size, owner, deferred, timer, stopFlag, listener, backlog, index, came,
                   failures, workers, history>>

NextIndex == (index + 1) % size

(* GetNextScheduler()->GetScheduler()->AddDefer(...). *)
HandOver ==
    IF size = 0 THEN /\ Breaks("divided by zero") /\ main' = "broken"
                     /\ UNCHANGED <<index, tasks, acceptor>>
    ELSE IF ~published[NextIndex]
         THEN /\ Breaks("no scheduler") /\ main' = "broken"
              /\ UNCHANGED <<index, tasks, acceptor>>
         ELSE /\ index' = NextIndex
              /\ tasks' = [tasks EXCEPT ![NextIndex] = @ + 1]
              /\ IF stopFlag THEN Yields("ended") ELSE acceptor' = "try" /\ UNCHANGED main
              /\ UNCHANGED fate

(* accept4 takes the registration back when its second attempt succeeds ... *)
DoneWaiting == registered' = (registered /\ acceptor # "retry")

AcceptSucceeds ==
    /\ In("try") \/ In("retry")
    /\ listener = "listening" /\ backlog > 0
    /\ backlog' = backlog - 1
    /\ DoneWaiting
    /\ HandOver
    /\ UNCHANGED <<size, owner, deferred, timer, stopFlag, listener, came, failures, pc,
                   published, asleep, stop, established, history>>

(* ... and not when it fails: too many open files, or the peer has gone. *)
AcceptFails ==
    /\ In("try") \/ In("retry")
    /\ listener = "listening" /\ backlog > 0 /\ failures < MaxFailures
    /\ failures' = failures + 1
    /\ \/ UNCHANGED <<backlog, came>>
       \/ backlog' = backlog - 1 /\ came' = came - 1
    /\ acceptor' = "try"
    /\ UNCHANGED <<size, thread, registered, listener, index, workers, fate, history>>

(* EBADF ends AcceptTask. *)
AcceptEnds ==
    /\ In("retry") /\ listener = "closed"
    /\ Yields("ended")
    /\ UNCHANGED <<size, owner, deferred, timer, stopFlag, registered, listener, backlog,
                   index, came, failures, workers, fate, history>>

-----------------------------------------------------------------------------

Main ==
    \/ Start \/ SpawnWorker \/ AwaitPublished \/ EnterLoop
    \/ ResumeAcceptor \/ WakeForTasks \/ Drained \/ SwapInTask \/ CleanUp
    \/ StopTask \/ StopTimer \/ StopWorker \/ AwaitWithdrawn \/ StopItself
    \/ BindAndListen \/ BindFails \/ AcceptWaits \/ AcceptSucceeds \/ AcceptFails \/ AcceptEnds

WorkerThread(w) ==
    \/ Publish(w) \/ WorkerEnters(w) \/ WorkerWakes(w) \/ Establish(w)
    \/ WorkerDrained(w) \/ WorkerTests(w) \/ Withdraw(w)

(* Nothing happens any more in a process that has ended. *)
Next == /\ fate = "fine"
        /\ \/ Connect \/ CallStop \/ Main
           \/ \E w \in Worker : WorkerThread(w)

Spec == Init /\ [][Next]_vars

(* Threads go on; three seconds pass.  Nobody has to connect or to call Stop. *)
Fairness ==
    /\ WF_vars(fate = "fine" /\ Main)
    /\ \A n \in Sizes : \A w \in 0..(n-1) :
           WF_vars(fate = "fine" /\ w \in Worker /\ WorkerThread(w))

FairSpec == Spec /\ Fairness

-----------------------------------------------------------------------------
(* What is checked.                                                              *)

Fates == {"fine", "ended coroutine resumed", "registered twice", "divided by zero",
          "no scheduler"}
Mishaps == {"stopped before Start", "stopped while entering", "no address"}

ThreadTypeOK ==
    /\ main \in {"made", "starting", "awaiting", "wait", "accepting", "drain", "stopping",
                 "joining", "off", "broken"}
    /\ owner \in 0..size /\ (main \in {"awaiting", "joining"} => owner < size)
    /\ deferred \in Seq({"SwapIn", "Stop"}) /\ timer \in BOOLEAN /\ stopFlag \in BOOLEAN

AcceptTypeOK ==
    /\ acceptor \in {"made", "try", "retry", "ended"} /\ registered \in BOOLEAN
    /\ listener \in {"made", "listening", "closed"} /\ backlog \in Nat
    /\ index = 0 \/ index \in Worker
    /\ came \in Nat /\ backlog <= came /\ failures \in Nat

WorkersTypeOK ==
    /\ pc \in [Worker -> {"none", "made", "enter", "wait", "drain", "test", "leave", "ended"}]
    /\ published \in [Worker -> BOOLEAN] /\ asleep \in [Worker -> BOOLEAN]
    /\ stop \in [Worker -> BOOLEAN]
    /\ tasks \in [Worker -> Nat] /\ established \in [Worker -> Nat]

(* Every variable holds a value of its type; GetNextScheduler's index is one of a
   worker, once there is any. *)
SeverTypeOK ==
    /\ size \in Sizes
    /\ ThreadTypeOK /\ AcceptTypeOK /\ WorkersTypeOK
    /\ fate \in Fates /\ stops \in Nat /\ mishaps \subseteq Mishaps

(* What a server may break on, and nothing else: the acceptor is resumed after its end
   (TcpSever.cpp:101-104) only when Stop came twice, or before Start, or after a failed
   bind; its descriptor is registered twice (Poller.h:48-49) only after an attempt to
   accept has failed; the index is divided by zero (Scheduler.h:277) only without
   workers; and a connection is never handed to a worker whose m_scheduler_ is null
   (TcpSever.cpp:81). *)
BreaksOnlyWhen ==
    /\ fate = "ended coroutine resumed" =>
           stops > 1 \/ mishaps \cap {"stopped before Start", "no address"} # {}
    /\ fate = "registered twice" => failures > 0
    /\ fate = "divided by zero" => size = 0
    /\ fate # "no scheduler"

(* When Start has returned, every worker's thread has ended and was joined, and the
   acceptor has run to its end with nothing registered (Scheduler.h:194-204,
   Scheduler.cpp:232-239, TcpSever.cpp:101-104). *)
Ended ==
    /\ \A w \in Worker : pc[w] = "ended" /\ ~published[w] /\ ~asleep[w]
    /\ acceptor = "ended" /\ ~registered

OffMeansEnded == main = "off" => Ended

(* Every peer that connects is served by some worker, if nobody stops the server and
   it does not break (accept4, Hook.cpp:118-141, and AcceptTask). *)
EveryoneServed ==
    came > 0 /\ size > 0 ~>
        \/ stops > 0 \/ fate # "fine"
        \/ FoldFunctionOnSet(+, 0, established, Worker) = came

(* Stop, called after or before Start, makes Start return (TcpSever.cpp:55-62,
   test_tcp_sever_and_client.cpp:58-59), unless it meets a worker between publishing
   its scheduler and entering its loop, or the server breaks. *)
StopEndsSever ==
    stops > 0 /\ main # "made" ~>
        \/ main = "off"
        \/ "stopped while entering" \in mishaps
        \/ fate # "fine"

=============================================================================
