---------------------------- MODULE Connections ----------------------------
(***************************************************************************)
(* The connections of one worker of a TcpSever: the loop of its Scheduler, *)
(* the coroutine of each TcpConnection, the hooked readv and writev in     *)
(* which it waits, the poller that resumes it, and the deferred tasks by   *)
(* which connections come and go.                                          *)
(*                                                                         *)
(* Everything but the kernel, the acceptor and Stop runs in the worker's   *)
(* thread.  A step is what a coroutine or a task does between two looks at *)
(* a socket, so that the peers, and the acceptor in its own thread, may    *)
(* act in between.  That a deferred task is run, and the loop woken for    *)
(* it, is what module Scheduler is about.                                  *)
(*                                                                         *)
(* A request is a frame of two pieces, the length and the payload.  A peer *)
(* waits for the answer before it sends the next request, as TcpClient     *)
(* does.                                                                   *)
(***************************************************************************)
EXTENDS Naturals, Sequences, FiniteSetsExt, Poller

CONSTANTS Closers,          \* connections whose MagCallback may call Close
          Enders,           \* connections whose peer may end the stream
          MaxRequests       \* bound: requests of one peer

ASSUME ConnectionConstants ==
    /\ Closers \subseteq Conn /\ Enders \subseteq Conn
    /\ MaxRequests \in Nat
    /\ Fd \subseteq Nat

VARIABLES
    sock,               \* the connection whose socket a descriptor denotes
    arrived, fin, room, \* its unread pieces, whether the peer has ended the
                        \* stream, and whether a response can be sent at once
    sent, answered,     \* pieces sent by the peer, responses sent to it
    conns,              \* m_connections_ of the worker, by descriptor
    fdOf,               \* m_socket_; before that, the descriptor accept4 returned
    at,                 \* where the connection or its coroutine is
    buffered,           \* pieces in m_input_buffer_
    deferred,           \* m_extra_tasks_
    loop,               \* where Scheduler::Start is
    batch,              \* what is left of m_active_runnable_
    cur,                \* the coroutine at the end of m_coroutines_list_
    closing,            \* the connection whose Close task waits for it to switch back
    stopped,            \* m_stop_
    raised,             \* the exception that has left Start, or "crash"
    asked,              \* history: connections that were asked to Close,
    closedTwice,        \* those with a second task to close them, and whether a
    reused              \* number was given away again while its Close task ran

kernel  == <<sock, arrived, fin, room, sent, answered>>
history == <<asked, closedTwice, reused>>
sever   == <<conns, fdOf, buffered, history>>
start   == <<loop, batch, closing, stopped, raised>>
vars    == <<pollerVars, kernel, sever, start, at, deferred, cur>>

Init ==
    /\ PollerInit
    /\ sock = [fd \in Fd |-> None]
    /\ arrived = [c \in Conn |-> 0] /\ fin = [c \in Conn |-> FALSE]
    /\ room = [c \in Conn |-> TRUE]
    /\ sent = [c \in Conn |-> 0] /\ answered = [c \in Conn |-> 0]
    /\ conns = [fd \in Fd |-> None] /\ fdOf = [c \in Conn |-> None]
    /\ at = [c \in Conn |-> "none"] /\ buffered = [c \in Conn |-> 0]
    /\ deferred = <<>> /\ loop = "wait" /\ batch = <<>>
    /\ cur = None /\ closing = None
    /\ stopped = FALSE /\ raised = "nothing"
    /\ asked = {} /\ closedTwice = {} /\ reused = FALSE

-----------------------------------------------------------------------------
(* The outside: peers, the acceptor's thread, and who calls Stop.            *)

Connected(c) == \E fd \in Fd : sock[fd] = c

PeerSends(c) ==
    /\ Connected(c) /\ ~fin[c] /\ sent[c] < 2 * MaxRequests
    /\ sent[c] % 2 = 0 => sent[c] = 2 * answered[c]
    /\ sent' = [sent EXCEPT ![c] = @ + 1]
    /\ arrived' = [arrived EXCEPT ![c] = @ + 1]
    /\ UNCHANGED <<pollerVars, sock, fin, room, answered, sever, start, at, deferred, cur>>

PeerEnds(c) ==
    /\ c \in Enders /\ Connected(c) /\ ~fin[c]
    /\ fin' = [fin EXCEPT ![c] = TRUE]
    /\ UNCHANGED <<pollerVars, sock, arrived, room, sent, answered, sever, start, at,
                   deferred, cur>>

PeerReads(c) ==
    /\ ~room[c]
    /\ room' = [room EXCEPT ![c] = TRUE]
    /\ UNCHANGED <<pollerVars, sock, arrived, fin, sent, answered, sever, start, at,
                   deferred, cur>>

(* AcceptTask: accept4, and later the AddDefer.  The acceptor is closed before the
   workers are stopped. *)
Accept(c, fd) ==
    /\ at[c] = "none" /\ sock[fd] = None /\ ~stopped
    /\ sock' = [sock EXCEPT ![fd] = c]
    /\ fdOf' = [fdOf EXCEPT ![c] = fd]
    /\ at' = [at EXCEPT ![c] = "accepted"]
    /\ reused' = (reused \/ (closing # None /\ fdOf[closing] = fd))
    /\ UNCHANGED <<pollerVars, arrived, fin, room, sent, answered, conns, buffered, asked,
                   closedTwice, start, deferred, cur>>

Task(does, c) == [does |-> does, conn |-> c]

HandOver(c) ==
    /\ at[c] = "accepted"
    /\ at' = [at EXCEPT ![c] = "handed"]
    /\ deferred' = Append(deferred, Task("establish", c))
    /\ UNCHANGED <<pollerVars, kernel, sever, start, cur>>

Stop ==
    /\ ~stopped /\ stopped' = TRUE
    /\ UNCHANGED <<pollerVars, kernel, sever, loop, batch, closing, raised, at, deferred, cur>>

-----------------------------------------------------------------------------
(* The loop.                                                                 *)

(* What epoll_wait reports, level-triggered. *)
Ready(fd) ==
    LET s == sock[fd]
    IN  /\ s # None
        /\ \/ onRead[fd] # None /\ (arrived[s] > 0 \/ fin[s])
           \/ onWrite[fd] # None /\ room[s]

EpollReturns ==
    /\ loop = "wait"
    /\ {fd \in Fd : Ready(fd)} # {} \/ deferred # <<>>
    /\ batch' \in EpollWait({fd \in Fd : Ready(fd)})
    /\ loop' = "batch"
    /\ UNCHANGED <<pollerVars, kernel, sever, closing, stopped, raised, at, deferred, cur>>

(* SwapIn of the coroutine registered; with no callback there an error is logged. *)
RunBatch ==
    /\ loop = "batch" /\ cur = None /\ batch # <<>>
    /\ cur' = Runnable(Head(batch))
    /\ batch' = Tail(batch)
    /\ UNCHANGED <<pollerVars, kernel, sever, loop, closing, stopped, raised, at, deferred>>

BatchDone ==
    /\ loop = "batch" /\ cur = None /\ batch = <<>>
    /\ loop' = "drain"
    /\ UNCHANGED <<pollerVars, kernel, sever, batch, closing, stopped, raised, at, deferred, cur>>

DrainDone ==
    /\ loop = "drain" /\ cur = None /\ closing = None /\ deferred = <<>>
    /\ loop' = "wait"
    /\ UNCHANGED <<pollerVars, kernel, sever, batch, closing, stopped, raised, at, deferred, cur>>

StopSeen ==
    /\ loop = "wait" /\ stopped
    /\ loop' = "cleanup"
    /\ UNCHANGED <<pollerVars, kernel, sever, batch, closing, stopped, raised, at, deferred, cur>>

(* After the loop every descriptor that is still registered is closed, in order, and
   its waiter resumed: it finds the descriptor gone. *)
Cleanup ==
    LET left == {fd \in Fd : Registered(fd)}
        fd   == Min(left)
    IN  /\ loop = "cleanup" /\ cur = None /\ left # {}
        /\ cur' = GetCallBack(fd)
        /\ CancelRegister(fd) /\ sock' = [sock EXCEPT ![fd] = None]
        /\ UNCHANGED <<arrived, fin, room, sent, answered, sever, start, at, deferred>>

Exit ==
    /\ loop = "cleanup" /\ cur = None /\ \A fd \in Fd : ~Registered(fd)
    /\ loop' = "off"
    /\ UNCHANGED <<pollerVars, kernel, sever, batch, closing, stopped, raised, at, deferred, cur>>

-----------------------------------------------------------------------------
(* Broken variants of single operators, no part of the system: each stands in    *)
(* for the one it is named after to show that a property notices.                *)

HasFrameByHeader(c) == buffered[c] >= 1

CloseCleansFirst(c) ==
    /\ CancelRegister(fdOf[c])
    /\ sock' = [sock EXCEPT ![fdOf[c]] = None]
    /\ conns' = [conns EXCEPT ![fdOf[c]] = None]
    /\ at' = [at EXCEPT ![c] = "gone"]
    /\ cur' = c /\ closing' = c /\ UNCHANGED <<raised, loop>>

DeferTwice(c) == deferred' = deferred \o <<Task("clean", c), Task("clean", c)>>

CloseForgotten(fd) == UNCHANGED <<pollerVars, sock, raised, loop>>

NothingDeferred(c) == UNCHANGED deferred

-----------------------------------------------------------------------------
(* The deferred tasks, one at a time and from the front.                     *)

Runs(does, c) ==
    /\ loop = "drain" /\ cur = None /\ closing = None
    /\ deferred # <<>> /\ Head(deferred) = Task(does, c)

(* An exception that nobody catches leaves Start and ends the process.  "crash" is the use
   of memory that is not there: the model does not follow the process any further. *)
Raise(what) == raised' = what /\ loop' = "ended"
Goes        == UNCHANGED <<raised, loop>>

(* The task AcceptTask defers.  emplace keeps the connection that is there, if any,
   and the new one is destroyed. *)
Establish(c) ==
    LET fd   == fdOf[c]
        here == IF conns[fd] = None THEN c ELSE conns[fd]
    IN  /\ Runs("establish", c)
        /\ conns' = [conns EXCEPT ![fd] = here]
        /\ at' = [at EXCEPT ![c] = IF here = c THEN "new" ELSE "gone"]
        /\ deferred' = Append(Tail(deferred), Task("start", here))
        /\ UNCHANGED <<pollerVars, kernel, fdOf, buffered, history, start, cur>>

(* The task of NewTcpConnectionEstablish. *)
StartCoroutine(c) ==
    /\ Runs("start", c)
    /\ cur' = c /\ deferred' = Tail(deferred)
    /\ UNCHANGED <<pollerVars, kernel, sever, start, at>>

(* The hooked close. *)
CloseFd(fd) ==
    /\ CancelRegister(fd)
    /\ IF sock[fd] = None THEN Raise("close error") /\ UNCHANGED sock
                          ELSE sock' = [sock EXCEPT ![fd] = None] /\ Goes

(* TcpSever::CleanConnection, when there is a connection to be destroyed. *)
Destroy(fd) ==
    /\ at' = [at EXCEPT ![conns[fd]] = "gone"]
    /\ conns' = [conns EXCEPT ![fd] = None]

NotExist == Raise("not exist") /\ UNCHANGED <<conns, at>>

(* The task of TcpConnection::Close: close, resume the coroutine ... *)
CloseAndResume(c) ==
    /\ CloseFd(fdOf[c])
    /\ cur' = (IF sock[fdOf[c]] = None THEN None ELSE c)
    /\ closing' = c
    /\ UNCHANGED <<conns, at>>

(* ... of a connection that another such task has destroyed.  Which descriptor it closes
   and what it resumes depends on what has become of the memory: the model ends here. *)
CloseFreed == Raise("crash") /\ UNCHANGED <<pollerVars, sock, conns, at, cur, closing>>

LocalClose(c) ==
    /\ Runs("close", c)
    /\ deferred' = Tail(deferred)
    /\ IF at[c] = "gone" THEN CloseFreed ELSE CloseAndResume(c)
    /\ UNCHANGED <<arrived, fin, room, sent, answered, fdOf, buffered, history, batch, stopped>>

(* ... and clean up when it has switched back. *)
LocalClosed ==
    LET fd == fdOf[closing]
    IN  /\ loop = "drain" /\ cur = None /\ closing # None
        /\ IF conns[fd] = None THEN NotExist ELSE Destroy(fd) /\ Goes
        /\ closing' = None
        /\ UNCHANGED <<pollerVars, kernel, fdOf, buffered, history, batch, stopped, deferred, cur>>

(* The task that ProcessMag defers at the end of the stream. *)
RemoteClosed(c) ==
    LET fd == fdOf[c]
    IN  /\ Runs("clean", c)
        /\ deferred' = Tail(deferred)
        /\ IF conns[fd] = None THEN NotExist /\ UNCHANGED <<pollerVars, sock>>
                               ELSE Destroy(fd) /\ CloseFd(fd)
        /\ UNCHANGED <<arrived, fin, room, sent, answered, fdOf, buffered, history,
                       batch, closing, stopped, cur>>

-----------------------------------------------------------------------------
(* ProcessMag in the coroutine of a connection, from one look at the socket to   *)
(* the next.  "new" and "fetch" are before a readv, "reading" and "writing" in   *)
(* the Yield of IOBase, "flush" before a writev.                                 *)

Go(c, place) == at' = [at EXCEPT ![c] = place]

(* Yield and Terminal return to the loop, or to the Close task. *)
SwitchBack == cur' = None

(* Resumed behind Terminal, a coroutine returns from the function it began with, to the
   address zero that a new stack holds there; one that was destroyed is not there to be
   resumed. *)
RunsOff ==
    /\ cur # None /\ at[cur] \in {"ended", "gone"}
    /\ Raise("crash")
    /\ UNCHANGED <<pollerVars, kernel, sever, batch, closing, stopped, at, deferred, cur>>

(* What the system call finds under the descriptor. *)
ReadFinds(fd) ==
    IF sock[fd] = None              THEN "EBADF"
    ELSE IF arrived[sock[fd]] > 0   THEN "data"
    ELSE IF fin[sock[fd]]           THEN "end"
                                    ELSE "EAGAIN"

Reading(c, finds) ==
    /\ cur = c /\ at[c] \in {"new", "fetch", "reading"}
    /\ ReadFinds(fdOf[c]) = finds

(* IOBase registers before the first Yield and takes the registration back when a
   later attempt succeeds. *)
DoneWaiting(c) ==
    IF at[c] \in {"reading", "writing"} THEN CancelRegister(fdOf[c])
                                         ELSE UNCHANGED pollerVars

ReadWaits(c) ==
    LET fd == fdOf[c]
    IN  /\ Reading(c, "EAGAIN")
        /\ IF at[c] = "reading"
           THEN UNCHANGED <<pollerVars, raised, loop>>
           ELSE IF onRead[fd] # None THEN Raise("register twice") /\ UNCHANGED pollerVars
                                     ELSE RegisterRead(fd, c) /\ Goes
        /\ Go(c, "reading") /\ SwitchBack
        /\ UNCHANGED <<kernel, sever, batch, closing, stopped, deferred>>

ReadGets(c) ==
    LET s == sock[fdOf[c]]
    IN  /\ Reading(c, "data")
        /\ buffered' = [buffered EXCEPT ![c] = @ + arrived[s]]
        /\ arrived' = [arrived EXCEPT ![s] = 0]
        /\ DoneWaiting(c) /\ Go(c, "decode")
        /\ UNCHANGED <<sock, fin, room, sent, answered, conns, fdOf, history, start, deferred, cur>>

EndOfStream(c) == deferred' = Append(deferred, Task("clean", c))

(* Nobody looks whether a Close is on its way already. *)
MaybeAgain(c) == closedTwice' = closedTwice \cup ({c} \cap asked)

ReadEnds(c) ==
    /\ Reading(c, "end")
    /\ EndOfStream(c) /\ MaybeAgain(c)
    /\ DoneWaiting(c) /\ Go(c, "ended") /\ SwitchBack
    /\ UNCHANGED <<kernel, conns, fdOf, buffered, asked, reused, start>>

ReadFails(c) ==
    /\ Reading(c, "EBADF")
    /\ Go(c, "ended") /\ SwitchBack
    /\ UNCHANGED <<pollerVars, kernel, sever, start, deferred>>

(* Decode takes one frame, if there is one, and MagCallback may ask to Close. *)
HasFrame(c) == buffered[c] >= 2

DecodeNothing(c) ==
    /\ cur = c /\ at[c] = "decode" /\ ~HasFrame(c)
    /\ Go(c, "fetch")
    /\ UNCHANGED <<pollerVars, kernel, sever, start, deferred, cur>>

Respond(c) ==
    /\ cur = c /\ at[c] = "decode" /\ HasFrame(c)
    /\ buffered' = [buffered EXCEPT ![c] = @ - 2]
    /\ Go(c, "flush")
    /\ \/ UNCHANGED <<deferred, asked, closedTwice>>
       \/ /\ c \in Closers
          /\ deferred' = Append(deferred, Task("close", c))
          /\ asked' = asked \cup {c} /\ MaybeAgain(c)
    /\ UNCHANGED <<pollerVars, kernel, conns, fdOf, reused, start, cur>>

(* FlushDataToFd, whose result ProcessMag does not look at. *)
WriteWaits(c) ==
    LET fd == fdOf[c]
    IN  /\ cur = c /\ at[c] \in {"flush", "writing"}
        /\ sock[fd] # None /\ ~room[sock[fd]]
        /\ IF at[c] = "writing"
           THEN UNCHANGED <<pollerVars, raised, loop>>
           ELSE IF onWrite[fd] # None THEN Raise("register twice") /\ UNCHANGED pollerVars
                                      ELSE RegisterWrite(fd, c) /\ Goes
        /\ Go(c, "writing") /\ SwitchBack
        /\ UNCHANGED <<kernel, sever, batch, closing, stopped, deferred>>

WriteDone(c) ==
    LET s == sock[fdOf[c]]
    IN  /\ cur = c /\ at[c] \in {"flush", "writing"}
        /\ s # None /\ room[s]
        /\ answered' = [answered EXCEPT ![s] = @ + 1]
        /\ room' \in {room, [room EXCEPT ![s] = FALSE]}
        /\ DoneWaiting(c) /\ Go(c, "fetch")
        /\ UNCHANGED <<sock, arrived, fin, sent, sever, start, deferred, cur>>

WriteFails(c) ==
    /\ cur = c /\ at[c] \in {"flush", "writing"} /\ sock[fdOf[c]] = None
    /\ Go(c, "fetch")
    /\ UNCHANGED <<pollerVars, kernel, sever, start, deferred, cur>>

-----------------------------------------------------------------------------

Coroutine(c) ==
    \/ ReadWaits(c) \/ ReadGets(c) \/ ReadEnds(c) \/ ReadFails(c)
    \/ DecodeNothing(c) \/ Respond(c)
    \/ WriteWaits(c) \/ WriteDone(c) \/ WriteFails(c)

Deferred(c) == Establish(c) \/ StartCoroutine(c) \/ LocalClose(c) \/ RemoteClosed(c)

Loop == \/ EpollReturns \/ RunBatch \/ BatchDone \/ DrainDone \/ StopSeen \/ Cleanup \/ Exit
        \/ LocalClosed \/ RunsOff
        \/ \E c \in Conn : Deferred(c) \/ Coroutine(c)

Outside(c) == PeerSends(c) \/ PeerEnds(c) \/ PeerReads(c) \/ HandOver(c)
                \/ \E fd \in Fd : Accept(c, fd)

(* Nothing is left of a process that an exception or a crash has ended. *)
Next == loop # "ended" /\ (Loop \/ Stop \/ \E c \in Conn : Outside(c))

Spec == Init /\ [][Next]_vars

(* The worker's thread goes on, the acceptor finishes what it has begun, and peers
   read what they are sent.  Nobody has to send, to connect, to close or to stop. *)
Fairness ==
    /\ WF_vars(Loop)
    /\ \A c \in Conn : WF_vars(HandOver(c))
    /\ \A c \in Conn : WF_vars(PeerReads(c))

FairSpec == Spec /\ Fairness

-----------------------------------------------------------------------------
(* What is checked.                                                          *)

Places == {"none", "accepted", "handed", "new", "fetch", "reading", "decode", "flush",
           "writing", "ended", "gone"}

(* Every variable holds a value of its type. *)
TypeOK ==
    /\ PollerTypeOK
    /\ sock \in [Fd -> Conn \cup {None}]
    /\ arrived \in [Conn -> Nat] /\ fin \in [Conn -> BOOLEAN] /\ room \in [Conn -> BOOLEAN]
    /\ sent \in [Conn -> 0..(2 * MaxRequests)] /\ answered \in [Conn -> Nat]
    /\ conns \in [Fd -> Conn \cup {None}] /\ fdOf \in [Conn -> Fd \cup {None}]
    /\ at \in [Conn -> Places] /\ buffered \in [Conn -> Nat]
    /\ deferred \in Seq([does : {"establish", "start", "close", "clean"}, conn : Conn])
    /\ loop \in {"wait", "batch", "drain", "cleanup", "off", "ended"}
    /\ batch \in Seq(Pointer)
    /\ cur \in Conn \cup {None} /\ closing \in Conn \cup {None}
    /\ stopped \in BOOLEAN
    /\ asked \subseteq Conn /\ closedTwice \subseteq Conn /\ reused \in BOOLEAN
    /\ raised \in {"nothing", "crash", "register twice", "close error", "not exist"}

(* The invariants that follow end where accept4 has given the number of a descriptor
   to a new connection before the Close task that closed it has resumed the coroutine
   (reused, TcpConnection.cpp:32-37): the two connections then share an entry of the
   poller.  NoDoubleRegistration is about what comes of that. *)

(* The poller and the coroutines agree (Poller.cpp:39-91 and IOBase, Hook.cpp:148-171):
   whoever is registered waits for just that in IOBase, alone on its descriptor and
   on its own socket, and whoever waits there is registered, so that it will be
   resumed; except the one that is being resumed because its descriptor was closed. *)
WaitersAgree ==
    ~reused =>
        /\ \A fd \in Fd :
              /\ onRead[fd] # None => at[onRead[fd]] = "reading" /\ fdOf[onRead[fd]] = fd
              /\ onWrite[fd] # None => at[onWrite[fd]] = "writing" /\ fdOf[onWrite[fd]] = fd
              /\ Registered(fd) => sock[fd] = GetCallBack(fd)
        /\ \A c \in Conn \ {cur} :
              /\ at[c] = "reading" => onRead[fdOf[c]] = c
              /\ at[c] = "writing" => onWrite[fdOf[c]] = c

(* A coroutine is resumed only between its start and its end: what a pointer of the
   batch (Scheduler.cpp:145-156), a task or the clean-up leads to has neither run
   into Terminal nor been destroyed (TcpConnection.cpp:18-22, 37-38, 43); but for a
   connection with a second task to close it, by the task of Close. *)
NoneResumedAfterEnd ==
    ~reused /\ cur # None =>
        \/ at[cur] \notin {"none", "accepted", "handed", "ended", "gone"}
        \/ at[cur] = "ended" /\ cur \in closedTwice /\ closing = cur

(* No exception ends the worker: no descriptor is registered twice, every CleanConnection
   finds its connection and every close succeeds (Poller.h:41-50, TcpSever.cpp:41-45,
   TcpConnection.cpp:32-35, 78-81).  Two tasks that close one connection crash the process
   before one of them throws; and nothing else crashes it. *)
NothingRaised ==
    ~reused => raised = "nothing" \/ (raised = "crash" /\ closedTwice # {})

(* m_connections_ and the descriptor table agree whenever the worker is about to
   wait (TcpSever.cpp:39-47, 81-85): a connection that is kept has its descriptor,
   and an open descriptor has its connection unless it is still being handed over. *)
OpenIffKept ==
    ~reused /\ loop = "wait" =>
        \A fd \in Fd :
            /\ conns[fd] # None => sock[fd] = conns[fd]
            /\ sock[fd] # None =>
                  \/ conns[fd] = sock[fd]
                  \/ at[sock[fd]] \in {"accepted", "handed"}

(* When Start has returned no coroutine is left waiting (Scheduler.cpp:171-188). *)
StopEndsWaiters ==
    ~reused /\ loop = "off" => \A c \in Conn : at[c] \notin {"reading", "writing"}

(* RegisterRead and RegisterWrite throw when the descriptor has a waiter already:
   "register read twice!", Poller.h:48-49 and 62-63. *)
NoDoubleRegistration == raised # "register twice"

(* The coroutine that the task of Close resumes is one that waits in readv or writev,
   where it finds its descriptor closed, and ends: "local close", TcpConnection.cpp:84-87. *)
LocalCloseFindsWaiter ==
    closing # None /\ cur = closing => at[cur] \in {"reading", "writing", "fetch"}

(* Every complete request is answered (TcpConnection.cpp:46-67), even if the peer has
   ended its stream right behind it, unless somebody closes the connection here, the
   worker is stopped or the process dies. *)
EveryRequestAnswered ==
    \A c \in Conn : answered[c] < sent[c] \div 2 ~>
                        \/ answered[c] = sent[c] \div 2 \/ c \in asked
                        \/ stopped \/ loop = "ended" \/ reused

(* A connection that either side has closed is destroyed and its descriptor free
   again (TcpConnection.cpp:30-40, 69-84), unless the worker is stopped or the process
   dies. *)
EveryConnectionEnds ==
    \A c \in Conn : fin[c] \/ c \in asked ~>
                        \/ at[c] = "gone" /\ ~Connected(c)
                        \/ stopped \/ loop = "ended" \/ reused

=============================================================================
