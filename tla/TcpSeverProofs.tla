--------------------------- MODULE TcpSeverProofs ---------------------------
(***************************************************************************)
(* Proofs about TcpSever, for any number of workers, connections, failed   *)
(* attempts and calls of Stop.                                             *)
(***************************************************************************)
EXTENDS TcpSever, SequenceTheorems, TLAPS

(* The inductive invariant.  Workers run from the handshake of Start to the Stop that
   closes the listener, and have all ended after it. *)

Running == {"enter", "wait", "drain", "test"}
Alive   == Running \cup {"leave"}

InLoop  == {"wait", "accepting", "drain", "off"}

EachWorker ==
    \A w \in Worker :
        /\ published[w] <=> pc[w] \in Alive
        /\ asleep[w] => /\ owner = w
                        /\ \/ main = "awaiting" /\ ~published[w]
                           \/ main = "joining" /\ published[w]
        /\ stop[w] /\ listener # "closed" => pc[w] \in {"none", "made", "enter"}
        /\ pc[w] = "leave" => listener = "closed"

AtStart ==
    main \in {"made", "starting", "awaiting"} =>
        /\ listener = "made" /\ (main = "made" => owner = 0)
        /\ \A w \in Worker :
              /\ w > owner => pc[w] = "none"
              /\ w = owner => IF main = "awaiting" THEN pc[w] \in Running \cup {"made"}
                                                  ELSE pc[w] = "none"
              /\ w < owner => pc[w] \in Running

InTheLoop ==
    main \in InLoop =>
        \A w \in Worker : IF listener = "closed" THEN pc[w] = "ended" ELSE pc[w] \in Running

AtStop ==
    main \in {"stopping", "joining"} =>
        /\ listener = "closed"
        /\ \A w \in Worker : /\ w < owner => pc[w] = "ended"
                             /\ w >= owner => pc[w] \in Alive \cup {"ended"}

WorkersFollow == EachWorker /\ AtStart /\ InTheLoop /\ AtStop

(* The acceptor's coroutine sleeps in accept4 or has ended whenever the loop does
   something else; after the listener is closed a task is queued that resumes it. *)
HasSwapIn(queue) == \E i \in 1..Len(queue) : queue[i] = "SwapIn"

AcceptorFollows ==
    /\ main \notin {"accepting", "broken"} => acceptor # "try"
    /\ listener # "listening" => ~registered
    /\ registered /\ acceptor = "try" => failures > 0
    /\ main \in InLoop /\ stopFlag => listener = "closed"
    /\ fate = "fine" /\ listener = "closed" /\ acceptor # "ended" =>
           main = "accepting" \/ HasSwapIn(deferred)
    /\ main = "wait" /\ stopFlag => acceptor = "ended"
    /\ main = "off" => stopFlag /\ acceptor = "ended"
    /\ main = "broken" => fate # "fine"

(* With one Stop, after Start and a bind that succeeded, the acceptor is resumed by a
   task twice: to begin, and to end. *)
Ordinary == stops <= 1 /\ mishaps \cap {"stopped before Start", "no address"} = {}

NotStarted ==
    /\ main = "made" /\ deferred = <<>> /\ stops = 0
    /\ acceptor = "made" /\ listener = "made"
ToBegin ==
    /\ main \in {"starting", "awaiting", "wait", "drain"}
    /\ acceptor = "made" /\ listener = "made"
    /\ \/ deferred = <<"SwapIn">> /\ stops = 0
       \/ deferred = <<"SwapIn", "Stop">> /\ stops = 1
Serving ==
    /\ main \in {"wait", "accepting", "drain"} /\ listener # "closed"
    /\ acceptor # "ended" /\ (acceptor = "made" => main = "accepting" /\ listener = "made")
    /\ \/ deferred = <<>> /\ stops = 0
       \/ deferred = <<"Stop">> /\ stops = 1
ToEnd ==
    /\ main \in {"stopping", "joining", "drain"}
    /\ deferred = <<"SwapIn">> /\ stops = 1
    /\ listener = "closed" /\ acceptor = "retry"
AllDone ==
    /\ main \in {"accepting", "drain", "wait", "off"}
    /\ deferred = <<>> /\ stops = 1
    /\ listener = "closed" /\ acceptor \in {"retry", "ended"}

SwapInsCounted ==
    Ordinary /\ fate = "fine" =>
        ~timer /\ (NotStarted \/ ToBegin \/ Serving \/ ToEnd \/ AllDone)

SeverInv ==
    SeverTypeOK /\ WorkersFollow /\ AcceptorFollows /\ SwapInsCounted /\ BreaksOnlyWhen

-----------------------------------------------------------------------------
(* The number of workers never changes (Scheduler.cpp:211-215). *)
LEMMA SizeFixed == [Next]_vars => size' = size /\ Worker' = Worker
  BY DEF Next, Main, WorkerThread, vars, Worker, Connect, CallStop, Start,
         SpawnWorker, AwaitPublished, EnterLoop, ResumeAcceptor, WakeForTasks, Drained,
         SwapInTask, CleanUp, StopTask, StopTimer, StopWorker, AwaitWithdrawn,
         StopItself, BindAndListen, BindFails, AcceptWaits, AcceptSucceeds,
         AcceptFails, AcceptEnds, Publish, WorkerEnters, WorkerWakes, Establish,
         WorkerDrained, WorkerTests, Withdraw, BeginStop, Breaks, CloseAcceptor,
         DoneWaiting, Goes, HandOver, In, NextIndex, Remember, Sleep, Wake, Yields

(* Type correctness is preserved by every step. *)
LEMMA TypeStep == SeverTypeOK /\ [Next]_vars => SeverTypeOK'
<1> SUFFICES ASSUME SeverTypeOK, [Next]_vars PROVE SeverTypeOK'
  OBVIOUS
<1> DEFINE HistoryTypeOK == /\ size \in Sizes /\ fate \in Fates
                            /\ stops \in Nat /\ mishaps \subseteq Mishaps
<1>type. ThreadTypeOK /\ AcceptTypeOK /\ WorkersTypeOK /\ HistoryTypeOK /\ size \in Nat
  BY SeverConstants DEF SeverTypeOK
<1>size. size' = size /\ Worker' = Worker
  BY SizeFixed
<1>split. ASSUME ThreadTypeOK', AcceptTypeOK', WorkersTypeOK', HistoryTypeOK'
        PROVE  SeverTypeOK'
  BY <1>split DEF SeverTypeOK
<1>owner. main \in {"awaiting", "joining"} => owner + 1 \in 0..size
  BY <1>type DEF ThreadTypeOK
<1>index. size # 0 => NextIndex \in Worker
  BY <1>type DEF NextIndex, Worker, AcceptTypeOK
<1>thread. UNCHANGED <<size, thread>> => ThreadTypeOK'
  BY <1>type, <1>size DEF ThreadTypeOK, thread
<1>accept. UNCHANGED <<size, accept>> => AcceptTypeOK'
  BY <1>type, <1>size DEF AcceptTypeOK, accept
<1>workers. UNCHANGED <<size, workers>> => WorkersTypeOK'
  BY <1>type, <1>size DEF WorkersTypeOK, workers
<1>history. UNCHANGED <<size, fate, history>> => HistoryTypeOK'
  BY <1>type, <1>size DEF history
<1>0. CASE UNCHANGED vars
  BY <1>0, <1>split, <1>thread, <1>accept, <1>workers, <1>history DEF vars
<1>1. CASE Connect
  <2>1. ThreadTypeOK' /\ WorkersTypeOK' /\ HistoryTypeOK'
    BY <1>1, <1>thread, <1>workers, <1>history DEF Connect
  <2>2. AcceptTypeOK'
    BY <1>1, <1>type, <1>size DEF Connect, AcceptTypeOK
  <2> QED BY <2>1, <2>2, <1>split
<1>2. CASE CallStop
  <2>1. AcceptTypeOK' /\ WorkersTypeOK'
    BY <1>2, <1>accept, <1>workers DEF CallStop, Remember
  <2>2. ThreadTypeOK'
    <3>1. deferred' = Append(deferred, "Stop")
      BY <1>2 DEF CallStop
    <3>2. deferred' \in Seq({"SwapIn", "Stop"})
      BY <3>1, <1>type DEF ThreadTypeOK
    <3> QED BY <3>2, <1>2, <1>type, <1>size DEF CallStop, ThreadTypeOK
  <2>3. HistoryTypeOK'
    <3>1. mishaps' \subseteq Mishaps
      BY <1>2, <1>type DEF CallStop, Remember, Mishaps
    <3>2. stops' = stops + 1 /\ fate' = fate
      BY <1>2 DEF CallStop
    <3> QED BY <3>1, <3>2, <1>type, <1>size
  <2> QED BY <2>1, <2>2, <2>3, <1>split
<1>3. CASE Start
  <2>1. AcceptTypeOK' /\ WorkersTypeOK' /\ HistoryTypeOK'
    BY <1>3, <1>accept, <1>workers, <1>history DEF Start
  <2>2. ThreadTypeOK'
    BY <1>3, <1>type, <1>size DEF Start, ThreadTypeOK
  <2> QED BY <2>1, <2>2, <1>split
<1>4. CASE SpawnWorker
  <2>1. AcceptTypeOK' /\ HistoryTypeOK'
    BY <1>4, <1>accept, <1>history DEF SpawnWorker
  <2>2. ThreadTypeOK'
    BY <1>4, <1>type, <1>size DEF SpawnWorker, ThreadTypeOK
  <2>3. WorkersTypeOK'
    BY <1>4, <1>type, <1>size DEF SpawnWorker, WorkersTypeOK
  <2> QED BY <2>1, <2>2, <2>3, <1>split
<1>5. CASE AwaitPublished
  <2>1. AcceptTypeOK' /\ HistoryTypeOK'
    BY <1>5, <1>accept, <1>history DEF AwaitPublished, Sleep
  <2>2. ThreadTypeOK'
    <3>1. owner' \in 0..size
      BY <1>5, <1>type, <1>owner DEF AwaitPublished, ThreadTypeOK
    <3> QED BY <3>1, <1>5, <1>type, <1>size DEF AwaitPublished, ThreadTypeOK
  <2>3. WorkersTypeOK'
    BY <1>5, <1>type, <1>size DEF AwaitPublished, Sleep, WorkersTypeOK
  <2> QED BY <2>1, <2>2, <2>3, <1>split
<1>6. CASE EnterLoop
  <2>1. AcceptTypeOK' /\ WorkersTypeOK' /\ HistoryTypeOK'
    BY <1>6, <1>accept, <1>workers, <1>history DEF EnterLoop
  <2>2. ThreadTypeOK'
    BY <1>6, <1>type, <1>size DEF EnterLoop, ThreadTypeOK
  <2> QED BY <2>1, <2>2, <1>split
<1>7. CASE ResumeAcceptor
  <2>1. AcceptTypeOK' /\ WorkersTypeOK' /\ HistoryTypeOK'
    BY <1>7, <1>accept, <1>workers, <1>history DEF ResumeAcceptor
  <2>2. ThreadTypeOK'
    BY <1>7, <1>type, <1>size DEF ResumeAcceptor, ThreadTypeOK
  <2> QED BY <2>1, <2>2, <1>split
<1>8. CASE WakeForTasks
  <2>1. AcceptTypeOK' /\ WorkersTypeOK' /\ HistoryTypeOK'
    BY <1>8, <1>accept, <1>workers, <1>history DEF WakeForTasks
  <2>2. ThreadTypeOK'
    BY <1>8, <1>type, <1>size DEF WakeForTasks, ThreadTypeOK
  <2> QED BY <2>1, <2>2, <1>split
<1>9. CASE Drained
  <2>1. AcceptTypeOK' /\ WorkersTypeOK' /\ HistoryTypeOK'
    BY <1>9, <1>accept, <1>workers, <1>history DEF Drained
  <2>2. ThreadTypeOK'
    BY <1>9, <1>type, <1>size DEF Drained, ThreadTypeOK
  <2> QED BY <2>1, <2>2, <1>split
<1>10. CASE SwapInTask
  <2>1. AcceptTypeOK' /\ WorkersTypeOK'
    BY <1>10, <1>accept, <1>workers DEF SwapInTask, Breaks
  <2>2. ThreadTypeOK'
    <3>0. deferred # <<>> /\ deferred' = Tail(deferred)
      BY <1>10 DEF SwapInTask
    <3>1. deferred' \in Seq({"SwapIn", "Stop"})
      BY <3>0, <1>type DEF ThreadTypeOK
    <3>2. main' \in {"accepting", "broken"}
      BY <1>10 DEF SwapInTask
    <3> QED BY <3>1, <3>2, <1>10, <1>type, <1>size DEF SwapInTask, ThreadTypeOK
  <2>3. HistoryTypeOK'
    <3>1. fate' \in Fates
      BY <1>10, <1>type DEF SwapInTask, Breaks, Fates
    <3> QED BY <3>1, <1>10, <1>type, <1>size DEF SwapInTask, history
  <2> QED BY <2>1, <2>2, <2>3, <1>split
<1>11. CASE CleanUp
  <2>1. AcceptTypeOK' /\ WorkersTypeOK' /\ HistoryTypeOK'
    BY <1>11, <1>accept, <1>workers, <1>history DEF CleanUp
  <2>2. ThreadTypeOK'
    BY <1>11, <1>type, <1>size DEF CleanUp, ThreadTypeOK
  <2> QED BY <2>1, <2>2, <1>split
<1>12. CASE StopTask
  <2>1. WorkersTypeOK' /\ HistoryTypeOK'
    BY <1>12, <1>workers, <1>history DEF StopTask, BeginStop, CloseAcceptor
  <2>2. ThreadTypeOK'
    BY <1>12, <1>type, <1>size DEF StopTask, BeginStop, CloseAcceptor, ThreadTypeOK
  <2>3. AcceptTypeOK'
    BY <1>12, <1>type, <1>size DEF StopTask, BeginStop, CloseAcceptor, AcceptTypeOK
  <2> QED BY <2>1, <2>2, <2>3, <1>split
<1>13. CASE StopTimer
  <2>1. WorkersTypeOK' /\ HistoryTypeOK'
    BY <1>13, <1>workers, <1>history DEF StopTimer, BeginStop, CloseAcceptor
  <2>2. ThreadTypeOK'
    <3>0. deferred' = Append(deferred, "SwapIn")
      BY <1>13 DEF StopTimer, BeginStop, CloseAcceptor
    <3>1. deferred' \in Seq({"SwapIn", "Stop"})
      BY <3>0, <1>type DEF ThreadTypeOK
    <3>2. main' = "stopping" /\ owner' = 0 /\ timer' \in BOOLEAN /\ stopFlag' \in BOOLEAN
      BY <1>13, <1>type DEF StopTimer, BeginStop, ThreadTypeOK
    <3> QED BY <3>1, <3>2, <1>type, <1>size DEF ThreadTypeOK
  <2>3. AcceptTypeOK'
    BY <1>13, <1>type, <1>size DEF StopTimer, BeginStop, CloseAcceptor, AcceptTypeOK
  <2> QED BY <2>1, <2>2, <2>3, <1>split
<1>14. CASE StopWorker
  <2>1. AcceptTypeOK'
    BY <1>14, <1>accept DEF StopWorker, Remember
  <2>2. ThreadTypeOK'
    <3>0. owner < size /\ owner' \in {owner, owner + 1}
      BY <1>14 DEF StopWorker
    <3>1. owner' \in 0..size
      BY <3>0, <1>type DEF ThreadTypeOK
    <3>2. main' \in {"stopping", "joining"}
      BY <1>14 DEF StopWorker
    <3> QED BY <3>1, <3>2, <1>14, <1>type, <1>size DEF StopWorker, ThreadTypeOK
  <2>3. WorkersTypeOK'
    BY <1>14, <1>type, <1>size DEF StopWorker, Remember, WorkersTypeOK
  <2>4. HistoryTypeOK'
    BY <1>14, <1>type, <1>size DEF StopWorker, Remember, Mishaps
  <2> QED BY <2>1, <2>2, <2>3, <2>4, <1>split
<1>15. CASE AwaitWithdrawn
  <2>1. AcceptTypeOK' /\ HistoryTypeOK'
    BY <1>15, <1>accept, <1>history DEF AwaitWithdrawn, Sleep
  <2>2. ThreadTypeOK'
    <3>1. owner' \in 0..size
      BY <1>15, <1>type, <1>owner DEF AwaitWithdrawn, ThreadTypeOK
    <3> QED BY <3>1, <1>15, <1>type, <1>size DEF AwaitWithdrawn, ThreadTypeOK
  <2>3. WorkersTypeOK'
    BY <1>15, <1>type, <1>size DEF AwaitWithdrawn, Sleep, WorkersTypeOK
  <2> QED BY <2>1, <2>2, <2>3, <1>split
<1>16. CASE StopItself
  <2>1. AcceptTypeOK' /\ WorkersTypeOK' /\ HistoryTypeOK'
    BY <1>16, <1>accept, <1>workers, <1>history DEF StopItself
  <2>2. ThreadTypeOK'
    BY <1>16, <1>type, <1>size DEF StopItself, ThreadTypeOK
  <2> QED BY <2>1, <2>2, <1>split
<1>17. CASE BindAndListen
  <2>1. ThreadTypeOK' /\ WorkersTypeOK' /\ HistoryTypeOK'
    BY <1>17, <1>thread, <1>workers, <1>history DEF BindAndListen, In
  <2>2. AcceptTypeOK'
    BY <1>17, <1>type, <1>size DEF BindAndListen, In, AcceptTypeOK
  <2> QED BY <2>1, <2>2, <1>split
<1>18. CASE BindFails
  <2>1. WorkersTypeOK'
    BY <1>18, <1>workers DEF BindFails, In, Yields, Remember
  <2>2. ThreadTypeOK'
    BY <1>18, <1>type, <1>size DEF BindFails, In, Yields, Remember, ThreadTypeOK
  <2>3. AcceptTypeOK'
    BY <1>18, <1>type, <1>size DEF BindFails, In, Yields, Remember, AcceptTypeOK
  <2>4. HistoryTypeOK'
    BY <1>18, <1>type, <1>size DEF BindFails, In, Yields, Remember, Mishaps
  <2> QED BY <2>1, <2>2, <2>3, <2>4, <1>split
<1>19. CASE AcceptWaits
  <2>1. WorkersTypeOK'
    BY <1>19, <1>workers DEF AcceptWaits, In, Yields, Breaks
  <2>2. ThreadTypeOK'
    BY <1>19, <1>type, <1>size DEF AcceptWaits, In, Yields, Breaks, ThreadTypeOK
  <2>3. AcceptTypeOK'
    BY <1>19, <1>type, <1>size DEF AcceptWaits, In, Yields, Breaks, AcceptTypeOK
  <2>4. HistoryTypeOK'
    <3>1. fate' \in Fates
      BY <1>19, <1>type DEF AcceptWaits, Breaks, Fates
    <3> QED BY <3>1, <1>19, <1>type, <1>size DEF AcceptWaits, history
  <2> QED BY <2>1, <2>2, <2>3, <2>4, <1>split
<1>20. CASE AcceptSucceeds
  <2>1. ThreadTypeOK'
    BY <1>20, <1>type, <1>size
       DEF AcceptSucceeds, In, DoneWaiting, HandOver, Yields, Breaks, NextIndex,
           ThreadTypeOK
  <2>2. AcceptTypeOK'
    <3>1. index' = 0 \/ index' \in Worker
      BY <1>20, <1>type, <1>index DEF AcceptSucceeds, HandOver, AcceptTypeOK
    <3>2. backlog' \in Nat /\ came' \in Nat /\ backlog' <= came' /\ failures' \in Nat
      BY <1>20, <1>type DEF AcceptSucceeds, AcceptTypeOK
    <3>3. acceptor' \in {"made", "try", "retry", "ended"}
      BY <1>20, <1>type DEF AcceptSucceeds, HandOver, Yields, AcceptTypeOK
    <3>4. registered' \in BOOLEAN
      BY <1>20, <1>type DEF AcceptSucceeds, DoneWaiting, AcceptTypeOK
    <3> QED BY <3>1, <3>2, <3>3, <3>4, <1>20, <1>type, <1>size
       DEF AcceptSucceeds, AcceptTypeOK
  <2>3. WorkersTypeOK'
    <3>0. \/ tasks' = tasks
          \/ size # 0 /\ tasks' = [tasks EXCEPT ![NextIndex] = @ + 1]
      BY <1>20 DEF AcceptSucceeds, HandOver
    <3>1. tasks' \in [Worker -> Nat]
      BY <3>0, <1>type, <1>index DEF WorkersTypeOK
    <3> QED BY <3>1, <1>20, <1>type, <1>size DEF AcceptSucceeds, WorkersTypeOK
  <2>4. HistoryTypeOK'
    <3>1. fate' \in Fates
      BY <1>20, <1>type DEF AcceptSucceeds, HandOver, Breaks, Fates
    <3> QED BY <3>1, <1>20, <1>type, <1>size DEF AcceptSucceeds, history
  <2> QED BY <2>1, <2>2, <2>3, <2>4, <1>split
<1>21. CASE AcceptFails
  <2>1. ThreadTypeOK' /\ WorkersTypeOK' /\ HistoryTypeOK'
    BY <1>21, <1>thread, <1>workers, <1>history DEF AcceptFails, In
  <2>2. AcceptTypeOK'
    BY <1>21, <1>type, <1>size DEF AcceptFails, In, AcceptTypeOK
  <2> QED BY <2>1, <2>2, <1>split
<1>22. CASE AcceptEnds
  <2>1. WorkersTypeOK' /\ HistoryTypeOK'
    BY <1>22, <1>workers, <1>history DEF AcceptEnds, In, Yields
  <2>2. ThreadTypeOK'
    BY <1>22, <1>type, <1>size DEF AcceptEnds, In, Yields, ThreadTypeOK
  <2>3. AcceptTypeOK'
    BY <1>22, <1>type, <1>size DEF AcceptEnds, In, Yields, AcceptTypeOK
  <2> QED BY <2>1, <2>2, <2>3, <1>split
<1>23. ASSUME NEW w \in Worker, Publish(w) PROVE SeverTypeOK'
  <2>1. ThreadTypeOK' /\ AcceptTypeOK' /\ HistoryTypeOK'
    BY <1>23, <1>thread, <1>accept, <1>history DEF Publish, Goes, Wake
  <2>2. WorkersTypeOK'
    BY <1>23, <1>type, <1>size DEF Publish, Goes, Wake, WorkersTypeOK
  <2> QED BY <2>1, <2>2, <1>split
<1>24. ASSUME NEW w \in Worker, WorkerEnters(w) PROVE SeverTypeOK'
  <2>1. ThreadTypeOK' /\ AcceptTypeOK' /\ HistoryTypeOK'
    BY <1>24, <1>thread, <1>accept, <1>history DEF WorkerEnters, Goes
  <2>2. WorkersTypeOK'
    BY <1>24, <1>type, <1>size DEF WorkerEnters, Goes, WorkersTypeOK
  <2> QED BY <2>1, <2>2, <1>split
<1>25. ASSUME NEW w \in Worker, WorkerWakes(w) PROVE SeverTypeOK'
  <2>1. ThreadTypeOK' /\ AcceptTypeOK' /\ HistoryTypeOK'
    BY <1>25, <1>thread, <1>accept, <1>history DEF WorkerWakes, Goes
  <2>2. WorkersTypeOK'
    BY <1>25, <1>type, <1>size DEF WorkerWakes, Goes, WorkersTypeOK
  <2> QED BY <2>1, <2>2, <1>split
<1>26. ASSUME NEW w \in Worker, Establish(w) PROVE SeverTypeOK'
  <2>1. ThreadTypeOK' /\ AcceptTypeOK' /\ HistoryTypeOK'
    BY <1>26, <1>thread, <1>accept, <1>history DEF Establish
  <2>2. WorkersTypeOK'
    BY <1>26, <1>type, <1>size DEF Establish, WorkersTypeOK
  <2> QED BY <2>1, <2>2, <1>split
<1>27. ASSUME NEW w \in Worker, WorkerDrained(w) PROVE SeverTypeOK'
  <2>1. ThreadTypeOK' /\ AcceptTypeOK' /\ HistoryTypeOK'
    BY <1>27, <1>thread, <1>accept, <1>history DEF WorkerDrained, Goes
  <2>2. WorkersTypeOK'
    BY <1>27, <1>type, <1>size DEF WorkerDrained, Goes, WorkersTypeOK
  <2> QED BY <2>1, <2>2, <1>split
<1>28. ASSUME NEW w \in Worker, WorkerTests(w) PROVE SeverTypeOK'
  <2>1. ThreadTypeOK' /\ AcceptTypeOK' /\ HistoryTypeOK'
    BY <1>28, <1>thread, <1>accept, <1>history DEF WorkerTests, Goes
  <2>2. WorkersTypeOK'
    BY <1>28, <1>type, <1>size DEF WorkerTests, Goes, WorkersTypeOK
  <2> QED BY <2>1, <2>2, <1>split
<1>29. ASSUME NEW w \in Worker, Withdraw(w) PROVE SeverTypeOK'
  <2>1. ThreadTypeOK' /\ AcceptTypeOK' /\ HistoryTypeOK'
    BY <1>29, <1>thread, <1>accept, <1>history DEF Withdraw, Goes, Wake
  <2>2. WorkersTypeOK'
    BY <1>29, <1>type, <1>size DEF Withdraw, Goes, Wake, WorkersTypeOK
  <2> QED BY <2>1, <2>2, <1>split
<1> QED BY <1>0, <1>1, <1>2, <1>3, <1>4, <1>5, <1>6, <1>7, <1>8, <1>9, <1>10, <1>11, <1>12,
           <1>13, <1>14, <1>15, <1>16, <1>17, <1>18, <1>19, <1>20, <1>21, <1>22, <1>23,
           <1>24, <1>25, <1>26, <1>27, <1>28, <1>29
   DEF Next, Main, WorkerThread

(* Workers follow their owner through Start, the loop and Stop. *)
LEMMA WorkersStep ==
    SeverTypeOK /\ WorkersFollow /\ AcceptorFollows /\ Next => WorkersFollow'
<1> SUFFICES ASSUME SeverTypeOK, WorkersFollow, AcceptorFollows, Next PROVE WorkersFollow'
  OBVIOUS
<1>size. size' = size /\ Worker' = Worker
  BY SizeFixed
<1>inv. EachWorker /\ AtStart /\ InTheLoop /\ AtStop
  BY DEF WorkersFollow
<1>type. /\ WorkersTypeOK /\ owner \in 0..size /\ size \in Nat
         /\ \A w \in Worker : w \in 0..(size - 1)
  BY SeverConstants DEF SeverTypeOK, ThreadTypeOK, Worker
<1>split. ASSUME EachWorker', AtStart', InTheLoop', AtStop' PROVE WorkersFollow'
  BY <1>split DEF WorkersFollow
<1> USE DEF WorkersFollow, EachWorker, AtStart, InTheLoop, AtStop, Alive, Running, InLoop
<1>1. CASE Connect
  BY <1>1, <1>inv, <1>type, <1>size DEF Connect, thread, accept, workers, WorkersTypeOK
<1>2. CASE CallStop
  BY <1>2, <1>inv, <1>type, <1>size
     DEF CallStop, Remember, thread, accept, workers, WorkersTypeOK
<1>3. CASE Start
  BY <1>3, <1>inv, <1>type, <1>size DEF Start, thread, accept, workers, WorkersTypeOK
<1>4. CASE SpawnWorker
  BY <1>4, <1>inv, <1>type, <1>size DEF SpawnWorker, thread, accept, workers, WorkersTypeOK
<1>5. CASE AwaitPublished
  BY <1>5, <1>inv, <1>type, <1>size
     DEF AwaitPublished, Sleep, thread, accept, workers, WorkersTypeOK
<1>6. CASE EnterLoop
  BY <1>6, <1>inv, <1>type, <1>size DEF EnterLoop, thread, accept, workers, WorkersTypeOK
<1>7. CASE ResumeAcceptor
  BY <1>7, <1>inv, <1>type, <1>size
     DEF ResumeAcceptor, thread, accept, workers, WorkersTypeOK
<1>8. CASE WakeForTasks
  BY <1>8, <1>inv, <1>type, <1>size DEF WakeForTasks, thread, accept, workers, WorkersTypeOK
<1>9. CASE Drained
  BY <1>9, <1>inv, <1>type, <1>size DEF Drained, thread, accept, workers, WorkersTypeOK
<1>10. CASE SwapInTask
  BY <1>10, <1>inv, <1>type, <1>size
     DEF SwapInTask, Breaks, thread, accept, workers, WorkersTypeOK
<1>11. CASE CleanUp
  BY <1>11, <1>inv, <1>type, <1>size DEF CleanUp, thread, accept, workers, WorkersTypeOK
<1>12. CASE StopTask
  BY <1>12, <1>inv, <1>type, <1>size
     DEF StopTask, BeginStop, CloseAcceptor, thread, accept, workers, WorkersTypeOK
<1>13. CASE StopTimer
  BY <1>13, <1>inv, <1>type, <1>size
     DEF StopTimer, BeginStop, CloseAcceptor, thread, accept, workers,
         WorkersTypeOK
<1>14. CASE StopWorker
  <2>1. EachWorker' /\ AtStart' /\ InTheLoop' /\ (AtStop /\ owner' = owner => AtStop')
    BY <1>14, <1>inv, <1>type, <1>size
       DEF StopWorker, Remember, thread, accept, workers, WorkersTypeOK
  <2>2. CASE owner' # owner
    <3>0. owner < size /\ ~published[owner] /\ owner' = owner + 1
      BY <2>2, <1>14 DEF StopWorker
    <3>1. owner \in Worker /\ ~published[owner] /\ owner' = owner + 1
      BY <3>0, <1>type DEF Worker
    <3>2. pc[owner] = "ended" /\ pc' = pc /\ listener' = listener /\ listener = "closed"
      BY <3>1, <1>14, <1>inv, <1>type DEF StopWorker, accept
    <3>3. \A w \in Worker : w < owner' => w < owner \/ w = owner
      BY <3>1, <1>type
    <3>4. AtStop'
      BY <3>1, <3>2, <3>3, <1>14, <1>inv, <1>type, <1>size DEF StopWorker
    <3> QED BY <2>1, <3>4
  <2> QED BY <2>1, <2>2, <1>inv
<1>15. CASE AwaitWithdrawn
  BY <1>15, <1>inv, <1>type, <1>size
     DEF AwaitWithdrawn, Sleep, thread, accept, workers, WorkersTypeOK
<1>16. CASE StopItself
  BY <1>16, <1>inv, <1>type, <1>size DEF StopItself, thread, accept, workers, WorkersTypeOK
<1>17. CASE BindAndListen
  BY <1>17, <1>inv, <1>type, <1>size
     DEF BindAndListen, In, thread, accept, workers, WorkersTypeOK
<1>18. CASE BindFails
  BY <1>18, <1>inv, <1>type, <1>size
     DEF BindFails, In, Yields, Remember, thread, accept, workers, WorkersTypeOK
<1>19. CASE AcceptWaits
  BY <1>19, <1>inv, <1>type, <1>size
     DEF AcceptWaits, In, Yields, Breaks, thread, accept, workers, WorkersTypeOK
<1>20. CASE AcceptSucceeds
  BY <1>20, <1>inv, <1>type, <1>size
     DEF AcceptSucceeds, In, DoneWaiting, HandOver, Yields, Breaks, NextIndex,
         thread, accept, workers, WorkersTypeOK
<1>21. CASE AcceptFails
  BY <1>21, <1>inv, <1>type, <1>size
     DEF AcceptFails, In, thread, accept, workers, WorkersTypeOK
<1>22. CASE AcceptEnds
  BY <1>22, <1>inv, <1>type, <1>size
     DEF AcceptEnds, In, Yields, thread, accept, workers, WorkersTypeOK
<1>23. ASSUME NEW w \in Worker, Publish(w) PROVE WorkersFollow'
  BY <1>23, <1>inv, <1>type, <1>size
     DEF Publish, Goes, Wake, thread, accept, workers, WorkersTypeOK
<1>24. ASSUME NEW w \in Worker, WorkerEnters(w) PROVE WorkersFollow'
  BY <1>24, <1>inv, <1>type, <1>size
     DEF WorkerEnters, Goes, thread, accept, workers, WorkersTypeOK
<1>25. ASSUME NEW w \in Worker, WorkerWakes(w) PROVE WorkersFollow'
  BY <1>25, <1>inv, <1>type, <1>size
     DEF WorkerWakes, Goes, thread, accept, workers, WorkersTypeOK
<1>26. ASSUME NEW w \in Worker, Establish(w) PROVE WorkersFollow'
  BY <1>26, <1>inv, <1>type, <1>size DEF Establish, thread, accept, workers, WorkersTypeOK
<1>27. ASSUME NEW w \in Worker, WorkerDrained(w) PROVE WorkersFollow'
  BY <1>27, <1>inv, <1>type, <1>size
     DEF WorkerDrained, Goes, thread, accept, workers, WorkersTypeOK
<1>28. ASSUME NEW w \in Worker, WorkerTests(w) PROVE WorkersFollow'
  BY <1>28, <1>inv, <1>type, <1>size
     DEF WorkerTests, Goes, thread, accept, workers, WorkersTypeOK
<1>29. ASSUME NEW w \in Worker, Withdraw(w) PROVE WorkersFollow'
  BY <1>29, <1>inv, <1>type, <1>size
     DEF Withdraw, Goes, Wake, thread, accept, workers, WorkersTypeOK
<1> QED BY <1>1, <1>2, <1>3, <1>4, <1>5, <1>6, <1>7, <1>8, <1>9, <1>10, <1>11, <1>12, <1>13,
           <1>14, <1>15, <1>16, <1>17, <1>18, <1>19, <1>20, <1>21, <1>22, <1>23, <1>24,
           <1>25, <1>26, <1>27, <1>28, <1>29
   DEF Next, Main, WorkerThread

(* What AddDefer puts into the queue stays there until it is taken. *)
LEMMA QueueLemma ==
    ASSUME NEW S, NEW q \in Seq(S), NEW e \in S
    PROVE  /\ HasSwapIn(q) \/ e = "SwapIn" => HasSwapIn(Append(q, e))
           /\ q = <<>> => ~HasSwapIn(q)
<1>1. CASE HasSwapIn(q)
  <2>1. PICK i \in 1..Len(q) : q[i] = "SwapIn"
    BY <1>1 DEF HasSwapIn
  <2>2. i \in 1..Len(Append(q, e)) /\ Append(q, e)[i] = q[i]
    BY <2>1
  <2> QED BY <2>1, <2>2 DEF HasSwapIn
<1>2. ASSUME e = "SwapIn" PROVE HasSwapIn(Append(q, e))
  <2>1. Len(q) + 1 \in 1..Len(Append(q, e)) /\ Append(q, e)[Len(q) + 1] = e
    OBVIOUS
  <2> QED BY <2>1, <1>2 DEF HasSwapIn
<1>3. q = <<>> => ~HasSwapIn(q)
  BY DEF HasSwapIn
<1> QED BY <1>1, <1>2, <1>3

(* The acceptor follows the loop of its server. *)
LEMMA AcceptorStep ==
    SeverTypeOK /\ WorkersFollow /\ AcceptorFollows /\ Next => AcceptorFollows'
<1> SUFFICES ASSUME SeverTypeOK, WorkersFollow, AcceptorFollows, Next PROVE AcceptorFollows'
  OBVIOUS
<1>type. /\ ThreadTypeOK /\ AcceptTypeOK /\ fate = "fine"
         /\ main \in {"stopping", "joining"} => listener = "closed"
         /\ main \in {"made", "starting", "awaiting"} => listener = "made"
  BY DEF SeverTypeOK, Next, WorkersFollow, AtStart, AtStop
<1>queue. /\ HasSwapIn(deferred) => HasSwapIn(Append(deferred, "Stop"))
          /\ HasSwapIn(Append(deferred, "SwapIn"))
          /\ deferred # <<>> => HasSwapIn(Append(Tail(deferred), "SwapIn"))
          /\ deferred = <<>> => ~HasSwapIn(deferred)
  <2> DEFINE S == {"SwapIn", "Stop"}
  <2>1. deferred \in Seq(S) /\ (deferred # <<>> => Tail(deferred) \in Seq(S))
    BY <1>type DEF ThreadTypeOK
  <2>2. "SwapIn" \in S /\ "Stop" \in S
    OBVIOUS
  <2> HIDE DEF S
  <2>3. /\ HasSwapIn(deferred) => HasSwapIn(Append(deferred, "Stop"))
        /\ deferred = <<>> => ~HasSwapIn(deferred)
    BY <2>1, <2>2, QueueLemma
  <2>4. HasSwapIn(Append(deferred, "SwapIn"))
    BY <2>1, <2>2, QueueLemma
  <2>5. deferred # <<>> => HasSwapIn(Append(Tail(deferred), "SwapIn"))
    BY <2>1, <2>2, QueueLemma
  <2> QED BY <2>3, <2>4, <2>5
<1> USE DEF AcceptorFollows, InLoop
<1>1. CASE Connect
  BY <1>1, <1>type DEF Connect, thread, accept, history, ThreadTypeOK, AcceptTypeOK
<1>2. CASE CallStop
  <2>1. deferred' = Append(deferred, "Stop")
    BY <1>2 DEF CallStop
  <2>2. HasSwapIn(deferred) => HasSwapIn(deferred')
    BY <2>1, <1>queue
  <2> QED BY <2>2, <1>2, <1>type DEF CallStop, Remember, accept
<1>3. CASE Start
  BY <1>3, <1>type DEF Start, thread, accept, history, ThreadTypeOK, AcceptTypeOK
<1>4. CASE SpawnWorker
  BY <1>4, <1>type DEF SpawnWorker, thread, accept, history, ThreadTypeOK, AcceptTypeOK
<1>5. CASE AwaitPublished
  BY <1>5, <1>type
     DEF AwaitPublished, Sleep, thread, accept, history, ThreadTypeOK, AcceptTypeOK
<1>6. CASE EnterLoop
  BY <1>6, <1>type DEF EnterLoop, thread, accept, history, ThreadTypeOK, AcceptTypeOK
<1>7. CASE ResumeAcceptor
  BY <1>7, <1>type DEF ResumeAcceptor, thread, accept, history, ThreadTypeOK, AcceptTypeOK
<1>8. CASE WakeForTasks
  BY <1>8, <1>type DEF WakeForTasks, thread, accept, history, ThreadTypeOK, AcceptTypeOK
<1>9. CASE Drained
  <2>1. ~HasSwapIn(deferred)
    BY <1>9, <1>queue DEF Drained
  <2> QED BY <2>1, <1>9, <1>type DEF Drained, accept
<1>10. CASE SwapInTask
  BY <1>10, <1>type
     DEF SwapInTask, Breaks, thread, accept, history, ThreadTypeOK, AcceptTypeOK
<1>11. CASE CleanUp
  BY <1>11, <1>type DEF CleanUp, thread, accept, history, ThreadTypeOK, AcceptTypeOK
<1>12. CASE StopTask
  <2>1. deferred # <<>> /\ deferred' = Append(Tail(deferred), "SwapIn")
    BY <1>12 DEF StopTask, BeginStop, CloseAcceptor
  <2>2. HasSwapIn(deferred')
    BY <2>1, <1>queue
  <2> QED BY <2>2, <1>12, <1>type
     DEF StopTask, BeginStop, CloseAcceptor, ThreadTypeOK, AcceptTypeOK
<1>13. CASE StopTimer
  <2>1. deferred' = Append(deferred, "SwapIn")
    BY <1>13 DEF StopTimer, BeginStop, CloseAcceptor
  <2>2. HasSwapIn(deferred')
    BY <2>1, <1>queue
  <2> QED BY <2>2, <1>13, <1>type
     DEF StopTimer, BeginStop, CloseAcceptor, ThreadTypeOK, AcceptTypeOK
<1>14. CASE StopWorker
  BY <1>14, <1>type
     DEF StopWorker, Remember, thread, accept, history, ThreadTypeOK, AcceptTypeOK
<1>15. CASE AwaitWithdrawn
  BY <1>15, <1>type
     DEF AwaitWithdrawn, Sleep, thread, accept, history, ThreadTypeOK, AcceptTypeOK
<1>16. CASE StopItself
  BY <1>16, <1>type DEF StopItself, thread, accept, history, ThreadTypeOK, AcceptTypeOK
<1>17. CASE BindAndListen
  BY <1>17, <1>type
     DEF BindAndListen, In, thread, accept, history, ThreadTypeOK, AcceptTypeOK
<1>18. CASE BindFails
  BY <1>18, <1>type
     DEF BindFails, In, Yields, Remember, thread, accept, history, ThreadTypeOK,
         AcceptTypeOK
<1>19. CASE AcceptWaits
  BY <1>19, <1>type
     DEF AcceptWaits, In, Yields, Breaks, thread, accept, history, ThreadTypeOK,
         AcceptTypeOK
<1>20. CASE AcceptSucceeds
  BY <1>20, <1>type
     DEF AcceptSucceeds, In, DoneWaiting, HandOver, Yields, Breaks, NextIndex,
         thread, accept, history, ThreadTypeOK, AcceptTypeOK
<1>21. CASE AcceptFails
  BY <1>21, <1>type DEF AcceptFails, In, thread, accept, history, ThreadTypeOK, AcceptTypeOK
<1>22. CASE AcceptEnds
  BY <1>22, <1>type
     DEF AcceptEnds, In, Yields, thread, accept, history, ThreadTypeOK,
         AcceptTypeOK
<1>23. ASSUME NEW w \in Worker, WorkerThread(w) PROVE AcceptorFollows'
  <2>1. UNCHANGED <<thread, accept, fate, history>>
    BY <1>23
       DEF WorkerThread, Publish, WorkerEnters, WorkerWakes, Establish,
           WorkerDrained, WorkerTests, Withdraw, Goes, Sleep, Wake
  <2> QED BY <2>1, <1>type DEF thread, accept, history, HasSwapIn
<1> QED BY <1>1, <1>2, <1>3, <1>4, <1>5, <1>6, <1>7, <1>8, <1>9, <1>10, <1>11, <1>12, <1>13,
           <1>14, <1>15, <1>16, <1>17, <1>18, <1>19, <1>20, <1>21, <1>22, <1>23
   DEF Next, Main

(* The queues that occur when there is one Stop. *)
LEMMA QueueOfTwo ==
    /\ <<"SwapIn">> # <<>> /\ Head(<<"SwapIn">>) = "SwapIn" /\ Tail(<<"SwapIn">>) = <<>>
    /\ <<"Stop">> # <<>> /\ Head(<<"Stop">>) = "Stop" /\ Tail(<<"Stop">>) = <<>>
    /\ Head(<<"SwapIn", "Stop">>) = "SwapIn" /\ Tail(<<"SwapIn", "Stop">>) = <<"Stop">>
    /\ Append(<<>>, "SwapIn") = <<"SwapIn">> /\ Append(<<>>, "Stop") = <<"Stop">>
    /\ Append(<<"SwapIn">>, "Stop") = <<"SwapIn", "Stop">>
<1>1. /\ <<"SwapIn">> # <<>> /\ Head(<<"SwapIn">>) = "SwapIn" /\ Tail(<<"SwapIn">>) = <<>>
      /\ Append(<<>>, "SwapIn") = <<"SwapIn">> /\ Append(<<>>, "Stop") = <<"Stop">>
  OBVIOUS
<1>2. <<"Stop">> # <<>> /\ Head(<<"Stop">>) = "Stop" /\ Tail(<<"Stop">>) = <<>>
  OBVIOUS
<1>3. Head(<<"SwapIn", "Stop">>) = "SwapIn" /\ Tail(<<"SwapIn", "Stop">>) = <<"Stop">>
  OBVIOUS
<1>4. Append(<<"SwapIn">>, "Stop") = <<"SwapIn", "Stop">>
  <2> DEFINE S == {"SwapIn", "Stop"}
             s == Append(<<"SwapIn">>, "Stop")
             t == <<"SwapIn", "Stop">>
  <2>1. s \in Seq(S) /\ t \in Seq(S) /\ Len(s) = 2 /\ Len(t) = 2
    OBVIOUS
  <2>2. s[1] = t[1] /\ s[2] = t[2]
    OBVIOUS
  <2>3. \A i \in 1..Len(s) : s[i] = t[i]
    <3>1. \A i \in 1..2 : i = 1 \/ i = 2
      OBVIOUS
    <3> QED BY <2>1, <2>2, <3>1
  <2> HIDE DEF S, s, t
  <2>4. s = t
    BY <2>1, <2>3, SeqEqual
  <2> QED BY <2>4 DEF s, t
<1> QED BY <1>1, <1>2, <1>3, <1>4

(* With one Stop, and in order, the acceptor is resumed by a task twice. *)
LEMMA CountStep == SeverInv /\ Next => SwapInsCounted'
<1> SUFFICES ASSUME SeverInv, Next PROVE SwapInsCounted'
  OBVIOUS
<1>type. /\ ThreadTypeOK /\ AcceptTypeOK /\ fate = "fine" /\ stops \in Nat
         /\ main \in {"stopping", "joining"} => listener = "closed"
         /\ main \in {"made", "starting", "awaiting"} => listener = "made"
  BY DEF SeverInv, SeverTypeOK, Next, WorkersFollow, AtStart, AtStop
<1>nat. stops \in Nat
  BY DEF SeverInv, SeverTypeOK
<1>inv. AcceptorFollows /\ SwapInsCounted
  BY DEF SeverInv
<1>seq. /\ <<"SwapIn">> # <<>> /\ Head(<<"SwapIn">>) = "SwapIn" /\ Tail(<<"SwapIn">>) = <<>>
        /\ <<"Stop">> # <<>> /\ Head(<<"Stop">>) = "Stop" /\ Tail(<<"Stop">>) = <<>>
        /\ Head(<<"SwapIn", "Stop">>) = "SwapIn" /\ Tail(<<"SwapIn", "Stop">>) = <<"Stop">>
        /\ Append(<<>>, "SwapIn") = <<"SwapIn">> /\ Append(<<>>, "Stop") = <<"Stop">>
        /\ Append(<<"SwapIn">>, "Stop") = <<"SwapIn", "Stop">>
  BY QueueOfTwo
<1> USE
   DEF AcceptorFollows, SwapInsCounted, Ordinary, NotStarted, ToBegin, Serving,
       ToEnd, AllDone, InLoop
<1>1. CASE Connect
  BY <1>1, <1>inv, <1>type DEF Connect, thread, accept, history, ThreadTypeOK, AcceptTypeOK
<1>2. CASE CallStop
  <2>1. /\ deferred' = Append(deferred, "Stop") /\ main' = main /\ fate' = fate
        /\ timer' = timer /\ acceptor' = acceptor /\ listener' = listener
    BY <1>2 DEF CallStop, accept
  <2>2. stops' = stops + 1
    BY <1>2 DEF CallStop
  <2>3. stops' <= 1 => stops = 0 /\ stops' = 1
    BY <2>2, <1>nat
  <2>4. mishaps \subseteq mishaps' /\ (main = "made" => "stopped before Start" \in mishaps')
    BY <1>2 DEF CallStop, Remember
  <2>5. Ordinary' => Ordinary /\ stops = 0 /\ stops' = 1 /\ main # "made"
    <3>1. mishaps' \cap {"stopped before Start", "no address"} = {} =>
              main # "made" /\ mishaps \cap {"stopped before Start", "no address"} = {}
      BY <2>4
    <3>2. stops = 0 => stops <= 1
      OBVIOUS
    <3> QED BY <2>3, <3>1, <3>2 DEF Ordinary
  <2>6. ASSUME ToBegin, stops = 0, stops' = 1 PROVE ToBegin'
    <3>1. stops # 1
      BY <2>6
    <3>2. deferred = <<"SwapIn">>
      BY <2>6, <3>1
    <3>3. deferred' = <<"SwapIn", "Stop">>
      BY <2>1, <3>2, <1>seq
    <3> QED BY <2>1, <2>6, <3>3
  <2>7. ASSUME Serving, stops = 0, stops' = 1 PROVE Serving'
    BY <2>1, <2>7, <1>seq
  <2>8. ASSUME stops = 0, main # "made" PROVE ~(NotStarted \/ ToEnd \/ AllDone)
    <3>1. stops # 1
      BY <2>8
    <3> QED BY <2>8, <3>1
  <2> HIDE DEF ToBegin, Serving, NotStarted, ToEnd, AllDone, Ordinary
  <2> QED BY <2>1, <2>5, <2>6, <2>7, <2>8, <1>inv, <1>type
<1>3. CASE Start
  <2>1. /\ deferred' = Append(deferred, "SwapIn") /\ main = "made" /\ main' = "starting"
        /\ stops' = stops /\ mishaps' = mishaps /\ fate' = fate /\ timer' = timer
        /\ acceptor' = acceptor /\ listener' = listener
    BY <1>3 DEF Start, accept, history
  <2>2. ASSUME NotStarted PROVE ToBegin'
    BY <2>1, <2>2, <1>seq
  <2>3. ASSUME Ordinary, fate = "fine" PROVE ~timer /\ NotStarted
    BY <2>1, <2>3, <1>inv
  <2>4. Ordinary' => Ordinary
    BY <2>1
  <2> HIDE DEF ToBegin, Serving, NotStarted, ToEnd, AllDone, Ordinary
  <2> QED BY <2>1, <2>2, <2>3, <2>4
<1>4. CASE SpawnWorker
  BY <1>4, <1>inv, <1>type
     DEF SpawnWorker, thread, accept, history, ThreadTypeOK, AcceptTypeOK
<1>5. CASE AwaitPublished
  BY <1>5, <1>inv, <1>type
     DEF AwaitPublished, Sleep, thread, accept, history, ThreadTypeOK, AcceptTypeOK
<1>6. CASE EnterLoop
  BY <1>6, <1>inv, <1>type
     DEF EnterLoop, thread, accept, history, ThreadTypeOK, AcceptTypeOK
<1>7. CASE ResumeAcceptor
  <2>1. /\ main = "wait" /\ main' = "accepting" /\ listener = "listening"
        /\ deferred' = deferred
        /\ stops' = stops /\ mishaps' = mishaps /\ fate' = fate /\ timer' = timer
        /\ acceptor' = acceptor /\ listener' = listener
    BY <1>7, <1>inv DEF ResumeAcceptor, Readable, accept, history
  <2> QED BY <2>1, <1>inv
<1>8. CASE WakeForTasks
  BY <1>8, <1>inv, <1>type
     DEF WakeForTasks, thread, accept, history, ThreadTypeOK, AcceptTypeOK
<1>9. CASE Drained
  BY <1>9, <1>inv, <1>type DEF Drained, thread, accept, history, ThreadTypeOK, AcceptTypeOK
<1>10. CASE SwapInTask
  <2>1. /\ main = "drain" /\ deferred # <<>> /\ Head(deferred) = "SwapIn"
        /\ deferred' = Tail(deferred) /\ (acceptor # "ended" => main' = "accepting" /\ fate'
               = fate)
        /\ stops' = stops /\ mishaps' = mishaps /\ timer' = timer
        /\ acceptor' = acceptor /\ listener' = listener
    BY <1>10 DEF SwapInTask, accept, history
  <2>2. CASE ToBegin
    BY <2>1, <2>2, <1>seq, <1>inv
  <2>3. CASE Serving
    BY <2>1, <2>3, <1>seq
  <2>4. CASE ToEnd
    BY <2>1, <2>4, <1>seq, <1>inv
  <2>5. CASE AllDone
    BY <2>1, <2>5
  <2> QED BY <2>1, <2>2, <2>3, <2>4, <2>5, <1>inv, <1>type
<1>11. CASE CleanUp
  BY <1>11, <1>inv, <1>type DEF CleanUp, thread, accept, history, ThreadTypeOK, AcceptTypeOK
<1>12. CASE StopTask
  <2>1. /\ main = "drain" /\ deferred # <<>> /\ Head(deferred) = "Stop"
        /\ deferred' = Append(Tail(deferred), "SwapIn") /\ main' = "stopping" /\ fate' =
               fate
        /\ stops' = stops /\ mishaps' = mishaps /\ timer' = timer
        /\ acceptor' = acceptor /\ listener' = "closed"
    BY <1>12 DEF StopTask, BeginStop, CloseAcceptor, history
  <2>2. CASE Serving
    <3>1. acceptor = "retry"
      BY <2>1, <2>2, <1>inv, <1>type DEF AcceptTypeOK
    <3> QED BY <2>1, <2>2, <3>1, <1>seq, <1>inv
  <2>3. ~(ToBegin \/ ToEnd \/ AllDone)
    BY <2>1, <1>seq
  <2> QED BY <2>1, <2>2, <2>3, <1>inv, <1>type
<1>13. CASE StopTimer
  BY <1>13, <1>inv, <1>type
     DEF StopTimer, BeginStop, CloseAcceptor, thread, accept, history,
         ThreadTypeOK, AcceptTypeOK
<1>14. CASE StopWorker
  BY <1>14, <1>inv, <1>type
     DEF StopWorker, Remember, thread, accept, history, ThreadTypeOK, AcceptTypeOK
<1>15. CASE AwaitWithdrawn
  BY <1>15, <1>inv, <1>type
     DEF AwaitWithdrawn, Sleep, thread, accept, history, ThreadTypeOK, AcceptTypeOK
<1>16. CASE StopItself
  BY <1>16, <1>inv, <1>type
     DEF StopItself, thread, accept, history, ThreadTypeOK, AcceptTypeOK
<1>17. CASE BindAndListen
  BY <1>17, <1>inv, <1>type
     DEF BindAndListen, In, thread, accept, history, ThreadTypeOK, AcceptTypeOK
<1>18. CASE BindFails
  BY <1>18, <1>inv, <1>type
     DEF BindFails, In, Yields, Remember, thread, accept, history, ThreadTypeOK,
         AcceptTypeOK
<1>19. CASE AcceptWaits
  BY <1>19, <1>inv, <1>type
     DEF AcceptWaits, In, Yields, Breaks, thread, accept, history, ThreadTypeOK,
         AcceptTypeOK
<1>20. CASE AcceptSucceeds
  BY <1>20, <1>inv, <1>type
     DEF AcceptSucceeds, In, DoneWaiting, HandOver, Yields, Breaks, NextIndex,
         thread, accept, history, ThreadTypeOK, AcceptTypeOK
<1>21. CASE AcceptFails
  BY <1>21, <1>inv, <1>type
     DEF AcceptFails, In, thread, accept, history, ThreadTypeOK, AcceptTypeOK
<1>22. CASE AcceptEnds
  BY <1>22, <1>inv, <1>type
     DEF AcceptEnds, In, Yields, thread, accept, history, ThreadTypeOK,
         AcceptTypeOK
<1>23. ASSUME NEW w \in Worker, WorkerThread(w) PROVE SwapInsCounted'
  <2>1. UNCHANGED <<thread, accept, fate, history>>
    BY <1>23
       DEF WorkerThread, Publish, WorkerEnters, WorkerWakes, Establish,
           WorkerDrained, WorkerTests, Withdraw, Goes, Sleep, Wake
  <2> QED BY <2>1, <1>type, <1>inv DEF thread, accept, history
<1> QED BY <1>1, <1>2, <1>3, <1>4, <1>5, <1>6, <1>7, <1>8, <1>9, <1>10, <1>11, <1>12, <1>13,
           <1>14, <1>15, <1>16, <1>17, <1>18, <1>19, <1>20, <1>21, <1>22, <1>23
   DEF Next, Main

(* A server breaks for known reasons. *)
LEMMA BreaksStep == SeverInv /\ Next => BreaksOnlyWhen'
<1> SUFFICES ASSUME SeverInv, Next PROVE BreaksOnlyWhen'
  OBVIOUS
<1>type. /\ ThreadTypeOK /\ AcceptTypeOK /\ fate = "fine" /\ stops \in Nat /\ size \in Nat
         /\ size # 0 => NextIndex \in Worker
  BY SeverConstants DEF SeverInv, SeverTypeOK, Next, NextIndex, Worker, AcceptTypeOK
<1>nat. stops \in Nat
  BY DEF SeverInv, SeverTypeOK
<1>inv. AcceptorFollows /\ SwapInsCounted /\ EachWorker /\ InTheLoop
  BY DEF SeverInv, WorkersFollow
<1> USE DEF BreaksOnlyWhen
<1>1. CASE SwapInTask
  <2>1. /\ deferred # <<>> /\ Head(deferred) = "SwapIn"
        /\ stops' = stops /\ mishaps' = mishaps
        /\ IF acceptor = "ended" THEN fate' = "ended coroutine resumed" ELSE fate' = fate
    BY <1>1 DEF SwapInTask, Breaks, history
  <2>2. ASSUME acceptor = "ended" PROVE ~Ordinary
    <3>1. ~(NotStarted \/ ToBegin \/ Serving \/ ToEnd \/ AllDone)
      BY <2>1, <2>2, QueueOfTwo DEF NotStarted, ToBegin, Serving, ToEnd, AllDone
    <3> QED BY <3>1, <1>inv, <1>type DEF SwapInsCounted
  <2>3. ~(stops <= 1) => stops > 1
    BY <1>nat
  <2> QED BY <2>1, <2>2, <2>3, <1>type DEF Ordinary
<1>2. CASE AcceptWaits
  <2>1. /\ acceptor = "try" /\ failures' = failures
        /\ IF registered THEN fate' = "registered twice" ELSE fate' = fate
    BY <1>2 DEF AcceptWaits, In, Breaks
  <2>2. registered => failures > 0
    BY <2>1, <1>inv DEF AcceptorFollows
  <2> QED BY <2>1, <2>2, <1>type
<1>3. CASE AcceptSucceeds
  <2>1. main = "accepting" /\ listener = "listening" /\ size' = size /\ HandOver
    BY <1>3 DEF AcceptSucceeds, In
  <2>2. \/ fate' = fate
        \/ fate' = "divided by zero" /\ size = 0
        \/ fate' = "no scheduler" /\ size # 0 /\ ~published[NextIndex]
    BY <2>1 DEF HandOver, Breaks
  <2>3. size # 0 => published[NextIndex]
    BY <2>1, <1>inv, <1>type DEF EachWorker, InTheLoop, InLoop, Alive
  <2> QED BY <2>1, <2>2, <2>3, <1>type
<1>4. ASSUME ~SwapInTask, ~AcceptWaits, ~AcceptSucceeds PROVE BreaksOnlyWhen'
  <2>1. fate' = fate
    BY <1>4
       DEF Next, Main, WorkerThread, history, Connect, CallStop, Start,
           SpawnWorker, AwaitPublished, EnterLoop, ResumeAcceptor, WakeForTasks,
           Drained, CleanUp, StopTask, StopTimer, StopWorker, AwaitWithdrawn,
           StopItself, BindAndListen, BindFails, AcceptFails, AcceptEnds, Publish,
           WorkerEnters, WorkerWakes, Establish, WorkerDrained, WorkerTests, Withdraw,
           BeginStop, CloseAcceptor, Goes, In, Remember, Sleep, Wake, Yields
  <2> QED BY <2>1, <1>type
<1> QED BY <1>1, <1>2, <1>3, <1>4

-----------------------------------------------------------------------------
(* A server that has just been made satisfies the invariant (TcpSever.cpp:10-28). *)
LEMMA InvInit == Init => SeverInv
<1> SUFFICES ASSUME Init PROVE SeverInv
  OBVIOUS
<1>1. SeverTypeOK
  <2>1. size \in Sizes /\ size \in Nat
    BY SeverConstants DEF Init
  <2>2. ThreadTypeOK
    <3>1. owner \in 0..size /\ deferred \in Seq({"SwapIn", "Stop"})
      BY <2>1 DEF Init
    <3> QED BY <3>1 DEF Init, ThreadTypeOK
  <2>3. AcceptTypeOK
    <3>1. backlog \in Nat /\ came \in Nat /\ failures \in Nat /\ backlog <= came
      BY DEF Init
    <3> QED BY <3>1 DEF Init, AcceptTypeOK
  <2>4. WorkersTypeOK
    BY DEF Init, WorkersTypeOK
  <2>5. fate \in Fates /\ stops \in Nat /\ mishaps \subseteq Mishaps
    BY DEF Init, Fates
  <2> QED BY <2>1, <2>2, <2>3, <2>4, <2>5 DEF SeverTypeOK
<1>2. WorkersFollow
  BY <1>1, SeverConstants DEF Init, WorkersFollow, EachWorker, AtStart, InTheLoop, AtStop,
                              Alive, Running, InLoop, Worker
<1>3. AcceptorFollows
  BY DEF Init, AcceptorFollows, InLoop
<1>4. SwapInsCounted
  BY DEF Init, SwapInsCounted, NotStarted
<1>5. BreaksOnlyWhen
  BY DEF Init, BreaksOnlyWhen
<1> QED BY <1>1, <1>2, <1>3, <1>4, <1>5 DEF SeverInv

(* Every step of every thread preserves it. *)
LEMMA InvStep == SeverInv /\ [Next]_vars => SeverInv'
<1> SUFFICES ASSUME SeverInv, [Next]_vars PROVE SeverInv'
  OBVIOUS
<1>1. SeverTypeOK /\ WorkersFollow /\ AcceptorFollows
  BY DEF SeverInv
<1>2. SeverTypeOK'
  BY <1>1, TypeStep
<1>3. CASE Next
  <2>1. WorkersFollow' /\ AcceptorFollows'
    BY <1>1, <1>3, WorkersStep, AcceptorStep
  <2>2. SwapInsCounted' /\ BreaksOnlyWhen'
    BY <1>3, CountStep, BreaksStep
  <2> QED BY <1>2, <2>1, <2>2 DEF SeverInv
<1>4. CASE UNCHANGED vars
  <2> USE <1>4 DEF vars, thread, accept, workers, history, SeverInv
  <2>1. WorkersFollow'
    BY DEF WorkersFollow, EachWorker, AtStart, InTheLoop, AtStop, Worker
  <2>2. AcceptorFollows'
    BY DEF AcceptorFollows, HasSwapIn
  <2>3. SwapInsCounted'
    BY DEF SwapInsCounted, Ordinary, NotStarted, ToBegin, Serving, ToEnd, AllDone
  <2>4. BreaksOnlyWhen'
    BY DEF BreaksOnlyWhen
  <2> QED BY <1>2, <2>1, <2>2, <2>3, <2>4
<1> QED BY <1>3, <1>4

(* So it always holds. *)
LEMMA Inductive == Spec => []SeverInv
  BY InvInit, InvStep, PTL DEF Spec

(* Every variable of a server holds a value of its type: GetNextScheduler's index is a
   worker's, and the owner waits only on a worker it has (Scheduler.h:188-204, 272-279). *)
THEOREM SeverTypeCorrect == Spec => []SeverTypeOK
<1>1. SeverInv => SeverTypeOK
  BY DEF SeverInv
<1> QED BY <1>1, Inductive, PTL

(* Whatever the number of workers, connections and calls of Stop: the acceptor is
   resumed after its end, registered twice, or divides by zero only for the reasons
   BreaksOnlyWhen gives, and no connection is handed to a worker without a scheduler
   (TcpSever.cpp:64-104, Scheduler.h:272-279). *)
THEOREM BreaksForKnownReasons == Spec => []BreaksOnlyWhen
<1>1. SeverInv => BreaksOnlyWhen
  BY DEF SeverInv
<1> QED BY <1>1, Inductive, PTL

(* When TcpSever::Start returns, every worker's thread has ended and the acceptor has run
   to its end, with nothing registered (Scheduler.h:194-204, Scheduler.cpp:232-239). *)
THEOREM StartReturnsAfterWorkers == Spec => []OffMeansEnded
<1>1. ASSUME SeverInv, main = "off" PROVE Ended
  <2>1. AcceptorFollows /\ EachWorker /\ InTheLoop
    BY <1>1 DEF SeverInv, WorkersFollow
  <2>2. listener = "closed" /\ acceptor = "ended" /\ ~registered
    BY <1>1, <2>1 DEF AcceptorFollows, InLoop
  <2>3. \A w \in Worker : pc[w] = "ended"
    BY <1>1, <2>1, <2>2 DEF InTheLoop, InLoop
  <2>4. \A w \in Worker : ~published[w] /\ ~asleep[w]
    BY <1>1, <2>1, <2>3 DEF EachWorker, Alive, Running
  <2> QED BY <2>2, <2>3, <2>4 DEF Ended
<1>2. SeverInv => OffMeansEnded
  BY <1>1 DEF OffMeansEnded
<1> QED BY <1>2, Inductive, PTL

=============================================================================
