--------------------------- MODULE SchedulerProofs ---------------------------
(***************************************************************************)
(* Proofs about Scheduler for any number of threads, tasks and             *)
(* descriptors.  TypeCorrect and QueueContractKept hold with and without   *)
(* store buffers; NoTaskSleptOn and NoStopSleptOn need sequentially        *)
(* consistent memory: the run scheduler_lost_task shows what happens       *)
(* otherwise.                                                              *)
(***************************************************************************)
EXTENDS Scheduler, FiniteSetTheorems, SequenceTheorems, TLAPS

(* The store of a well-typed value leaves memory well typed. *)
LEMMA StoreType ==
    ASSUME TypeOK, NEW t \in Thread, NEW var, NEW val,
           \/ var = "stop" /\ val \in BOOLEAN
           \/ var = "state" /\ val \in SchedulerState,
           Store(t, var, val)
    PROVE  /\ stop' \in BOOLEAN /\ state' \in SchedulerState
           /\ buffer' \in [Thread -> Seq(({"stop"} \X BOOLEAN)
                                         \cup ({"state"} \X SchedulerState))]
<1> DEFINE W == ({"stop"} \X BOOLEAN) \cup ({"state"} \X SchedulerState)
<1>1. <<var, val>> \in W
  OBVIOUS
<1>2. buffer \in [Thread -> Seq(W)] /\ stop \in BOOLEAN /\ state \in SchedulerState
  BY DEF TypeOK
<1>3. CASE StoreBuffers
  <2>1. Append(buffer[t], <<var, val>>) \in Seq(W)
    <3> HIDE DEF W
    <3> QED BY <1>1, <1>2
  <2>2. buffer' = [buffer EXCEPT ![t] = Append(buffer[t], <<var, val>>)]
    BY <1>3 DEF Store
  <2>3. buffer' \in [Thread -> Seq(W)]
    <3> HIDE DEF W
    <3> QED BY <1>2, <2>1, <2>2
  <2> QED BY <1>2, <1>3, <2>3 DEF Store
<1>4. CASE ~StoreBuffers
  BY <1>2, <1>4 DEF Store
<1> QED BY <1>3, <1>4

(* Append, Head and Tail keep the queue well typed. *)
LEMMA QueueActionType ==
    ASSUME TypeOK,
           \/ \E e \in Task : Q!Put(e) \/ Q!PutCounted(e)
           \/ Q!Count
           \/ Q!Take
           \/ UNCHANGED tasks
    PROVE  Q!QueueTypeOK'
<1> USE DEF Q!QueueTypeOK
<1>1. queue \in Seq(Task) /\ size \in Nat /\ taken \in Seq(Task)
  BY DEF TypeOK
<1>2. CASE \E e \in Task : Q!Put(e)
  BY <1>1, <1>2 DEF Q!Put
<1>3. CASE \E e \in Task : Q!PutCounted(e)
  BY <1>1, <1>3 DEF Q!PutCounted
<1>4. CASE Q!Count
  BY <1>1, <1>4 DEF Q!Count
<1>5. CASE Q!Take
  BY <1>1, <1>5, HeadTailProperties DEF Q!Take
<1>6. CASE UNCHANGED tasks
  BY <1>1, <1>6 DEF tasks
<1> QED BY <1>2, <1>3, <1>4, <1>5, <1>6

(* Type correctness is preserved by every step. *)
LEMMA TypeStep == TypeOK /\ [Next]_vars => TypeOK'
<1> SUFFICES ASSUME TypeOK, [Next]_vars PROVE TypeOK'
  OBVIOUS
<1> DEFINE W == ({"stop"} \X BOOLEAN) \cup ({"state"} \X SchedulerState)
           MemOK == /\ stop \in BOOLEAN /\ state \in SchedulerState
                    /\ buffer \in [Thread -> Seq(W)]
           IoOK == /\ eventfd \in BOOLEAN /\ ready \subseteq Fd
                   /\ events \in 0..MaxEvents
           CtlOK == /\ loop \in LoopPC /\ active \subseteq Fd \cup {"eventfd"}
                    /\ pc \in [Poster -> {"idle", "count", "load", "notify"}]
                    /\ spc \in [Stopper -> {"idle", "ignored", "store", "load",
                                           "notify", "returned"}]
<1>0. Q!QueueTypeOK /\ MemOK /\ IoOK /\ CtlOK
  BY DEF TypeOK
<1>split. ASSUME Q!QueueTypeOK', MemOK', IoOK', CtlOK' PROVE TypeOK'
  BY <1>split DEF TypeOK
<1>mem. UNCHANGED memory => MemOK'
  BY <1>0 DEF memory
<1>tasks. UNCHANGED tasks => Q!QueueTypeOK'
  BY <1>0, QueueActionType
<1>io. UNCHANGED io => IoOK'
  BY <1>0 DEF io
<1>loop. "loop" \in Thread
  BY DEF Thread
<1>storeState. \A v \in SchedulerState : Store("loop", "state", v) => MemOK'
  BY <1>loop, StoreType
<1>storeStop. \A t \in Thread, v \in BOOLEAN : Store(t, "stop", v) => MemOK'
  BY StoreType
<1>mayDefer. MayDefer => Q!QueueTypeOK'
  BY QueueActionType DEF MayDefer
<1>stopsItself. StopsItself => MemOK'
  BY <1>storeStop, <1>loop, <1>mem DEF StopsItself
<1>1. CASE LoopStep
  <2> USE <1>0 DEF Goto, LoopPC
  <2>1. CASE Begin
    <3>1. MemOK'
      BY <2>1, <1>storeStop, <1>loop DEF Begin
    <3>2. CtlOK' /\ IoOK' /\ Q!QueueTypeOK'
      BY <2>1, <1>io, <1>tasks DEF Begin
    <3> QED BY <3>1, <3>2, <1>split
  <2>2. CASE EnterWait \/ HandleActive \/ HandleExtra \/ Rearm \/ Leave
    <3>1. MemOK'
      BY <2>2, <1>storeState
         DEF EnterWait, HandleActive, HandleExtra, Rearm, Leave, SchedulerState
    <3>2. CtlOK' /\ IoOK' /\ Q!QueueTypeOK'
      BY <2>2, <1>io, <1>tasks DEF EnterWait, HandleActive, HandleExtra, Rearm, Leave
    <3> QED BY <3>1, <3>2, <1>split
  <2>3. CASE TestStop \/ EpollTimesOut \/ Drained \/ CheckAgain \/ Exit
    <3>1. MemOK' /\ IoOK' /\ Q!QueueTypeOK'
      BY <2>3, <1>mem, <1>io, <1>tasks DEF TestStop, EpollTimesOut, Drained, CheckAgain, Exit
    <3>2. CtlOK'
      BY <2>3 DEF TestStop, EpollTimesOut, Drained, CheckAgain, Exit
    <3> QED BY <3>1, <3>2, <1>split
  <2>4. CASE EpollReturns
    <3>1. MemOK' /\ IoOK' /\ Q!QueueTypeOK'
      BY <2>4, <1>mem, <1>io, <1>tasks DEF EpollReturns
    <3>2. CtlOK'
      BY <2>4 DEF EpollReturns
    <3> QED BY <3>1, <3>2, <1>split
  <2>5. CASE ReadEventFd \/ Renotify
    <3>1. MemOK' /\ IoOK' /\ Q!QueueTypeOK'
      BY <2>5, <1>mem, <1>tasks DEF ReadEventFd, Renotify
    <3>2. CtlOK'
      BY <2>5 DEF ReadEventFd, Renotify
    <3> QED BY <3>1, <3>2, <1>split
  <2>6. ASSUME NEW f \in Fd, RunCallback(f) PROVE TypeOK'
    <3>1. MemOK' /\ Q!QueueTypeOK'
      BY <2>6, <1>mem, <1>stopsItself, <1>mayDefer DEF RunCallback
    <3>2. IoOK' /\ CtlOK'
      BY <2>6 DEF RunCallback
    <3> QED BY <3>1, <3>2, <1>split
  <2>7. CASE DrainOne
    <3>1. MemOK' /\ IoOK' /\ Q!QueueTypeOK'
      BY <2>7, <1>mem, <1>io, QueueActionType DEF DrainOne
    <3>2. CtlOK'
      BY <2>7 DEF DrainOne
    <3> QED BY <3>1, <3>2, <1>split
  <2>8. CASE RunTask
    <3>1. MemOK' /\ IoOK' /\ Q!QueueTypeOK'
      BY <2>8, <1>mem, <1>stopsItself, <1>mayDefer, <1>io DEF RunTask
    <3>2. CtlOK'
      BY <2>8 DEF RunTask
    <3> QED BY <3>1, <3>2, <1>split
  <2>9. ASSUME NEW f \in Fd, CleanUp(f) PROVE TypeOK'
    <3>1. MemOK' /\ Q!QueueTypeOK'
      BY <2>9, <1>mem, <1>mayDefer DEF CleanUp
    <3>2. IoOK' /\ CtlOK'
      BY <2>9 DEF CleanUp
    <3> QED BY <3>1, <3>2, <1>split
  <2> QED BY <1>1, <2>1, <2>2, <2>3, <2>4, <2>5, <2>6, <2>7, <2>8, <2>9 DEF LoopStep
<1>2. ASSUME NEW p \in Poster, PostStep(p) \/ \E e \in Task : Post(p, e)
      PROVE  TypeOK'
  <2>1. MemOK'
    BY <1>2, <1>mem DEF PostStep, PostCount, PostLoadState, PostNotify, Post
  <2>2. Q!QueueTypeOK'
    BY <1>2, <1>tasks, QueueActionType
       DEF PostStep, PostCount, PostLoadState, PostNotify, Post
  <2>3. IoOK' /\ CtlOK'
    BY <1>0, <1>2 DEF PostStep, PostCount, PostLoadState, PostNotify, Post, io
  <2> QED BY <2>1, <2>2, <2>3, <1>split
<1>3. ASSUME NEW s \in Stopper, StopStep(s) \/ StopTest(s) PROVE TypeOK'
  <2>1. MemOK'
    BY <1>3, <1>mem, <1>storeStop
       DEF StopStep, StopTest, StopStore, StopLoadState, StopNotify, Thread
  <2>2. Q!QueueTypeOK'
    BY <1>3, <1>tasks DEF StopStep, StopTest, StopStore, StopLoadState, StopNotify
  <2>3. IoOK' /\ CtlOK'
    BY <1>0, <1>3 DEF StopStep, StopTest, StopStore, StopLoadState, StopNotify, io
  <2> QED BY <2>1, <2>2, <2>3, <1>split
<1>4. ASSUME NEW t \in Thread, Flush(t) PROVE TypeOK'
  <2> DEFINE w == Head(buffer[t])
  <2>1. buffer[t] \in Seq(W) /\ buffer[t] # <<>>
    <3> HIDE DEF W
    <3> QED BY <1>0, <1>4 DEF Flush
  <2>2. w \in W /\ Tail(buffer[t]) \in Seq(W)
    <3> HIDE DEF W
    <3> QED BY <2>1, HeadTailProperties
  <2>3. MemOK'
    <3>1. stop' \in BOOLEAN /\ state' \in SchedulerState
      <4>1. stop' = (IF w[1] = "stop" THEN w[2] ELSE stop)
        BY <1>4 DEF Flush
      <4>2. state' = (IF w[1] = "state" THEN w[2] ELSE state)
        BY <1>4 DEF Flush
      <4> HIDE DEF w
      <4> QED BY <1>0, <2>2, <4>1, <4>2
    <3>2. buffer' \in [Thread -> Seq(W)]
      <4> HIDE DEF W
      <4> QED BY <1>0, <1>4, <2>2 DEF Flush
    <3> QED BY <3>1, <3>2
  <2>4. Q!QueueTypeOK' /\ IoOK' /\ CtlOK'
    BY <1>0, <1>4, <1>tasks, <1>io DEF Flush
  <2> QED BY <2>3, <2>4, <1>split
<1>5. ASSUME NEW f \in Fd, BecomesReady(f) PROVE TypeOK'
  <2>1. IoOK'
    BY <1>0, <1>5, SchedulerConstants DEF BecomesReady, SchedulerConstants
  <2>2. MemOK' /\ Q!QueueTypeOK' /\ CtlOK'
    BY <1>0, <1>5, <1>mem, <1>tasks DEF BecomesReady
  <2> QED BY <2>1, <2>2, <1>split
<1>6. CASE UNCHANGED vars
  BY <1>0, <1>6, <1>mem, <1>tasks, <1>io, <1>split DEF vars, memory, tasks, io
<1> QED BY <1>1, <1>2, <1>3, <1>4, <1>5, <1>6 DEF Next

(* Every variable of the scheduler keeps its type, with and without store
   buffers: m_size_ in particular never goes below zero. *)
THEOREM TypeCorrect == Spec => []TypeOK
<1>1. Init => TypeOK
  <2> SUFFICES ASSUME Init PROVE TypeOK
    OBVIOUS
  <2> DEFINE W == ({"stop"} \X BOOLEAN) \cup ({"state"} \X SchedulerState)
  <2>1. buffer \in [Thread -> Seq(W)]
    <3>1. <<>> \in Seq(W)
      <4> HIDE DEF W
      <4> QED OBVIOUS
    <3> HIDE DEF W
    <3> QED BY <3>1 DEF Init
  <2>2. Q!QueueTypeOK
    BY DEF Init, Q!QueueInit, Q!QueueTypeOK
  <2>3. stop \in BOOLEAN /\ state \in SchedulerState /\ loop \in LoopPC
    BY DEF Init, SchedulerState, LoopPC
  <2>4. /\ eventfd \in BOOLEAN /\ ready \subseteq Fd /\ events \in 0..MaxEvents
        /\ active \subseteq Fd \cup {"eventfd"}
    <3>1. MaxEvents \in Nat
      BY SchedulerConstants DEF SchedulerConstants
    <3>2. eventfd \in BOOLEAN
      BY DEF Init
    <3>3. events \in 0..MaxEvents
      BY <3>1 DEF Init
    <3>4. ready \subseteq Fd /\ active \subseteq Fd \cup {"eventfd"}
      BY DEF Init
    <3> QED BY <3>2, <3>3, <3>4
  <2>5. /\ pc \in [Poster -> {"idle", "count", "load", "notify"}]
        /\ spc \in [Stopper -> {"idle", "ignored", "store", "load", "notify",
                              "returned"}]
    BY DEF Init
  <2> QED BY <2>1, <2>2, <2>3, <2>4, <2>5 DEF TypeOK
<1> QED BY <1>1, TypeStep, PTL DEF Spec

-----------------------------------------------------------------------------
(* No lost wake-up.                                                          *)

(* Without store buffers a store takes effect at once and m_stop_ is read from
   memory. *)
LEMMA StoreTakesEffect ==
    ASSUME StoreBuffers = FALSE, NEW t, NEW val
    PROVE  /\ Store(t, "state", val) => state' = val /\ UNCHANGED <<stop, buffer>>
           /\ Store(t, "stop", val) => stop' = val /\ UNCHANGED <<state, buffer>>
BY DEF Store

LEMMA LoadStopFromMemory ==
    ASSUME NEW t, Fenced(t)
    PROVE  LoadStop(t) = stop
<1>1. DOMAIN buffer[t] = {}
  BY DEF Fenced
<1> QED BY <1>1 DEF LoadStop

(* The AddDefer calls that have linked and not yet counted, and their number. *)
LEMMA CountingSet ==
    ASSUME TypeOK
    PROVE  /\ IsFiniteSet(Counting)
           /\ Cardinality(Counting) \in Nat
           /\ Cardinality(Counting) # 0 => \E p \in Poster : pc[p] = "count"
<1>1. IsFiniteSet(Poster)
  BY SchedulerConstants DEF SchedulerConstants
<1>2. IsFiniteSet(Counting)
  BY <1>1, FS_Subset DEF Counting
<1>3. Cardinality(Counting) \in Nat /\ (Cardinality(Counting) # 0 => Counting # {})
  BY <1>2, FS_CardinalityType, FS_EmptySet
<1> QED BY <1>2, <1>3 DEF Counting

(* m_size_ lags the queue by the calls that are counting: preserved by every
   action on the queue. *)
LEMMA CountStep ==
    ASSUME TypeOK, TypeOK', Len(queue) = size + Cardinality(Counting), [Next]_vars
    PROVE  (Len(queue) = size + Cardinality(Counting))'
<1>0. /\ queue \in Seq(Task) /\ size \in Nat /\ queue' \in Seq(Task) /\ size' \in Nat
      /\ pc \in [Poster -> {"idle", "count", "load", "notify"}]
  BY DEF TypeOK, Q!QueueTypeOK
<1>c. Cardinality(Counting) \in Nat /\ IsFiniteSet(Counting)
  BY CountingSet
<1>1. ASSUME UNCHANGED Counting, UNCHANGED <<queue, size>>
      PROVE  (Len(queue) = size + Cardinality(Counting))'
  BY <1>1
<1>2. ASSUME UNCHANGED Counting, \E e \in Task : Q!PutCounted(e)
      PROVE  (Len(queue) = size + Cardinality(Counting))'
  <2>1. PICK e \in Task : Q!PutCounted(e)
    BY <1>2
  <2>2. Len(queue') = Len(queue) + 1 /\ size' = size + 1
    BY <1>0, <2>1 DEF Q!PutCounted
  <2>3. Cardinality(Counting') = Cardinality(Counting)
    BY <1>2
  <2> QED BY <1>0, <1>c, <2>2, <2>3
<1>3. ASSUME UNCHANGED Counting, Q!Take
      PROVE  (Len(queue) = size + Cardinality(Counting))'
  BY <1>0, <1>3, <1>c, HeadTailProperties DEF Q!Take
<1>4. ASSUME NEW p \in Poster, NEW e \in Task, Post(p, e)
      PROVE  (Len(queue) = size + Cardinality(Counting))'
  <2>1. Counting' = Counting \cup {p} /\ p \notin Counting
    BY <1>0, <1>4 DEF Counting, Post
  <2>2. Cardinality(Counting') = Cardinality(Counting) + 1
    BY <1>c, <2>1, FS_AddElement
  <2>3. Len(queue') = Len(queue) + 1 /\ size' = size
    BY <1>0, <1>4 DEF Post, Q!Put
  <2> QED BY <1>0, <1>c, <2>2, <2>3
<1>5. ASSUME NEW p \in Poster, PostCount(p)
      PROVE  (Len(queue) = size + Cardinality(Counting))'
  <2>1. Counting' = Counting \ {p} /\ p \in Counting
    BY <1>0, <1>5 DEF Counting, PostCount
  <2>2. Cardinality(Counting') = Cardinality(Counting) - 1
    BY <1>c, <2>1, FS_RemoveElement
  <2>3. UNCHANGED queue /\ size' = size + 1
    BY <1>5 DEF PostCount, Q!Count
  <2> QED BY <1>0, <1>c, <2>2, <2>3
<1>6. ASSUME NEW p \in Poster, PostLoadState(p) \/ PostNotify(p)
      PROVE  UNCHANGED Counting /\ UNCHANGED <<queue, size>>
  BY <1>0, <1>6 DEF PostLoadState, PostNotify, Counting, tasks
<1>7. ASSUME UNCHANGED pc PROVE UNCHANGED Counting
  BY <1>7 DEF Counting
<1>8. MayDefer => UNCHANGED <<queue, size>> \/ \E e \in Task : Q!PutCounted(e)
  BY DEF MayDefer, tasks
<1>9. CASE LoopStep
  <2>1. CASE DrainOne
    BY <2>1, <1>3, <1>7 DEF DrainOne
  <2>2. CASE RunTask \/ (\E f \in Fd : RunCallback(f) \/ CleanUp(f))
    BY <2>2, <1>1, <1>2, <1>7, <1>8 DEF RunTask, RunCallback, CleanUp
  <2>3. CASE \/ Begin \/ EnterWait \/ TestStop \/ EpollReturns \/ EpollTimesOut
             \/ HandleActive \/ ReadEventFd \/ HandleExtra \/ Drained \/ Rearm \/ CheckAgain
             \/ Renotify \/ Leave \/ Exit
    <3>1. UNCHANGED pc /\ UNCHANGED <<queue, size>>
      BY <2>3 DEF Begin, EnterWait, TestStop, EpollReturns, EpollTimesOut,
           HandleActive, ReadEventFd, HandleExtra, Drained, Rearm, CheckAgain, Renotify,
           Leave, Exit, tasks
    <3> QED BY <3>1, <1>1, <1>7
  <2> QED BY <1>9, <2>1, <2>2, <2>3 DEF LoopStep
<1>10. ASSUME \/ \E s \in Stopper : StopStep(s) \/ StopTest(s)
              \/ \E t \in Thread : Flush(t)
              \/ \E f \in Fd : BecomesReady(f)
              \/ UNCHANGED vars
       PROVE  UNCHANGED pc /\ UNCHANGED <<queue, size>>
  BY <1>10 DEF StopStep, StopTest, StopStore, StopLoadState, StopNotify, Flush,
       BecomesReady, vars, tasks
<1> QED BY <1>1, <1>4, <1>5, <1>6, <1>7, <1>9, <1>10 DEF Next, PostStep

-----------------------------------------------------------------------------

(* Without store buffers nothing is ever buffered. *)
LEMMA FencedStep ==
    ASSUME StoreBuffers = FALSE, \A t \in Thread : Fenced(t), [Next]_vars
    PROVE  UNCHANGED buffer
<1>1. \A t \in Thread : ~Flush(t)
  BY DEF Flush, Fenced
<1>2. ASSUME NEW t, NEW var, NEW val, Store(t, var, val) PROVE UNCHANGED buffer
  BY <1>2 DEF Store
<1>3. StopsItself => UNCHANGED buffer
  BY <1>2 DEF StopsItself, memory
<1>4. CASE LoopStep
  BY <1>2, <1>3, <1>4 DEF LoopStep, memory, Begin, EnterWait, TestStop, EpollReturns,
     EpollTimesOut, HandleActive, ReadEventFd, RunCallback, HandleExtra, DrainOne,
     RunTask, Drained, Rearm, CheckAgain, Renotify, Leave, CleanUp, Exit
<1>5. CASE \/ \E p \in Poster : PostStep(p) \/ \E e \in Task : Post(p, e)
           \/ \E f \in Fd : BecomesReady(f)
           \/ UNCHANGED vars
  BY <1>5 DEF PostStep, PostCount, PostLoadState, PostNotify, Post, BecomesReady,
     memory, vars
<1>6. CASE \E s \in Stopper : StopStep(s) \/ StopTest(s)
  BY <1>2, <1>6 DEF StopStep, StopTest, StopStore, StopLoadState, StopNotify, memory
<1> QED BY <1>1, <1>4, <1>5, <1>6 DEF Next

(* m_state_ follows where Start is. *)
LEMMA StateStep ==
    ASSUME StoreBuffers = FALSE, \A t \in Thread : Fenced(t), state = StateOf(loop),
           [Next]_vars
    PROVE  state' = StateOf(loop')
<1> USE DEF StateOf, Goto
<1>1. \A t, v : /\ Store(t, "state", v) => state' = v
                /\ Store(t, "stop", v) => state' = state
  BY StoreTakesEffect
<1>2. UNCHANGED memory => state' = state
  BY DEF memory
<1>3. StopsItself => state' = state
  BY <1>1, <1>2 DEF StopsItself
<1>4. UNCHANGED <<state, loop>> => state' = StateOf(loop')
  OBVIOUS
<1>5. CASE LoopStep
  <2>1. CASE EnterWait \/ HandleActive \/ HandleExtra \/ Rearm \/ Leave
    BY <1>1, <2>1 DEF EnterWait, HandleActive, HandleExtra, Rearm, Leave
  <2>2. CASE Begin
    BY <1>1, <2>2 DEF Begin
  <2>3. CASE \/ TestStop \/ EpollReturns \/ EpollTimesOut \/ CheckAgain \/ Renotify
             \/ DrainOne \/ Drained \/ Exit
    BY <1>2, <2>3 DEF TestStop, EpollReturns, EpollTimesOut, CheckAgain, Renotify,
       DrainOne, Drained, Exit
  <2>4. CASE RunTask
    BY <1>2, <1>3, <2>4 DEF RunTask
  <2>5. CASE ReadEventFd \/ \E f \in Fd : RunCallback(f) \/ CleanUp(f)
    BY <1>2, <1>3, <1>4, <2>5 DEF ReadEventFd, RunCallback, CleanUp
  <2> QED BY <1>5, <2>1, <2>2, <2>3, <2>4, <2>5 DEF LoopStep
<1>6. CASE \/ \E p \in Poster : PostStep(p) \/ \E e \in Task : Post(p, e)
           \/ \E f \in Fd : BecomesReady(f)
           \/ UNCHANGED vars
  BY <1>2, <1>4, <1>6 DEF PostStep, PostCount, PostLoadState, PostNotify, Post,
     BecomesReady, vars, memory
<1>7. CASE \E s \in Stopper : StopStep(s) \/ StopTest(s)
  BY <1>1, <1>2, <1>4, <1>7 DEF StopStep, StopTest, StopStore, StopLoadState, StopNotify
<1>8. CASE \E t \in Thread : Flush(t)
  BY <1>8 DEF Flush, Fenced
<1> QED BY <1>5, <1>6, <1>7, <1>8 DEF Next

(* A task queued while the loop is on its way to sleep has a wake-up under way. *)
LEMMA WakeupStep ==
    ASSUME TypeOK, TypeOK', SleepInv, [Next]_vars,
           (loop \in {"new", "enter", "test", "wait"})', queue' # <<>>
    PROVE  WakeupUnderWay'
<1> DEFINE Drowsy == {"new", "enter", "test", "wait"}
<1> USE DEF Goto
<1>0. /\ queue \in Seq(Task) /\ size \in Nat
      /\ pc \in [Poster -> {"idle", "count", "load", "notify"}]
  BY DEF TypeOK, Q!QueueTypeOK
<1>1. loop \in Drowsy /\ queue # <<>> => WakeupUnderWay
  BY DEF SleepInv
<1>2. ASSUME UNCHANGED <<eventfd, pc>>, WakeupUnderWay PROVE WakeupUnderWay'
  BY <1>2 DEF WakeupUnderWay
<1>3. ASSUME UNCHANGED tasks, UNCHANGED <<eventfd, pc>>, loop \in Drowsy
      PROVE  WakeupUnderWay'
  BY <1>1, <1>2, <1>3 DEF tasks
<1>4. ASSUME NEW p \in Poster, PostStep(p) \/ \E e \in Task : Post(p, e)
      PROVE  WakeupUnderWay'
  <2>1. CASE \E e \in Task : Post(p, e)
    <3>1. pc'[p] = "count"
      BY <1>0, <2>1 DEF Post
    <3> QED BY <3>1 DEF WakeupUnderWay
  <2>2. CASE PostCount(p)
    <3>1. pc'[p] = "load"
      BY <1>0, <2>2 DEF PostCount
    <3> QED BY <3>1 DEF WakeupUnderWay
  <2>3. CASE PostLoadState(p)
    <3>1. loop \in Drowsy
      BY <2>3 DEF PostLoadState
    <3>2. state \in {"EpollWait", "DoNothing"}
      BY <3>1 DEF SleepInv, StateOf
    <3>3. pc'[p] = "notify"
      BY <1>0, <2>3, <3>2 DEF PostLoadState
    <3> QED BY <3>3 DEF WakeupUnderWay
  <2>4. CASE PostNotify(p)
    BY <2>4 DEF PostNotify, WakeupUnderWay
  <2> QED BY <1>4, <2>1, <2>2, <2>3, <2>4 DEF PostStep
<1>5. CASE CheckAgain
  <2>1. size = 0 /\ UNCHANGED <<queue, pc>>
    BY <1>5 DEF CheckAgain, tasks
  <2>2. Len(queue) # 0
    BY <1>0, <2>1, EmptySeq
  <2>3. Cardinality(Counting) # 0
    <3>1. Len(queue) = size + Cardinality(Counting)
      BY DEF SleepInv
    <3>2. Cardinality(Counting) \in Nat /\ Len(queue) \in Nat
      BY <1>0, CountingSet, LenProperties
    <3> QED BY <2>1, <2>2, <3>1, <3>2
  <2>4. \E p \in Poster : pc[p] = "count"
    BY <2>3, CountingSet
  <2> QED BY <2>1, <2>4 DEF WakeupUnderWay
<1>6. CASE LoopStep /\ ~CheckAgain
  <2>1. CASE Begin \/ EnterWait \/ TestStop \/ EpollTimesOut
    BY <1>3, <2>1 DEF Begin, EnterWait, TestStop, EpollTimesOut, io
  <2>2. CASE Renotify
    BY <2>2 DEF Renotify, WakeupUnderWay
  <2>3. CASE \/ EpollReturns \/ HandleActive \/ ReadEventFd \/ HandleExtra \/ DrainOne
             \/ RunTask \/ Drained \/ Rearm \/ Leave \/ Exit
             \/ \E f \in Fd : RunCallback(f) \/ CleanUp(f)
    BY <2>3 DEF EpollReturns, HandleActive, ReadEventFd, HandleExtra, DrainOne,
       RunTask, Drained, Rearm, Leave, Exit, RunCallback, CleanUp
  <2> QED BY <1>6, <2>1, <2>2, <2>3 DEF LoopStep
<1>7. ASSUME NEW s \in Stopper, StopStep(s) \/ StopTest(s) PROVE WakeupUnderWay'
  <2>1. CASE StopNotify(s)
    BY <2>1 DEF StopNotify, WakeupUnderWay
  <2>2. CASE StopTest(s) \/ StopStore(s) \/ StopLoadState(s)
    BY <1>3, <2>2 DEF StopTest, StopStore, StopLoadState, io
  <2> QED BY <1>7, <2>1, <2>2 DEF StopStep
<1>8. CASE \E f \in Fd : BecomesReady(f)
  BY <1>3, <1>8 DEF BecomesReady
<1>9. CASE UNCHANGED vars
  BY <1>3, <1>9 DEF vars, io
<1>10. CASE \E t \in Thread : Flush(t)
  BY <1>10 DEF Flush, SleepInv, Fenced
<1> QED BY <1>4, <1>5, <1>6, <1>7, <1>8, <1>9, <1>10 DEF Next

(* A Stop that set m_stop_ before the loop slept is still on its way to wake it. *)
LEMMA StopStepWakes ==
    ASSUME StoreBuffers = FALSE, TypeOK, SleepInv, [Next]_vars
    PROVE  NoLostStop'
<1> USE DEF Goto
<1> DEFINE Waking(s) == s \in {"load", "notify"}
<1>0. spc \in [Stopper -> {"idle", "ignored", "store", "load", "notify", "returned"}]
  BY DEF TypeOK
<1>1. \A t, v : /\ Store(t, "state", v) => stop' = stop
                /\ Store(t, "stop", v) => stop' = v
  BY StoreTakesEffect
<1>2. ASSUME loop' # "wait" PROVE NoLostStop'
  BY <1>2 DEF NoLostStop
<1>3. ASSUME UNCHANGED <<stop, loop, spc, eventfd>> PROVE NoLostStop'
  BY <1>3 DEF NoLostStop, SleepInv
<1>4. CASE TestStop
  <2>1. LoadStop("loop") = stop
    BY LoadStopFromMemory DEF SleepInv, Thread
  <2>2. stop' = stop /\ (stop => loop' = "leave")
    BY <1>4, <2>1 DEF TestStop, memory
  <2> QED BY <2>2 DEF NoLostStop
<1>5. CASE LoopStep /\ ~TestStop
  <2>1. loop' # "wait"
    <3>1. CASE \/ Begin \/ EnterWait \/ EpollReturns \/ EpollTimesOut \/ HandleActive
               \/ HandleExtra \/ DrainOne \/ RunTask \/ Drained \/ Rearm \/ Renotify \/ Leave
               \/ Exit
      BY <3>1 DEF Begin, EnterWait, EpollReturns, EpollTimesOut, HandleActive,
         HandleExtra, DrainOne, RunTask, Drained, Rearm, Renotify, Leave, Exit
    <3>2. CASE CheckAgain \/ ReadEventFd \/ \E f \in Fd : RunCallback(f) \/ CleanUp(f)
      BY <3>2 DEF CheckAgain, ReadEventFd, RunCallback, CleanUp
    <3> QED BY <1>5, <3>1, <3>2 DEF LoopStep
  <2> QED BY <1>2, <2>1
<1>6. ASSUME NEW p \in Poster, PostStep(p) \/ \E e \in Task : Post(p, e)
      PROVE  NoLostStop'
  <2>1. CASE PostNotify(p)
    BY <2>1 DEF PostNotify, NoLostStop
  <2>2. CASE PostCount(p) \/ PostLoadState(p) \/ \E e \in Task : Post(p, e)
    BY <1>3, <2>2 DEF PostCount, PostLoadState, Post, memory, io
  <2> QED BY <1>6, <2>1, <2>2 DEF PostStep
<1>7. ASSUME NEW s \in Stopper, StopStep(s) \/ StopTest(s), loop' = "wait"
      PROVE  NoLostStop'
  <2>1. loop = "wait" /\ state = "EpollWait"
    BY <1>7 DEF StopStep, StopTest, StopStore, StopLoadState, StopNotify, SleepInv,
       StateOf
  <2>2. CASE StopTest(s)
    <3>1. \A r \in Stopper : Waking(spc[r]) => spc'[r] = spc[r]
      BY <1>0, <2>2 DEF StopTest
    <3>2. UNCHANGED <<stop, eventfd>>
      BY <2>2 DEF StopTest, memory, io
    <3> QED BY <2>1, <3>1, <3>2 DEF NoLostStop, SleepInv
  <2>3. CASE StopStore(s)
    <3>1. spc'[s] = "load"
      BY <1>0, <2>3 DEF StopStore
    <3> QED BY <3>1 DEF NoLostStop
  <2>4. CASE StopLoadState(s)
    <3>1. spc'[s] = "notify"
      BY <1>0, <2>1, <2>4 DEF StopLoadState
    <3> QED BY <3>1 DEF NoLostStop
  <2>5. CASE StopNotify(s)
    BY <2>5 DEF StopNotify, NoLostStop
  <2> QED BY <1>7, <2>2, <2>3, <2>4, <2>5 DEF StopStep
<1>8. CASE \E f \in Fd : BecomesReady(f)
  BY <1>3, <1>8 DEF BecomesReady, memory
<1>9. CASE UNCHANGED vars
  BY <1>3, <1>9 DEF vars, memory, io
<1>10. CASE \E t \in Thread : Flush(t)
  BY <1>10 DEF Flush, SleepInv, Fenced
<1> QED BY <1>2, <1>4, <1>5, <1>6, <1>7, <1>8, <1>9, <1>10 DEF Next

(* SleepInv is inductive. *)
LEMMA SleepStep ==
    ASSUME StoreBuffers = FALSE, TypeOK, TypeOK', SleepInv, [Next]_vars
    PROVE  SleepInv'
<1>1. (\A t \in Thread : Fenced(t))'
  BY FencedStep DEF SleepInv, Fenced
<1>2. (state = StateOf(loop))'
  <2>1. state' = StateOf(loop')
    BY StateStep DEF SleepInv
  <2> QED BY <2>1 DEF StateOf
<1>3. (Len(queue) = size + Cardinality(Counting))'
  BY CountStep DEF SleepInv
<1>4. (loop \in {"new", "enter", "test", "wait"} /\ queue # <<>> => WakeupUnderWay)'
  BY WakeupStep
<1>5. NoLostStop'
  BY StopStepWakes
<1> QED BY <1>1, <1>2, <1>3, <1>4, <1>5 DEF SleepInv

LEMMA SleepInit == Init => SleepInv
<1> SUFFICES ASSUME Init PROVE SleepInv
  OBVIOUS
<1>1. Counting = {} /\ Len(queue) = 0 /\ size = 0
  BY DEF Init, Counting, Q!QueueInit
<1>2. Len(queue) = size + Cardinality(Counting)
  BY <1>1, FS_EmptySet
<1>3. state = StateOf(loop) /\ (\A t \in Thread : Fenced(t)) /\ NoLostStop
  BY DEF Init, StateOf, Fenced, NoLostStop
<1>4. queue = <<>>
  BY DEF Init, Q!QueueInit
<1> QED BY <1>2, <1>3, <1>4 DEF SleepInv

(* Under sequential consistency the loop never sleeps on a queued task
   (Scheduler.cpp:138-168 against AddDefer, Scheduler.h:72-78): whoever queued it will
   write the eventfd, however many threads there are and however they interleave. *)
THEOREM NoTaskSleptOn == StoreBuffers = FALSE => (Spec => []NoLostWakeup)
<1> SUFFICES ASSUME StoreBuffers = FALSE PROVE Spec => []NoLostWakeup
  OBVIOUS
<1>1. Init => SleepInv
  BY SleepInit
<1>2. TypeOK /\ TypeOK' /\ SleepInv /\ [Next]_vars => SleepInv'
  BY SleepStep
<1>3. SleepInv => NoLostWakeup
  BY DEF SleepInv, NoLostWakeup, WakeupUnderWay
<1> QED BY TypeCorrect, <1>1, <1>2, <1>3, PTL DEF Spec

(* Nor on a Stop by another thread (Scheduler.cpp:191-201): the thread that set
   m_stop_ will write the eventfd. *)
THEOREM NoStopSleptOn == StoreBuffers = FALSE => (Spec => []NoLostStop)
<1> SUFFICES ASSUME StoreBuffers = FALSE PROVE Spec => []NoLostStop
  OBVIOUS
<1>1. Init => SleepInv
  BY SleepInit
<1>2. TypeOK /\ TypeOK' /\ SleepInv /\ [Next]_vars => SleepInv'
  BY SleepStep
<1>3. SleepInv => NoLostStop
  BY DEF SleepInv
<1> QED BY TypeCorrect, <1>1, <1>2, <1>3, PTL DEF Spec

-----------------------------------------------------------------------------
(* The queue is used within its contract, whatever the memory.               *)

LEMMA TakeConcat ==
    ASSUME NEW S, NEW q \in Seq(S), q # <<>>, NEW t \in Seq(S)
    PROVE  Append(t, Head(q)) \o Tail(q) = t \o q
<1>1. t \o <<Head(q)>> = Append(t, Head(q))
  BY HeadTailProperties
<1>2. <<Head(q)>> \o Tail(q) = q
  BY HeadTailProperties
<1>3. (t \o <<Head(q)>>) \o Tail(q) = t \o (<<Head(q)>> \o Tail(q))
  BY HeadTailProperties, ConcatAssociative
<1> QED BY <1>1, <1>2, <1>3

LEMMA FreshStaysInjective ==
    ASSUME NEW S, NEW q \in Seq(S), NEW t \in Seq(S), NEW e \in S,
           e \notin Q!Contents(q) \cup Q!Contents(t),
           \A i, j \in DOMAIN (t \o q) : (t \o q)[i] = (t \o q)[j] => i = j
    PROVE  \A i, j \in DOMAIN (t \o Append(q, e)) :
               (t \o Append(q, e))[i] = (t \o Append(q, e))[j] => i = j
<1> DEFINE all == t \o q
<1>1. all \in Seq(S) /\ t \o Append(q, e) = Append(all, e)
  OBVIOUS
<1>2. \A i \in DOMAIN all : all[i] # e
  BY DEF Q!Contents
<1>3. \A i, j \in DOMAIN all : all[i] = all[j] => i = j
  OBVIOUS
<1> HIDE DEF all
<1>4. \A i, j \in DOMAIN Append(all, e) : Append(all, e)[i] = Append(all, e)[j] => i = j
  BY <1>1, <1>2, <1>3
<1> QED BY <1>1, <1>4

LEMMA TakenOnceStep ==
    ASSUME TypeOK, Q!TakenOnce, [Next]_vars
    PROVE  Q!TakenOnce'
<1>0. queue \in Seq(Task) /\ taken \in Seq(Task)
  BY DEF TypeOK, Q!QueueTypeOK
<1>1. ASSUME UNCHANGED <<queue, taken>> PROVE Q!TakenOnce'
  BY <1>1 DEF Q!TakenOnce
<1>2. ASSUME NEW e \in Task, Q!Put(e) \/ Q!PutCounted(e) PROVE Q!TakenOnce'
  <2>1. /\ queue' = Append(queue, e) /\ taken' = taken
        /\ e \notin Q!Contents(queue) \cup Q!Contents(taken)
    BY <1>2 DEF Q!Put, Q!PutCounted
  <2>2. \A i, j \in DOMAIN (taken \o Append(queue, e)) :
            (taken \o Append(queue, e))[i] = (taken \o Append(queue, e))[j] => i = j
    BY <1>0, <2>1, FreshStaysInjective DEF Q!TakenOnce
  <2> QED BY <2>1, <2>2 DEF Q!TakenOnce
<1>3. ASSUME Q!Take PROVE Q!TakenOnce'
  <2>1. (taken \o queue)' = taken \o queue
    BY <1>0, <1>3, TakeConcat DEF Q!Take
  <2> QED BY <2>1 DEF Q!TakenOnce
<1>4. MayDefer => Q!TakenOnce'
  BY <1>1, <1>2 DEF MayDefer, tasks
<1>5. UNCHANGED tasks => Q!TakenOnce'
  BY <1>1 DEF tasks
<1>6. CASE LoopStep
  <2>1. CASE DrainOne
    BY <2>1, <1>3 DEF DrainOne
  <2>2. CASE RunTask \/ (\E f \in Fd : RunCallback(f) \/ CleanUp(f))
    BY <2>2, <1>4 DEF RunTask, RunCallback, CleanUp
  <2>3. CASE \/ Begin \/ EnterWait \/ TestStop \/ EpollReturns \/ EpollTimesOut
             \/ HandleActive \/ ReadEventFd \/ HandleExtra \/ Drained \/ Rearm \/ CheckAgain
             \/ Renotify \/ Leave \/ Exit
    BY <2>3, <1>5 DEF Begin, EnterWait, TestStop, EpollReturns, EpollTimesOut,
       HandleActive, ReadEventFd, HandleExtra, Drained, Rearm, CheckAgain, Renotify, Leave, Exit
  <2> QED BY <1>6, <2>1, <2>2, <2>3 DEF LoopStep
<1>7. CASE \E p \in Poster : PostStep(p) \/ \E e \in Task : Post(p, e)
  BY <1>1, <1>2, <1>5, <1>7
     DEF PostStep, PostCount, PostLoadState, PostNotify, Post, Q!Count
<1>8. CASE \/ \E s \in Stopper : StopStep(s) \/ StopTest(s)
           \/ \E t \in Thread : Flush(t)
           \/ \E f \in Fd : BecomesReady(f)
           \/ UNCHANGED vars
  BY <1>5, <1>8 DEF StopStep, StopTest, StopStore, StopLoadState, StopNotify, Flush,
     BecomesReady, vars
<1> QED BY <1>6, <1>7, <1>8 DEF Next

(* The loop calls Dequeue, whose result it runs unchecked, only on a queue that
   holds a task (Scheduler.cpp:160-162), and no task runs twice: m_size_ is behind
   by exactly the AddDefer calls that have linked and not yet counted
   (LockFreeQueue.h:49-55).  Store buffers do not matter. *)
THEOREM QueueContractKept == Spec => []QueueUsedSafely
<1> DEFINE Counted == Len(queue) = size + Cardinality(Counting)
           QueueInv == Counted /\ Q!TakenOnce
<1>1. Init => QueueInv
  <2> SUFFICES ASSUME Init PROVE QueueInv
    OBVIOUS
  <2>1. Counting = {} /\ Len(queue) = 0 /\ size = 0
    BY DEF Init, Counting, Q!QueueInit
  <2>2. Q!TakenOnce
    BY DEF Init, Q!QueueInit, Q!TakenOnce
  <2> QED BY <2>1, <2>2, FS_EmptySet
<1>2. TypeOK /\ TypeOK' /\ QueueInv /\ [Next]_vars => QueueInv'
  BY CountStep, TakenOnceStep
<1>3. TypeOK /\ QueueInv => QueueUsedSafely
  <2> SUFFICES ASSUME TypeOK, QueueInv PROVE Q!SizeNeverOverstates
    BY DEF QueueUsedSafely
  <2>1. Len(queue) \in Nat /\ size \in Nat /\ Cardinality(Counting) \in Nat
    BY CountingSet DEF TypeOK, Q!QueueTypeOK
  <2> QED BY <2>1 DEF Q!SizeNeverOverstates
<1> QED BY TypeCorrect, <1>1, <1>2, <1>3, PTL DEF Spec

=============================================================================
