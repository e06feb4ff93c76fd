------------------------------- MODULE Poller -------------------------------
(***************************************************************************)
(* Poller (coroutine/Poller): which coroutine waits for which descriptor.  *)
(* An entry of m_runnable_context_ is its two callbacks; m_event_ says     *)
(* which of them are set and is not kept twice.  The callbacks are the     *)
(* coroutines of connections; the eventfd and the timerfd, registered once *)
(* and for ever, are left to Scheduler and TimerQueue.                     *)
(*                                                                         *)
(* The vector never has to grow here: descriptors stay below its initial   *)
(* size.                                                                   *)
(***************************************************************************)
EXTENDS Naturals, Sequences, FiniteSets, SequencesExt

CONSTANTS Conn, Fd, None

ASSUME PollerConstants == None \notin Conn /\ None \notin Fd /\ IsFiniteSet(Fd)

VARIABLES onRead, onWrite       \* m_read_callback_ and m_write_callback_ by descriptor

pollerVars == <<onRead, onWrite>>

PollerInit == onRead = [fd \in Fd |-> None] /\ onWrite = [fd \in Fd |-> None]

PollerTypeOK == onRead \in [Fd -> Conn \cup {None}] /\ onWrite \in [Fd -> Conn \cup {None}]

Registered(fd) == onRead[fd] # None \/ onWrite[fd] # None

(* A pointer to one of the two callbacks of a descriptor, and what it leads to by the
   time it is used. *)
Pointer == [fd : Fd, way : {"read", "write"}]

Runnable(p) == IF p.way = "read" THEN onRead[p.fd] ELSE onWrite[p.fd]

-----------------------------------------------------------------------------
(* Broken variants, no part of the poller: each stands in for the operator it is   *)
(* named after to show that a property notices.                              *)

CancelRegisterReadOnly(fd) == onRead' = [onRead EXCEPT ![fd] = None] /\ UNCHANGED onWrite

ResumeNobody(fd) == None

CallbacksReadOnly(fds) == {p \in Pointer : p.fd \in fds /\ p.way = "read" /\ Runnable(p) # None}

-----------------------------------------------------------------------------

RegisterRead(fd, c)  == onRead' = [onRead EXCEPT ![fd] = c] /\ UNCHANGED onWrite
RegisterWrite(fd, c) == onWrite' = [onWrite EXCEPT ![fd] = c] /\ UNCHANGED onRead

CancelRegister(fd) ==
    /\ onRead' = [onRead EXCEPT ![fd] = None]
    /\ onWrite' = [onWrite EXCEPT ![fd] = None]

Callbacks(fds) == {p \in Pointer : p.fd \in fds /\ Runnable(p) # None}

(* EpollWait: for the descriptors the kernel reported, in whatever order, it hands out
   pointers to their callbacks, for writing first, whichever has become possible. *)
EpollWait(fds) ==
    {order \in SetToSeqs(Callbacks(fds)) :
        \A i, j \in DOMAIN order : i < j /\ order[i].fd = order[j].fd =>
            j = i + 1 /\ order[i].way = "write"}

(* RunnableContext::GetCallBack. *)
GetCallBack(fd) == IF onRead[fd] # None THEN onRead[fd] ELSE onWrite[fd]

=============================================================================
