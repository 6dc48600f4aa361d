------------------------- MODULE OptimizerAdmission -------------------------
(***************************************************************************)
(* The way of an optimizer request through services/api/middleware.py: its *)
(* body is buffered by RequestBodyLimitMiddleware, then                    *)
(* OptimizerAdmissionController hands it one of the execution slots shared *)
(* by the optimizer routes, lets it wait for one, or refuses it.           *)
(*                                                                         *)
(* One event loop runs the callers.  The condition's lock is never held    *)
(* over an await, so each critical section is one step; what interleaves   *)
(* is the time between a notify and the notified task's turn, in which     *)
(* other callers arrive and deadlines and cancellations strike.            *)
(*                                                                         *)
(* asyncio wakes waiters in the order of their arrival; nothing here rests *)
(* on that, and any of them may be woken.                                  *)
(***************************************************************************)
EXTENDS Integers, FiniteSets

CONSTANTS
    Callers,          \* bound: requests on their way at one time
    Operations,       \* the optimizer routes
    OperationOf,      \* [Callers -> Operations]
    MaxConcurrency,   \* max_concurrency
    MaxQueueSize      \* max_queue_size

ASSUME AdmissionAssumption ==
    /\ IsFiniteSet(Callers)
    /\ OperationOf \in [Callers -> Operations]
    /\ MaxConcurrency \in Nat \ {0}
    /\ MaxQueueSize \in Nat

VARIABLES
    pc,         \* where each caller is
    doom,       \* what will be raised in its next turn: a deadline or a cancellation
    active,     \* _active
    queued,     \* _queued
    activeBy,   \* _active_by_operation
    queuedBy    \* _queued_by_operation

vars == <<pc, doom, active, queued, activeBy, queuedBy>>
counts == <<active, queued, activeBy, queuedBy>>

Places == {"idle", "reading", "waiting", "woken", "serving"}
At(place) == {c \in Callers : pc[c] = place}
Queue == At("waiting") \cup At("woken")

Init ==
    /\ pc = [c \in Callers |-> "idle"]
    /\ doom = [c \in Callers |-> "none"]
    /\ active = 0
    /\ queued = 0
    /\ activeBy = [o \in Operations |-> 0]
    /\ queuedBy = [o \in Operations |-> 0]

Add(count, c, n) == [count EXCEPT ![OperationOf[c]] = @ + n]

\* notify(1): the sets of waiters it may wake.
Notify == IF At("waiting") = {} THEN {{}} ELSE {{w} : w \in At("waiting")}

\* c goes to place, and the waiters in W get a turn.
Moved(c, place, W) ==
    [w \in Callers |-> IF w = c THEN place ELSE IF w \in W THEN "woken" ELSE pc[w]]

-----------------------------------------------------------------------------
(* RequestBodyLimitMiddleware: no slot is asked for before the body is here *)

\* A request whose Content-Length is invalid or too large gets no further and
\* is not a step.
Arrive(c) ==
    /\ pc[c] = "idle"
    /\ pc' = Moved(c, "reading", {})
    /\ UNCHANGED <<doom, counts>>

\* The body grows too large, or the client disconnects, before it is complete.
AbandonBody(c) ==
    /\ pc[c] = "reading"
    /\ pc' = Moved(c, "idle", {})
    /\ UNCHANGED <<doom, counts>>

-----------------------------------------------------------------------------
(* acquire *)

\* A newcomer takes a free slot at once, whoever is waiting.
AdmitAtOnce(c) ==
    /\ pc[c] = "reading"
    /\ active < MaxConcurrency
    /\ pc' = Moved(c, "serving", {})
    /\ active' = active + 1
    /\ activeBy' = Add(activeBy, c, 1)
    /\ UNCHANGED <<doom, queued, queuedBy>>

\* OptimizerQueueFullError, answered 429.
RefuseFull(c) ==
    /\ pc[c] = "reading"
    /\ active >= MaxConcurrency
    /\ queued >= MaxQueueSize
    /\ pc' = Moved(c, "idle", {})
    /\ UNCHANGED <<doom, counts>>

Enqueue(c) ==
    /\ pc[c] = "reading"
    /\ active >= MaxConcurrency
    /\ queued < MaxQueueSize
    /\ pc' = Moved(c, "waiting", {})
    /\ queued' = queued + 1
    /\ queuedBy' = Add(queuedBy, c, 1)
    /\ UNCHANGED <<doom, active, activeBy>>

ExpireOnlyAsleep(c) ==
    /\ pc[c] = "waiting"
    /\ doom[c] = "none"
    /\ doom' = [doom EXCEPT ![c] = "deadline"]
    /\ pc' = Moved(c, "woken", {})
    /\ UNCHANGED counts

\* asyncio.timeout fires: the task is cancelled, also one already notified.
Expire(c) ==
    /\ c \in Queue
    /\ doom[c] = "none"
    /\ doom' = [doom EXCEPT ![c] = "deadline"]
    /\ pc' = Moved(c, "woken", {})
    /\ UNCHANGED counts

\* Somebody else cancels the task; the timeout then no longer claims the error.
Cancel(c) ==
    /\ c \in Queue
    /\ doom[c] # "cancelled"
    /\ doom' = [doom EXCEPT ![c] = "cancelled"]
    /\ pc' = Moved(c, "woken", {})
    /\ UNCHANGED counts

ResumeTrusting(c) ==
    /\ pc[c] = "woken"
    /\ doom[c] = "none"
    /\ pc' = Moved(c, "serving", {})
    /\ active' = active + 1
    /\ activeBy' = Add(activeBy, c, 1)
    /\ queued' = queued - 1
    /\ queuedBy' = Add(queuedBy, c, -1)
    /\ UNCHANGED doom

\* The notified task's turn: it looks again, for a newcomer may have the slot.
Resume(c) ==
    /\ pc[c] = "woken"
    /\ doom[c] = "none"
    /\ IF active < MaxConcurrency
       THEN /\ pc' = Moved(c, "serving", {})
            /\ active' = active + 1
            /\ activeBy' = Add(activeBy, c, 1)
            /\ queued' = queued - 1
            /\ queuedBy' = Add(queuedBy, c, -1)
       ELSE /\ pc' = Moved(c, "waiting", {})
            /\ UNCHANGED counts
    /\ UNCHANGED doom

QuitSilently(c) ==
    /\ pc[c] = "woken"
    /\ doom[c] # "none"
    /\ doom' = [doom EXCEPT ![c] = "none"]
    /\ queued' = queued - 1
    /\ queuedBy' = Add(queuedBy, c, -1)
    /\ pc' = Moved(c, "idle", {})
    /\ UNCHANGED <<active, activeBy>>

QuitInsideTimeout(c) ==
    /\ pc[c] = "woken"
    /\ doom[c] # "none"
    /\ doom' = [doom EXCEPT ![c] = "none"]
    /\ queued' = IF doom[c] = "deadline" THEN queued - 1 ELSE queued
    /\ queuedBy' = Add(queuedBy, c, -1)
    /\ \E W \in IF active < MaxConcurrency /\ queued' > 0 THEN Notify ELSE {{}} :
         pc' = Moved(c, "idle", W)
    /\ UNCHANGED <<active, activeBy>>

\* The task's turn after its deadline or a cancellation: it leaves the queue and
\* hands on the notify that may have been meant for it.
Quit(c) ==
    /\ pc[c] = "woken"
    /\ doom[c] # "none"
    /\ doom' = [doom EXCEPT ![c] = "none"]
    /\ queued' = queued - 1
    /\ queuedBy' = Add(queuedBy, c, -1)
    /\ \E W \in IF active < MaxConcurrency /\ queued' > 0 THEN Notify ELSE {{}} :
         pc' = Moved(c, "idle", W)
    /\ UNCHANGED <<active, activeBy>>

-----------------------------------------------------------------------------
(* release *)

\* In the middleware's finally: the request succeeded, failed or was cancelled.
Release(c) ==
    /\ pc[c] = "serving"
    /\ activeBy[OperationOf[c]] > 0
    /\ active' = active - 1
    /\ activeBy' = Add(activeBy, c, -1)
    /\ \E W \in Notify : pc' = Moved(c, "idle", W)
    /\ UNCHANGED <<doom, queued, queuedBy>>

-----------------------------------------------------------------------------
Turn(c) == Resume(c) \/ Quit(c)

Next ==
    \E c \in Callers :
        \/ Arrive(c)
        \/ AbandonBody(c)
        \/ AdmitAtOnce(c)
        \/ RefuseFull(c)
        \/ Enqueue(c)
        \/ Expire(c)
        \/ Cancel(c)
        \/ Resume(c)
        \/ Quit(c)
        \/ Release(c)

\* The event loop runs every task that is ready, and every timer fires.  Nothing
\* is assumed of clients and of the optimizer: a slot may be kept for ever.
Fairness == \A c \in Callers : WF_vars(Turn(c)) /\ WF_vars(Expire(c))

Spec == Init /\ [][Next]_vars /\ Fairness

-----------------------------------------------------------------------------
(* Properties *)

\* Types, and the two limits: newcomers and woken waiters go for the same slots,
\* and never take more than there are.
TypeOK ==
    /\ pc \in [Callers -> Places]
    /\ doom \in [Callers -> {"none", "deadline", "cancelled"}]
    /\ \A c \in Callers : doom[c] # "none" => pc[c] = "woken"
    /\ active \in 0 .. MaxConcurrency
    /\ queued \in 0 .. MaxQueueSize
    /\ activeBy \in [Operations -> Nat]
    /\ queuedBy \in [Operations -> Nat]

Of(o, S) == {c \in S : OperationOf[c] = o}

\* The controller's counters always count the callers that hold a slot and those
\* that wait, in total and per operation, whatever way each of them left; so
\* release never finds a counter at zero.
CountersTrue ==
    /\ active = Cardinality(At("serving"))
    /\ queued = Cardinality(Queue)
    /\ \A o \in Operations :
         /\ activeBy[o] = Cardinality(Of(o, At("serving")))
         /\ queuedBy[o] = Cardinality(Of(o, Queue))

\* While anyone sleeps in the queue, each free slot has a waiter awake that will
\* take it or hand it on: no wake-up is lost to a deadline, a cancellation or a
\* newcomer.
NoSlotStranded ==
    At("waiting") = {} \/ MaxConcurrency - active <= Cardinality(At("woken"))

\* Every caller that waits is admitted or told that it was not, however often
\* newcomers take the slot it was woken for and however long slots are kept.
WaitersLeaveQueue == \A c \in Callers : c \in Queue ~> c \notin Queue
=============================================================================
