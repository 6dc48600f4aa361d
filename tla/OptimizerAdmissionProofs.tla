---------------------- MODULE OptimizerAdmissionProofs ----------------------
(***************************************************************************)
(* Proofs about OptimizerAdmission, for every number of callers, slots and *)
(* places in the queue: its counters count, its limits hold, and no free   *)
(* slot is ever stranded.  The three need each other: the limit on active  *)
(* is kept because Resume reads a counter that is true, and the hand-on of *)
(* Quit reads queued.                                                      *)
(***************************************************************************)
EXTENDS OptimizerAdmission, FiniteSetTheorems, TLAPS

Inv == TypeOK /\ CountersTrue /\ NoSlotStranded

-----------------------------------------------------------------------------
(* Counting callers *)

\* The sets of callers are finite.
LEMMA CallersCount ==
    ASSUME NEW S \in SUBSET Callers
    PROVE  IsFiniteSet(S) /\ Cardinality(S) \in Nat
<1>1. IsFiniteSet(Callers)
  BY AdmissionAssumption DEF AdmissionAssumption
<1> QED
  BY <1>1, FS_Subset, FS_CardinalityType

\* A caller that joins a set is counted once, in total and for its operation.
LEMMA CountUp ==
    ASSUME NEW S \in SUBSET Callers, NEW c \in Callers \ S,
           NEW count \in [Operations -> Nat],
           \A o \in Operations : count[o] = Cardinality(Of(o, S))
    PROVE  /\ Cardinality(S \cup {c}) = Cardinality(S) + 1
           /\ Add(count, c, 1) \in [Operations -> Nat]
           /\ \A o \in Operations : Add(count, c, 1)[o] = Cardinality(Of(o, S \cup {c}))
<1>1. Cardinality(S \cup {c}) = Cardinality(S) + 1
  BY CallersCount, FS_AddElement
<1>2. OperationOf[c] \in Operations
  BY AdmissionAssumption DEF AdmissionAssumption
<1>3. Add(count, c, 1) \in [Operations -> Nat]
  BY <1>2 DEF Add
<1>4. ASSUME NEW o \in Operations
      PROVE  Add(count, c, 1)[o] = Cardinality(Of(o, S \cup {c}))
  <2>1. Of(o, S) \in SUBSET Callers /\ c \notin Of(o, S)
    BY DEF Of
  <2>2. CASE o = OperationOf[c]
    <3>1. Of(o, S \cup {c}) = Of(o, S) \cup {c}
      BY <2>2 DEF Of
    <3>2. Cardinality(Of(o, S) \cup {c}) = Cardinality(Of(o, S)) + 1
      BY <2>1, CallersCount, FS_AddElement
    <3> QED
      BY <1>2, <2>2, <3>1, <3>2 DEF Add
  <2>3. CASE o # OperationOf[c]
    <3>1. Of(o, S \cup {c}) = Of(o, S)
      BY <2>3 DEF Of
    <3> QED
      BY <2>3, <3>1 DEF Add
  <2> QED
    BY <2>2, <2>3
<1> QED
  BY <1>1, <1>3, <1>4

\* A caller that leaves a set is discounted once, and no count falls below zero.
LEMMA CountDown ==
    ASSUME NEW S \in SUBSET Callers, NEW c \in S,
           NEW count \in [Operations -> Nat],
           \A o \in Operations : count[o] = Cardinality(Of(o, S))
    PROVE  /\ Cardinality(S \ {c}) = Cardinality(S) - 1
           /\ Add(count, c, -1) \in [Operations -> Nat]
           /\ \A o \in Operations : Add(count, c, -1)[o] = Cardinality(Of(o, S \ {c}))
<1>1. Cardinality(S \ {c}) = Cardinality(S) - 1
  BY CallersCount, FS_RemoveElement
<1>2. OperationOf[c] \in Operations
  BY AdmissionAssumption DEF AdmissionAssumption
<1>3. ASSUME NEW o \in Operations
      PROVE  /\ Add(count, c, -1)[o] = Cardinality(Of(o, S \ {c}))
             /\ Add(count, c, -1)[o] \in Nat
  <2>1. Of(o, S) \in SUBSET Callers /\ Of(o, S \ {c}) \in SUBSET Callers
    BY DEF Of
  <2>2. Cardinality(Of(o, S \ {c})) \in Nat
    BY <2>1, CallersCount
  <2>3. CASE o = OperationOf[c]
    <3>1. Of(o, S \ {c}) = Of(o, S) \ {c} /\ c \in Of(o, S)
      BY <2>3 DEF Of
    <3>2. Cardinality(Of(o, S) \ {c}) = Cardinality(Of(o, S)) - 1
      BY <2>1, <3>1, CallersCount, FS_RemoveElement
    <3>3. Add(count, c, -1)[o] = count[o] + (-1)
      BY <1>2, <2>3 DEF Add
    <3> QED
      BY <2>2, <3>1, <3>2, <3>3
  <2>4. CASE o # OperationOf[c]
    <3>1. Of(o, S \ {c}) = Of(o, S)
      BY <2>4 DEF Of
    <3> QED
      BY <2>2, <2>4, <3>1 DEF Add
  <2> QED
    BY <2>3, <2>4
<1>4. Add(count, c, -1) \in [Operations -> Nat]
  <2>1. Add(count, c, -1) = [o \in Operations |-> Add(count, c, -1)[o]]
    BY DEF Add
  <2> QED
    BY <1>3, <2>1
<1> QED
  BY <1>1, <1>3, <1>4

-----------------------------------------------------------------------------
(* Steps *)

\* The callers that hold a slot, by name.
Serving == At("serving")

\* A step that changes neither who holds a slot nor who is in the queue.
LEMMA SameCallers ==
    ASSUME CountersTrue, UNCHANGED counts, Serving' = Serving, Queue' = Queue
    PROVE  CountersTrue'
  BY DEF CountersTrue, counts, Of, Serving

\* What notify(1) may wake.
LEMMA NotifyWakes ==
    ASSUME NEW W \in Notify
    PROVE  /\ W \subseteq At("waiting")
           /\ At("waiting") # {} => \E w \in At("waiting") : W = {w}
           /\ At("waiting") = {} => W = {}
  BY DEF Notify

\* With every slot taken nobody needs to be awake.
LEMMA SlotsFull ==
    ASSUME NEW a \in Nat, a >= MaxConcurrency, NEW S \in SUBSET Callers
    PROVE  MaxConcurrency - a <= Cardinality(S)
  BY CallersCount, AdmissionAssumption DEF AdmissionAssumption

\* Requests on their way to the admission, refused by it, or put in the queue.
LEMMA ArrivalKeepsInv ==
    ASSUME Inv, NEW c \in Callers,
           Arrive(c) \/ AbandonBody(c) \/ RefuseFull(c) \/ Enqueue(c)
    PROVE  Inv'
<1> USE DEF Inv
<1>1. CASE Arrive(c) \/ AbandonBody(c) \/ RefuseFull(c)
  <2>1. TypeOK'
    BY <1>1 DEF TypeOK, Arrive, AbandonBody, RefuseFull, Moved, counts, Places
  <2>2. Serving' = Serving /\ Queue' = Queue /\ At("waiting")' = At("waiting")
        /\ At("woken")' = At("woken") /\ UNCHANGED counts
    BY <1>1 DEF TypeOK, Arrive, AbandonBody, RefuseFull, Moved, At, Queue, Serving
  <2> QED
    BY <2>1, <2>2, SameCallers DEF NoSlotStranded, counts
<1>2. CASE Enqueue(c)
  <2>1. /\ Serving' = Serving /\ Queue' = Queue \cup {c} /\ c \notin Queue
        /\ At("woken")' = At("woken")
    BY <1>2 DEF TypeOK, Enqueue, Moved, At, Queue, Serving
  <2>2. /\ Cardinality(Queue') = Cardinality(Queue) + 1
        /\ queuedBy' \in [Operations -> Nat]
        /\ \A o \in Operations : queuedBy'[o] = Cardinality(Of(o, Queue'))
    <3>1. Queue \in SUBSET Callers /\ c \in Callers \ Queue
      BY <2>1 DEF Queue, At
    <3>2. queuedBy \in [Operations -> Nat]
          /\ \A o \in Operations : queuedBy[o] = Cardinality(Of(o, Queue))
      BY DEF TypeOK, CountersTrue
    <3>3. /\ Cardinality(Queue \cup {c}) = Cardinality(Queue) + 1
          /\ Add(queuedBy, c, 1) \in [Operations -> Nat]
          /\ \A o \in Operations :
               Add(queuedBy, c, 1)[o] = Cardinality(Of(o, Queue \cup {c}))
      BY <3>1, <3>2, CountUp
    <3> QED
      BY <1>2, <2>1, <3>3 DEF Enqueue
  <2>3. TypeOK'
    BY <1>2, <2>2, AdmissionAssumption
      DEF TypeOK, Enqueue, Moved, Places, AdmissionAssumption
  <2>4. CountersTrue'
    BY <1>2, <2>1, <2>2 DEF CountersTrue, Enqueue, Of, Serving
  <2>5. NoSlotStranded'
    <3>1. active' \in Nat /\ active' >= MaxConcurrency
      BY <1>2 DEF TypeOK, Enqueue
    <3>2. MaxConcurrency - active' <= Cardinality(At("woken"))
      BY <3>1, SlotsFull DEF At
    <3> QED
      BY <2>1, <3>2 DEF NoSlotStranded
  <2> QED
    BY <2>3, <2>4, <2>5
<1> QED
  BY <1>1, <1>2

\* A deadline or a cancellation wakes its caller and takes it out of no count.
LEMMA DoomKeepsInv ==
    ASSUME Inv, NEW c \in Callers, Expire(c) \/ Cancel(c)
    PROVE  Inv'
<1> USE DEF Inv
<1>1. TypeOK'
  BY DEF TypeOK, Expire, Cancel, Moved, counts, Places
<1>2. /\ Serving' = Serving /\ Queue' = Queue /\ UNCHANGED counts
      /\ At("waiting")' \subseteq At("waiting")
      /\ At("woken") \in SUBSET At("woken")' /\ At("woken")' \in SUBSET Callers
  BY DEF TypeOK, Expire, Cancel, Moved, At, Queue, Serving
<1>3. /\ Cardinality(At("woken")) <= Cardinality(At("woken")')
      /\ Cardinality(At("woken")) \in Nat /\ Cardinality(At("woken")') \in Nat
  <2>1. At("woken") \in SUBSET Callers
    BY DEF At
  <2> QED
    BY <1>2, <2>1, CallersCount, FS_Subset
<1>4. NoSlotStranded'
  <2>1. CASE At("waiting") = {}
    BY <1>2, <2>1 DEF NoSlotStranded
  <2>2. CASE At("waiting") # {}
    <3>1. MaxConcurrency - active <= Cardinality(At("woken"))
      BY <2>2 DEF NoSlotStranded
    <3>2. active' = active
      BY <1>2 DEF counts
    <3>3. MaxConcurrency - active \in Int
      BY AdmissionAssumption DEF TypeOK, AdmissionAssumption
    <3>4. MaxConcurrency - active' <= Cardinality(At("woken")')
      BY <1>3, <3>1, <3>2, <3>3
    <3> QED
      BY <3>4 DEF NoSlotStranded
  <2> QED
    BY <2>1, <2>2
<1> QED
  BY <1>1, <1>2, <1>4, SameCallers

\* A newcomer, or a waiter that finds a slot free, takes it.
LEMMA AdmissionKeepsInv ==
    ASSUME Inv, NEW c \in Callers, AdmitAtOnce(c) \/ Resume(c)
    PROVE  Inv'
<1> USE DEF Inv
<1>1. Serving \in SUBSET Callers /\ Queue \in SUBSET Callers /\ At("woken") \in SUBSET Callers
  BY DEF Serving, Queue, At
<1>2. /\ activeBy \in [Operations -> Nat] /\ queuedBy \in [Operations -> Nat]
      /\ \A o \in Operations : activeBy[o] = Cardinality(Of(o, Serving))
      /\ \A o \in Operations : queuedBy[o] = Cardinality(Of(o, Queue))
  BY DEF TypeOK, CountersTrue, Serving
<1>3. MaxConcurrency \in Nat /\ active \in Nat /\ active <= MaxConcurrency
  BY AdmissionAssumption DEF TypeOK, AdmissionAssumption
<1>4. ASSUME c \notin Serving
      PROVE  /\ Cardinality(Serving \cup {c}) = Cardinality(Serving) + 1
             /\ Add(activeBy, c, 1) \in [Operations -> Nat]
             /\ \A o \in Operations :
                  Add(activeBy, c, 1)[o] = Cardinality(Of(o, Serving \cup {c}))
  <2>1. c \in Callers \ Serving
    BY <1>4
  <2> QED
    BY <1>1, <1>2, <2>1, CountUp
<1>5. CASE AdmitAtOnce(c)
  <2>1. /\ Serving' = Serving \cup {c} /\ c \notin Serving /\ Queue' = Queue
        /\ At("waiting")' = At("waiting") /\ At("woken")' = At("woken")
    BY <1>5 DEF TypeOK, AdmitAtOnce, Moved, At, Queue, Serving
  <2>2. TypeOK'
    BY <1>3, <1>4, <1>5, <2>1 DEF TypeOK, AdmitAtOnce, Moved, Places
  <2>3. CountersTrue'
    <3>1. active = Cardinality(Serving) /\ queued = Cardinality(Queue)
      BY DEF CountersTrue, Serving
    <3> QED
      BY <1>2, <1>4, <1>5, <2>1, <3>1 DEF CountersTrue, AdmitAtOnce, Of, Serving
  <2>4. NoSlotStranded'
    <3>1. active' = active + 1
      BY <1>5 DEF AdmitAtOnce
    <3>2. Cardinality(At("woken")) \in Nat
      BY <1>1, CallersCount
    <3>3. MaxConcurrency - active <= Cardinality(At("woken")) =>
            MaxConcurrency - active' <= Cardinality(At("woken"))
      BY <1>3, <3>1, <3>2
    <3> QED
      BY <2>1, <3>3 DEF NoSlotStranded
  <2> QED
    BY <2>2, <2>3, <2>4
<1>6. CASE Resume(c) /\ active < MaxConcurrency
  <2>1. /\ Serving' = Serving \cup {c} /\ c \notin Serving
        /\ Queue' = Queue \ {c} /\ c \in Queue
        /\ At("waiting")' = At("waiting")
        /\ At("woken")' = At("woken") \ {c} /\ c \in At("woken")
    BY <1>6 DEF TypeOK, Resume, Moved, At, Queue, Serving
  <2>2. /\ Cardinality(Queue \ {c}) = Cardinality(Queue) - 1
        /\ Add(queuedBy, c, -1) \in [Operations -> Nat]
        /\ \A o \in Operations :
             Add(queuedBy, c, -1)[o] = Cardinality(Of(o, Queue \ {c}))
    BY <1>1, <1>2, <2>1, CountDown
  <2>3. active = Cardinality(Serving) /\ queued = Cardinality(Queue)
    BY DEF CountersTrue, Serving
  <2>4. Cardinality(Queue \ {c}) \in Nat
    BY <1>1, CallersCount
  <2>5. TypeOK'
    <3>1. queued' \in 0 .. MaxQueueSize
      BY <1>6, <2>2, <2>3, <2>4, AdmissionAssumption
        DEF TypeOK, Resume, AdmissionAssumption
    <3> QED
      BY <1>3, <1>4, <1>6, <2>1, <2>2, <3>1 DEF TypeOK, Resume, Moved, Places
  <2>6. CountersTrue'
    BY <1>4, <1>6, <2>1, <2>2, <2>3 DEF CountersTrue, Resume, Serving
  <2>7. NoSlotStranded'
    <3>1. active' = active + 1
      BY <1>6 DEF Resume
    <3>2. /\ Cardinality(At("woken")) \in Nat
          /\ Cardinality(At("woken") \ {c}) = Cardinality(At("woken")) - 1
      BY <1>1, <2>1, CallersCount, FS_RemoveElement
    <3>3. MaxConcurrency - active <= Cardinality(At("woken")) =>
            MaxConcurrency - active' <= Cardinality(At("woken") \ {c})
      BY <1>3, <3>1, <3>2
    <3> QED
      BY <2>1, <3>3 DEF NoSlotStranded
  <2> QED
    BY <2>5, <2>6, <2>7
<1>7. CASE Resume(c) /\ ~(active < MaxConcurrency)
  <2>1. TypeOK'
    BY <1>7 DEF TypeOK, Resume, Moved, counts, Places
  <2>2. Serving' = Serving /\ Queue' = Queue /\ UNCHANGED counts
    BY <1>7 DEF TypeOK, Resume, Moved, At, Queue, Serving
  <2>3. NoSlotStranded'
    <3>1. active' \in Nat /\ active' >= MaxConcurrency
      BY <1>3, <1>7, <2>2 DEF counts
    <3>2. At("woken")' \in SUBSET Callers
      BY DEF At
    <3>3. MaxConcurrency - active' <= Cardinality(At("woken")')
      BY <3>1, <3>2, SlotsFull
    <3> QED
      BY <3>3 DEF NoSlotStranded
  <2> QED
    BY <2>1, <2>2, <2>3, SameCallers
<1> QED
  BY <1>5, <1>6, <1>7

\* A caller whose deadline or cancellation is raised leaves, and one whose
\* request is over gives its slot back: both see to it that the slot is taken.
LEMMA DepartureKeepsInv ==
    ASSUME Inv, NEW c \in Callers, Quit(c) \/ Release(c)
    PROVE  Inv'
<1> USE DEF Inv
<1>1. /\ Serving \in SUBSET Callers /\ Queue \in SUBSET Callers
      /\ At("woken") \in SUBSET Callers /\ At("waiting") \in SUBSET Callers
  BY DEF Serving, Queue, At
<1>2. /\ activeBy \in [Operations -> Nat] /\ queuedBy \in [Operations -> Nat]
      /\ \A o \in Operations : activeBy[o] = Cardinality(Of(o, Serving))
      /\ \A o \in Operations : queuedBy[o] = Cardinality(Of(o, Queue))
  BY DEF TypeOK, CountersTrue, Serving
<1>3. MaxConcurrency \in Nat /\ active \in Nat /\ active <= MaxConcurrency
  BY AdmissionAssumption DEF TypeOK, AdmissionAssumption
<1>4. active = Cardinality(Serving) /\ queued = Cardinality(Queue)
  BY DEF CountersTrue, Serving
<1>5. CASE Quit(c)
  <2>1. PICK W \in IF active < MaxConcurrency /\ queued' > 0 THEN Notify ELSE {{}} :
          pc' = Moved(c, "idle", W)
    BY <1>5 DEF Quit
  <2>2. W \subseteq At("waiting")
    BY <2>1, NotifyWakes
  <2>3. c \in Queue /\ c \in At("woken") /\ c \notin At("waiting")
    BY <1>5 DEF Quit, At, Queue
  <2>4. /\ Serving' = Serving /\ Queue' = Queue \ {c}
        /\ At("waiting")' = At("waiting") \ W
        /\ At("woken")' = (At("woken") \ {c}) \cup W
    <3>1. \A w \in Callers : pc'[w] = IF w = c THEN "idle" ELSE IF w \in W THEN "woken" ELSE pc[w]
      BY <2>1 DEF Moved
    <3> QED
      BY <2>2, <2>3, <3>1 DEF At, Queue, Serving
  <2>5. /\ Cardinality(Queue \ {c}) = Cardinality(Queue) - 1
        /\ Add(queuedBy, c, -1) \in [Operations -> Nat]
        /\ \A o \in Operations :
             Add(queuedBy, c, -1)[o] = Cardinality(Of(o, Queue \ {c}))
    BY <1>1, <1>2, <2>3, CountDown
  <2>6. queued' = Cardinality(Queue \ {c}) /\ queued' \in Nat /\ queued' = queued - 1
    <3>1. Queue \ {c} \in SUBSET Callers
      BY <1>1
    <3> QED
      BY <1>4, <1>5, <2>5, <3>1, CallersCount DEF Quit
  <2>7. TypeOK'
    <3>1. queued' \in 0 .. MaxQueueSize
      BY <2>6, AdmissionAssumption DEF TypeOK, AdmissionAssumption
    <3>2. pc' \in [Callers -> Places]
      BY <2>1 DEF TypeOK, Moved, Places
    <3>3. doom' \in [Callers -> {"none", "deadline", "cancelled"}]
          /\ \A w \in Callers : doom'[w] # "none" => w # c /\ pc[w] = "woken"
      BY <1>5 DEF TypeOK, Quit
    <3>4. \A w \in Callers : doom'[w] # "none" => pc'[w] = "woken"
      BY <2>1, <3>3 DEF Moved
    <3> QED
      BY <1>5, <2>5, <3>1, <3>2, <3>3, <3>4 DEF TypeOK, Quit
  <2>8. CountersTrue'
    BY <1>2, <1>4, <1>5, <2>4, <2>5, <2>6 DEF CountersTrue, Quit, Serving
  <2>9. NoSlotStranded'
    <3>1. active' = active
      BY <1>5 DEF Quit
    <3>2. At("woken")' \in SUBSET Callers
      BY DEF At
    <3>3. CASE active >= MaxConcurrency
      <4>1. MaxConcurrency - active' <= Cardinality(At("woken")')
        BY <1>3, <3>1, <3>2, <3>3, SlotsFull
      <4> QED
        BY <4>1 DEF NoSlotStranded
    <3>4. CASE active < MaxConcurrency /\ At("waiting") # {}
      <4>1. queued' > 0
        <5>1. PICK w \in At("waiting") : TRUE
          BY <3>4
        <5>2. w \in Queue \ {c}
          BY <2>3, <5>1 DEF Queue, At
        <5>3. Queue \ {c} \in SUBSET Callers
          BY <1>1
        <5>4. IsFiniteSet(Queue \ {c})
          BY <5>3, CallersCount
        <5>5. Cardinality(Queue \ {c}) # 0
          BY <5>2, <5>4, FS_EmptySet
        <5>6. queued' # 0 /\ queued' \in Nat
          BY <2>6, <5>5
        <5> QED
          BY <5>6
      <4>2. PICK w \in At("waiting") : W = {w}
        BY <2>1, <3>4, <4>1, NotifyWakes
      <4>3. w \notin At("woken")
        BY DEF At
      <4>4. Cardinality((At("woken") \ {c}) \cup {w}) = Cardinality(At("woken"))
        <5>1. At("woken") \ {c} \in SUBSET Callers /\ w \notin At("woken") \ {c}
          BY <1>1, <4>3
        <5>2. Cardinality(At("woken") \ {c}) = Cardinality(At("woken")) - 1
          BY <1>1, <2>3, CallersCount, FS_RemoveElement
        <5>3. Cardinality((At("woken") \ {c}) \cup {w}) = Cardinality(At("woken") \ {c}) + 1
          BY <5>1, CallersCount, FS_AddElement
        <5>4. Cardinality(At("woken")) \in Nat
          BY <1>1, CallersCount
        <5> QED
          BY <5>2, <5>3, <5>4
      <4>5. At("woken")' = (At("woken") \ {c}) \cup {w}
        BY <2>4, <4>2
      <4>6. MaxConcurrency - active <= Cardinality(At("woken"))
        BY <3>4 DEF NoSlotStranded
      <4> QED
        BY <3>1, <4>4, <4>5, <4>6 DEF NoSlotStranded
    <3>5. CASE At("waiting") = {}
      BY <2>4, <3>5 DEF NoSlotStranded
    <3> QED
      BY <1>3, <3>3, <3>4, <3>5
  <2> QED
    BY <2>7, <2>8, <2>9
<1>6. CASE Release(c)
  <2>1. PICK W \in Notify : pc' = Moved(c, "idle", W)
    BY <1>6 DEF Release
  <2>2. W \subseteq At("waiting")
    BY <2>1, NotifyWakes
  <2>3. c \in Serving /\ c \notin Queue
    BY <1>6 DEF Release, At, Serving, Queue
  <2>4. /\ Serving' = Serving \ {c} /\ Queue' = Queue
        /\ At("waiting")' = At("waiting") \ W
        /\ At("woken")' = At("woken") \cup W
    <3>1. \A w \in Callers : pc'[w] = IF w = c THEN "idle" ELSE IF w \in W THEN "woken" ELSE pc[w]
      BY <2>1 DEF Moved
    <3> QED
      BY <2>2, <2>3, <3>1 DEF At, Queue, Serving
  <2>5. /\ Cardinality(Serving \ {c}) = Cardinality(Serving) - 1
        /\ Add(activeBy, c, -1) \in [Operations -> Nat]
        /\ \A o \in Operations :
             Add(activeBy, c, -1)[o] = Cardinality(Of(o, Serving \ {c}))
    BY <1>1, <1>2, <2>3, CountDown
  <2>6. active' = Cardinality(Serving \ {c}) /\ active' \in Nat /\ active' = active - 1
    <3>1. Serving \ {c} \in SUBSET Callers
      BY <1>1
    <3> QED
      BY <1>4, <1>6, <2>5, <3>1, CallersCount DEF Release
  <2>7. TypeOK'
    <3>1. active' \in 0 .. MaxConcurrency
      BY <1>3, <2>6
    <3>2. pc' \in [Callers -> Places]
      BY <2>1 DEF TypeOK, Moved, Places
    <3>3. \A w \in Callers : doom'[w] # "none" => w # c /\ pc[w] = "woken"
      BY <1>6 DEF TypeOK, Release
    <3>4. \A w \in Callers : doom'[w] # "none" => pc'[w] = "woken"
      BY <2>1, <3>3 DEF Moved
    <3> QED
      BY <1>6, <2>5, <3>1, <3>2, <3>4 DEF TypeOK, Release
  <2>8. CountersTrue'
    BY <1>2, <1>4, <1>6, <2>4, <2>5, <2>6 DEF CountersTrue, Release, Serving
  <2>9. NoSlotStranded'
    <3>1. CASE At("waiting") = {}
      BY <2>4, <3>1 DEF NoSlotStranded
    <3>2. CASE At("waiting") # {}
      <4>1. PICK w \in At("waiting") : W = {w}
        BY <2>1, <3>2, NotifyWakes
      <4>2. w \notin At("woken")
        BY DEF At
      <4>3. /\ Cardinality(At("woken") \cup {w}) = Cardinality(At("woken")) + 1
            /\ Cardinality(At("woken")) \in Nat
        BY <1>1, <4>2, CallersCount, FS_AddElement
      <4>4. MaxConcurrency - active <= Cardinality(At("woken"))
        BY <3>2 DEF NoSlotStranded
      <4>5. MaxConcurrency - active' <= Cardinality(At("woken") \cup {w})
        BY <1>3, <2>6, <4>3, <4>4
      <4>6. At("woken")' = At("woken") \cup {w}
        BY <2>4, <4>1
      <4> QED
        BY <4>5, <4>6 DEF NoSlotStranded
    <3> QED
      BY <3>1, <3>2
  <2> QED
    BY <2>7, <2>8, <2>9
<1> QED
  BY <1>5, <1>6

-----------------------------------------------------------------------------
(* Theorems *)

\* The invariant holds in every reachable state, whatever the event loop does.
THEOREM Invariance == Spec => []Inv
<1>1. Init => Inv
  <2> SUFFICES ASSUME Init PROVE Inv
    OBVIOUS
  <2>1. /\ At("serving") = {} /\ Queue = {} /\ At("waiting") = {}
        /\ \A o \in Operations : Of(o, {}) = {}
    BY DEF Init, At, Queue, Of
  <2>2. TypeOK
    BY AdmissionAssumption DEF Init, TypeOK, Places, AdmissionAssumption
  <2>3. CountersTrue
    BY <2>1, FS_EmptySet DEF Init, CountersTrue
  <2> QED
    BY <2>1, <2>2, <2>3 DEF Inv, NoSlotStranded
<1>2. Inv /\ [Next]_vars => Inv'
  <2> SUFFICES ASSUME Inv, [Next]_vars PROVE Inv'
    OBVIOUS
  <2>1. CASE UNCHANGED vars
    BY <2>1 DEF Inv, vars, TypeOK, CountersTrue, NoSlotStranded, At, Queue, Of
  <2> QED
    BY <2>1, ArrivalKeepsInv, DoomKeepsInv, AdmissionKeepsInv, DepartureKeepsInv DEF Next
<1> QED
  BY <1>1, <1>2, PTL DEF Spec

\* Newcomers and woken waiters never take more slots, or more places in the
\* queue, than there are.
THEOREM LimitsKept == Spec => []TypeOK
<1>1. Inv => TypeOK
  BY DEF Inv
<1> QED
  BY <1>1, Invariance, PTL

\* The counters count the callers, so release never finds one at zero.
THEOREM CountersKept == Spec => []CountersTrue
<1>1. Inv => CountersTrue
  BY DEF Inv
<1> QED
  BY <1>1, Invariance, PTL

\* No deadline, cancellation or newcomer makes a free slot's wake-up disappear.
THEOREM NoWakeupLost == Spec => []NoSlotStranded
<1>1. Inv => NoSlotStranded
  BY DEF Inv
<1> QED
  BY <1>1, Invariance, PTL

=============================================================================
