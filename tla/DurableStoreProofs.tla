------------------------- MODULE DurableStoreProofs -------------------------
(***************************************************************************)
(* Proofs about DurableStore, for any number of worker threads, requests,  *)
(* impressions, shares and restarts.                                       *)
(*                                                                         *)
(* Three invariants, each the ground of one property.  SharesFine: what a  *)
(* share call has read.  EventsFine: no two rows collide, and a conflict   *)
(* is answered for a reason the rows keep for good (Refused).  CountsFine: *)
(* a first acceptance about to be counted stands for a row of its own.     *)
(***************************************************************************)
EXTENDS DurableStore, FiniteSetTheorems, TLAPS

ShareSteps == {"get", "revoke", "revokeWrite", "served", "absent", "revoked"}
EventSteps == {"look", "lookImpression", "check", "insert", "commit", "reread",
               "rereadImpression", "recorded"}

TaskShape == task = [w \in Workers |-> task[w]]

-----------------------------------------------------------------------------
(* Shares *)

\* What a share call knows of its share.
ShareCallFine(t) ==
    t.step \in ShareSteps =>
        /\ t.share \in Shares /\ t.now \in Nat
        /\ t.wasClosed => t.share \in closed
        /\ t.step \in {"revokeWrite", "revoked", "served"} => shares[t.share] # None
        /\ t.step = "revoked" => shares[t.share].revoked # None
        /\ t.step = "served" => ~t.wasClosed /\ t.now < shares[t.share].expires

SharesFine ==
    /\ clock \in Nat
    /\ shares \in [Shares -> ShareRows \cup {None}]
    /\ closed \subseteq Shares
    /\ \A s \in closed : shares[s] # None /\ shares[s].revoked # None
    /\ \A w \in Workers : ShareCallFine(task[w])

-----------------------------------------------------------------------------
(* Events *)

\* A keyed event's identity is its key digest, and the digest its session's.
EventFine(e) ==
    IF e.key = None THEN \E n : e.id = [serial |-> n]
    ELSE e.id = [digest |-> e.key] /\ e.key.session = e.session

Referable(subject) == subject \in Saved \cup {None}

\* Why a keyed payload is a conflict: what it refers to is not stored, or a row
\* has its key with another payload, or its impression with another content.
Refused(p) ==
    \/ ~Referable(p.subject)
    \/ \E row \in rows : p.key # None /\ SameKey(row, p) /\ Payload(row) # p
    \/ \E row \in rows : /\ p.impression # None
                         /\ SameImpression(row, p)
                         /\ Meaning(row) # Meaning(p)

\* A verdict on payload p that the rows bear out.
Honest(p, verdict) ==
    /\ verdict.outcome = "accepted" =>
         \E row \in rows : /\ row.at = verdict.at
                           /\ Meaning(row) = Meaning(p)
                           /\ row.key = p.key \/ row.impression # None
    /\ verdict.outcome = "conflict" /\ p.key # None => Refused(p)

\* What an interaction knows of the rows.
CallFine(t) ==
    /\ t.step \in EventSteps => EventFine(t.event)
    /\ t.step \in {"insert", "commit"} => Referable(t.event.subject)
    /\ t.step = "commit" => \A row \in rows : ~Collides(row, t.event)
    /\ t.step = "reread" => \E row \in rows : Collides(row, t.event)
    /\ t.step = "rereadImpression" /\ t.event.key # None =>
         \E row \in rows : t.event.impression # None /\ SameImpression(row, t.event)
    /\ t.step = "recorded" => Honest(Payload(t.event), t.verdict)

\* The inserts that wait for their commit do not collide.
Apart ==
    \A v, w \in Workers :
        v # w /\ task[v].step = "commit" /\ task[w].step = "commit" =>
            ~Collides(task[v].event, task[w].event)

EventsFine ==
    /\ \A row \in rows : EventFine(row) /\ Referable(row.subject)
    /\ \A r1, r2 \in rows : Collides(r1, r2) => r1 = r2
    /\ \A w \in Workers : CallFine(task[w])
    /\ Apart
    /\ \A x \in answers : x.payload.key # None /\ Honest(x.payload, x.verdict)

-----------------------------------------------------------------------------
(* Counts *)

\* A first acceptance of an event of kind k that is still to be counted.
Counts(t, k) ==
    /\ t.step = "recorded"
    /\ t.event.kind = k
    /\ t.verdict.outcome = "accepted"
    /\ ~t.verdict.replayed
Pending(k) == {w \in Workers : Counts(task[w], k)}
Kept(k) == {row \in rows : row.kind = k}

CountsFine ==
    /\ IsFiniteSet(rows)
    /\ metric \in [Kinds -> Nat]
    /\ \A k \in Kinds : metric[k] + Cardinality(Pending(k)) <= Cardinality(Kept(k))

Inv == TaskShape /\ SharesFine /\ EventsFine /\ CountsFine

-----------------------------------------------------------------------------
LEMMA InitInv == Init => Inv
<1> SUFFICES ASSUME Init PROVE Inv
  OBVIOUS
<1>1. TaskShape /\ \A w \in Workers : task[w].step = "idle"
  BY DEF Init, TaskShape, Idle
<1>2. SharesFine
  BY <1>1 DEF Init, SharesFine, ShareCallFine, ShareSteps
<1>3. EventsFine
  BY <1>1 DEF Init, EventsFine, CallFine, Apart, EventSteps
<1>4. CountsFine
  <2>1. \A k \in Kinds : Pending(k) = {} /\ Kept(k) = {}
    BY <1>1 DEF Init, Pending, Counts, Kept
  <2> QED
    BY <2>1, FS_EmptySet DEF Init, CountsFine
<1> QED
  BY <1>1, <1>2, <1>3, <1>4 DEF Inv

-----------------------------------------------------------------------------
(* The helpers of the event store *)

LEMMA CollidesSymmetric ==
    ASSUME NEW e, NEW f, Collides(e, f)
    PROVE  Collides(f, e)
  BY DEF Collides, SameKey, SameImpression

\* A row with the identity of a keyed event has its key.
LEMMA KeyOfIdentity ==
    ASSUME NEW e, NEW f, EventFine(e), EventFine(f), e.id = f.id, f.key # None
    PROVE  SameKey(e, f)
<1>1. f.id = [digest |-> f.key] /\ f.key.session = f.session
  BY DEF EventFine
<1>2. e.key # None
  <2>1. \A n : [serial |-> n] # [digest |-> f.key]
    OBVIOUS
  <2> QED
    BY <1>1, <2>1 DEF EventFine
<1>3. e.id = [digest |-> e.key] /\ e.key.session = e.session
  BY <1>2 DEF EventFine
<1>4. e.key = f.key
  BY <1>1, <1>3
<1> QED
  BY <1>1, <1>3, <1>4 DEF SameKey

LEMMA PayloadFields ==
    ASSUME NEW e
    PROVE  /\ Payload(e).session = e.session /\ Payload(e).key = e.key
           /\ Payload(e).impression = e.impression /\ Payload(e).kind = e.kind
           /\ Payload(e).subject = e.subject
           /\ Meaning(Payload(e)) = Meaning(e)
  BY DEF Payload, Meaning

\* What a canonical event's identity is made of.
LEMMA CanonicalFine ==
    ASSUME NEW request
    PROVE  EventFine(CanonicalEvent(request))
<1> DEFINE digest == KeyDigest(request)
<1>1. /\ CanonicalEvent(request).id = EventId(digest)
      /\ CanonicalEvent(request).key = digest
      /\ CanonicalEvent(request).session = request.session
  BY DEF CanonicalEvent
<1>2. digest # None => digest.session = request.session
  BY DEF KeyDigest
<1>3. EventId(digest) = IF digest = None THEN [serial |-> operations]
                        ELSE [digest |-> digest]
  BY DEF EventId
<1> HIDE DEF digest
<1> QED
  BY <1>1, <1>2, <1>3 DEF EventFine

\* A row that has the event's key or impression answers it honestly.
LEMMA ResolveHonest ==
    ASSUME NEW row, row \in rows, NEW e,
           \/ e.key = None
           \/ SameKey(row, e)
           \/ e.impression # None /\ SameImpression(row, e)
    PROVE  Honest(Payload(e), Resolve(row, e))
<1>1. CASE e.key # None /\ SameKey(row, e) /\ Payload(row) = Payload(e)
  <2>1. Resolve(row, e) = Accepted(row, TRUE)
    BY <1>1 DEF Resolve
  <2>2. row.key = Payload(e).key /\ Meaning(row) = Meaning(Payload(e))
    BY <1>1, PayloadFields DEF SameKey
  <2> QED
    BY <2>1, <2>2 DEF Honest, Accepted
<1>2. CASE e.key # None /\ SameKey(row, e) /\ Payload(row) # Payload(e)
  <2>1. Resolve(row, e) = Conflict
    BY <1>2 DEF Resolve
  <2>2. Refused(Payload(e))
    BY <1>2, PayloadFields DEF Refused, SameKey
  <2> QED
    BY <2>1, <2>2 DEF Honest, Conflict
<1>3. CASE ~(e.key # None /\ SameKey(row, e))
  <2>1. CASE e.impression # None /\ SameImpression(row, e) /\ Meaning(row) = Meaning(e)
    <3>1. Resolve(row, e) = Accepted(row, TRUE)
      BY <1>3, <2>1 DEF Resolve
    <3>2. row.impression # None /\ Meaning(row) = Meaning(Payload(e))
      BY <2>1, PayloadFields DEF SameImpression
    <3> QED
      BY <3>1, <3>2 DEF Honest, Accepted
  <2>2. CASE ~(e.impression # None /\ SameImpression(row, e) /\ Meaning(row) = Meaning(e))
    <3>1. Resolve(row, e) = Conflict
      BY <1>3, <2>2 DEF Resolve
    <3>2. e.key # None => Refused(Payload(e))
      BY <1>3, <2>2, PayloadFields DEF Refused, SameImpression
    <3> QED
      BY <3>1, <3>2, PayloadFields DEF Honest, Conflict
  <2> QED
    BY <2>1, <2>2
<1> QED
  BY <1>1, <1>2, <1>3

\* Rows are only added, so what they bear out they go on bearing out.
LEMMA HonestStays ==
    ASSUME rows \subseteq rows', NEW p, NEW verdict, Honest(p, verdict)
    PROVE  Honest(p, verdict)'
<1>1. Refused(p) => Refused(p)'
  BY DEF Refused, Referable
<1> QED
  BY <1>1 DEF Honest

-----------------------------------------------------------------------------
(* What a step of an interaction does to the events *)

\* The call of w goes on, and nothing is stored.
LEMMA CallGoesOn ==
    ASSUME TaskShape, EventsFine, NEW w \in Workers, NEW t,
           task' = [task EXCEPT ![w] = t], UNCHANGED <<rows, answers>>,
           CallFine(t),
           t.step = "commit" =>
             \A v \in Workers \ {w} :
                task[v].step = "commit" => ~Collides(task[v].event, t.event)
    PROVE  TaskShape' /\ EventsFine'
<1>1. TaskShape' /\ task'[w] = t /\ \A v \in Workers \ {w} : task'[v] = task[v]
  BY DEF TaskShape
<1>2. \A x : CallFine(x)' <=> CallFine(x)
  BY DEF CallFine, Honest, Refused
<1>3. \A v \in Workers : CallFine(task[v])'
  BY <1>1, <1>2 DEF EventsFine
<1>4. Apart'
  <2> SUFFICES ASSUME NEW u \in Workers, NEW v \in Workers, u # v,
                      task'[u].step = "commit", task'[v].step = "commit"
               PROVE  ~Collides(task'[u].event, task'[v].event)
    BY DEF Apart
  <2>1. CASE u # w /\ v # w
    BY <1>1, <2>1 DEF EventsFine, Apart
  <2>2. CASE v = w
    BY <1>1, <2>2
  <2>3. CASE u = w
    BY <1>1, <2>3, CollidesSymmetric
  <2> QED
    BY <2>1, <2>2, <2>3
<1>5. \A x \in answers' : x.payload.key # None /\ Honest(x.payload, x.verdict)'
  BY HonestStays DEF EventsFine
<1> QED
  BY <1>1, <1>3, <1>4, <1>5 DEF EventsFine

\* The row of w is stored, and its call answered.
LEMMA RowStored ==
    ASSUME TaskShape, EventsFine, NEW w \in Workers, NEW t,
           task[w].step = "commit", rows' = rows \cup {task[w].event}, answers' = answers,
           task' = [task EXCEPT ![w] = t],
           t.step = "recorded", t.event = task[w].event,
           Honest(Payload(t.event), t.verdict)'
    PROVE  TaskShape' /\ EventsFine'
<1> DEFINE e == task[w].event
<1>1. TaskShape' /\ task'[w] = t /\ \A v \in Workers \ {w} : task'[v] = task[v]
  BY DEF TaskShape
<1>2. /\ EventFine(e) /\ Referable(e.subject)
      /\ \A row \in rows : ~Collides(row, e) /\ ~Collides(e, row)
      /\ \A v \in Workers \ {w} : task[v].step = "commit" => ~Collides(e, task[v].event)
  BY CollidesSymmetric DEF EventsFine, CallFine, EventSteps, Apart
<1>3. \A row \in rows' : EventFine(row) /\ Referable(row.subject)
  BY <1>2 DEF EventsFine
<1>4. \A r1, r2 \in rows' : Collides(r1, r2) => r1 = r2
  BY <1>2 DEF EventsFine
<1>5. ASSUME NEW v \in Workers PROVE CallFine(task[v])'
  <2>1. CASE v = w
    <3>1. CallFine(t)'
      BY <1>2 DEF CallFine
    <3> QED
      BY <1>1, <2>1, <3>1
  <2>2. CASE v # w
    <3>1. task'[v] = task[v] /\ CallFine(task[v])
      BY <1>1, <2>2 DEF EventsFine
    <3>2. Honest(Payload(task[v].event), task[v].verdict) =>
            Honest(Payload(task[v].event), task[v].verdict)'
      BY HonestStays
    <3> DEFINE x == task[v]
    <3>3. /\ x.step \in EventSteps => EventFine(x.event)
          /\ x.step \in {"insert", "commit"} => Referable(x.event.subject)
          /\ x.step = "commit" => \A row \in rows' : ~Collides(row, x.event)
          /\ x.step = "reread" => \E row \in rows' : Collides(row, x.event)
          /\ x.step = "rereadImpression" /\ x.event.key # None =>
               \E row \in rows' : x.event.impression # None /\ SameImpression(row, x.event)
          /\ x.step = "recorded" => Honest(Payload(x.event), x.verdict)'
      BY <1>2, <2>2, <3>1, <3>2 DEF CallFine
    <3> QED
      BY <3>1, <3>3 DEF CallFine
  <2> QED
    BY <2>1, <2>2
<1>6. Apart'
  BY <1>1 DEF EventsFine, Apart
<1>7. \A x \in answers' : x.payload.key # None /\ Honest(x.payload, x.verdict)'
  BY HonestStays DEF EventsFine
<1> QED
  BY <1>1, <1>3, <1>4, <1>5, <1>6, <1>7 DEF EventsFine

LEMMA AnsweredCall ==
    ASSUME TaskShape, EventsFine, NEW w \in Workers, task[w].step \in EventSteps,
           NEW verdict, Honest(Payload(task[w].event), verdict),
           Answer(w, verdict), UNCHANGED <<rows, answers>>
    PROVE  TaskShape' /\ EventsFine'
<1> DEFINE t == [step |-> "recorded", event |-> task[w].event, verdict |-> verdict]
<1>1. CallFine(t) /\ t.step # "commit"
  BY DEF EventsFine, CallFine, EventSteps
<1> QED
  BY <1>1, CallGoesOn DEF Answer

\* A select that finds rows with the event's key or impression answers the call.
LEMMA FoundCall ==
    ASSUME TaskShape, EventsFine, NEW w \in Workers, task[w].step \in EventSteps,
           NEW row \in rows,
           task[w].event.key # None =>
             \/ SameKey(row, task[w].event)
             \/ task[w].event.impression # None /\ SameImpression(row, task[w].event),
           Answer(w, Resolve(row, task[w].event)), UNCHANGED <<rows, answers>>
    PROVE  TaskShape' /\ EventsFine'
<1>1. PICK e : e = task[w].event
  OBVIOUS
<1>2. PICK verdict : verdict = Resolve(row, e)
  OBVIOUS
<1>3. Honest(Payload(e), verdict)
  <2>1. \/ e.key = None
        \/ SameKey(row, e)
        \/ e.impression # None /\ SameImpression(row, e)
    BY <1>1
  <2>2. Honest(Payload(e), Resolve(row, e))
    BY <2>1, ResolveHonest
  <2> QED
    BY <1>2, <2>2
<1>4. Answer(w, verdict)
  BY <1>1, <1>2
<1> QED
  BY <1>1, <1>3, <1>4, AnsweredCall

LEMMA FailedCall ==
    ASSUME NEW p
    PROVE  Honest(p, Failure)
  BY DEF Honest, Failure

LEMMA InteractionEvents ==
    ASSUME TaskShape, EventsFine, NEW w \in Workers, InteractionStep(w)
    PROVE  TaskShape' /\ EventsFine'
<1> DEFINE e == task[w].event
<1>0. /\ CallFine(task[w])
      /\ task[w].step \in EventSteps => EventFine(e)
      /\ \A row \in rows : EventFine(row)
  BY DEF EventsFine, CallFine
<1>1. CASE \E request \in Requests : RecordInteraction(w, request)
  <2>1. PICK request \in Requests : RecordInteraction(w, request)
    BY <1>1
  <2> DEFINE event == CanonicalEvent(request)
             t == [step |-> "look", event |-> event]
  <2>2. EventFine(event)
    BY CanonicalFine
  <2>3. task' = [task EXCEPT ![w] = t] /\ UNCHANGED <<rows, answers>>
    BY <2>1 DEF RecordInteraction, Begin
  <2> HIDE DEF event
  <2>4. CallFine(t) /\ t.step # "commit"
    BY <2>2 DEF CallFine
  <2> QED
    BY <2>3, <2>4, CallGoesOn
<1>2. ASSUME NEW step \in {"lookImpression", "check"}, Goto(w, step),
             task[w].step \in EventSteps, UNCHANGED <<rows, answers>>
      PROVE  TaskShape' /\ EventsFine'
  <2> DEFINE t == [step |-> step, event |-> e]
  <2>1. CallFine(t) /\ t.step # "commit"
    BY <1>0, <1>2 DEF CallFine
  <2> QED
    BY <1>2, <2>1, CallGoesOn DEF Goto
<1>3. CASE Look(w)
  <2>1. task[w].step = "look" /\ task[w].step \in EventSteps /\ UNCHANGED <<rows, answers>>
    BY <1>3 DEF Look, Select, Storing, EventSteps
  <2>2. CASE WithIdOrKey(e) = {}
    BY <1>2, <1>3, <2>1, <2>2 DEF Look, Select
  <2>3. CASE WithIdOrKey(e) # {}
    <3>1. PICK row \in WithIdOrKey(e) : Answer(w, Resolve(row, e))
      BY <1>3, <2>3 DEF Look, Select
    <3>2. row \in rows /\ (e.key # None => SameKey(row, e))
      BY <1>0, <2>1, KeyOfIdentity DEF WithIdOrKey
    <3> QED
      BY <2>1, <3>1, <3>2, FoundCall
  <2> QED
    BY <2>2, <2>3
<1>4. CASE LookImpression(w)
  <2>1. /\ task[w].step = "lookImpression" /\ task[w].step \in EventSteps
        /\ UNCHANGED <<rows, answers>>
    BY <1>4 DEF LookImpression, Select, Storing, EventSteps
  <2>2. CASE WithImpression(e) = {}
    BY <1>2, <1>4, <2>1, <2>2 DEF LookImpression, Select
  <2>3. CASE WithImpression(e) # {}
    <3>1. PICK row \in WithImpression(e) : Answer(w, Resolve(row, e))
      BY <1>4, <2>3 DEF LookImpression, Select
    <3>2. row \in rows /\ e.impression # None /\ SameImpression(row, e)
      BY DEF WithImpression
    <3> QED
      BY <2>1, <3>1, <3>2, FoundCall
  <2> QED
    BY <2>2, <2>3
<1>5. CASE Check(w)
  <2>1. task[w].step = "check" /\ task[w].step \in EventSteps /\ UNCHANGED <<rows, answers>>
    BY <1>5 DEF Check, Storing, EventSteps
  <2>2. CASE ~Referable(e.subject)
    <3>1. Answer(w, Conflict)
      BY <1>5, <2>2 DEF Check, Referable
    <3>2. Honest(Payload(e), Conflict)
      BY <2>2, PayloadFields DEF Honest, Conflict, Refused
    <3> QED
      BY <2>1, <3>1, <3>2, AnsweredCall
  <2>3. CASE Referable(e.subject) /\ Answer(w, Failure)
    BY <2>1, <2>3, FailedCall, AnsweredCall
  <2>4. CASE Referable(e.subject) /\ Goto(w, "insert")
    <3> DEFINE t == [step |-> "insert", event |-> e]
    <3>1. CallFine(t) /\ t.step # "commit"
      BY <1>0, <2>1, <2>4 DEF CallFine
    <3> QED
      BY <2>1, <2>4, <3>1, CallGoesOn DEF Goto
  <2> QED
    BY <1>5, <2>2, <2>3, <2>4 DEF Check, Referable
<1>6. CASE Insert(w)
  <2>1. /\ task[w].step = "insert" /\ task[w].step \in EventSteps
        /\ UNCHANGED <<rows, answers>> /\ Referable(e.subject)
        /\ \A v \in Workers \ {w} : task[v].step = "commit" => ~Collides(task[v].event, e)
    BY <1>0, <1>6 DEF Insert, Storing, EventSteps, CallFine
  <2>2. CASE \E row \in rows : Collides(row, e)
    <3> DEFINE t == [step |-> "reread", event |-> e]
    <3>1. task' = [task EXCEPT ![w] = t]
      BY <1>6, <2>2 DEF Insert, Goto
    <3>2. CallFine(t) /\ t.step # "commit"
      BY <1>0, <2>1, <2>2 DEF CallFine
    <3> QED
      BY <2>1, <3>1, <3>2, CallGoesOn
  <2>3. CASE ~\E row \in rows : Collides(row, e)
    <3> DEFINE t == [step |-> "commit", event |-> e]
    <3>1. task' = [task EXCEPT ![w] = t]
      BY <1>6, <2>3 DEF Insert, Goto
    <3>2. CallFine(t) /\ t.event = e
      BY <1>0, <2>1, <2>3 DEF CallFine
    <3> QED
      BY <2>1, <3>1, <3>2, CallGoesOn
  <2> QED
    BY <2>2, <2>3
<1>7. CASE Commit(w)
  <2>1. PICK event : event = e
    OBVIOUS
  <2>2. PICK t : t = [step |-> "recorded", event |-> event, verdict |-> Accepted(event, FALSE)]
    OBVIOUS
  <2>3. /\ task[w].step = "commit" /\ rows' = rows \cup {e} /\ answers' = answers
        /\ task' = [task EXCEPT ![w] = t]
    BY <1>7, <2>1, <2>2 DEF Commit, Storing, Answer
  <2>4. t.step = "recorded" /\ t.event = event /\ t.verdict = Accepted(event, FALSE)
    BY <2>2
  <2>5. Honest(Payload(event), Accepted(event, FALSE))'
    <3>1. event \in rows' /\ event.at = Accepted(event, FALSE).at /\ Payload(event).key = event.key
      BY <2>1, <2>3, PayloadFields DEF Accepted
    <3>2. Accepted(event, FALSE).outcome # "conflict"
      BY DEF Accepted
    <3> QED
      BY <3>1, <3>2, PayloadFields DEF Honest
  <2> QED
    BY <2>1, <2>3, <2>4, <2>5, RowStored
<1>8. CASE Reread(w)
  <2> DEFINE found == {row \in rows : SameKey(row, e)}
  <2>1. task[w].step = "reread" /\ task[w].step \in EventSteps /\ UNCHANGED <<rows, answers>>
    BY <1>8 DEF Reread, Select, Storing, EventSteps
  <2>2. CASE found = {}
    <3> DEFINE t == [step |-> "rereadImpression", event |-> e]
    <3>1. task' = [task EXCEPT ![w] = t]
      BY <1>8, <2>2 DEF Reread, Select, Goto
    <3>2. PICK row \in rows : Collides(row, e)
      BY <1>0, <2>1 DEF CallFine
    <3>3. ~SameKey(row, e)
      BY <2>2
    <3>4. e.key # None => row.id # e.id
      BY <1>0, <2>1, <3>3, KeyOfIdentity
    <3>5. e.key # None => e.impression # None /\ SameImpression(row, e)
      BY <3>2, <3>3, <3>4 DEF Collides
    <3>6. CallFine(t) /\ t.step # "commit"
      BY <1>0, <2>1, <3>5 DEF CallFine
    <3> QED
      BY <2>1, <3>1, <3>6, CallGoesOn
  <2>3. CASE found # {}
    <3>1. PICK row \in found : Answer(w, Resolve(row, e))
      BY <1>8, <2>3 DEF Reread, Select
    <3> QED
      BY <2>1, <3>1, FoundCall
  <2> QED
    BY <2>2, <2>3
<1>9. CASE RereadImpression(w)
  <2>1. /\ task[w].step = "rereadImpression" /\ task[w].step \in EventSteps
        /\ UNCHANGED <<rows, answers>>
    BY <1>9 DEF RereadImpression, Storing, EventSteps
  \* A keyed event got here because a row has its impression.
  <2>2. CASE WithImpression(e) = {}
    <3>1. e.key = None
      BY <1>0, <2>1, <2>2 DEF CallFine, WithImpression
    <3>2. Honest(Payload(e), Conflict)
      BY <3>1, PayloadFields DEF Honest, Conflict
    <3> QED
      BY <1>9, <2>1, <2>2, <3>2, AnsweredCall DEF RereadImpression
  <2>3. CASE WithImpression(e) # {}
    <3>1. PICK row \in WithImpression(e) : Answer(w, Resolve(row, e))
      BY <1>9, <2>3 DEF RereadImpression
    <3>2. row \in rows /\ e.impression # None /\ SameImpression(row, e)
      BY DEF WithImpression
    <3> QED
      BY <2>1, <3>1, <3>2, FoundCall
  <2> QED
    BY <2>2, <2>3
<1>10. CASE Disconnect(w)
  <2>1. /\ task[w].step \in EventSteps /\ answers' = answers /\ Answer(w, Failure)
        /\ rows' = rows \/ (task[w].step = "commit" /\ rows' = rows \cup {e})
    BY <1>10 DEF Disconnect, Storing, EventSteps
  <2>2. CASE rows' = rows
    BY <2>1, <2>2, FailedCall, AnsweredCall
  <2>3. CASE task[w].step = "commit" /\ rows' = rows \cup {e}
    <3>1. PICK t : t = [step |-> "recorded", event |-> e, verdict |-> Failure]
      OBVIOUS
    <3>2. t.step = "recorded" /\ t.event = e /\ t.verdict = Failure
      BY <3>1
    <3>3. Honest(Payload(t.event), t.verdict)'
      BY <3>2 DEF Honest, Failure
    <3>4. task' = [task EXCEPT ![w] = t]
      BY <2>1, <3>1 DEF Answer
    <3> QED
      BY <2>1, <2>3, <3>2, <3>3, <3>4, RowStored
  <2> QED
    BY <2>1, <2>2, <2>3
<1>11. CASE Deliver(w)
  <2>1. /\ task' = [task EXCEPT ![w] = Idle] /\ rows' = rows
        /\ task[w].step = "recorded"
        /\ answers' = IF e.key = None THEN answers
                      ELSE answers \cup {[payload |-> Payload(e), verdict |-> task[w].verdict]}
    BY <1>11 DEF Deliver
  <2>2. CallFine(Idle) /\ Idle.step # "commit"
    BY DEF CallFine, Idle, EventSteps
  <2>3. TaskShape' /\ \A v \in Workers : task'[v] = IF v = w THEN Idle ELSE task[v]
    BY <2>1 DEF TaskShape
  <2>4. /\ \A row \in rows' : EventFine(row) /\ Referable(row.subject)
        /\ \A r1, r2 \in rows' : Collides(r1, r2) => r1 = r2
    BY <2>1 DEF EventsFine
  <2>5. \A x : CallFine(x)' <=> CallFine(x)
    BY <2>1 DEF CallFine, Honest, Refused
  <2>6. (\A v \in Workers : CallFine(task[v]))'
    BY <2>2, <2>3, <2>5 DEF EventsFine
  <2>7. Apart'
    BY <2>2, <2>3 DEF EventsFine, Apart
  <2>8. \A x \in answers' : x.payload.key # None /\ Honest(x.payload, x.verdict)
    <3>1. e.key # None => Payload(e).key # None /\ Honest(Payload(e), task[w].verdict)
      BY <1>0, <2>1, PayloadFields DEF CallFine
    <3> QED
      BY <2>1, <3>1 DEF EventsFine
  <2>9. \A x \in answers' : x.payload.key # None /\ Honest(x.payload, x.verdict)'
    BY <2>1, <2>8, HonestStays
  <2> QED
    BY <2>3, <2>4, <2>6, <2>7, <2>9 DEF EventsFine
<1> QED
  BY <1>1, <1>3, <1>4, <1>5, <1>6, <1>7, <1>8, <1>9, <1>10, <1>11 DEF InteractionStep

-----------------------------------------------------------------------------
(* What a step does to the counts *)

\* Rows of a kind, and calls to be counted, are finite.
LEMMA CountsFinite ==
    ASSUME NEW k, IsFiniteSet(rows)
    PROVE  /\ IsFiniteSet(Pending(k)) /\ Cardinality(Pending(k)) \in Nat
           /\ IsFiniteSet(Kept(k)) /\ Cardinality(Kept(k)) \in Nat
<1>1. IsFiniteSet(Workers)
  BY BoundsAssumption DEF BoundsAssumption
<1>2. Pending(k) \subseteq Workers /\ Kept(k) \subseteq rows
  BY DEF Pending, Kept
<1>3. IsFiniteSet(Pending(k)) /\ IsFiniteSet(Kept(k))
  BY <1>1, <1>2, FS_Subset
<1> QED
  BY <1>3, FS_CardinalityType

\* A call goes on without anything new to count, and rows are only added.
LEMMA NothingCounted ==
    ASSUME TaskShape, CountsFine, metric' = metric,
           rows \subseteq rows', IsFiniteSet(rows'),
           \A k : Pending(k)' \subseteq Pending(k)
    PROVE  CountsFine'
<1>1. ASSUME NEW k \in Kinds
      PROVE  Cardinality(Pending(k)') <= Cardinality(Pending(k))
             /\ Cardinality(Kept(k)) <= Cardinality(Kept(k)')
  <2>1. IsFiniteSet(Pending(k)) /\ IsFiniteSet(Kept(k)')
    BY FS_Subset, CountsFinite DEF CountsFine, Kept
  <2>2. Kept(k) \subseteq Kept(k)'
    BY DEF Kept
  <2> QED
    BY <2>1, <2>2, FS_Subset
<1>2. ASSUME NEW k \in Kinds
      PROVE  metric'[k] + Cardinality(Pending(k)') <= Cardinality(Kept(k)')
  <2>1. /\ Cardinality(Pending(k)) \in Nat /\ Cardinality(Kept(k)) \in Nat
        /\ metric[k] \in Nat
        /\ metric[k] + Cardinality(Pending(k)) <= Cardinality(Kept(k))
    BY CountsFinite DEF CountsFine
  <2>2. IsFiniteSet(Pending(k)') /\ IsFiniteSet(Kept(k)')
    <3>1. Kept(k)' \subseteq rows' /\ Pending(k)' \subseteq Pending(k)
      BY DEF Kept
    <3> QED
      BY <3>1, FS_Subset, CountsFinite DEF CountsFine
  <2>3. Cardinality(Pending(k)') \in Nat /\ Cardinality(Kept(k)') \in Nat
    BY <2>2, FS_CardinalityType
  <2> QED
    BY <1>1, <2>1, <2>3
<1> QED
  BY <1>2 DEF CountsFine

\* The call of w goes on to t, which is not to be counted.
LEMMA OthersPending ==
    ASSUME TaskShape, NEW w \in Workers, NEW t, task' = [task EXCEPT ![w] = t],
           NEW k, ~Counts(t, k)
    PROVE  Pending(k)' = Pending(k) \ {w}
<1>1. \A v \in Workers : task'[v] = IF v = w THEN t ELSE task[v]
  BY DEF TaskShape
<1>2. \A v : Counts(task[v], k)' <=> Counts(task'[v], k)
  BY DEF Counts
<1> QED
  BY <1>1, <1>2 DEF Pending

\* All of an interaction but its commit and its delivery.
LEMMA Uncounted ==
    ASSUME NEW w \in Workers, InteractionStep(w), ~Commit(w), ~Deliver(w)
    PROVE  /\ \E t : task' = [task EXCEPT ![w] = t] /\ \A k : ~Counts(t, k)
           /\ metric' = metric
           /\ rows' = rows \/ rows' = rows \cup {task[w].event}
<1>1. ASSUME NEW t, \A k : ~Counts(t, k), task' = [task EXCEPT ![w] = t]
      PROVE  \E u : task' = [task EXCEPT ![w] = u] /\ \A k : ~Counts(u, k)
  BY <1>1
<1>2. ASSUME NEW step, step # "recorded", Goto(w, step)
      PROVE  \E t : task' = [task EXCEPT ![w] = t] /\ \A k : ~Counts(t, k)
  <2> DEFINE t == [step |-> step, event |-> task[w].event]
  <2>1. \A k : ~Counts(t, k)
    BY <1>2 DEF Counts
  <2>2. task' = [task EXCEPT ![w] = t]
    BY <1>2 DEF Goto
  <2> HIDE DEF t
  <2> QED
    BY <2>1, <2>2
<1>3. ASSUME NEW verdict, verdict.outcome # "accepted" \/ verdict.replayed, Answer(w, verdict)
      PROVE  \E t : task' = [task EXCEPT ![w] = t] /\ \A k : ~Counts(t, k)
  <2> DEFINE t == [step |-> "recorded", event |-> task[w].event, verdict |-> verdict]
  <2>1. \A k : ~Counts(t, k)
    BY <1>3 DEF Counts
  <2>2. task' = [task EXCEPT ![w] = t]
    BY <1>3 DEF Answer
  <2> HIDE DEF t
  <2> QED
    BY <2>1, <2>2
<1>31. ASSUME Answer(w, Conflict) \/ Answer(w, Failure)
      PROVE  \E t : task' = [task EXCEPT ![w] = t] /\ \A k : ~Counts(t, k)
  <2>1. PICK verdict : Answer(w, verdict) /\ verdict.outcome # "accepted"
    BY <1>31 DEF Conflict, Failure
  <2> QED
    BY <1>3, <2>1
<1>32. ASSUME NEW row, Answer(w, Resolve(row, task[w].event))
      PROVE  \E t : task' = [task EXCEPT ![w] = t] /\ \A k : ~Counts(t, k)
  <2>1. PICK verdict : verdict = Resolve(row, task[w].event)
    OBVIOUS
  <2>2. verdict.outcome # "accepted" \/ verdict.replayed
    BY <2>1 DEF Resolve, Accepted, Conflict
  <2>3. Answer(w, verdict)
    BY <1>32, <2>1
  <2> QED
    BY <1>3, <2>2, <2>3
<1>4. CASE \E request \in Requests : RecordInteraction(w, request)
  <2>1. PICK request \in Requests : RecordInteraction(w, request)
    BY <1>4
  <2>2. PICK t : t = [step |-> "look", event |-> CanonicalEvent(request)]
    OBVIOUS
  <2>3. \A k : ~Counts(t, k)
    BY <2>2 DEF Counts
  <2>4. task' = [task EXCEPT ![w] = t] /\ metric' = metric /\ rows' = rows
    BY <2>1, <2>2 DEF RecordInteraction, Begin
  <2> QED
    BY <2>3, <2>4
<1>5. CASE Look(w) \/ LookImpression(w) \/ Reread(w)
  <2>1. PICK step, next, found : /\ step \in EventSteps
                                 /\ next \in {"lookImpression", "check", "rereadImpression"}
                                 /\ Select(w, step, found, next)
    BY <1>5 DEF Look, LookImpression, Reread, EventSteps
  <2>2. metric' = metric /\ rows' = rows
    BY <2>1 DEF Select, Storing
  <2>3. Goto(w, next) \/ \E row : Answer(w, Resolve(row, task[w].event))
    BY <2>1 DEF Select
  <2> QED
    BY <1>2, <1>32, <2>1, <2>2, <2>3
<1>6. CASE Check(w)
  <2>1. metric' = metric /\ rows' = rows
    BY <1>6 DEF Check, Storing
  <2>2. Answer(w, Conflict) \/ Answer(w, Failure) \/ Goto(w, "insert")
    BY <1>6 DEF Check
  <2> QED
    BY <1>2, <1>31, <2>1, <2>2
<1>7. CASE Insert(w)
  <2>1. metric' = metric /\ rows' = rows
    BY <1>7 DEF Insert, Storing
  <2>2. Goto(w, "reread") \/ Goto(w, "commit")
    BY <1>7 DEF Insert
  <2> QED
    BY <1>2, <2>1, <2>2
<1>8. CASE RereadImpression(w)
  <2>1. metric' = metric /\ rows' = rows
    BY <1>8 DEF RereadImpression, Storing
  <2>2. Answer(w, Conflict) \/ \E row : Answer(w, Resolve(row, task[w].event))
    BY <1>8 DEF RereadImpression
  <2> QED
    BY <1>31, <1>32, <2>1, <2>2
<1>9. CASE Disconnect(w)
  <2>1. metric' = metric /\ (rows' = rows \/ rows' = rows \cup {task[w].event})
    BY <1>9 DEF Disconnect, Storing
  <2>2. Answer(w, Failure)
    BY <1>9 DEF Disconnect
  <2> QED
    BY <1>31, <2>1, <2>2
<1> QED
  BY <1>4, <1>5, <1>6, <1>7, <1>8, <1>9 DEF InteractionStep

LEMMA CommitCounts ==
    ASSUME TaskShape, EventsFine, CountsFine, NEW w \in Workers, Commit(w)
    PROVE  CountsFine'
<1>1. PICK e : e = task[w].event
  OBVIOUS
<1>2. PICK t : t = [step |-> "recorded", event |-> e, verdict |-> Accepted(e, FALSE)]
  OBVIOUS
<1>3. /\ task[w].step = "commit" /\ rows' = rows \cup {e} /\ metric' = metric
      /\ task' = [task EXCEPT ![w] = t]
  BY <1>1, <1>2 DEF Commit, Storing, Answer
\* No row has its identity.
<1>4. e \notin rows
  BY <1>1, <1>3 DEF EventsFine, CallFine, Collides
<1>5. IsFiniteSet(rows')
  BY <1>3, FS_AddElement DEF CountsFine
<1>6. ASSUME NEW k \in Kinds
      PROVE  metric'[k] + Cardinality(Pending(k)') <= Cardinality(Kept(k)')
  <2>1. /\ metric[k] \in Nat /\ metric[k] + Cardinality(Pending(k)) <= Cardinality(Kept(k))
        /\ IsFiniteSet(Pending(k)) /\ Cardinality(Pending(k)) \in Nat
        /\ IsFiniteSet(Kept(k)) /\ Cardinality(Kept(k)) \in Nat
    BY CountsFinite DEF CountsFine
  <2>2. CASE e.kind = k
    <3>1. Kept(k)' = Kept(k) \cup {e} /\ e \notin Kept(k)
      BY <1>3, <1>4, <2>2 DEF Kept
    <3>2. Pending(k)' = Pending(k) \cup {w}
      <4>1. \A v \in Workers : task'[v] = IF v = w THEN t ELSE task[v]
        BY <1>3 DEF TaskShape
      <4>2. Counts(t, k)
        BY <1>2, <2>2 DEF Counts, Accepted
      <4>3. \A v : Counts(task[v], k)' <=> Counts(task'[v], k)
        BY DEF Counts
      <4> QED
        BY <4>1, <4>2, <4>3 DEF Pending
    <3>3. Cardinality(Kept(k)') = Cardinality(Kept(k)) + 1
      BY <2>1, <3>1, FS_AddElement
    <3>4. /\ Cardinality(Pending(k)') <= Cardinality(Pending(k)) + 1
          /\ Cardinality(Pending(k)') \in Nat
      <4>1. IsFiniteSet(Pending(k)')
        BY <2>1, <3>2, FS_AddElement
      <4>2. Cardinality(Pending(k) \cup {w}) <= Cardinality(Pending(k)) + 1
        <5>1. Cardinality(Pending(k) \cup {w}) = IF w \in Pending(k) THEN Cardinality(Pending(k))
                                                 ELSE Cardinality(Pending(k)) + 1
          BY <2>1, FS_AddElement
        <5> QED
          BY <2>1, <5>1
      <4> QED
        BY <3>2, <4>1, <4>2, FS_CardinalityType
    <3> QED
      BY <1>3, <2>1, <3>3, <3>4
  <2>3. CASE e.kind # k
    <3>1. ~Counts(t, k)
      BY <1>2, <2>3 DEF Counts
    <3>2. Kept(k)' = Kept(k) /\ Pending(k)' = Pending(k) \ {w}
      BY <1>3, <2>3, <3>1, OthersPending DEF Kept
    <3>3. Pending(k)' \subseteq Pending(k)
      BY <3>2
    <3>4. Cardinality(Pending(k)') <= Cardinality(Pending(k)) /\ Cardinality(Pending(k)') \in Nat
      BY <2>1, <3>3, FS_Subset, FS_CardinalityType
    <3> QED
      BY <1>3, <2>1, <3>2, <3>4
  <2> QED
    BY <2>2, <2>3
<1> QED
  BY <1>3, <1>5, <1>6 DEF CountsFine

LEMMA DeliverCounts ==
    ASSUME TaskShape, CountsFine, NEW w \in Workers, Deliver(w)
    PROVE  CountsFine'
<1>1. PICK e : e = task[w].event
  OBVIOUS
<1>2. PICK due \in {0, 1} : due = IF Counts(task[w], e.kind) THEN 1 ELSE 0
  OBVIOUS
<1>3. /\ task' = [task EXCEPT ![w] = Idle] /\ rows' = rows
      /\ metric' = [metric EXCEPT ![e.kind] = @ + due]
  BY <1>1, <1>2 DEF Deliver, Counts
<1>4. metric' \in [Kinds -> Nat] /\ IsFiniteSet(rows')
  <2>1. metric \in [Kinds -> Nat] /\ IsFiniteSet(rows)
    BY DEF CountsFine
  <2>2. e.kind \in Kinds => metric[e.kind] + due \in Nat
    BY <2>1
  <2> QED
    BY <1>3, <2>1, <2>2
<1>5. ASSUME NEW k \in Kinds
      PROVE  metric'[k] + Cardinality(Pending(k)') <= Cardinality(Kept(k)')
  <2>1. /\ metric[k] \in Nat /\ metric[k] + Cardinality(Pending(k)) <= Cardinality(Kept(k))
        /\ IsFiniteSet(Pending(k)) /\ Cardinality(Pending(k)) \in Nat
        /\ Cardinality(Kept(k)) \in Nat
    BY CountsFinite DEF CountsFine
  <2>2. Kept(k)' = Kept(k) /\ Pending(k)' = Pending(k) \ {w}
    <3>1. ~Counts(Idle, k)
      BY DEF Counts, Idle
    <3> QED
      BY <1>3, <3>1, OthersPending DEF Kept
  <2>3. w \in Pending(k) <=> Counts(task[w], k)
    BY DEF Pending
  <2>4. CASE w \in Pending(k)
    <3>1. e.kind = k /\ due = 1
      BY <1>1, <1>2, <2>3, <2>4 DEF Counts
    <3>2. metric'[k] = metric[k] + 1
      BY <1>3, <3>1 DEF CountsFine
    <3>3. Cardinality(Pending(k)') = Cardinality(Pending(k)) - 1
      BY <2>1, <2>2, <2>4, FS_RemoveElement
    <3> QED
      BY <2>1, <2>2, <3>2, <3>3
  <2>5. CASE w \notin Pending(k)
    <3>1. e.kind = k => due = 0
      BY <1>2, <2>3, <2>5
    <3>2. metric'[k] = metric[k]
      BY <1>3, <2>1, <3>1 DEF CountsFine
    <3>3. Pending(k)' = Pending(k)
      BY <2>2, <2>5
    <3> QED
      BY <2>1, <2>2, <3>2, <3>3
  <2> QED
    BY <2>4, <2>5
<1> QED
  BY <1>4, <1>5 DEF CountsFine

-----------------------------------------------------------------------------
(* What a step does to the shares *)

\* A call that is no share call knows nothing of them.
LEMMA NoShareCall ==
    ASSUME TaskShape, SharesFine, NEW w \in Workers, NEW t,
           task' = [task EXCEPT ![w] = t], t.step \notin ShareSteps,
           UNCHANGED <<clock, shares, closed>>
    PROVE  SharesFine'
<1>1. \A v \in Workers : task'[v] = IF v = w THEN t ELSE task[v]
  BY DEF TaskShape
<1>2. \A v \in Workers : ShareCallFine(task[v])'
  BY <1>1 DEF SharesFine, ShareCallFine
<1> QED
  BY <1>2 DEF SharesFine

\* Steps of interactions leave the shares alone.
LEMMA InteractionShares ==
    ASSUME TaskShape, SharesFine, NEW w \in Workers, InteractionStep(w)
    PROVE  SharesFine'
<1>1. UNCHANGED <<clock, shares, closed>>
  BY DEF InteractionStep, RecordInteraction, Begin, Look, LookImpression, Check, Insert,
         Commit, Reread, RereadImpression, Disconnect, Deliver, Select, Storing
<1>2. ASSUME NEW step \in EventSteps, Goto(w, step)
      PROVE  SharesFine'
  <2> DEFINE t == [step |-> step, event |-> task[w].event]
  <2>1. t.step \notin ShareSteps /\ task' = [task EXCEPT ![w] = t]
    BY <1>2 DEF EventSteps, ShareSteps, Goto
  <2> HIDE DEF t
  <2> QED
    BY <1>1, <2>1, NoShareCall
<1>3. ASSUME NEW verdict, Answer(w, verdict)
      PROVE  SharesFine'
  <2> DEFINE t == [step |-> "recorded", event |-> task[w].event, verdict |-> verdict]
  <2>1. t.step \notin ShareSteps /\ task' = [task EXCEPT ![w] = t]
    BY <1>3 DEF ShareSteps, Answer
  <2> HIDE DEF t
  <2> QED
    BY <1>1, <2>1, NoShareCall
<1>4. CASE \E request \in Requests : RecordInteraction(w, request)
  <2>1. PICK request \in Requests : RecordInteraction(w, request)
    BY <1>4
  <2>2. PICK t : t = [step |-> "look", event |-> CanonicalEvent(request)]
    OBVIOUS
  <2>3. t.step \notin ShareSteps /\ task' = [task EXCEPT ![w] = t]
    BY <2>1, <2>2 DEF ShareSteps, RecordInteraction, Begin
  <2> QED
    BY <1>1, <2>3, NoShareCall
<1>5. CASE Deliver(w)
  <2>1. Idle.step \notin ShareSteps /\ task' = [task EXCEPT ![w] = Idle]
    BY <1>5 DEF Deliver, Idle, ShareSteps
  <2> QED
    BY <1>1, <2>1, NoShareCall
<1>6. CASE \E verdict : Answer(w, verdict)
  BY <1>3, <1>6
<1>7. CASE \E step \in EventSteps : Goto(w, step)
  BY <1>2, <1>7
<1>8. ASSUME Look(w) \/ LookImpression(w) \/ Check(w) \/ Insert(w) \/ Commit(w)
               \/ Reread(w) \/ RereadImpression(w) \/ Disconnect(w)
      PROVE  (\E step \in EventSteps : Goto(w, step)) \/ (\E verdict : Answer(w, verdict))
  <2>1. CASE Look(w) \/ LookImpression(w) \/ Reread(w)
    BY <2>1 DEF Look, LookImpression, Reread, Select, EventSteps
  <2>2. CASE Check(w) \/ Insert(w)
    BY <2>2 DEF Check, Insert, EventSteps
  <2>3. CASE Commit(w) \/ RereadImpression(w) \/ Disconnect(w)
    BY <2>3 DEF Commit, RereadImpression, Disconnect
  <2> QED
    BY <1>8, <2>1, <2>2, <2>3
<1> QED
  BY <1>4, <1>5, <1>6, <1>7, <1>8 DEF InteractionStep

\* A share call goes on to t; shares and closed may be written.
LEMMA ShareCallGoesOn ==
    ASSUME TaskShape, SharesFine, NEW w \in Workers, NEW t,
           task' = [task EXCEPT ![w] = t], clock' = clock,
           shares' \in [Shares -> ShareRows \cup {None}],
           \A s \in Shares : shares[s] # None =>
              /\ shares'[s] # None /\ shares'[s].expires = shares[s].expires
              /\ shares[s].revoked # None => shares'[s].revoked # None,
           closed \subseteq closed', closed' \subseteq Shares,
           \A s \in closed' \ closed : shares'[s] # None /\ shares'[s].revoked # None,
           ShareCallFine(t)'
    PROVE  SharesFine'
<1>1. \A v \in Workers : task'[v] = IF v = w THEN t ELSE task[v]
  BY DEF TaskShape
<1>2. ASSUME NEW v \in Workers PROVE ShareCallFine(task[v])'
  <2>1. CASE v = w
    BY <1>1, <2>1 DEF ShareCallFine
  <2>2. CASE v # w
    BY <1>1, <2>2 DEF SharesFine, ShareCallFine
  <2> QED
    BY <2>1, <2>2
<1>3. \A s \in closed' : shares'[s] # None /\ shares'[s].revoked # None
  BY DEF SharesFine
<1> QED
  BY <1>2, <1>3 DEF SharesFine

LEMMA ShareCallShares ==
    ASSUME TaskShape, SharesFine, NEW w \in Workers, ShareCall(w)
    PROVE  SharesFine'
<1>0. /\ None \notin ShareRows /\ None \notin Nat /\ ShareCallFine(task[w])
      /\ clock \in Nat /\ shares \in [Shares -> ShareRows \cup {None}]
      /\ closed \subseteq Shares
      /\ \A s \in closed : shares[s] # None /\ shares[s].revoked # None
  BY BoundsAssumption DEF BoundsAssumption, SharesFine
<1>1. CASE \E s \in Shares, step \in {"get", "revoke"} : BeginShareCall(w, s, step)
  <2>1. PICK s \in Shares, step \in {"get", "revoke"} : BeginShareCall(w, s, step)
    BY <1>1
  <2>2. PICK was : was = (s \in closed)
    BY Zenon
  <2>3. PICK t : t = [step |-> step, share |-> s, now |-> clock, wasClosed |-> was]
    OBVIOUS
  <2>4. task' = [task EXCEPT ![w] = t] /\ UNCHANGED <<clock, shares, closed>>
    BY <2>1, <2>2, <2>3, Zenon DEF BeginShareCall, Begin
  <2>5. was => s \in closed
    BY <2>2, Zenon
  <2>6. ShareCallFine(t)'
    BY <1>0, <2>3, <2>4, <2>5 DEF ShareCallFine, ShareSteps
  <2> QED
    BY <1>0, <2>4, <2>6, ShareCallGoesOn
<1> DEFINE call == task[w]
           on(step) == [step |-> step, share |-> call.share, now |-> call.now,
                        wasClosed |-> call.wasClosed]
<1>2. ASSUME NEW step \in {"served", "absent", "revokeWrite"}, GoOn(w, step),
             task[w].step \in {"get", "revoke"},
             step # "absent" => Active(call.share, call.now),
             UNCHANGED <<clock, shares, closed>>
      PROVE  SharesFine'
  <2>1. PICK t : t = on(step)
    OBVIOUS
  <2>2. /\ task' = [task EXCEPT ![w] = t] /\ t.step = step /\ t.share = call.share
        /\ t.now = call.now /\ t.wasClosed = call.wasClosed
    BY <1>2, <2>1 DEF GoOn
  <2>3. call.share \in Shares /\ call.now \in Nat /\ (call.wasClosed => call.share \in closed)
    BY <1>0, <1>2 DEF ShareCallFine, ShareSteps
  <2>4. step # "absent" => /\ shares[call.share] # None /\ ~call.wasClosed
                           /\ call.now < shares[call.share].expires
    BY <1>0, <1>2, <2>3 DEF Active
  <2>5. ShareCallFine(t)'
    BY <1>2, <2>2, <2>3, <2>4 DEF ShareCallFine
  <2> QED
    BY <1>0, <1>2, <2>2, <2>5, ShareCallGoesOn
<1>3. CASE GetShare(w)
  BY <1>2, <1>3 DEF GetShare, ShareStep
<1>4. CASE RevokeRead(w)
  BY <1>2, <1>4 DEF RevokeRead, ShareStep
<1>5. CASE RevokeWrite(w)
  <2>1. PICK row : row = [expires |-> shares[call.share].expires, revoked |-> call.now]
    OBVIOUS
  <2>2. PICK t : t = on("revoked")
    OBVIOUS
  <2>3. /\ task' = [task EXCEPT ![w] = t] /\ t.step = "revoked" /\ t.share = call.share
        /\ t.now = call.now /\ t.wasClosed = call.wasClosed
        /\ shares' = [shares EXCEPT ![call.share] = row] /\ UNCHANGED <<clock, closed>>
        /\ call.step = "revokeWrite"
    BY <1>5, <2>1, <2>2 DEF RevokeWrite, GoOn, ShareStep
  <2>4. /\ call.share \in Shares /\ call.now \in Nat /\ shares[call.share] # None
        /\ call.wasClosed => call.share \in closed
    BY <1>0, <2>3 DEF ShareCallFine, ShareSteps
  <2>5. /\ row \in ShareRows /\ row.expires = shares[call.share].expires
        /\ row.revoked # None
    BY <1>0, <2>1, <2>4 DEF ShareRows
  <2>6. /\ shares' \in [Shares -> ShareRows \cup {None}] /\ row # None
        /\ shares'[call.share] = row /\ \A s \in Shares \ {call.share} : shares'[s] = shares[s]
    BY <1>0, <2>3, <2>4, <2>5
  <2>7. ShareCallFine(t)'
    BY <2>3, <2>4, <2>5, <2>6 DEF ShareCallFine
  <2> QED
    BY <1>0, <2>3, <2>5, <2>6, <2>7, ShareCallGoesOn
<1>6. CASE AnswerShareCall(w)
  <2>1. /\ task' = [task EXCEPT ![w] = Idle] /\ UNCHANGED <<clock, shares>>
        /\ closed' = closed \/ (call.step = "revoked" /\ closed' = closed \cup {call.share})
    BY <1>6 DEF AnswerShareCall
  <2>2. call.step = "revoked" => /\ call.share \in Shares /\ shares[call.share] # None
                                 /\ shares[call.share].revoked # None
    BY <1>0 DEF ShareCallFine, ShareSteps
  <2>3. ShareCallFine(Idle)'
    BY DEF ShareCallFine, Idle, ShareSteps
  <2> QED
    BY <1>0, <2>1, <2>2, <2>3, ShareCallGoesOn
<1> QED
  BY <1>1, <1>3, <1>4, <1>5, <1>6 DEF ShareCall

-----------------------------------------------------------------------------
(* The steps together *)

\* A share call says nothing of events.
LEMMA ShareCallShape ==
    ASSUME NEW w \in Workers, ShareCall(w)
    PROVE  /\ \E t : task' = [task EXCEPT ![w] = t] /\ t.step \notin EventSteps
           /\ UNCHANGED <<rows, answers, metric>>
<1>1. CASE \E s \in Shares, step \in {"get", "revoke"} : BeginShareCall(w, s, step)
  <2>1. PICK s \in Shares, step \in {"get", "revoke"} : BeginShareCall(w, s, step)
    BY <1>1
  <2>2. PICK was : was = (s \in closed)
    BY Zenon
  <2>3. PICK t : t = [step |-> step, share |-> s, now |-> clock, wasClosed |-> was]
    OBVIOUS
  <2>4. task' = [task EXCEPT ![w] = t] /\ UNCHANGED <<rows, answers, metric>>
    BY <2>1, <2>2, <2>3, Zenon DEF BeginShareCall, Begin
  <2>5. t.step \notin EventSteps
    BY <2>3 DEF EventSteps
  <2> QED
    BY <2>4, <2>5
<1>2. ASSUME NEW step \in ShareSteps, GoOn(w, step)
      PROVE  \E t : task' = [task EXCEPT ![w] = t] /\ t.step \notin EventSteps
  <2>1. PICK t : t = [step |-> step, share |-> task[w].share, now |-> task[w].now,
                      wasClosed |-> task[w].wasClosed]
    OBVIOUS
  <2>2. task' = [task EXCEPT ![w] = t]
    BY <1>2, <2>1 DEF GoOn
  <2>3. t.step \notin EventSteps
    BY <1>2, <2>1 DEF ShareSteps, EventSteps
  <2> QED
    BY <2>2, <2>3
<1>3. CASE GetShare(w) \/ RevokeRead(w) \/ RevokeWrite(w)
  <2>1. \E step \in ShareSteps : GoOn(w, step)
    BY <1>3 DEF GetShare, RevokeRead, RevokeWrite, ShareSteps
  <2>2. UNCHANGED <<rows, answers, metric>>
    BY <1>3 DEF GetShare, RevokeRead, RevokeWrite, ShareStep
  <2> QED
    BY <1>2, <2>1, <2>2
<1>4. CASE AnswerShareCall(w)
  <2>1. /\ task' = [task EXCEPT ![w] = Idle] /\ Idle.step \notin EventSteps
        /\ UNCHANGED <<rows, answers, metric>>
    BY <1>4 DEF AnswerShareCall, Idle, EventSteps
  <2> QED
    BY <2>1
<1> QED
  BY <1>1, <1>3, <1>4 DEF ShareCall

LEMMA ShareCallInv ==
    ASSUME Inv, NEW w \in Workers, ShareCall(w)
    PROVE  Inv'
<1>1. PICK t : task' = [task EXCEPT ![w] = t] /\ t.step \notin EventSteps
  BY ShareCallShape
<1>2. UNCHANGED <<rows, answers, metric>>
  BY ShareCallShape
<1>3. CallFine(t) /\ t.step # "commit" /\ \A k : ~Counts(t, k)
  BY <1>1 DEF CallFine, Counts, EventSteps
<1>4. TaskShape' /\ EventsFine'
  BY <1>1, <1>2, <1>3, CallGoesOn DEF Inv
<1>5. \A k : Pending(k)' \subseteq Pending(k)
  BY <1>1, <1>3, OthersPending DEF Inv
<1>6. CountsFine'
  <2>1. rows \subseteq rows' /\ IsFiniteSet(rows')
    BY <1>2 DEF Inv, CountsFine
  <2> QED
    BY <1>2, <1>5, <2>1, NothingCounted DEF Inv
<1>7. SharesFine'
  BY ShareCallShares DEF Inv
<1> QED
  BY <1>4, <1>6, <1>7 DEF Inv

LEMMA InteractionInv ==
    ASSUME Inv, NEW w \in Workers, InteractionStep(w)
    PROVE  Inv'
<1>1. TaskShape' /\ EventsFine' /\ SharesFine'
  BY InteractionEvents, InteractionShares DEF Inv
<1>2. CountsFine'
  <2>1. CASE Commit(w)
    BY <2>1, CommitCounts DEF Inv
  <2>2. CASE Deliver(w)
    BY <2>2, DeliverCounts DEF Inv
  <2>3. CASE ~Commit(w) /\ ~Deliver(w)
    <3>1. PICK t : task' = [task EXCEPT ![w] = t] /\ \A k : ~Counts(t, k)
      BY <2>3, Uncounted
    <3>2. metric' = metric /\ (rows' = rows \/ rows' = rows \cup {task[w].event})
      BY <2>3, Uncounted
    <3>3. \A k : Pending(k)' \subseteq Pending(k)
      BY <3>1, OthersPending DEF Inv
    <3>4. rows \subseteq rows' /\ IsFiniteSet(rows')
      BY <3>2, FS_AddElement DEF Inv, CountsFine
    <3> QED
      BY <3>2, <3>3, <3>4, NothingCounted DEF Inv
  <2> QED
    BY <2>1, <2>2, <2>3
<1> QED
  BY <1>1, <1>2 DEF Inv

\* Nothing is stored, answered or counted outside the calls.
LEMMA QuietEvents ==
    ASSUME Inv, UNCHANGED <<task, rows, answers, metric>>
    PROVE  TaskShape' /\ EventsFine' /\ CountsFine'
<1>1. TaskShape' /\ EventsFine'
  BY DEF Inv, TaskShape, EventsFine, CallFine, Apart, Honest, Refused
<1>2. CountsFine'
  BY DEF Inv, CountsFine, Pending, Counts, Kept
<1> QED
  BY <1>1, <1>2

LEMMA CreateShareInv ==
    ASSUME Inv, NEW s \in Shares, CreateShare(s)
    PROVE  Inv'
<1>1. PICK row : row = [expires |-> clock + ShareTtl, revoked |-> None]
  OBVIOUS
<1>2. /\ shares[s] = None /\ shares' = [shares EXCEPT ![s] = row]
      /\ UNCHANGED <<task, rows, answers, metric, closed, clock>>
  BY <1>1 DEF CreateShare
<1>3. row \in ShareRows
  BY <1>1, BoundsAssumption DEF Inv, SharesFine, ShareRows, BoundsAssumption
<1>4. /\ shares' \in [Shares -> ShareRows \cup {None}]
      /\ \A r \in Shares : shares[r] # None => shares'[r] = shares[r]
  BY <1>2, <1>3 DEF Inv, SharesFine
<1>5. SharesFine'
  BY <1>2, <1>4 DEF Inv, SharesFine, ShareCallFine
<1> QED
  BY <1>2, <1>5, QuietEvents DEF Inv

LEMMA RestartInv ==
    ASSUME Inv, Restart
    PROVE  Inv'
<1>1. /\ task' = [w \in Workers |-> Idle] /\ metric' = [k \in Kinds |-> 0]
      /\ UNCHANGED <<rows, shares, clock, answers, closed>>
  BY DEF Restart
<1>2. TaskShape' /\ \A w \in Workers : task'[w].step = "idle"
  BY <1>1 DEF TaskShape, Idle
<1>3. SharesFine'
  BY <1>1, <1>2 DEF Inv, SharesFine, ShareCallFine, ShareSteps
<1>4. EventsFine'
  BY <1>1, <1>2 DEF Inv, EventsFine, CallFine, Apart, EventSteps, Honest, Refused
<1>5. CountsFine'
  <2>1. \A k : Pending(k)' = {} /\ Kept(k)' = Kept(k)
    BY <1>1, <1>2 DEF Pending, Counts, Kept
  <2>2. \A k \in Kinds : Cardinality(Kept(k)) \in Nat
    BY CountsFinite DEF Inv, CountsFine
  <2>3. \A k : Cardinality(Pending(k)') = 0
    BY <2>1, FS_EmptySet
  <2>4. /\ IsFiniteSet(rows') /\ metric' \in [Kinds -> Nat]
        /\ \A k \in Kinds : metric'[k] = 0
    BY <1>1 DEF Inv, CountsFine
  <2>5. ASSUME NEW k \in Kinds
        PROVE  metric'[k] + Cardinality(Pending(k)') <= Cardinality(Kept(k)')
    BY <2>1, <2>2, <2>3, <2>4
  <2> QED
    BY <2>4, <2>5 DEF CountsFine
<1> QED
  BY <1>2, <1>3, <1>4, <1>5 DEF Inv

LEMMA StepInv == Inv /\ [Next]_vars => Inv'
<1> SUFFICES ASSUME Inv, [Next]_vars PROVE Inv'
  OBVIOUS
<1>1. ASSUME NEW w \in Workers, InteractionStep(w) \/ ShareCall(w) PROVE Inv'
  BY <1>1, InteractionInv, ShareCallInv
<1>2. ASSUME NEW i \in Impressions, Issue(i) PROVE Inv'
  BY <1>2, QuietEvents DEF Issue, Inv, SharesFine, ShareCallFine
<1>3. ASSUME NEW s \in Shares, CreateShare(s) PROVE Inv'
  BY <1>3, CreateShareInv
<1>4. CASE Tick
  <2>1. clock' \in Nat /\ UNCHANGED <<shares, closed, task, rows, answers, metric>>
    BY <1>4 DEF Tick, Inv, SharesFine
  <2>2. SharesFine'
    BY <2>1 DEF Inv, SharesFine, ShareCallFine
  <2> QED
    BY <2>1, <2>2, QuietEvents DEF Inv
<1>5. CASE Restart
  BY <1>5, RestartInv
<1>6. CASE UNCHANGED vars
  BY <1>6, QuietEvents DEF vars, Inv, SharesFine, ShareCallFine
<1> QED
  BY <1>1, <1>2, <1>3, <1>4, <1>5, <1>6 DEF Next

\* What calls know, rows keep and counters owe, whatever the interleaving.
THEOREM Invariance == Spec => []Inv
<1> QED
  BY InitInv, StepInv, PTL DEF Spec

-----------------------------------------------------------------------------
(* The properties *)

\* A retry is answered from what is stored, and a conflict is for good: the
\* answers of put_interaction agree with the rows however the workers race.
THEOREM AnswersStayHonest == Spec => []AnswersHonest
<1>1. ASSUME Inv PROVE AnswersHonest
  <2> SUFFICES ASSUME NEW x \in answers,
                      x.verdict.outcome = "conflict",
                      NEW row \in rows, Payload(row) = x.payload
               PROVE  FALSE
    BY <1>1 DEF Inv, EventsFine, Honest, AnswersHonest
  <2>1. Refused(x.payload)
    BY <1>1 DEF Inv, EventsFine, Honest
  <2>2. /\ row.key = x.payload.key /\ row.session = x.payload.session
        /\ row.impression = x.payload.impression /\ row.kind = x.payload.kind
        /\ row.subject = x.payload.subject /\ Meaning(row) = Meaning(x.payload)
    BY PayloadFields
  <2>3. Referable(x.payload.subject)
    BY <1>1, <2>2 DEF Inv, EventsFine
  \* The row that refuses the payload collides with one that has it.
  <2>4. ASSUME NEW other \in rows, x.payload.key # None, SameKey(other, x.payload)
        PROVE  Payload(other) = x.payload
    <3>1. Collides(other, row)
      BY <2>2, <2>4 DEF Collides, SameKey
    <3> QED
      BY <1>1, <3>1 DEF Inv, EventsFine
  <2>5. ASSUME NEW other \in rows, x.payload.impression # None,
               SameImpression(other, x.payload)
        PROVE  Meaning(other) = Meaning(x.payload)
    <3>1. Collides(other, row)
      BY <2>2, <2>5 DEF Collides, SameImpression
    <3> QED
      BY <1>1, <2>2, <3>1 DEF Inv, EventsFine
  <2> QED
    BY <2>1, <2>3, <2>4, <2>5 DEF Refused
<1> QED
  BY <1>1, Invariance, PTL

\* An interaction is counted at most once for each row stored: a replay is
\* never counted, and a first acceptance has a row nobody else counts.
THEOREM InteractionsCountedOnce == Spec => []CountedOnce
<1>1. Inv => CountedOnce
  BY DEF Inv, CountsFine, CountedOnce, Pending, Counts, Kept
<1> QED
  BY <1>1, Invariance, PTL

\* A share is not served once its revocation was answered, though neither the
\* read nor the revocation locks the row.
THEOREM SharesStayHonest == Spec => []SharesHonest
<1>1. Inv => SharesHonest
  BY DEF Inv, SharesFine, ShareCallFine, ShareSteps, SharesHonest
<1> QED
  BY <1>1, Invariance, PTL
=============================================================================
