---------------------------- MODULE DurableStore ----------------------------
(***************************************************************************)
(* The rows the public API writes outside the catalogue: the interaction   *)
(* events and the public build shares of services/api/durability.py, as    *)
(* several worker threads use them at once.                                *)
(*                                                                         *)
(* Every database statement is a step of its own, so what one transaction  *)
(* looked up may have changed when it writes (the engine runs at READ      *)
(* COMMITTED).  A row is visible to the others from its commit; an insert  *)
(* waits for an uncommitted insert it collides with.                       *)
(***************************************************************************)
EXTENDS Naturals, FiniteSets

CONSTANTS
    Workers,        \* the threads asyncio.to_thread hands the calls to
    Requests,       \* the interaction requests callers may send, and resend
    Impressions,    \* the identities of issued impression tokens
    Displays,       \* what a response shows: who sees which subject, as what
    Saved,          \* the subjects (query, product, build) the database holds
    Shares,         \* the identities of build shares
    Development,    \* is this a development environment?
    None,           \* no key, no impression, no subject, no time
    ImpressionTtl, ShareTtl,
    MaxClock, MaxOperations, MaxRestarts    \* the bounds of the instance

\* A row of the shares: when it expires, and when it was revoked.
ShareRows == [expires : Nat, revoked : Nat \cup {None}]

ASSUME BoundsAssumption ==
    /\ IsFiniteSet(Workers)
    /\ None \notin Nat \cup ShareRows
    /\ ImpressionTtl \in Nat /\ ShareTtl \in Nat
    /\ MaxClock \in Nat /\ MaxOperations \in Nat /\ MaxRestarts \in Nat

VARIABLES
    rows,           \* the committed interaction events
    shares,         \* share -> its row, None before it is created
    issued,         \* impression -> the claims its token carries, or None
    task,           \* worker -> the call it is executing
    metric,         \* event type -> interactions this process has counted
    server,         \* the secret and the release the process runs with
    clock, operations,
    answers,        \* history: what keyed interactions were answered
    closed          \* history: shares whose revocation was answered

vars == <<rows, shares, issued, task, metric, server, clock, operations, answers, closed>>

-----------------------------------------------------------------------------
(* Impression tokens and the canonical event (routers/interactions.py).    *)

\* The event types a signed impression may vouch for, by what was displayed.
TrustedEvents ==
    [product_search_result |->
        {"component_viewed", "recommendation_dismissed", "feedback_submitted"},
     build_result |->
        {"build_viewed", "build_saved", "build_shared", "component_replaced",
         "recommendation_dismissed", "feedback_submitted"},
     build_component_result |-> {"component_viewed", "retailer_clicked"}]

Kinds == UNION {TrustedEvents[d] : d \in DOMAIN TrustedEvents}

Signed(request) == request.impression # None

\* The token decrypts under this process's secret, is in time, and its actor
\* is the one the cookie authenticates.
Verifies(request) ==
    LET claims == issued[request.impression]
    IN  /\ claims # None
        /\ claims.secret = server.secret
        /\ clock < claims.expires
        /\ claims.actor = request.session

\* What the router lets through; a request it refuses touches nothing.
Admits(request) ==
    IF Signed(request)
    THEN /\ request.key # None
         /\ Verifies(request)
         /\ request.kind \in TrustedEvents[issued[request.impression].display]
         /\ request.subject \in {None, issued[request.impression].subject}
    ELSE Development \/ request.subject = None

\* The keyed digest of a retry key: nobody without the secret can redo it.
KeyDigest(request) ==
    IF request.key = None THEN None
    ELSE [session |-> request.session, key |-> request.key, secret |-> server.secret]

\* A retry of a keyed event gets the same identity, a keyless event its own.
EventId(digest) == IF digest = None THEN [serial |-> operations] ELSE [digest |-> digest]

\* A signed event takes its attribution from the token's claims, an unsigned
\* one from the release the process runs.
CanonicalEvent(request) ==
    LET claims == IF Signed(request) THEN issued[request.impression]
                  ELSE [subject |-> request.subject, version |-> server.version]
    IN  [id         |-> EventId(KeyDigest(request)),
         session    |-> request.session,
         key        |-> KeyDigest(request),
         impression |-> request.impression,
         kind       |-> request.kind,
         subject    |-> claims.subject,
         version    |-> claims.version,
         body       |-> request.body,
         at         |-> clock]

\* What two events on one impression are compared by, and what the payload
\* digest is taken of.
Meaning(event) ==
    [session |-> event.session, impression |-> event.impression, kind |-> event.kind,
     subject |-> event.subject, version |-> event.version, body |-> event.body]
Payload(event) ==
    [session |-> event.session, key |-> event.key, impression |-> event.impression,
     kind |-> event.kind, subject |-> event.subject, version |-> event.version,
     body |-> event.body]

SameKey(row, event) == row.session = event.session /\ row.key = event.key
SameImpression(row, event) == row.impression = event.impression /\ row.kind = event.kind

\* The unique indexes; a row without a key or an impression collides on neither.
Collides(row, event) ==
    \/ row.id = event.id
    \/ event.key # None /\ SameKey(row, event)
    \/ event.impression # None /\ SameImpression(row, event)

Conflict == [outcome |-> "conflict"]
Failure  == [outcome |-> "failed"]
Accepted(event, replayed) == [outcome |-> "accepted", at |-> event.at, replayed |-> replayed]

\* MUTANT: a replay reads like a first acceptance.
ResolveAsFirst(row, event) ==
    IF \/ event.key # None /\ SameKey(row, event) /\ Payload(row) = Payload(event)
       \/ event.impression # None /\ SameImpression(row, event) /\ Meaning(row) = Meaning(event)
    THEN Accepted(row, FALSE) ELSE Conflict

\* How a stored row answers a proposed event (_resolve_existing_interaction):
\* by its key, which must come with the same payload, else by its impression,
\* which must come with the same content.
Resolve(row, event) ==
    IF event.key # None /\ SameKey(row, event)
    THEN IF Payload(row) = Payload(event) THEN Accepted(row, TRUE) ELSE Conflict
    ELSE IF /\ event.impression # None
            /\ SameImpression(row, event)
            /\ Meaning(row) = Meaning(event)
         THEN Accepted(row, TRUE) ELSE Conflict

-----------------------------------------------------------------------------
Idle == [step |-> "idle"]

Init ==
    /\ rows = {}
    /\ shares = [s \in Shares |-> None]
    /\ issued = [i \in Impressions |-> None]
    /\ task = [w \in Workers |-> Idle]
    /\ metric = [k \in Kinds |-> 0]
    /\ server = [secret |-> 0, version |-> 0]
    /\ clock = 0 /\ operations = 0
    /\ answers = {} /\ closed = {}

\* Worker w begins, moves on with, or ends its call.
Begin(w, call) ==
    /\ task[w] = Idle
    /\ operations < MaxOperations
    /\ operations' = operations + 1
    /\ task' = [task EXCEPT ![w] = call]
    /\ UNCHANGED <<rows, shares, issued, metric, server, clock, answers, closed>>

Goto(w, step) == task' = [task EXCEPT ![w] = [step |-> step, event |-> task[w].event]]
Answer(w, verdict) ==
    task' = [task EXCEPT ![w] =
               [step |-> "recorded", event |-> task[w].event, verdict |-> verdict]]

Storing(w, step) ==
    /\ task[w].step = step
    /\ UNCHANGED <<shares, issued, metric, server, clock, operations, answers, closed>>

\* A response shows a result: its token binds viewer, subject and release.
Issue(i) ==
    \E shown \in Displays :
        /\ issued[i] = None
        /\ issued' = [issued EXCEPT ![i] =
               [actor |-> shown.actor, subject |-> shown.subject, display |-> shown.display,
                version |-> server.version, secret |-> server.secret,
                expires |-> clock + ImpressionTtl]]
        /\ UNCHANGED <<rows, shares, task, metric, server, clock, operations, answers, closed>>

RecordInteraction(w, request) ==
    /\ Admits(request)
    /\ Begin(w, [step |-> "look", event |-> CanonicalEvent(request)])

\* A select that finds a row ends the call; one that finds none moves it on.
Select(w, step, found, next) ==
    /\ Storing(w, step)
    /\ IF found = {} THEN Goto(w, next)
       ELSE \E row \in found : Answer(w, Resolve(row, task[w].event))
    /\ UNCHANGED rows

WithIdOrKey(event) ==
    {row \in rows : row.id = event.id \/ (event.key # None /\ SameKey(row, event))}
WithImpression(event) ==
    {row \in rows : event.impression # None /\ SameImpression(row, event)}

\* put_interaction: by identity and key, then by impression.
Look(w) == Select(w, "look", WithIdOrKey(task[w].event), "lookImpression")
LookImpression(w) == Select(w, "lookImpression", WithImpression(task[w].event), "check")

\* The references must be stored.  add_interaction then looks once more, and
\* raises a ValueError nobody answers when the identity has appeared.
Check(w) ==
    /\ Storing(w, "check")
    /\ LET event == task[w].event
       IN  IF event.subject \notin Saved \cup {None} THEN Answer(w, Conflict)
           ELSE IF \E row \in rows : row.id = event.id THEN Answer(w, Failure)
           ELSE Goto(w, "insert")
    /\ UNCHANGED rows

\* MUTANT: whatever collides is a conflict.
InsertOrConflict(w) ==
    /\ Storing(w, "insert")
    /\ ~\E v \in Workers \ {w} :
           task[v].step = "commit" /\ Collides(task[v].event, task[w].event)
    /\ IF \E row \in rows : Collides(row, task[w].event)
       THEN Answer(w, Conflict) ELSE Goto(w, "commit")
    /\ UNCHANGED rows

\* The flush: it waits for an uncommitted row it collides with, and a committed
\* one sends it to read what the winner stored.
Insert(w) ==
    /\ Storing(w, "insert")
    /\ ~\E v \in Workers \ {w} :
           task[v].step = "commit" /\ Collides(task[v].event, task[w].event)
    /\ Goto(w, IF \E row \in rows : Collides(row, task[w].event)
               THEN "reread" ELSE "commit")
    /\ UNCHANGED rows

Commit(w) ==
    /\ Storing(w, "commit")
    /\ rows' = rows \cup {task[w].event}
    /\ Answer(w, Accepted(task[w].event, FALSE))

\* After a unique violation: by session and key (a missing key matches any
\* keyless row of the session), then by impression, else it is a conflict.
Reread(w) == Select(w, "reread", {row \in rows : SameKey(row, task[w].event)}, "rereadImpression")

RereadImpression(w) ==
    /\ Storing(w, "rereadImpression")
    /\ LET found == WithImpression(task[w].event)
       IN  IF found = {} THEN Answer(w, Conflict)
           ELSE \E row \in found : Answer(w, Resolve(row, task[w].event))
    /\ UNCHANGED rows

\* The database connection breaks: the call fails, and a commit under way may
\* or may not have been applied.
Disconnect(w) ==
    /\ Storing(w, task[w].step)
    /\ task[w].step \in {"look", "lookImpression", "check", "insert", "commit",
                         "reread", "rereadImpression"}
    /\ rows' \in {rows} \cup (IF task[w].step = "commit"
                              THEN {rows \cup {task[w].event}} ELSE {})
    /\ Answer(w, Failure)

\* The router answers; what was stored by this call, and only that, is counted.
Deliver(w) ==
    /\ task[w].step = "recorded"
    /\ LET event == task[w].event
           verdict == task[w].verdict
           counts == verdict.outcome = "accepted" /\ ~verdict.replayed
       IN  /\ metric' = [metric EXCEPT ![event.kind] = @ + (IF counts THEN 1 ELSE 0)]
           /\ answers' = IF event.key = None THEN answers
                         ELSE answers \cup {[payload |-> Payload(event), verdict |-> verdict]}
    /\ task' = [task EXCEPT ![w] = Idle]
    /\ UNCHANGED <<rows, shares, issued, server, clock, operations, closed>>

-----------------------------------------------------------------------------
(* Public build shares.                                                    *)

CreateShare(s) ==
    /\ shares[s] = None
    /\ shares' = [shares EXCEPT ![s] = [expires |-> clock + ShareTtl, revoked |-> None]]
    /\ UNCHANGED <<rows, issued, task, metric, server, clock, operations, answers, closed>>

\* MUTANT: an active share is one that has not expired.
ActiveUnexpired(s, now) == shares[s] # None /\ now < shares[s].expires

\* Created, not revoked, not expired at the moment the call took as its now.
Active(s, now) == /\ shares[s] # None
                  /\ shares[s].revoked = None
                  /\ now < shares[s].expires

\* Both calls take their now before they open the session.
BeginShareCall(w, s, step) ==
    Begin(w, [step |-> step, share |-> s, now |-> clock, wasClosed |-> s \in closed])

ShareStep(w, step) ==
    /\ task[w].step = step
    /\ UNCHANGED <<rows, issued, metric, server, clock, operations, answers>>

GoOn(w, step) ==
    task' = [task EXCEPT ![w] = [step |-> step, share |-> task[w].share,
                                 now |-> task[w].now, wasClosed |-> task[w].wasClosed]]

GetShare(w) ==
    /\ ShareStep(w, "get")
    /\ GoOn(w, IF Active(task[w].share, task[w].now) THEN "served" ELSE "absent")
    /\ UNCHANGED <<shares, closed>>

\* The holder of the token revokes: the row is read without a lock ...
RevokeRead(w) ==
    /\ ShareStep(w, "revoke")
    /\ GoOn(w, IF Active(task[w].share, task[w].now) THEN "revokeWrite" ELSE "absent")
    /\ UNCHANGED <<shares, closed>>

\* ... and written whatever happened to it since.
RevokeWrite(w) ==
    /\ ShareStep(w, "revokeWrite")
    /\ shares' = [shares EXCEPT ![task[w].share] =
                    [expires |-> shares[task[w].share].expires, revoked |-> task[w].now]]
    /\ GoOn(w, "revoked")
    /\ UNCHANGED closed

AnswerShareCall(w) ==
    /\ task[w].step \in {"served", "absent", "revoked"}
    /\ closed' = closed \cup (IF task[w].step = "revoked" THEN {task[w].share} ELSE {})
    /\ task' = [task EXCEPT ![w] = Idle]
    /\ UNCHANGED <<rows, shares, issued, metric, server, clock, operations, answers>>

-----------------------------------------------------------------------------
(* The environment.                                                        *)

Tick ==
    /\ clock < MaxClock
    /\ clock' = clock + 1
    /\ UNCHANGED <<rows, shares, issued, task, metric, server, operations, answers, closed>>

\* The process restarts: open transactions roll back, its counters start over,
\* and it may come back with another release or another signing secret.
Restart ==
    /\ server.secret + server.version < MaxRestarts
    /\ \E secret \in {server.secret, server.secret + 1},
          version \in {server.version, server.version + 1} :
           /\ <<secret, version>> # <<server.secret, server.version>>
           /\ server' = [secret |-> secret, version |-> version]
    /\ task' = [w \in Workers |-> Idle]
    /\ metric' = [k \in Kinds |-> 0]
    /\ UNCHANGED <<rows, shares, issued, clock, operations, answers, closed>>

InteractionStep(w) ==
    \/ \E request \in Requests : RecordInteraction(w, request)
    \/ Look(w) \/ LookImpression(w) \/ Check(w) \/ Insert(w) \/ Commit(w)
    \/ Reread(w) \/ RereadImpression(w) \/ Disconnect(w) \/ Deliver(w)

ShareCall(w) ==
    \/ \E s \in Shares, step \in {"get", "revoke"} : BeginShareCall(w, s, step)
    \/ GetShare(w) \/ RevokeRead(w) \/ RevokeWrite(w) \/ AnswerShareCall(w)

Next ==
    \/ \E w \in Workers : InteractionStep(w) \/ ShareCall(w)
    \/ \E i \in Impressions : Issue(i)
    \/ \E s \in Shares : CreateShare(s)
    \/ Tick \/ Restart

Spec == Init /\ [][Next]_vars

-----------------------------------------------------------------------------
(* Properties.                                                             *)

\* What a retry is told (put_interaction, 976-1069): an acceptance carries the
\* time of a stored event with its content, whichever attempt stored it, and a
\* request that repeats a stored event exactly is never told it conflicts.
AnswersHonest ==
    \A x \in answers :
        /\ x.verdict.outcome = "accepted" =>
               \E row \in rows :
                   /\ row.at = x.verdict.at
                   /\ Meaning(row) = Meaning(x.payload)
                   /\ \/ row.key = x.payload.key
                      \/ row.impression # None
        /\ x.verdict.outcome = "conflict" => ~\E row \in rows : Payload(row) = x.payload

\* The process never counts an interaction more often than it was stored, the
\* ones it is about to count included (record_interaction, 194-212).
CountedOnce ==
    \A k \in Kinds :
        metric[k] + Cardinality({w \in Workers :
                        /\ task[w].step = "recorded"
                        /\ task[w].event.kind = k
                        /\ task[w].verdict.outcome = "accepted"
                        /\ ~task[w].verdict.replayed})
            <= Cardinality({row \in rows : row.kind = k})

\* A share is not served to a call that began after its revocation had been
\* answered, nor past its expiry, and a revocation that was answered stands:
\* the row is still revoked (durability.py, 937-974).
SharesHonest ==
    /\ \A w \in Workers :
           task[w].step = "served" =>
               ~task[w].wasClosed /\ task[w].now < shares[task[w].share].expires
    /\ \A s \in closed : shares[s].revoked # None

\* docs/deployment-runbook.md, 272-274: "Rotating the impression-signing key
\* immediately invalidates outstanding impression tokens. ... Exact retries
\* remain idempotent because the stored evidence contains no raw key or token."
RawKey(row) == <<row.session, row.key.key, Meaning(row)>>
ExactRetriesIdempotent ==
    \A r1, r2 \in {row \in rows : row.key # None} :
        RawKey(r1) = RawKey(r2) => r1 = r2
=============================================================================
