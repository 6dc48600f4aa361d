--------------------------- MODULE AnnotationRaces ---------------------------
(***************************************************************************)
(* The transactions of annotation/service.py on one item, taken statement  *)
(* by statement, as PostgreSQL runs them at READ COMMITTED: a statement    *)
(* reads what is committed when it starts, an ORM object keeps the values  *)
(* it was loaded with, and with autoflush off (catalog/database.py) a      *)
(* transaction's writes go out when it flushes.                            *)
(*                                                                         *)
(* A transaction is the record tx[r] of its reviewer; `loaded' is the item *)
(* state its ORM object was loaded with and `write' the state it holds     *)
(* now: a flush updates the column only where the two differ.  Row locks   *)
(* follow from the program counters.  A commit flushes whatever is left,   *)
(* in one step.  A rollback may come at any time: a deadlock victim, a     *)
(* unique violation, a lost connection or a crash.                         *)
(***************************************************************************)
EXTENDS AnnotationRules

CONSTANTS OfferedLabels,   \* the labels reviewers submit
          OfferedVerdicts, \* the labels adjudicators submit
          Times,           \* timestamps a call may carry
          LeaseTerm,       \* lease_seconds
          MaxInFlight      \* bound: calls of reviewers that run at one time

States == {"pending", "in_review", "needs_adjudication", "resolved"}

ASSUME RacesAssumption ==
    /\ IsFiniteSet(Reviewers)
    /\ None \notin States \cup ERLabels \cup [by : Reviewers, label : ERLabels]
    /\ OfferedLabels \subseteq ERLabels
    /\ OfferedVerdicts \subseteq ERLabels \ {Uncertain}
    /\ Times \subseteq Nat
    /\ LeaseTerm \in Nat \ {0}
    /\ MaxInFlight \in Nat \ {0}

VARIABLES
    state,      \* annotation_items.state
    assign,     \* annotation_assignments.status, by phase and reviewer
    expires,    \* annotation_assignments.lease_expires_at
    judgment,   \* annotation_judgments.label_value, by reviewer
    verdict,    \* annotation_adjudications: [by, label]
    release,    \* the frozen release, None while the project is open
    tx,         \* the transaction each reviewer's call runs
    freezer     \* the transaction of freeze_project

vars == <<state, assign, expires, judgment, verdict, release, tx, freezer>>
tables == <<state, assign, expires, judgment, verdict>>

Idle == [pc |-> "idle", phase |-> "review", now |-> 0, label |-> None,
         loaded |-> None, write |-> None, lapsed |-> {}]
NotFreezing == [pc |-> "idle", state |-> None, judgment |-> None]

Init ==
    /\ state = "pending"
    /\ assign = [ph \in Phases |-> [r \in Reviewers |-> "none"]]
    /\ expires = [ph \in Phases |-> [r \in Reviewers |-> 0]]
    /\ judgment = [r \in Reviewers |-> None]
    /\ verdict = None
    /\ release = None
    /\ tx = [r \in Reviewers |-> Idle]
    /\ freezer = NotFreezing

Judges == JudgesIn(judgment)
Live(ph, r, t) == assign[ph][r] = "leased" /\ expires[ph][r] > t
LiveReviews(t) == {r \in Reviewers : Live("review", r, t)}

\* A call reads or locks its first rows; and goes on, its ORM item now held.
Begin(r, first) == tx' = [tx EXCEPT ![r] = first]
Proceed(r, pc, loaded, write) ==
    tx' = [tx EXCEPT ![r] =
             [pc |-> pc, phase |-> tx[r].phase, now |-> tx[r].now, label |-> tx[r].label,
              loaded |-> loaded, write |-> write, lapsed |-> tx[r].lapsed]]
GoTo(r, pc) == Proceed(r, pc, tx[r].loaded, tx[r].write)
CanBegin(r) ==
    /\ tx[r].pc = "idle"
    /\ Cardinality({s \in Reviewers : tx[s].pc # "idle"}) < MaxInFlight
Finish(r) == tx' = [tx EXCEPT ![r] = Idle]

-----------------------------------------------------------------------------
(* Row locks *)

\* FOR UPDATE of the item, from a claim's SELECT to its commit.
ItemLockedBy(r) == tx[r].pc = "claimed"

\* KEY SHARE of the item, from the flush of a judgment to its commit.
ItemSharedBy(r) == tx[r].pc \in {"flushed", "refreshed"}

\* FOR UPDATE of an assignment, from a submission's first read to its commit.
AssignmentLocked(ph, r) ==
    /\ tx[r].phase = ph
    /\ tx[r].pc \in {"submitting", "flushed", "refreshed", "deciding"}

ItemUpdatable(r) == \A s \in Reviewers \ {r} : ~ItemLockedBy(s)

-----------------------------------------------------------------------------
(* _claim *)

\* The project is open when it is read; it is not locked.  _expire_leases then
\* selects the lapsed leases, and loads the item if there are any.
BeginClaim(r, ph, t) ==
    LET lapsed == {a \in Phases \X Reviewers :
                     assign[a[1]][a[2]] = "leased" /\ expires[a[1]][a[2]] <= t}
        refresh == \E a \in lapsed : a[1] = "review"
        loaded == IF lapsed = {} THEN None ELSE state
    IN  /\ CanBegin(r)
        /\ release = None
        /\ Begin(r, [pc |-> IF refresh THEN "refresh" ELSE "search", phase |-> ph,
                     now |-> t, label |-> None, loaded |-> loaded, write |-> loaded,
                     lapsed |-> lapsed])
        /\ UNCHANGED <<tables, release, freezer>>

RefreshLapsed(r) ==
    /\ tx[r].pc = "refresh"
    /\ Proceed(r, "search", tx[r].loaded, RefreshedState(judgment, LiveReviews(tx[r].now)))
    /\ UNCHANGED <<tables, release, freezer>>

ClaimableStates(ph) ==
    IF ph = "review" THEN {"pending", "in_review"} ELSE {"needs_adjudication"}

\* The WHERE clause, counts included, on the statement's own snapshot.
Claimable(r) ==
    /\ state \in ClaimableStates(tx[r].phase)
    /\ judgment[r] = None
    /\ assign[tx[r].phase][r] = "none"
    /\ IF tx[r].phase = "review"
       THEN Cardinality(LiveReviews(tx[r].now)) + Cardinality(Judges) < RequiredReviews
       ELSE verdict = None

SearchItem(r) ==
    /\ tx[r].pc = "search"
    /\ GoTo(r, IF Claimable(r) THEN "lock" ELSE "unclaimed")
    /\ UNCHANGED <<tables, release, freezer>>

\* FOR UPDATE SKIP LOCKED reaches the row: it is skipped when locked, and only
\* the columns of the row itself are looked at again when it has changed.
LockItem(r) ==
    LET locked == \E s \in Reviewers \ {r} : ItemLockedBy(s) \/ ItemSharedBy(s)
        held == IF tx[r].loaded = None THEN state ELSE tx[r].loaded
        kept == IF tx[r].loaded = None THEN state ELSE tx[r].write
    IN  /\ tx[r].pc = "lock"
        /\ IF locked \/ state \notin ClaimableStates(tx[r].phase)
           THEN GoTo(r, "unclaimed")
           ELSE Proceed(r, "claimed", held,
                        IF tx[r].phase = "review" THEN "in_review" ELSE kept)
        /\ UNCHANGED <<tables, release, freezer>>

IgnoresRowLocks(r) == TRUE

\* The UPDATE that expires a lease waits for a submission to let go of the row.
LapsedRowsFree(r) == \A a \in tx[r].lapsed : ~AssignmentLocked(a[1], a[2])

\* MUTANT: the row of a lapsed lease is deleted, so that its place is free again.
DeletesExpired(r) ==
    [ph \in Phases |-> [s \in Reviewers |->
        IF <<ph, s>> \in tx[r].lapsed THEN "none" ELSE assign[ph][s]]]

\* UPDATE ... SET status = 'expired' names the row and not its status: it also
\* overwrites what has been submitted since the lapsed leases were selected.
AfterExpiry(r) ==
    [ph \in Phases |-> [s \in Reviewers |->
        IF <<ph, s>> \in tx[r].lapsed THEN "expired" ELSE assign[ph][s]]]

\* uq_annotation_active_adjudication and the unique (item, reviewer, phase).
LeaseInsertable(r) ==
    /\ assign[tx[r].phase][r] = "none"
    /\ tx[r].phase = "adjudication" =>
         \A s \in Reviewers : AfterExpiry(r)["adjudication"][s] # "leased"

CommitClaim(r) ==
    LET claimed == tx[r].pc = "claimed"
        changed == tx[r].write # tx[r].loaded
    IN  /\ tx[r].pc \in {"unclaimed", "claimed"}
        /\ LapsedRowsFree(r)
        /\ changed => ItemUpdatable(r)
        /\ claimed => LeaseInsertable(r)
        /\ assign' = IF claimed THEN [AfterExpiry(r) EXCEPT ![tx[r].phase][r] = "leased"]
                     ELSE AfterExpiry(r)
        /\ expires' = IF claimed
                      THEN [expires EXCEPT ![tx[r].phase][r] = tx[r].now + LeaseTerm]
                      ELSE expires
        /\ state' = IF changed THEN tx[r].write ELSE state
        /\ Finish(r)
        /\ UNCHANGED <<judgment, verdict, release, freezer>>

-----------------------------------------------------------------------------
(* submit_judgment *)

BeginJudgmentUnloaded(r, l, t) ==
    /\ CanBegin(r)
    /\ Live("review", r, t)
    /\ judgment[r] = None
    /\ Begin(r, [pc |-> "submitting", phase |-> "review", now |-> t, label |-> l,
                 loaded |-> None, write |-> None, lapsed |-> {}])
    /\ UNCHANGED <<tables, release, freezer>>

\* The assignment is locked, the item is not.
BeginJudgment(r, l, t) ==
    /\ CanBegin(r)
    /\ Live("review", r, t)
    /\ judgment[r] = None
    /\ Begin(r, [pc |-> "submitting", phase |-> "review", now |-> t, label |-> l,
                 loaded |-> state, write |-> state, lapsed |-> {}])
    /\ UNCHANGED <<tables, release, freezer>>

\* The INSERT's foreign key waits for a claim that has the item FOR UPDATE.
FlushJudgment(r) ==
    /\ tx[r].pc = "submitting"
    /\ tx[r].phase = "review"
    /\ ItemUpdatable(r)
    /\ GoTo(r, "flushed")
    /\ UNCHANGED <<tables, release, freezer>>

\* _refresh_item_state sees the committed judgments and its own.
RefreshJudged(r) ==
    LET seen == [judgment EXCEPT ![r] = tx[r].label]
    IN  /\ tx[r].pc = "flushed"
        /\ Proceed(r, "refreshed", tx[r].loaded,
                   RefreshedState(seen, LiveReviews(tx[r].now) \ {r}))
        /\ UNCHANGED <<tables, release, freezer>>

CommitJudgment(r) ==
    /\ tx[r].pc = "refreshed"
    /\ judgment' = [judgment EXCEPT ![r] = tx[r].label]
    /\ assign' = [assign EXCEPT !["review"][r] = "submitted"]
    /\ state' = IF tx[r].write # tx[r].loaded THEN tx[r].write ELSE state
    /\ Finish(r)
    /\ UNCHANGED <<expires, verdict, release, freezer>>

-----------------------------------------------------------------------------
(* submit_adjudication *)

BeginVerdict(r, l, t) ==
    /\ CanBegin(r)
    /\ Live("adjudication", r, t)
    /\ r \notin Judges
    /\ state = "needs_adjudication"
    /\ verdict = None
    /\ Begin(r, [pc |-> "deciding", phase |-> "adjudication", now |-> t, label |-> l,
                 loaded |-> None, write |-> None, lapsed |-> {}])
    /\ UNCHANGED <<tables, release, freezer>>

CommitVerdict(r) ==
    /\ tx[r].pc = "deciding"
    /\ ItemUpdatable(r)
    /\ verdict = None
    /\ verdict' = [by |-> r, label |-> tx[r].label]
    /\ assign' = [assign EXCEPT !["adjudication"][r] = "submitted"]
    /\ state' = "resolved"
    /\ Finish(r)
    /\ UNCHANGED <<expires, judgment, release, freezer>>

Rollback(r) ==
    /\ tx[r].pc # "idle"
    /\ Finish(r)
    /\ UNCHANGED <<tables, release, freezer>>

-----------------------------------------------------------------------------
(* freeze_project: the project is locked; items, judgments and verdicts are *)
(* read by one statement each                                               *)

\* A freeze that reads any other state refuses, whatever it reads next: no step.
FreezeReadItems ==
    /\ freezer.pc = "idle"
    /\ release = None
    /\ state = "resolved"
    /\ freezer' = [pc |-> "judgments", state |-> state, judgment |-> None]
    /\ UNCHANGED <<tables, release, tx>>

FreezeReadJudgments ==
    /\ freezer.pc = "judgments"
    /\ freezer' = [pc |-> "verdicts", state |-> freezer.state, judgment |-> judgment]
    /\ UNCHANGED <<tables, release, tx>>

\* The verdicts are read and the gate either refuses or the freeze commits.
FreezeCommit ==
    /\ freezer.pc = "verdicts"
    /\ release' = IF ItemGate(freezer.judgment, verdict, freezer.state,
                              ERLabels \ {Uncertain})
                  THEN [judgment |-> freezer.judgment, verdict |-> verdict,
                        label |-> DecidedLabel(freezer.judgment, verdict)]
                  ELSE None
    /\ freezer' = NotFreezing
    /\ UNCHANGED <<tables, tx>>

-----------------------------------------------------------------------------
ReviewerStep(r) ==
    \/ \E ph \in Phases, t \in Times : BeginClaim(r, ph, t)
    \/ RefreshLapsed(r)
    \/ SearchItem(r)
    \/ LockItem(r)
    \/ CommitClaim(r)
    \/ \E l \in OfferedLabels, t \in Times : BeginJudgment(r, l, t)
    \/ FlushJudgment(r)
    \/ RefreshJudged(r)
    \/ CommitJudgment(r)
    \/ \E l \in OfferedVerdicts, t \in Times : BeginVerdict(r, l, t)
    \/ CommitVerdict(r)
    \/ Rollback(r)

Next ==
    \/ \E r \in Reviewers : ReviewerStep(r)
    \/ FreezeReadItems
    \/ FreezeReadJudgments
    \/ FreezeCommit

Spec == Init /\ [][Next]_vars

-----------------------------------------------------------------------------
(* Properties *)

\* Types, and that a transaction that will overwrite the item's state, or write
\* off somebody's lease, has loaded the item first.
TypeOK ==
    /\ state \in States
    /\ assign \in [Phases -> [Reviewers -> AssignmentStatuses]]
    /\ judgment \in [Reviewers -> OfferedLabels \cup {None}]
    /\ verdict \in [by : Reviewers, label : OfferedVerdicts] \cup {None}
    /\ \A r \in Reviewers :
         /\ tx[r].loaded \in States \cup {None}
         /\ (tx[r].lapsed # {} \/ tx[r].pc \in {"claimed", "flushed"})
              => tx[r].loaded # None /\ tx[r].write # None

\* Whatever else the races do to the item, a release rests on exactly two
\* judgments that are on record, on a verdict on record from somebody who gave
\* neither of them when they differ, and on no verdict when they agree.
ReleaseSound ==
    release # None =>
        LET given == release.judgment
        IN  /\ Cardinality(JudgesIn(given)) = RequiredReviews
            /\ \A r \in JudgesIn(given) : judgment[r] = given[r]
            /\ IF Disputed(LabelsIn(given))
               THEN /\ release.verdict = verdict
                    /\ verdict.by \notin JudgesIn(given)
                    /\ release.label = verdict.label
               ELSE LabelsIn(given) = {release.label}

\* The lease a submission found live is still its own when it commits: the row
\* lock keeps a claim with a later clock from writing it off in between.
LeaseHeldToCommit ==
    [][\A r \in Reviewers :
         /\ judgment'[r] # judgment[r] => assign["review"][r] = "leased"
         /\ verdict' # verdict /\ verdict'.by = r => assign["adjudication"][r] = "leased"
      ]_vars

\* A claim may write 'expired' over an assignment that was submitted while it ran
\* (service.py:1506), and that is all it can take: the decision stays on record,
\* the assignment still bars its reviewer from the item, and no assignment says
\* "submitted" without the decision of its own reviewer.
DecisionsStand ==
    \A r \in Reviewers :
        /\ assign["review"][r] = "submitted" => judgment[r] # None
        /\ judgment[r] # None => assign["review"][r] \in {"submitted", "expired"}
        /\ assign["adjudication"][r] = "submitted" => verdict # None /\ verdict.by = r
        /\ verdict # None /\ verdict.by = r =>
             assign["adjudication"][r] \in {"submitted", "expired"}

\* "The service enforces [...] hashed idempotency"
\* (docs/development-guide.md:391-393): whoever repeats a submission gets its
\* decision (tests/unit/test_annotation_service.py:670-683), for which the
\* assignment must still say "submitted" (service.py:2245).
ReplayAnswered ==
    \A r \in Reviewers :
        /\ judgment[r] # None => assign["review"][r] = "submitted"
        /\ verdict # None /\ verdict.by = r => assign["adjudication"][r] = "submitted"

\* Nobody decides anything more about an item whose project is frozen.
FrozenIsFinal == [][release # None => UNCHANGED <<judgment, verdict>>]_vars

\* "The service enforces exactly two different reviewers"
\* (docs/development-guide.md:392).
ExactlyTwoReviewers == Cardinality(Judges) <= RequiredReviews

\* "Disagreement or UNCERTAIN requires an independent adjudication"
\* (docs/data-card.md:230): once no call is running, an item whose two judgments
\* disagree waits for a verdict.
DisagreementIsAdjudicated ==
    /\ \A r \in Reviewers : tx[r].pc = "idle"
    /\ Cardinality(Judges) = RequiredReviews
    /\ Disputed(LabelsIn(judgment))
    => state = "needs_adjudication" \/ verdict # None
=============================================================================
