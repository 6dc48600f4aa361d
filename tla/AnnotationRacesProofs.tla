------------------------ MODULE AnnotationRacesProofs ------------------------
(***************************************************************************)
(* Proofs about AnnotationRaces, for every set of reviewers, labels and    *)
(* timestamps and any number of calls in flight.                           *)
(*                                                                         *)
(* What a transaction has read under a row lock is still true while it     *)
(* holds the lock: Fine(r, t) says what each pc may rely on, and only the   *)
(* step of r itself, or of a claim that finds the row free, can touch it.  *)
(* A release is sound because judgments and verdicts are written once: the *)
(* freeze's three statements then read parts of one final state.           *)
(***************************************************************************)
EXTENDS AnnotationRaces, FiniteSetTheorems, TLAPS

Pcs == {"idle", "refresh", "search", "lock", "unclaimed", "claimed",
        "submitting", "flushed", "refreshed", "deciding"}
Reviewing == {"submitting", "flushed", "refreshed"}

Transactions ==
    [pc : Pcs, phase : Phases, now : Nat, label : ERLabels \cup {None},
     loaded : States \cup {None}, write : States \cup {None},
     lapsed : SUBSET (Phases \X Reviewers)]

Typing ==
    /\ state \in States
    /\ assign \in [Phases -> [Reviewers -> AssignmentStatuses]]
    /\ judgment \in [Reviewers -> OfferedLabels \cup {None}]
    /\ verdict \in [by : Reviewers, label : OfferedVerdicts] \cup {None}
    /\ tx \in [Reviewers -> Transactions]

\* What r relies on while its transaction is t.
Fine(r, t) ==
    /\ t.loaded = None <=> t.write = None
    /\ t.lapsed # {} \/ t.pc = "claimed" \/ t.pc \in Reviewing => t.loaded # None
    /\ t.pc = "refresh" => t.lapsed # {}
    /\ t.pc \in Reviewing =>
         /\ t.phase = "review"
         /\ t.label \in OfferedLabels
         /\ judgment[r] = None
         /\ assign["review"][r] = "leased"
    /\ t.pc = "deciding" =>
         /\ t.phase = "adjudication"
         /\ t.label \in OfferedVerdicts
         /\ assign["adjudication"][r] = "leased"

\* What a freeze has read is on record for good.
FreezerFine ==
    freezer.pc = "verdicts" =>
        \A r \in Reviewers : freezer.judgment[r] # None => judgment[r] = freezer.judgment[r]

Settled ==
    release # None /\ Disputed(LabelsIn(release.judgment)) => verdict # None

Inv ==
    /\ Typing
    /\ \A r \in Reviewers : Fine(r, tx[r])
    /\ FreezerFine
    /\ DecisionsStand
    /\ ReleaseSound
    /\ Settled

-----------------------------------------------------------------------------
LEMMA InitInv == Init => Inv
<1> SUFFICES ASSUME Init PROVE Inv
  OBVIOUS
<1>1. Typing
  BY DEF Init, Typing, Idle, Transactions, Pcs, Phases, States, AssignmentStatuses
<1>2. \A r \in Reviewers : Fine(r, tx[r])
  BY DEF Init, Fine, Idle, Reviewing
<1>3. FreezerFine /\ DecisionsStand /\ ReleaseSound /\ Settled
  BY RacesAssumption DEF Init, FreezerFine, DecisionsStand, ReleaseSound, Settled, NotFreezing, Phases
<1> QED
  BY <1>1, <1>2, <1>3 DEF Inv

-----------------------------------------------------------------------------
(* What a step does to the transactions *)

\* Statements that only read, or write what is not yet flushed.
LEMMA Uncommitted ==
    ASSUME Inv, NEW r \in Reviewers, NEW t \in Transactions,
           tx' = [tx EXCEPT ![r] = t], Fine(r, t),
           UNCHANGED <<tables, release, freezer>>
    PROVE  Inv'
<1>1. Typing'
  BY DEF Inv, Typing, tables
<1>2. \A s \in Reviewers : Fine(s, tx[s])'
  BY DEF Inv, Typing, Fine, tables
<1>3. (FreezerFine /\ DecisionsStand /\ ReleaseSound /\ Settled)'
  BY DEF Inv, FreezerFine, DecisionsStand, ReleaseSound, Settled, tables
<1> QED
  BY <1>1, <1>2, <1>3 DEF Inv

\* A transaction that ends leaves nothing to rely on.
LEMMA IdleFine ==
    ASSUME NEW r \in Reviewers
    PROVE  Idle \in Transactions /\ Fine(r, Idle) /\ Fine(r, Idle)'
  BY DEF Idle, Transactions, Pcs, Phases, Fine, Reviewing

LEMMA RefreshedIsState ==
    ASSUME NEW given, NEW active
    PROVE  RefreshedState(given, active) \in States
  BY DEF RefreshedState, States

\* A transaction that goes on is a transaction.
LEMMA Proceeds ==
    ASSUME Inv, NEW r \in Reviewers, NEW pc \in Pcs,
           NEW loaded \in States \cup {None}, NEW write \in States \cup {None},
           Proceed(r, pc, loaded, write),
           Fine(r, [pc |-> pc, phase |-> tx[r].phase, now |-> tx[r].now,
                    label |-> tx[r].label, loaded |-> loaded, write |-> write,
                    lapsed |-> tx[r].lapsed]),
           UNCHANGED <<tables, release, freezer>>
    PROVE  Inv'
<1> DEFINE t == [pc |-> pc, phase |-> tx[r].phase, now |-> tx[r].now,
                 label |-> tx[r].label, loaded |-> loaded, write |-> write,
                 lapsed |-> tx[r].lapsed]
<1>1. t \in Transactions
  BY DEF Inv, Typing, Transactions
<1>2. tx' = [tx EXCEPT ![r] = t] /\ Fine(r, t)
  BY DEF Proceed
<1> QED
  BY <1>1, <1>2, Uncommitted

-----------------------------------------------------------------------------
(* _claim *)

LEMMA BeginClaimInv ==
    ASSUME Inv, NEW r \in Reviewers, NEW ph \in Phases, NEW now \in Times,
           BeginClaim(r, ph, now)
    PROVE  Inv'
<1> DEFINE lapsed == {a \in Phases \X Reviewers :
                        assign[a[1]][a[2]] = "leased" /\ expires[a[1]][a[2]] <= now}
           loaded == IF lapsed = {} THEN None ELSE state
           pc == IF \E a \in lapsed : a[1] = "review" THEN "refresh" ELSE "search"
           t == [pc |-> pc, phase |-> ph, now |-> now, label |-> None, loaded |-> loaded,
                 write |-> loaded, lapsed |-> lapsed]
<1>1. tx' = [tx EXCEPT ![r] = t] /\ UNCHANGED <<tables, release, freezer>>
  BY DEF BeginClaim, Begin
<1>2. lapsed \in SUBSET (Phases \X Reviewers) /\ now \in Nat
  BY RacesAssumption DEF RacesAssumption
<1>3. loaded \in States \cup {None} /\ (lapsed # {} => loaded # None)
  BY RacesAssumption DEF RacesAssumption, Inv, Typing
<1>4. pc \in {"refresh", "search"} /\ (pc = "refresh" => lapsed # {})
  OBVIOUS
<1> HIDE DEF lapsed, loaded, pc
<1>5. t \in Transactions
  BY <1>2, <1>3, <1>4 DEF Transactions, Pcs
<1>6. Fine(r, t)
  BY <1>3, <1>4 DEF Fine, Reviewing
<1> QED
  BY <1>1, <1>5, <1>6, Uncommitted

LEMMA ReadClaimInv ==
    ASSUME Inv, NEW r \in Reviewers, RefreshLapsed(r) \/ SearchItem(r) \/ LockItem(r)
    PROVE  Inv'
<1> USE DEF Pcs
<1>1. tx[r] \in Transactions /\ Fine(r, tx[r]) /\ state \in States /\ None \notin States
  BY RacesAssumption DEF RacesAssumption, Inv, Typing
<1>2. CASE RefreshLapsed(r)
  <2> DEFINE write == RefreshedState(judgment, LiveReviews(tx[r].now))
  <2>1. write \in States
    BY RefreshedIsState
  <2>2. Proceed(r, "search", tx[r].loaded, write) /\ UNCHANGED <<tables, release, freezer>>
    BY <1>2 DEF RefreshLapsed
  <2> HIDE DEF write
  <2>3. Fine(r, [pc |-> "search", phase |-> tx[r].phase, now |-> tx[r].now,
                 label |-> tx[r].label, loaded |-> tx[r].loaded, write |-> write,
                 lapsed |-> tx[r].lapsed])
    BY <1>1, <1>2, <2>1 DEF RefreshLapsed, Fine, Reviewing
  <2>4. tx[r].loaded \in States \cup {None}
    BY <1>1 DEF Transactions
  <2> QED
    BY <2>1, <2>2, <2>3, <2>4, Proceeds
<1>3. ASSUME NEW pc \in {"lock", "unclaimed"}, GoTo(r, pc),
             tx[r].pc \in {"search", "lock"},
             UNCHANGED <<tables, release, freezer>>
      PROVE  Inv'
  <2>1. Fine(r, [pc |-> pc, phase |-> tx[r].phase, now |-> tx[r].now,
                 label |-> tx[r].label, loaded |-> tx[r].loaded, write |-> tx[r].write,
                 lapsed |-> tx[r].lapsed])
    BY <1>1, <1>3 DEF Fine, Reviewing
  <2>2. tx[r].loaded \in States \cup {None} /\ tx[r].write \in States \cup {None}
    BY <1>1 DEF Transactions
  <2> QED
    BY <1>3, <2>1, <2>2, Proceeds DEF GoTo
<1>4. CASE SearchItem(r)
  <2>1. PICK pc \in {"lock", "unclaimed"} : GoTo(r, pc)
    BY <1>4 DEF SearchItem
  <2> QED
    BY <1>3, <1>4, <2>1 DEF SearchItem
<1>5. CASE LockItem(r)
  <2>1. CASE GoTo(r, "unclaimed")
    BY <1>3, <1>5, <2>1 DEF LockItem
  <2>2. CASE ~GoTo(r, "unclaimed")
    <3> DEFINE held == IF tx[r].loaded = None THEN state ELSE tx[r].loaded
               kept == IF tx[r].loaded = None THEN state ELSE tx[r].write
               write == IF tx[r].phase = "review" THEN "in_review" ELSE kept
    <3>1. Proceed(r, "claimed", held, write) /\ UNCHANGED <<tables, release, freezer>>
      BY <1>5, <2>2 DEF LockItem
    <3>2. held \in States /\ write \in States
      BY <1>1 DEF Fine, Transactions, States
    <3> HIDE DEF held, write
    <3>3. Fine(r, [pc |-> "claimed", phase |-> tx[r].phase, now |-> tx[r].now,
                   label |-> tx[r].label, loaded |-> held, write |-> write,
                   lapsed |-> tx[r].lapsed])
      BY <1>1, <3>2 DEF Fine, Reviewing
    <3> QED
      BY <3>1, <3>2, <3>3, Proceeds
  <2> QED
    BY <2>1, <2>2
<1> QED
  BY <1>2, <1>4, <1>5

\* The rows a submission has locked are not among those a claim writes off.
LEMMA ExpiryKeepsLocked ==
    ASSUME Inv, NEW r \in Reviewers, LapsedRowsFree(r),
           NEW s \in Reviewers, tx[s].pc \in Reviewing \cup {"deciding"}
    PROVE  AfterExpiry(r)[tx[s].phase][s] = assign[tx[s].phase][s]
<1>1. AssignmentLocked(tx[s].phase, s)
  BY DEF AssignmentLocked, Reviewing
<1>2. <<tx[s].phase, s>> \notin tx[r].lapsed
  BY <1>1 DEF LapsedRowsFree
<1>3. tx[s].phase \in Phases
  BY DEF Inv, Typing, Transactions
<1> QED
  BY <1>2, <1>3 DEF AfterExpiry

LEMMA CommitClaimInv ==
    ASSUME Inv, NEW r \in Reviewers, CommitClaim(r)
    PROVE  Inv'
<1> DEFINE ph == tx[r].phase
           after == AfterExpiry(r)
<1>1. /\ tx[r] \in Transactions /\ Fine(r, tx[r]) /\ ph \in Phases
      /\ tx' = [tx EXCEPT ![r] = Idle] /\ tx'[r] = Idle
      /\ UNCHANGED <<judgment, verdict, release, freezer>>
  BY DEF Inv, Typing, Transactions, CommitClaim, Finish
<1>2. after \in [Phases -> [Reviewers -> AssignmentStatuses]]
  BY DEF Inv, Typing, AfterExpiry, AssignmentStatuses
<1>3. /\ tx[r].pc \in {"unclaimed", "claimed"} /\ LapsedRowsFree(r)
      /\ assign' = IF tx[r].pc = "claimed" THEN [after EXCEPT ![ph][r] = "leased"] ELSE after
  BY DEF CommitClaim
<1>4. \A p \in Phases, s \in Reviewers :
         after[p][s] = assign[p][s] \/ after[p][s] = "expired"
  BY DEF AfterExpiry
<1>5. /\ assign' \in [Phases -> [Reviewers -> AssignmentStatuses]]
      /\ \A p \in Phases, s \in Reviewers :
           \/ assign'[p][s] = after[p][s]
           \/ s = r /\ p = ph /\ tx[r].pc = "claimed" /\ assign'[p][s] = "leased"
  BY <1>1, <1>2, <1>3 DEF AssignmentStatuses
<1>6. state' \in States
  BY <1>1 DEF CommitClaim, Inv, Typing, Transactions, Fine
<1>7. Typing'
  BY <1>1, <1>5, <1>6, IdleFine DEF Inv, Typing
<1>8. ASSUME NEW s \in Reviewers PROVE Fine(s, tx[s])'
  <2>1. CASE s = r
    BY <1>1, <2>1, IdleFine DEF Fine
  <2>2. CASE s # r
    <3>1. tx'[s] = tx[s] /\ tx[s] \in Transactions /\ Fine(s, tx[s]) /\ judgment' = judgment
      BY <1>1, <2>2 DEF Inv, Typing
    <3>2. tx[s].pc \in Reviewing \cup {"deciding"} =>
            assign'[tx[s].phase][s] = assign[tx[s].phase][s]
      BY <1>3, <1>5, <2>2, <3>1, ExpiryKeepsLocked DEF Transactions
    <3> QED
      BY <3>1, <3>2 DEF Fine, Reviewing
  <2> QED
    BY <2>1, <2>2
<1>9. (FreezerFine /\ ReleaseSound /\ Settled)'
  BY <1>1 DEF Inv, FreezerFine, ReleaseSound, Settled
\* Writing off takes no decision away, and the row it leaves keeps r out.
<1>10. DecisionsStand'
  <2>1. \A p \in Phases, s \in Reviewers :
           \/ assign'[p][s] \in {assign[p][s], "expired"}
           \/ assign'[p][s] = "leased" /\ assign[p][s] = "none"
    <3>1. tx[r].pc = "claimed" => assign[ph][r] = "none"
      BY DEF CommitClaim, LeaseInsertable
    <3> QED
      BY <1>4, <1>5, <3>1
  <2> QED
    BY <1>1, <2>1 DEF Inv, DecisionsStand, Phases
<1> QED
  BY <1>7, <1>8, <1>9, <1>10 DEF Inv

-----------------------------------------------------------------------------
(* submit_judgment and submit_adjudication *)

LEMMA BeginSubmissionInv ==
    ASSUME Inv, NEW r \in Reviewers,
           NEW t \in Transactions, Begin(r, t),
           UNCHANGED <<tables, release, freezer>>,
           t.loaded = None <=> t.write = None,
           t.lapsed = {},
           \/ /\ t.pc = "submitting" /\ t.phase = "review" /\ t.loaded # None
              /\ t.label \in OfferedLabels
              /\ judgment[r] = None /\ assign["review"][r] = "leased"
           \/ /\ t.pc = "deciding" /\ t.phase = "adjudication"
              /\ t.label \in OfferedVerdicts
              /\ assign["adjudication"][r] = "leased"
    PROVE  Inv'
<1>1. Fine(r, t)
  BY DEF Fine, Reviewing
<1> QED
  BY <1>1, Uncommitted DEF Begin

LEMMA SubmissionInv ==
    ASSUME Inv, NEW r \in Reviewers,
           \/ \E l \in OfferedLabels, now \in Times : BeginJudgment(r, l, now)
           \/ FlushJudgment(r)
           \/ RefreshJudged(r)
           \/ \E l \in OfferedVerdicts, now \in Times : BeginVerdict(r, l, now)
    PROVE  Inv'
<1> USE DEF Pcs
<1>1. /\ tx[r] \in Transactions /\ Fine(r, tx[r]) /\ state \in States /\ None \notin States
      /\ OfferedLabels \subseteq ERLabels /\ OfferedVerdicts \subseteq ERLabels
      /\ Times \subseteq Nat
  BY RacesAssumption DEF RacesAssumption, Inv, Typing
<1>2. CASE \E l \in OfferedLabels, now \in Times : BeginJudgment(r, l, now)
  <2>1. PICK l \in OfferedLabels, now \in Times : BeginJudgment(r, l, now)
    BY <1>2
  <2> DEFINE t == [pc |-> "submitting", phase |-> "review", now |-> now, label |-> l,
                   loaded |-> state, write |-> state, lapsed |-> {}]
  <2>2. t \in Transactions
    BY <1>1 DEF Transactions, Phases
  <2>3. /\ Begin(r, t) /\ UNCHANGED <<tables, release, freezer>>
        /\ judgment[r] = None /\ assign["review"][r] = "leased"
    BY <2>1 DEF BeginJudgment, Live
  <2> QED
    BY <1>1, <2>2, <2>3, BeginSubmissionInv
<1>3. CASE \E l \in OfferedVerdicts, now \in Times : BeginVerdict(r, l, now)
  <2>1. PICK l \in OfferedVerdicts, now \in Times : BeginVerdict(r, l, now)
    BY <1>3
  <2> DEFINE t == [pc |-> "deciding", phase |-> "adjudication", now |-> now, label |-> l,
                   loaded |-> None, write |-> None, lapsed |-> {}]
  <2>2. t \in Transactions
    BY <1>1 DEF Transactions, Phases
  <2>3. /\ Begin(r, t) /\ UNCHANGED <<tables, release, freezer>>
        /\ assign["adjudication"][r] = "leased"
    BY <2>1 DEF BeginVerdict, Live
  <2> QED
    BY <1>1, <2>2, <2>3, BeginSubmissionInv
<1>4. ASSUME NEW pc \in {"flushed", "refreshed"}, NEW write \in States,
             tx[r].pc \in {"submitting", "flushed"},
             Proceed(r, pc, tx[r].loaded, write),
             UNCHANGED <<tables, release, freezer>>
      PROVE  Inv'
  <2>1. Fine(r, [pc |-> pc, phase |-> tx[r].phase, now |-> tx[r].now,
                 label |-> tx[r].label, loaded |-> tx[r].loaded, write |-> write,
                 lapsed |-> tx[r].lapsed])
    BY <1>1, <1>4 DEF Fine, Reviewing
  <2>2. tx[r].loaded \in States \cup {None}
    BY <1>1 DEF Transactions
  <2> QED
    BY <1>4, <2>1, <2>2, Proceeds
<1>5. CASE FlushJudgment(r)
  <2>1. tx[r].write \in States
    BY <1>1, <1>5 DEF FlushJudgment, Fine, Reviewing, Transactions
  <2> QED
    BY <1>4, <1>5, <2>1 DEF FlushJudgment, GoTo
<1>6. CASE RefreshJudged(r)
  <2> DEFINE write == RefreshedState([judgment EXCEPT ![r] = tx[r].label],
                                     LiveReviews(tx[r].now) \ {r})
  <2>1. write \in States
    BY RefreshedIsState
  <2>2. /\ tx[r].pc = "flushed" /\ Proceed(r, "refreshed", tx[r].loaded, write)
        /\ UNCHANGED <<tables, release, freezer>>
    BY <1>6 DEF RefreshJudged
  <2> HIDE DEF write
  <2> QED
    BY <1>4, <2>1, <2>2
<1> QED
  BY <1>2, <1>3, <1>5, <1>6

LEMMA CommitJudgmentInv ==
    ASSUME Inv, NEW r \in Reviewers, CommitJudgment(r)
    PROVE  Inv'
<1>1. /\ tx[r] \in Transactions /\ Fine(r, tx[r]) /\ tx[r].pc = "refreshed"
      /\ tx' = [tx EXCEPT ![r] = Idle] /\ tx'[r] = Idle
      /\ judgment' = [judgment EXCEPT ![r] = tx[r].label]
      /\ assign' = [assign EXCEPT !["review"][r] = "submitted"]
      /\ UNCHANGED <<verdict, release, freezer>>
  BY DEF Inv, Typing, CommitJudgment, Finish
<1>2. tx[r].label \in OfferedLabels /\ judgment[r] = None
  BY <1>1 DEF Fine, Reviewing
<1>3. state' \in States
  BY <1>1 DEF CommitJudgment, Inv, Typing, Transactions, Fine, Reviewing
<1>4. Typing'
  BY <1>1, <1>2, <1>3, IdleFine DEF Inv, Typing, Phases, AssignmentStatuses
<1>5. \A s \in Reviewers :
         s # r => /\ judgment'[s] = judgment[s]
                  /\ \A p \in Phases : assign'[p][s] = assign[p][s]
  BY <1>1 DEF Inv, Typing, Phases
<1>6. \A s \in Reviewers : assign'["adjudication"][s] = assign["adjudication"][s]
  BY <1>1 DEF Inv, Typing, Phases
<1>7. ASSUME NEW s \in Reviewers PROVE Fine(s, tx[s])'
  <2>1. CASE s = r
    BY <1>1, <2>1, IdleFine
  <2>2. CASE s # r
    BY <1>1, <1>5, <2>2 DEF Inv, Typing, Fine, Phases
  <2> QED
    BY <2>1, <2>2
<1>8. FreezerFine'
  BY <1>1, <1>2, <1>5 DEF Inv, FreezerFine
<1>9. DecisionsStand'
  <2>1. judgment'[r] # None /\ assign'["review"][r] = "submitted"
    BY <1>1, <1>2, RacesAssumption DEF Inv, Typing, Phases, RacesAssumption
  <2> QED
    BY <1>1, <1>5, <1>6, <2>1 DEF Inv, DecisionsStand, Phases
<1>10. (ReleaseSound /\ Settled)'
  <2>1. \A given : \A s \in JudgesIn(given) :
           judgment[s] = given[s] => judgment'[s] = given[s]
    BY <1>2, <1>5 DEF JudgesIn
  <2> QED
    BY <1>1, <2>1 DEF Inv, ReleaseSound, Settled
<1> QED
  BY <1>4, <1>7, <1>8, <1>9, <1>10 DEF Inv

LEMMA CommitVerdictInv ==
    ASSUME Inv, NEW r \in Reviewers, CommitVerdict(r)
    PROVE  Inv'
<1>1. /\ tx[r] \in Transactions /\ Fine(r, tx[r]) /\ tx[r].pc = "deciding"
      /\ tx' = [tx EXCEPT ![r] = Idle] /\ tx'[r] = Idle
      /\ verdict = None /\ verdict' = [by |-> r, label |-> tx[r].label]
      /\ assign' = [assign EXCEPT !["adjudication"][r] = "submitted"]
      /\ state' = "resolved"
      /\ UNCHANGED <<judgment, release, freezer>>
  BY DEF Inv, Typing, CommitVerdict, Finish
<1>2. tx[r].label \in OfferedVerdicts
  BY <1>1 DEF Fine
<1>3. Typing'
  BY <1>1, <1>2, IdleFine DEF Inv, Typing, Phases, AssignmentStatuses, States
<1>4. /\ \A s \in Reviewers : s # r => \A p \in Phases : assign'[p][s] = assign[p][s]
      /\ assign'["review"] = assign["review"] /\ assign'["adjudication"][r] = "submitted"
  BY <1>1 DEF Inv, Typing, Phases
<1>5. ASSUME NEW s \in Reviewers PROVE Fine(s, tx[s])'
  <2>1. CASE s = r
    BY <1>1, <2>1, IdleFine
  <2>2. CASE s # r
    BY <1>1, <1>4, <2>2 DEF Inv, Typing, Fine, Phases
  <2> QED
    BY <2>1, <2>2
<1>6. FreezerFine' /\ DecisionsStand'
  <2>1. FreezerFine'
    BY <1>1 DEF Inv, FreezerFine
  <2>2. verdict' # None /\ verdict'.by = r
    <3>1. tx[r].label \in ERLabels
      BY <1>2, RacesAssumption DEF RacesAssumption
    <3>2. verdict' \in [by : Reviewers, label : ERLabels]
      BY <1>1, <3>1
    <3> QED
      BY <1>1, <3>2, RacesAssumption DEF RacesAssumption
  <2>3. DecisionsStand'
    BY <1>1, <1>4, <2>2 DEF Inv, DecisionsStand, Phases
  <2> QED
    BY <2>1, <2>3
\* There was no verdict, so a release so far rests on none.
<1>7. (ReleaseSound /\ Settled)'
  <2>1. release # None => ~Disputed(LabelsIn(release.judgment))
    BY <1>1 DEF Inv, Settled
  <2> QED
    BY <1>1, <2>1 DEF Inv, ReleaseSound, Settled
<1> QED
  BY <1>3, <1>5, <1>6, <1>7 DEF Inv

LEMMA RollbackInv ==
    ASSUME Inv, NEW r \in Reviewers, Rollback(r)
    PROVE  Inv'
  BY IdleFine, Uncommitted DEF Rollback, Finish

-----------------------------------------------------------------------------
(* freeze_project *)

LEMMA FreezeReadsInv ==
    ASSUME Inv, FreezeReadItems \/ FreezeReadJudgments
    PROVE  Inv'
<1>1. UNCHANGED <<tables, release, tx>>
  BY DEF FreezeReadItems, FreezeReadJudgments
<1>2. FreezerFine'
  BY DEF FreezeReadItems, FreezeReadJudgments, FreezerFine, tables
<1>3. Typing' /\ (\A r \in Reviewers : Fine(r, tx[r]))' /\ DecisionsStand' /\ ReleaseSound' /\ Settled'
  BY <1>1 DEF Inv, Typing, Fine, DecisionsStand, ReleaseSound, Settled, tables
<1> QED
  BY <1>2, <1>3 DEF Inv

\* Labels that settle an item are one label.
LEMMA UndisputedIsOne ==
    ASSUME NEW given, ~Disputed(LabelsIn(given))
    PROVE  \E l : LabelsIn(given) = {l}
<1>1. Cardinality(LabelsIn(given)) = 1
  BY DEF Disputed
<1>2. IsFiniteSet(JudgesIn(given))
  BY RacesAssumption, FS_Subset DEF RacesAssumption, JudgesIn
<1>3. IsFiniteSet(LabelsIn(given))
  <2> DEFINE f == [r \in JudgesIn(given) |-> given[r]]
  <2>1. f \in Surjection(JudgesIn(given), LabelsIn(given))
    BY DEF Surjection, LabelsIn
  <2> QED
    BY <1>2, <2>1, FS_Surjection
<1> QED
  BY <1>1, <1>3, FS_Singleton

LEMMA FreezeCommitInv ==
    ASSUME Inv, FreezeCommit
    PROVE  Inv'
<1>1. UNCHANGED <<tables, tx>>
  BY DEF FreezeCommit
<1>2. FreezerFine'
  BY DEF FreezeCommit, FreezerFine, NotFreezing
<1>3. Typing' /\ (\A r \in Reviewers : Fine(r, tx[r]))' /\ DecisionsStand'
  BY <1>1 DEF Inv, Typing, Fine, DecisionsStand, tables
<1>4. (ReleaseSound /\ Settled)'
  <2> DEFINE given == freezer.judgment
             frozen == [judgment |-> given, verdict |-> verdict,
                        label |-> DecidedLabel(given, verdict)]
  <2>1. CASE release' = None
    BY <2>1 DEF ReleaseSound, Settled
  <2>2. CASE release' # None
    <3>1. /\ release' = frozen
          /\ ItemGate(given, verdict, freezer.state, ERLabels \ {Uncertain})
          /\ freezer.pc = "verdicts" /\ verdict' = verdict /\ judgment' = judgment
      BY <2>2 DEF FreezeCommit, tables
    <3>2. /\ release'.judgment = given /\ release'.verdict = verdict
          /\ release'.label = DecidedLabel(given, verdict)
      BY <3>1
    <3>3. Cardinality(JudgesIn(given)) = RequiredReviews
      BY <3>1 DEF ItemGate
    <3>4. \A r \in JudgesIn(given) : judgment'[r] = given[r]
      BY <3>1 DEF Inv, FreezerFine, JudgesIn
    <3> HIDE DEF given, frozen
    <3>5. CASE Disputed(LabelsIn(given))
      <4>1. verdict # None /\ verdict.by \notin JudgesIn(given)
        BY <3>1, <3>5 DEF ItemGate
      <4>2. release'.label = verdict.label
        BY <3>2, <4>1 DEF DecidedLabel
      <4> QED
        BY <3>1, <3>2, <3>3, <3>4, <3>5, <4>1, <4>2 DEF ReleaseSound, Settled
    <3>6. CASE ~Disputed(LabelsIn(given))
      <4>1. verdict = None
        BY <3>1, <3>6 DEF ItemGate
      <4>2. PICK l : LabelsIn(given) = {l}
        BY <3>6, UndisputedIsOne
      <4>3. release'.label = l
        BY <3>2, <4>1, <4>2 DEF DecidedLabel
      <4> QED
        BY <3>2, <3>3, <3>4, <3>6, <4>2, <4>3 DEF ReleaseSound, Settled
    <3> QED
      BY <3>5, <3>6
  <2> QED
    BY <2>1, <2>2
<1> QED
  BY <1>2, <1>3, <1>4 DEF Inv

-----------------------------------------------------------------------------
LEMMA StepInv == Inv /\ [Next]_vars => Inv'
<1> SUFFICES ASSUME Inv, [Next]_vars PROVE Inv'
  OBVIOUS
<1>1. ASSUME NEW r \in Reviewers, ReviewerStep(r) PROVE Inv'
  BY <1>1, BeginClaimInv, ReadClaimInv, CommitClaimInv, SubmissionInv,
     CommitJudgmentInv, CommitVerdictInv, RollbackInv DEF ReviewerStep
<1>2. CASE FreezeReadItems \/ FreezeReadJudgments
  BY <1>2, FreezeReadsInv
<1>3. CASE FreezeCommit
  BY <1>3, FreezeCommitInv
<1>4. CASE UNCHANGED vars
  BY <1>4 DEF vars, Inv, Typing, Fine, FreezerFine, DecisionsStand, ReleaseSound, Settled
<1> QED
  BY <1>1, <1>2, <1>3, <1>4 DEF Next

\* What transactions hold to while they run beside each other.
THEOREM Invariance == Spec => []Inv
<1> QED
  BY InitInv, StepInv, PTL DEF Spec

-----------------------------------------------------------------------------
(* The properties *)

\* Types, and a transaction that overwrites the item's state has loaded it.
THEOREM TypesHold == Spec => []TypeOK
<1>1. Inv => TypeOK
  BY DEF Inv, Typing, Transactions, Fine, Reviewing, TypeOK
<1> QED
  BY <1>1, Invariance, PTL

\* What is frozen rests on two judgments on record and, where they differ, on
\* the verdict of a third: freeze_project reads items, judgments and verdicts
\* in three statements, but what it requires of them is written once.
THEOREM ReleasesSound == Spec => []ReleaseSound
<1>1. Inv => ReleaseSound
  BY DEF Inv
<1> QED
  BY <1>1, Invariance, PTL

\* A decision outlives whatever a late write-off does to its assignment: judgments
\* and verdicts are written once, and a claim gives a lease only where there is no row.
THEOREM DecisionsOutlive == Spec => []DecisionsStand
<1>1. Inv => DecisionsStand
  BY DEF Inv
<1> QED
  BY <1>1, Invariance, PTL

\* A submission commits under the lease it found live when it locked it.
THEOREM LeasesHeldToCommit == Spec => LeaseHeldToCommit
<1> DEFINE Held == \A r \in Reviewers :
      /\ judgment'[r] # judgment[r] => assign["review"][r] = "leased"
      /\ verdict' # verdict /\ verdict'.by = r => assign["adjudication"][r] = "leased"
<1>1. ASSUME Inv, [Next]_vars PROVE Held \/ UNCHANGED vars
  <2>1. ASSUME NEW s \in Reviewers, CommitJudgment(s) PROVE Held
    <3>1. /\ judgment' = [judgment EXCEPT ![s] = tx[s].label] /\ verdict' = verdict
          /\ assign["review"][s] = "leased" /\ judgment \in [Reviewers -> OfferedLabels \cup {None}]
      BY <1>1, <2>1 DEF CommitJudgment, Inv, Typing, Fine, Reviewing
    <3> QED
      BY <3>1
  <2>2. ASSUME NEW s \in Reviewers, CommitVerdict(s) PROVE Held
    <3>1. /\ judgment' = judgment /\ verdict' = [by |-> s, label |-> tx[s].label]
          /\ assign["adjudication"][s] = "leased"
      BY <1>1, <2>2 DEF CommitVerdict, Inv, Fine
    <3> QED
      BY <3>1
  <2>3. CASE judgment' = judgment /\ verdict' = verdict
    BY <2>3
  <2>4. ASSUME NEW s \in Reviewers, ReviewerStep(s), ~CommitJudgment(s), ~CommitVerdict(s)
        PROVE  judgment' = judgment /\ verdict' = verdict
    BY <2>4 DEF ReviewerStep, BeginClaim, RefreshLapsed, SearchItem, LockItem, CommitClaim,
                BeginJudgment, FlushJudgment, RefreshJudged, BeginVerdict, Rollback, tables
  <2>5. CASE FreezeReadItems \/ FreezeReadJudgments \/ FreezeCommit
    BY <2>3, <2>5 DEF FreezeReadItems, FreezeReadJudgments, FreezeCommit, tables
  <2> HIDE DEF Held
  <2> QED
    BY <1>1, <2>1, <2>2, <2>3, <2>4, <2>5 DEF Next
<1> QED
  BY <1>1, Invariance, PTL DEF Spec, LeaseHeldToCommit
=============================================================================
