# TLA+ models of the PC Parts Recommender

Specifications, model-checking runs and machine-checked proofs about the stateful
parts of this repository. Paths are relative to the repository root;
`core/` stands for `packages/core/src/pc_build_recommender/`.

    tlasany M.tla                          parse a module
    tlc -config LedgerReview.cfg MCAnnotationLedger
    tlapm AnnotationLedgerProofs.tla       check the proofs

Configurations named below as "not a run" check a property that the code does not
have; they are kept beside the runs because each shows, in one trace, where the code
and a document part.

## 1. The system

| component | state it keeps | operations | hard behaviour | module |
|---|---|---|---|---|
| annotation control plane (`core/annotation/service.py`, `orm.py`) | PostgreSQL tables of reviewers, projects, groups, items, assignments, judgments, adjudications, exports; release directories | provision, load, open, claim, submit, adjudicate, freeze | concurrent transactions at READ COMMITTED, leases with callers' clocks, a rename before a commit, replays | `AnnotationLedger`, `AnnotationRaces` |
| optimizer admission (`services/api/middleware.py`) | counters of active and queued requests, a condition variable | buffer a body, acquire, wait, time out, be cancelled, release | a deadline or a cancellation racing a notify; newcomers overtaking woken waiters | `OptimizerAdmission` |
| compatibility engine (`core/compatibility/`) | none | rules with known, unknown and failed outcomes over pairs and whole builds | three-valued aggregation; evidence that is missing, empty or zero | `CompatibilityRules` |
| filters and solver rules (`core/retrieval/filters.py`, `core/optimizer/validation.py`, `scoring.py`) | none | the same limits, stated for the third time | disagreement between statements | `SolverRules` |
| catalogue evidence (`core/application/catalog.py`) | the snapshot a process serves | a release restates or withdraws specifications | losing evidence must not make a build acceptable | `CatalogueEvidence` |
| application pipeline and services (`core/application/`), build optimizer (`core/optimizer/engine.py`) | the job at work | retrieve, prune, diagnose, solve profile by profile, validate, offer alternatives, replace | order of filters, bounded pools, rejections, stored generations outliving their release | `BuildGates`, `BuildGeneration` |
| API core service (`services/api/core_service.py`) | a mutation lock; results in memory or in PostgreSQL | generate, replace, share, revoke, record an interaction | a result saved before it is found inconclusive; cancelled threads | `BuildGeneration`, `DurableStore` |
| API durable storage (`services/api/durability.py`), impression tokens (`impressions.py`) | generations, builds, shares, search queries, interaction events; the signing secret | idempotent writes, replays, conflict resolution after a unique violation | lost races between look-up and insert, a restart with another secret | `DurableStore` |
| ranker publication (`core/ranking/publication.py`, `lambdamart.py`) | stage directories, activity locks, the bundle directory | stage, lock, save, rename, clean up | crashes between steps, maintenance beside a live publisher | `RankerPublication` |
| retention (`pipelines/retention/`) | raw captures, processed runs, intent and ready receipts | begin, seal, publish, recover, expire | crashes between steps, a recovery plan that grows old | `WebPublication`, `RawCaptures` |
| source pipelines (`pipelines/sources/`) | raw evidence, an HTTP cache, crawl budgets | crawl, import | a crawl beside a deletion; an authority that runs out | `RawCaptures` |
| serving release (`services/api/serving_release.py`, `core/application/serving.py`) | the release a process serves | bootstrap, readiness, freshness | staleness while requests run | none yet |
| catalog, entity resolution, ranking models, pricing, training (`core/catalog/`, ...) | files and tables written by batch jobs | import, resolve, index, train | mostly numeric or pure I/O | none |
| web client (`apps/web`) | browser storage | views of the API | out of scope | none |

How they interact: source pipelines crawl, and write raw evidence that retention expires;
processed runs are published and expired beside it; the catalog imports them; annotation
releases train entity resolution and ranking, whose bundles are published; the API serves
the result. Requests that may run CP-SAT pass the optimizer admission before the core
service's mutation lock; a generation passes retrieval, pruning, the solver, its validator
and the engine again before it is saved. Components meet through directories renamed into
place and through database rows, not through messages.

What makes each correct: an annotation release rests on two independent judgments
per item and on an independent verdict where they differ, and never changes; the
optimizer never runs more requests than it has slots, never wastes a slot while
somebody waits, and answers everybody; a recommended build is compatible, affordable and
what was asked for, whichever of the gates is asked, and a status says no more than is
known; a replacement keeps what it says it keeps; storage commits a request once and
replays it exactly; a publication is visible completely or not at all; evidence is deleted
when it has expired, and not before.

## 2. Plan

Written, in this order:

1. `AnnotationRules`, `AnnotationLedger`, `LabelRelease` - the annotation rules, the
   ledger one transaction at a time, and the promise it refines.
2. `AnnotationRaces` - the same transactions statement by statement.
3. `OptimizerAdmission`.
4. `AnnotationLedgerProofs`, `OptimizerAdmissionProofs`.
5. `WebPublication`, `VisibleRuns`, `WebPublicationProofs` - the publication, recovery
   and expiry of processed runs on disk, and what their readers may rely on.
6. `CompatibilityRules`, `SolverRules`, `CatalogueEvidence` - every rule of the engine, what
   other stages say a second time, and evidence that changes underneath (section 6).
7. `BuildGates`, `BuildGeneration` - the stages of a recommendation, and generations and
   replacements over several releases of the catalogue (section 7).
8. `DurableStore` - interactions and shares statement by statement (section 8).
9. `RawCaptures` - a crawl beside the maintenance of its evidence (section 9).
10. `RankerPublication`, `RankerPublicationProofs` - publishers and maintenance of one
    bundle, and the same promise to readers as in 5 (section 10).
11. `AnnotationRacesProofs`, `DurableStoreProofs`, `BuildGenerationProofs`, `EvidenceProofs`, and the
    preflight in `AnnotationLedgerProofs` - the safety properties of 2 and 6 to 9 for all instances.

`CatalogueEvidence` composes the engine's rules with the filters' and the solver's;
`BuildGeneration` composes the gates, the solver's loop, the store and the releases;
`RawCaptures` composes the crawler with the maintenance; `VisibleRuns` is the abstract
specification of both publications.

To come, most important first:

12. `AnnotationLoading` - loading and opening a project statement by statement.
13. `ServingRelease` - readiness and freshness while a release ages.
14. Pure operators checked against references: rank fusion, entity-resolution decisions,
    canonical identity.

## 3. Annotation

### Modules

`AnnotationRules` holds what both views of the service share: when judgments are in
dispute, which state `_refresh_item_state` gives an item, what `_freeze_gate` demands
of an item.

`AnnotationLedger` takes every public writing method of `AnnotationService` as one
action, because each is one database transaction.

| code | model |
|---|---|
| `annotation_reviewers.roles` | `roles[r]`, `{}` for an unknown identity |
| `annotation_projects.status` | `status[p]`, with `"absent"` |
| `annotation_groups`, `annotation_items.state` | `groups`, `state[i]`, with `"absent"` |
| `annotation_assignments` | `assign[phase][i][r]`, `expires[phase][i][r]` |
| `annotation_judgments`, `annotation_adjudications` | `judgment[i][r]`, `verdict[i]` |
| `annotation_exports`, `annotation-<sha256>/` on disk | `release[p]`, `directories` |
| the `now` argument | `t \in Times`: each call brings its own, in any order |
| `_expire_leases` at the head of every claim | `ExpiredAssign`, `ExpiredState`, in each of the three claim actions |
| the claim's query, which runs before anything is flushed | `ReviewClaimable`, `AdjudicationClaimable` over the old `state` |
| `_export_files` and the content hash | `ReleaseOf(p)`: the directory's name is its content |
| a process that dies between `os.replace` and the commit | `FreezeCrash` |

A refused call rolls back and is not a step; a claim that finds nothing still commits
the expiries (`ClaimNothing`). Repeating a submission changes nothing and is not a step
either.

The ledger therefore speaks of calls that do not overlap. A claim counts and grants in one
step there, and finds a lapsed lease and writes it off in one; the code takes several
statements for each, and another call may commit in between. What becomes of the ledger's
properties then is the subject of `AnnotationRaces` and of the remarks below.

`LabelRelease` is the promise: an item gets one final label and keeps it; a project is
published once, with the labels its items have. `AnnotationLedger!Promise` maps an
item's label to `FinalLabel(i)` once its state is `resolved`.

`AnnotationRaces` interleaves the statements of these transactions on one item. A
statement reads what is committed when it starts; ORM objects keep what they were
loaded with; writes go out at the flush (`autoflush=False`, `core/catalog/database.py:55`).
Row locks are predicates over program counters: `FOR UPDATE SKIP LOCKED` of a claim,
`KEY SHARE` of a judgment's foreign key, `FOR UPDATE` of a submission's assignment. After
waiting, PostgreSQL looks again only at the locked row's own columns, so the counts of a
claim stay those of its snapshot (`LockItem`). `Rollback` may come at any time and stands
for deadlock victims, unique violations, lost connections and crashes.

### Runs

| run | question | instance |
|---|---|---|
| `ledger_review` (`LedgerReview.cfg`) | do leases, judgments, verdict and state of an item agree, whatever the clocks; does the ledger refine `LabelRelease` | 1 item, 5 identities with both roles, 3 timestamps, lease of 1 |
| `ledger_corpus` | do release directories say what their projects say, after any crash; does the preflight agree with the gate | 2 projects (one per task type), 2 groups, 2 items, 4 identities with one role each, 2 timestamps |
| `races` | is what is released sound, and what is decided kept, when statements interleave | 1 item, 3 reviewers, 2 calls in flight and a freeze, 2 labels, 2 timestamps |
| `races_stuck` | is a disagreement always adjudicated (refuted) | as `races` |
| `races_replay` | does whoever repeats a submission get its decision (refuted) | as `races` |

Not runs: `LedgerOpening.cfg` (does an open project's every group have an item),
`RacesOverclaim.cfg` (exactly two reviewers) and `RacesFrozen.cfg` (nobody decides anything more
about an item whose project is frozen); all three are refuted.

`LeaseCapacity` is `ReviewCapacity`, at most two reviewers at a time, with
`AdjudicationCapacity`, at most one adjudicator.

Why the bounds suffice. Items are independent but for the expiry, which a claim runs
over all projects: two items in two projects show it. A third lease needs three
reviewers, a verdict beside two judgments and an expired lease five identities with the
administrator. With three timestamps and a lease of one, a lease can be live for one
caller, lapsed for a second, and regranted before either. In `races`, two calls in
flight suffice for the refuted properties, and the third reviewer is the one too many.
Reviewers are interchangeable (no constant names one), so they are a symmetry set; no
run with symmetry checks liveness. Deadlock is not checked in these runs: a corpus may
be finished, and an item can run out of reviewers, since nobody may claim one twice.

No fairness is assumed here: people decide when they claim and submit.

### What the refuted properties mean

* `open_project` (service.py:573) compares the number of items with the number of
  groups, while its refusal says "every annotation group needs at least one item". A
  project that opens with an empty group can never be frozen: the gate refuses it and
  nothing can be added any more.
* The development guide (line 392) says that exactly two different reviewers are
  enforced. Two claims whose snapshots both show a free place can both commit: three
  leases (service.py:1449-1474), and three judgments if all are used (`ExactlyTwoReviewers`).
  `ReleaseSound` shows that no bad release follows. If the third judgment comes first, the
  gate refuses the item from then on.
* If the freeze comes first, the project is frozen while the third lease is live, and
  `submit_judgment` does not look at the project (service.py:957): the holder still judges,
  and the frozen project's rows and the item's state change (`FrozenIsFinal`). The release
  itself does not: it is a copy of what was read.
* The data card (lines 229-230) says that a disagreement requires an adjudication. When
  the two judgments are submitted at the same time, neither refresh sees the other; the
  item remains `in_review`, no adjudicator can claim it, and the project cannot be frozen.
* A submission repeated with its key should get its decision
  (tests/unit/test_annotation_service.py:670-683). `_expire_leases` selects lapsed leases
  without a lock (service.py:1497), and its flush writes "expired" by primary key
  (service.py:1506), also over an assignment that was submitted meanwhile. The repeated
  submission looks for a submitted assignment (2245), finds none, and is refused: "assignment
  is no longer leased" (2222). `ReplayAnswered` is refuted; `DecisionsStand` says what
  remains true: the decision stays on record, its reviewer stays barred from the item, and no
  assignment counts as submitted without its decision.

What this means for the properties of the ledger, which calls that overlap can break:

* `LeaseCapacity`: a third review lease, as above.
* `StateFollowsJudgments`: the missed refresh above, and the other way round a claim that
  computed the state of an item before its last judgments were committed, and writes
  `pending` over `resolved`, even after a freeze.
* `IndependentVerdict`: the holder of a third review lease that is still live may claim the
  adjudication of the item and then do both.
* `ImplementsLabelRelease` and `DirectoriesCurrent`: `_refresh_item_state` reads judgments,
  not verdicts, so a third judgment can turn a decided item back into a disputed one, or
  change the labels under the directory that a crashed freeze has left. The ledger shows that
  crashes, clocks and verdicts alone do neither.

`LeaseHeldToCommit` protects a lease up to the commit of its submission and says nothing of the
write-off that may follow.

### Proofs (`AnnotationLedgerProofs`)

For every set of reviewers, projects, groups, items, timestamps and lease terms that
satisfies `ConstantsAssumption`, and for calls that do not overlap. The invariants that the runs check are not inductive
alone. `StateFollowsJudgments` needs `ReviewCapacity` (a third judgment would change a
resolved item); `ReviewCapacity` needs that expired and submitted leases do not come
back, and that a judgment and its submitted assignment go together; `IndependentVerdict` needs that an adjudication lease is held
by somebody who has not judged the item, and that nobody can judge a disputed item any
more. So

    Inv == TypeOK /\ ReleaseRows /\ \A i \in Items : ItemFine(i)

where `ItemFine` is the conjunction, item by item, of those facts; a step is analysed
once per action and item, most items being untouched. From `Inv` follow `TypeOK`,
`ReviewCapacity`, `StateFollowsJudgments` and `IndependentVerdict`; `SettledInv` adds that a
resolved item has no live review lease, from which every directory stays true
(`DirectoriesStayCurrent`) and every step is a `Decide`, a `Publish` or a stutter of
`LabelRelease` (`Refinement`). `AdjudicationInv` adds the single adjudicator, and with it
`LeasesBounded`.

Two smaller remarks. An idempotency key reused for another item breaks the unique index of
orm.py:157 at the flush and surfaces as a raw `IntegrityError`. The adjudication queue is
strict: while the item at its head is leased, no other item can be claimed.

`PreflightRight` needs more: the preflight counts rows while the gate reads their labels. They
agree because every judgment on record is a label of its project's task type (`Vocabulary`) and
because `ItemFine` bounds the rows that there are to count.

### Proofs (`AnnotationRacesProofs`)

For any finite set of reviewers, any labels and timestamps, and any number of calls in flight. The
idea is what each transaction may rely on between two of its statements:

    Inv == /\ Typing /\ \A r \in Reviewers : Fine(r, tx[r])
           /\ FreezerFine /\ DecisionsStand /\ ReleaseSound /\ Settled

`Fine` says that a reviewer in the middle of a submission has not judged yet and still holds the
lease it found, since a claim that would write the lease off waits for its row. `FreezerFine` says that
what a freeze has read so far is still on record, since judgments and verdicts are written
once. `Settled` says that a release over a disagreement has a verdict. `DecisionsOutlive` is
`DecisionsStand`: a late write-off may leave "expired" where "submitted" stood, and the proof shows
that nothing else is lost (a claim whose lapsed leases include one of a call that is submitting
waits for it, `ExpiryKeepsLocked`). No lemma relates the item's state to its judgments: the refuted
properties show what may happen to it, and `ReleasesSound` that no release depends on it.

## 4. Optimizer admission

`OptimizerAdmission` follows a request from its body to its release. One event loop runs
all requests, and the condition's lock is never held over an await, so each critical
section is a step; the interesting time is between a `notify` and the turn of the notified
task. `pc[c]` is where a request is (`reading`, `waiting` asleep, `woken`, `serving`),
`doom[c]` what its next turn will raise. `Expire` and `Cancel` may strike a task that has
been notified already; `Quit` is the `except` and `finally` of `acquire` with its hand-on
of the wake-up (middleware.py:152); `AdmitAtOnce` is the newcomer that overtakes everybody.
`Notify` wakes any waiter: asyncio wakes in order of arrival, and nothing rests on that.
It is taken not to pass on the notify of a cancelled waiter by itself, as newer versions
of asyncio do: an extra wake-up is harmless.

The run `admission` checks two slots and two queue places with five callers on the two routes:
more callers than places, so that a queue is full while a newcomer arrives. The service
ships with one slot (settings.py:50); the controller and its tests take any number. There
are no deadlocks.

Fairness: weak for each task's turn (`Resume`, `Quit`: the event loop runs what is ready)
and for each deadline (`Expire`: the timer fires). None for clients, cancellations or the
release of a slot, since an optimizer call may run for ever. That is enough for
`WaitersLeaveQueue`.

One thing the slots do not bound: a request that is cancelled releases its slot and the
mutation lock while the solver it started goes on in its thread (core_service.py:748).

Proved (`OptimizerAdmissionProofs`), for every finite set of callers and all limits:
`Inv == TypeOK /\ CountersTrue /\ NoSlotStranded` is inductive. The three need each other:
the limits rest on true counters, and the hand-on of `Quit` reads `queued`. The lemmas
`CountUp` and `CountDown` say how the counters follow the sets of callers. Liveness is
only model-checked.

## 5. Retention: publication of processed runs

### Model

`WebPublication` is one governed source's corner of the file system. A publisher makes
`.wp/<operation>/`, writes its intent there, stages the run, seals it with a ready receipt
and renames the staged directory into place, where catalogue readers look. A maintenance
pass scans everything, reclaims abandoned operations and deletes expired runs by way of a
tombstone. Publishers and maintenance share no lock.

| code | model |
|---|---|
| where a publisher is between two calls of `_run_web_product` | `pc[o]`, one publisher per operation |
| `.wp` | `control` |
| the entries of `.wp/<operation>/` | `tree[o]`; the run's files are `data` and `receipt` |
| a receipt opened with `"xb"` and not yet written | `torn[o]` |
| `latest_mtime_ns` against the cutoff | `quiet[o]`, ticks since the last change, up to `Grace` |
| `<source>/<run_sha256>/`, `.<run>.<token>.deleting` | `final[o]` = `"visible"`, `"tombstone"`; its files `kept[o]` |
| `_effective_expiry(...) <= now` | `o \in expired` |
| the plan of `plan_web_publication_recovery`, `run_removals` | `plan`, `due` |
| any exception, or the death of a process | `Stop(o)`, `Crash` |

A step is one change of the file system or one check a later change relies on
(`mkdir`, create, write, rename, unlink, `rmdir` are steps of their own). Four things are
coarser than the code: a scan is one step; the writes of a run's data files are one; the
second look of a recovery compares entries, not mtimes; and there is one maintenance pass at
a time, as the schedule runs it. Process crashes are
modelled, power loss is not: every file is on disk once written, as the `fsync` calls intend.
A pass that meets something unreadable changes nothing and is no step. A scan of raw evidence
that refuses stops the same pass (web.py:1664); that is outside this module, and the liveness
properties below suppose that it does not happen.

The two constants of time: `Grace` is `orphan_grace`; `Patience` is how long a live
publisher may leave its workspace alone. The code never relates them, and everything rests
on `Patience < Grace`: with a publisher that sleeps past the grace period between its last
check and its rename, TLC finds that recovery deletes files of the stage that then becomes
visible. The default of 24 hours makes that remote; the permitted minimum of one hour less.

`VisibleRuns` is the promise to readers (data-sources.md:316): no run or a whole one, never
a replaced one, none withdrawn before its retention has expired. `Readers` maps what readers
see of publication `o` to `kept[o]` while `final[o]` is `"visible"`.

### Runs

| run | question | instance |
|---|---|---|
| `publication` | do readers see whole runs only; are the living spared; is what a crash left understood, reclaimed, and a deletion resumed | 2 publishers of one run, grace of 2 ticks, patience of 1, one crash of maintenance |

Not runs: `PublicationStalled.cfg` (2 publishers, grace of 1 tick, no limit to a publisher's
patience, no crash of maintenance), which passes, and whose property is proved;
`PublicationTorn.cfg` (does recovery understand what any crash leaves), refuted.

Two publishers of the same run compete for its name and share `.wp`, which each of them and
maintenance try to remove; more only repeat that, and the theorems hold for any number. One
crash of maintenance interrupts a recovery or a deletion at any step, and the next pass is
not interrupted; a bound there must be, since a maintenance that always dies finishes nothing.
Deadlock is not checked: everything may be published, expired and deleted.

Fairness: weak for each publisher that has begun (the process goes on or dies: `Stop` is one
of its steps), for maintenance (the hourly Dagster schedule starts it again, definitions.py:56),
and for `Tick`. Nothing makes anybody begin a publication or succeed with it, nor a run expire.

`CrashShapesReadable` is refuted: a publisher that dies between creating `intent.json` or
`ready.json` and writing it leaves a receipt that `_read_json_receipt` refuses, and each
later pass fails as a whole. `CrashesUnderstood` says that no other crash of a publisher or of a recovery does that
(`OnlyTornBlocks`), and that a deletion cut short can be resumed (`TombstonesResumable`).
`RetentionEnds`, that residue is reclaimed and what has expired is deleted, holds except where
a receipt is torn.

`PublicationStalled.cfg` gives up `Patience < Grace`. Readers may then see an incomplete run, but no
run is replaced or withdrawn before it has expired (`NamesKept`: `VisibleRuns` for the names
alone), and the second look of a recovery and its `rmdir`s stop it where a publisher has been at
work (`GiveUp`, which no state of the run `publication` reaches: under `Patience < Grace` nobody
is at work there). The publishers are a symmetry set, and no liveness is checked.

One more remark: a publisher that has made `.wp` but not yet its operation may find `.wp`
removed by somebody else's clean-up. Its second `mkdir` then fails, and nothing is lost.

### Proofs (`WebPublicationProofs`)

For any number of publications of any runs, any `Grace` and any number of crashes, from
`Punctual == Patience < Grace`. The invariant

    Inv == TypeOK /\ PlanSound /\ \A o \in Ops : PublicationFine(o)

says step by step what a publisher finds in its workspace (`Workspace`, `Receipts`), that a
live one's workspace is young, and that what maintenance plans belongs to the dead: it was old
when it was planned, hence dead, and the dead do not return. So a publisher about to rename
still has every file it checked, which `Refinement` needs; the intent is the last entry to go,
which `CrashesLeaveReadable` needs; and `TombstonesStayResumable` needs the receipt to go last.
Most steps concern one publication: `Frame` carries the others over. `NamesAreKept` needs no
`Punctual`, only the smaller `NamesInv`: a publisher renames at most once, and only what has
expired is quarantined. Liveness is only model-checked.

## 6. Compatibility, filters and solver rules

### Model

`CompatibilityRules` states every rule of `check_pair` and `check_build`: a component is a
record of normalised fields, a report is the set of verdicts its rules give. `SolverRules`
states what is said of the same parts elsewhere: the retrieval filters (`PassesFilters`), the
eligibility check of `validation.py` (`MeetsRequest`), and the solver's own power and connector
constraints (`PowerAccepted`, `ConnectorsSatisfy`, together `SolverAccepts`).
`CatalogueEvidence` lets time pass over one build: a part is restated as one of its variants, a
critical field is withdrawn, the evidence loses its authority, a product is discontinued, or the
user retains a part. The request is any one of `Requests`, for good.

`EvidenceAssumption` says what a record of each category carries (`Fields`, from the attribute classes
of domain/components.py), `ValuesAssumption` that a missing value is none of the words the rules
compare names with, and `PolicyAssumption` that the solver asks for no more power than the engine:
90 W of allowances and 25% against 100 W and 25%, both constants of the code.

### The run `compatibility`

| property | what it says |
|---|---|
| `PruningSpares` | a build that the whole-build check accepts survives the pruning by pairs: nothing feasible is lost before the solver |
| `StatedTwiceAgrees` | a part passes the retrieval filters exactly if it meets the request for `validation.py`; and a supply that satisfies the engine satisfies the solver |
| `EvidenceOnlyHurts` | where the engine refused or could not tell, losing a critical field does not make the build acceptable |

One build of all eight categories, with variants on either side of each threshold, and up to three
changes. Most rules concern two parts, with the request or the loss of one field as a third
change, so three changes reach every interaction of two rules; the run stops after three, which is why
deadlock is not checked. `AnsweredElsewhere` lists the fields whose loss sends the engine to
another field: a board's generations where it has other lists of CPUs, a case's radiators where it
states the largest, the form of an M.2 drive, NVMe or SATA. It also has an inventory of a supply that
could not be read: UNKNOWN against any GPU, and with the inventory gone PASS for a GPU that needs no
connector.

Not a run: `ConnectorEvidence.cfg`. The requirements (docs/product-requirements.md:69) say that
missing connector data yields UNKNOWN. A GPU's `power_connectors` defaults to an empty inventory
(core/domain/components.py:96), which the engine reads as "needs none": the verdict is PASS.

Other places where statements differ, found while writing the rules and left as they are in the
model: `lookup` answers with the first alias, so a CPU's `architecture` may be read as its
generation; a GPU without interface counts as PCIe; a missing BIOS version passes where no minimum
is stated; a GPU and a PCIe SSD count against the same slots; 2.5" and 3.5" drives are always
UNKNOWN; `liquid` coolers skip the radiator-bay rule; the optimizer compares connectors by exact
name and so rejects a 6-pin need on a 6+2-pin supply.

### Proofs (`EvidenceProofs`)

The three properties hold of every catalogue, build and request. The invariant, `EvidenceInv`
(`SnapshotsTyped`), only says that each snapshot describes a build. The work is in the rules.
`AcceptIs` takes `check_build` apart: a build is accepted exactly when every rule of `RulesFine` passes
or warns, the rules on the whole build do (`BuildFine`), and each part is verified and may be used
(`PartsFine`). `PruningLosesNothing` follows, since the rules of a pair are among those of the build
and an unverified part is refused by both. `LossNeverHelps` goes through the eight categories:
of a CPU, a GPU, a memory kit and a drive no rule passes without the field (`CpuLoss` to
`StorageLoss`); of a board, a supply, a cooler and a case a rule either refuses or did not need it
(`BoardLoss` to `CaseLoss`), and the rules on the whole build read none of what was lost
(`ConflictsRead`, `RadiatorsRead`). Two of the exceptions in `AnsweredElsewhere` come from this
proof, the M.2 SATA drive and the supply that could not be read: the variants now include both, and
without either exception TLC finds the property violated. `StatedTwiceMeansOnce` rests on `AtLeastIs`,
for amounts that may be missing, and on `SupplyCarries`: the engine rounds a larger sum up, the
solver compares a smaller one.

## 7. Generating builds

### Model

`BuildGates` states what a candidate passes: the structured filters, pools cut to a limit (a free
choice of what is kept), pruning by pairs, and the solver's model (`Model`, a set of selections).
The verdicts of pairs, of builds and of the solver's own rules are part of a catalogue, a
constant: section 6 is about how they come about. `BuildGeneration` runs a job through these
stages: diagnosis, the loop over profiles, rejections by the validator, statuses, alternatives
and the saving of the generation; then replacements on a saved build, each another job with
locked parts; and restarts, after which another catalogue may be served. The objective is the sum over the parts less the penalties of
the pairs that pass with a warning (`Caution`); both are constants of a release. CP-SAT's answer is any
selection that the model allows: the best one for OPTIMAL, any for FEASIBLE, none for UNKNOWN.

| code | model |
|---|---|
| generations saved with their builds | `store`, with the request, the parts that are free and the builds |
| one `generate_builds` or `replace_component` under `_mutation_lock` | `job` |
| the release a process serves | `shop` |
| a restart that loses the call in progress | `Restart` |

### The run `generation`

| property | what it says |
|---|---|
| `BuildsSound` | a saved build is complete, compatible, within budget by catalogue prices, meets the filters, and differs from its siblings - said without the stages that lead to it |
| `HonestStatus` | "infeasible" means that no build of the whole catalogue would have done, "optimal" that none scores higher, unless a pool was cut or rejections ran out; what `_assert_conclusive` refuses to answer is never saved with builds |
| `ReplacementKept` | over chains of replacements, the new part is in, locked and owned parts stay, and no part becomes free |
| `OffersHold` | an alternative that was offered can be taken on the same catalogue |

Three categories with two or three products each, in two catalogues that differ in prices,
stock and verdicts, four requests for two profiles (plain, with an owned supply and a barred CPU,
with a CPU that must be used, and with an owned CPU, a barred board and little money), pools of two
out of three, two rejections, two generations and one restart: enough for a replacement after a release, for a pool that cuts the best part off,
and for a rejection that ends the search. The bounds on generations and restarts end the run, so
deadlock is not checked. No fairness: nobody has to ask.

### Proofs (`BuildGenerationProofs`)

For any products, categories, catalogues, verdicts, requests, profiles, pool limits and bounds.
The assumptions are those of `GatesAssumption` and `GenerationAssumption`; beyond types they say that
a catalogue offers only products it knows, that no request names two parts to keep of one
category, and that the service and the solver ask for the same distance between builds
(services.py:554 and optimizer/models.py:293 both say two).

*What the stages compute.* Totals are sums over functions, pruning repeats a pass until nothing
changes, and the presentation folds over the solutions. The library's induction theorems cannot be
applied here, so an induction is a set: of the numbers, or of the subsets of a finite set, that have
what is to be shown, closed under the next number or one more element (`LeastNatural`, `Counting`,
`Gathering`). That gives `SumNat`, `SumRenamed` (a sum does not depend on names: the total over the
categories is the bill over the parts), `PruneTakes` and `PruneSpares` (pruning only takes
candidates away, and none that a compatible build uses), and `AllPresented` (of solutions that are
compatible and apart, the presentation drops none and keeps their order).

*What the gates mean.* `GatesAreSound`: a selection that retrieval, the solver's model and the
validator let through is `Sound`, which is said without them. `SoundPasses`, `SoundHasHope` and
`RetrievalHolds` are the other direction: no gate stops a sound build where the pools are whole.
`OfferPasses` follows an alternative through all of them.

*The call at work.* The invariant, in short,

    Inv == /\ \A i \in 1..Len(store) : GenerationFine(store[i]) /\ Derived(store[i], store)
           /\ job # None => JobFine(job) /\ Derived(job, store) /\ Len(store) < MaxGenerations

`JobFine` says that the solutions so far passed every gate, in the order of the profiles and apart
from each other, that what is forbidden was rightly rejected, and (`RecordsTrue`) that "optimal" is
true of each solution that has this record as long as no pool was cut. A status can only be
derived from this: the status of the whole is computed from records of which some are of
profiles that found nothing. `Derived` ties a replacement to the generation it came from,
which is saved for good. One lemma per step (`FoundFine`, `RejectedFine`, `NotFoundFine`,
`HopelessFine`, `StartedFine`, `UnsolvedFine`, `SavedFine`) shows that the invariant stays; the five
properties are read off. All properties of the run are proved.

Not a run: `ReplacementPrice.cfg` refutes that every part the user has to buy has a retail price
(docs/product-requirements.md:72). A replacement product or a locked part without a listing in
the new release enters at S$0 and is not owned (adapters.py:237).

Other remarks: a discontinued replacement passes with the warning for user-owned parts; an owned
part replaced by itself is charged; a cut pool may lose every build and the answer is then
INFEASIBLE; so may an exhausted rejection limit; alternatives are not checked against the solver's
power and connector rules, which `OffersHold` exempts; a generation is saved before
`_assert_conclusive` refuses to answer it (core_service.py:741); a stored build of which a later
release knows a part no more cannot be read.

## 8. Interactions and shares

### Model

`DurableStore` gives each worker thread one call at a time and one step to each database
statement. An insert waits for an uncommitted insert of the same key and fails if that commits,
after which the code looks again (`put_interaction`). A connection may be lost after the
commit, so the caller repeats what was done. The impression token is its claims under the current
secret; a development process makes a new secret at each start (`Restart`). `answers`, `closed`
and `metric` record what callers were told.

### The run `durable_store`

| property | what it says |
|---|---|
| `AnswersHonest` | an acceptance names a stored event with the request's content, and an exact retry is never told that it conflicts |
| `CountedOnce` | the process never counts an interaction more often than it was stored |
| `SharesHonest` | a share is served to no call that began after its revocation was answered, nor past its expiry, and an answered revocation stands |

Two threads (interchangeable), three calls, five requests that differ in key, content or token, one
impression, one share, one tick of the clock and one restart. Three calls make two that race
and one that retries. No liveness is checked.

Not a run: `InteractionRotation.cfg`. The runbook (docs/deployment-runbook.md:272) says that exact
retries remain idempotent when the signing key is rotated; the idempotency digest is keyed by the
same secret, so a retry after the rotation is stored again.

### Proofs (`DurableStoreProofs`)

For any workers, requests, number of calls, restarts and ticks. The invariant has a part for
each property:

    Inv == TaskShape /\ SharesFine /\ EventsFine /\ CountsFine

`SharesFine` follows a share call: what it will answer was true when it read the row, and revocations
only ever come later. `EventsFine` says of a call in the middle of `put_interaction` that what it found
is still stored, and that a call which is going to answer "conflict" has seen a row that collides with
its own and differs in content (`Refused`); rows are never deleted, so that stays so
(`HonestStays`). `Apart` is the unique index: two rows never collide. `CountsFine` compares the counter
of a kind and the calls about to count (`Pending`) with the rows stored of that kind; each
commit adds one to both sides, and an exact retry to neither. It needs finitely many workers and a
`None` that is no number and no row of a share (`BoundsAssumption`).

Other remarks: of two concurrent revocations both are answered, and the later overwrites
`revoked_at`; a retry with another key but the same impression is answered with its own event
identifier; a `ValueError` of the second look-up is not caught; an unsigned retry after a release
of the catalogue conflicts.

## 9. Raw evidence

### Model

`RawCaptures` is one source: a crawl fetches robots.txt, the terms, its pages and the terms again,
writes a body under its content's name and a receipt, and keeps the last receipt of each document in
`http-cache.json`, written when it ends. Maintenance scans, then deletes the cache, bodies and
receipts that its plan names. The two share no lock. Time is relative: receipts, bodies and the
authority grow old with each `Tick`.

A scan is one step; a pass takes less than a tick and a crawl no more than `Duration`. There is one
crawl and one pass at a time. Refused policies, limits, redirects and failed requests end the
crawl (`Stop`); robots.txt is treated as one more document; the rate limiter and what pages say
are not modelled.

### The run `captures`

| property | what it says |
|---|---|
| `DeletesOnlyExpired` | a receipt goes only when it has expired, a body only when every receipt that the scan saw name it has |
| `Purged` | once the authority is over, all evidence goes away, whatever was cut short |
| `CrawlsResume` | a cache entry without its evidence, which stops every crawl, does not do so for good |
| `TypeOK` | types; what maintenance has on its list is still on disk |

A cache entry may outlive its receipt, until the next crawl drops it. `DeletesOnlyExpired` exempts
receipts written after the scan and so does not exclude the loss of a body that such a receipt
names; `LiveEvidenceKept`, below, does, and is refuted.

`Purged` and `CrawlsResume` except a state in which a receipt stands in the way of every pass for good
(`Poisoned`). One page and terms that change during a crawl, retention, grace and duration of one
tick, two ticks of authority, one crash of maintenance. The change makes two bodies for one
document; a tick within a crawl makes old and new receipts of one body. Instances with a
robots.txt, with a page that changes, and with two pages fetched at once have been checked as well.

Fairness: weak for the crawl's steps and for maintenance (hourly schedule), strong for `Tick`,
which a running pass delays.

Not runs: `CaptureRace.cfg` refutes that the body of a receipt that has not expired is there
(`LiveEvidenceKept`; tests/unit/test_web_retention_maintenance.py:411 says so of a quiet
directory). A crawl that observes an old body again writes a receipt only, and maintenance that was
planned before it deletes the body. `CaptureLate.cfg` refutes that maintenance remains usable
after the authority has expired (retention/web.py:1643): the authority is asserted once, when a
crawl begins (web_product.py:1022), and what the crawl retrieves afterwards makes each later pass
refuse. One more remark: temporary files of `_write_bytes_atomic` that a crash leaves are not
recognised by maintenance and stay.

### Proofs (first part of `EvidenceProofs`)

`DeletionsExpired` is `DeletesOnlyExpired` for any documents, terms and bounds. Its invariant
`PlanSound` says that every receipt on the plan has expired and that no body on it is named by a
receipt the scan saw alive. The plan stays true because no tick falls within a pass and a crawl only
adds receipts; that is also how far it reaches, as `CaptureRace.cfg` shows. `CapturesTyped` is
`TypeOK`, from the types of the crawl (`CrawlOK`) and of the disk (`DiskOK`): a deletion takes receipts
that are on the plan, so none of those the scan saw alive. The liveness properties are only
model-checked.

## 10. Publication of ranker bundles

### Model

`RankerPublication` follows several calls of `publish_bundle` for one bundle and the maintenance of
their stages. A publisher makes a hidden stage, creates, writes and locks a file in it, saves the
bundle file by file, removes the lock and its file, and renames the stage unless the name is taken.
Maintenance looks at an old stage, probes its lock, looks again, renames it away, compares
and deletes it. Nothing else keeps them apart.

| code | model |
|---|---|
| where a call of `publish_bundle` is | `pc[p]`; `flock` is held while it is in `Working` |
| the stage's directory, found by its path | `stage[p]`, `None` when it is gone |
| `st_mtime` against `minimum_age` | `quiet[p]`, up to `Age` |
| the bundle directory | `bundle`, `content` |
| a pass of `maintain_ranker_publication_stages` at one stage | `look` |
| any exception; the death of a process | `Fail`; `Die`, `Crash` |

Adoption of what is there already reads only, and its validation is left out. A publisher may sleep
anywhere for any time, so maintenance may take a stage from it; `save()` then makes the directory
again (`OpenSave`), or the publisher fails.

### The run `ranker`

| property | what it says |
|---|---|
| `ImplementsOneBundle` | readers of the name see nothing or one whole bundle, for good: `VisibleRuns` with one run whose retention never expires |
| `OrphansReclaimed` | what a publisher left behind goes, unless it died between creating and writing its lock |
| `TypeOK` | types; a stage about to be renamed is whole or gone |

Two publishers, a minimum age of one tick: one to win the name, one to lose it or to lose its
stage. Both may be over, so deadlock is not checked.

Fairness: weak for a publisher that has begun (it goes on, fails or dies), for maintenance and for
`Tick`; strong for `See(p)`, since every pass comes to every stage. That passes are repeated is an
assumption about operation: publication never cleans up behind others, and the runbook asks the
operator to run the command.

Not runs: `RankerStuck.cfg` (a publisher that dies between creating its lock file and writing
its one byte leaves a stage that every pass calls malformed; docs/model-card.md:143 promises
its removal); `RankerLiving.cfg` (maintenance claims a stage whose publisher takes its lock, or
removes it, after the probe; docs/deployment-runbook.md:319); `RankerTombstones.cfg` (a claimed
stage that is found changed stays under a name that no pass looks for).

### Proofs (`RankerPublicationProofs`)

For any set of publishers and any minimum age, from `RankerAssumption`. The invariant

    Inv == PlacesType /\ (\A p \in Publishers : StageFine(p)) /\ LookFine /\ BundleFine

says for each place of a publisher what it finds in its stage, if that is there: before `save()` at
most its lock, after it all files of the bundle and at most the lock, and before the rename the bundle
and nothing else. Maintenance only ever takes a directory away as a whole, never a file out of a stage
(`SweepSteps`), so nothing here rests on ages or on the probe of the lock: a publisher that
reaches the rename and finds a stage finds a whole one. `TypesHold` and `BundleImplemented` follow;
`OneStepShows` maps the one rename that finds the name free to `Show` and every other step to a
stutter. `OrphansReclaimed` is liveness and only model-checked.

## 11. Not modelled, and why

Payload texts, rationales, hard-failure codes, hashes of unchanging evidence, audit rows
and idempotency keys of the annotation service are data no property distinguishes. The
read-only `project_progress` is modelled by its preflight verdict. Isolation is that of
PostgreSQL; SQLite, which tests use, serialises writers. Training, scoring, indexing and
embedding are numeric, bulk readers and the web client are I/O, and CP-SAT's search is out of
TLC's reach. Reading of aliases and units (`_access.py`), texts, messages and presentation are
left out of sections 6 and 7; catalogue reads, readiness and administration of the API out of
section 8; parsing, redirects, byte budgets and the rate limiter out of section 9; adoption's
validation and the promotion gate out of section 10. `pipelines/retention/legacy_web.py` and
`wdc.py`, the serving release, and the evaluation harnesses have no module.

`MissingIsUnknown` is refuted (section 6) and has no theorem. TLAPS proves no liveness under fairness, so
every `~>` and `<>[]` property of the project is checked on its instance alone.
