--------------------------- MODULE WebPublication ---------------------------
(***************************************************************************)
(* Governed-web processed runs on disk, one source.  Publishers            *)
(* (pipelines/retention/publication.py, in the order of                    *)
(* scripts/fetch_open_data.py) build a run in a private directory          *)
(* .wp/<operation>, seal it and rename it into place; the hourly           *)
(* maintenance (maintain_web_retention) reclaims what dead publishers left *)
(* and deletes runs whose retention has expired.  The two share no lock.   *)
(*                                                                         *)
(* A step is one change of the file system, or one check that a later      *)
(* change relies on.  A process may die between any two.                   *)
(***************************************************************************)
EXTENDS Naturals

CONSTANTS
    Ops,           \* bound: publication operations, each with its publisher
    Runs,
    RunOf,         \* [Ops -> Runs]: the run_sha256 an operation publishes
    NoOp,
    Grace,         \* orphan_grace, in ticks
    Patience,      \* a live publisher touches its workspace within so many ticks
    MaxCrashes     \* bound: how often maintenance dies

ASSUME PublicationAssumption ==
    /\ RunOf \in [Ops -> Runs]
    /\ NoOp \notin Ops
    /\ Grace \in Nat \ {0}
    /\ Patience \in Nat
    /\ MaxCrashes \in Nat

\* Two files stand for a run: its data (records, manifest, quality report) and
\* its retention receipt.
Files == {"data", "receipt"}

\* What .wp/<operation> may contain, itself included.
Entries == {"op", "intent", "ready", "source", "stage"} \cup Files

\* Up to the rename a publisher has nothing to show; after it, only to clean up.
Early == {"start", "claim", "intent", "writing intent", "stage", "data", "receipt",
          "seal", "ready", "writing ready", "publish", "rename"}
Late == {"revalidate", "clean source", "clean ready", "clean intent", "clean op",
         "clean control", "gone"}

VARIABLES
    pc,        \* where each publisher is
    control,   \* whether .wp exists
    tree,      \* what exists of each .wp/<operation>
    torn,      \* its receipts created but not written yet
    quiet,     \* ticks since its latest mtime, counted up to Grace
    final,     \* the renamed run directory: "none", "visible" or "tombstone"
    kept,      \* the files in it
    expired,   \* publications whose retention has expired
    phase,     \* what maintenance is doing
    plan,      \* operations to reclaim, with the entries left to remove
    due,       \* run directories to delete
    target,    \* the one of them at work
    crashes

publication == <<control, tree, torn, quiet, final, kept>>
maintenance == <<phase, plan, due, target, crashes>>
vars == <<pc, publication, expired, maintenance>>

Init ==
    /\ pc = [o \in Ops |-> "start"]
    /\ control = "absent"
    /\ tree = [o \in Ops |-> {}]
    /\ torn = [o \in Ops |-> {}]
    /\ quiet = [o \in Ops |-> 0]
    /\ final = [o \in Ops |-> "none"]
    /\ kept = [o \in Ops |-> {}]
    /\ expired = {}
    /\ phase = "idle"
    /\ plan = [o \in {} |-> {}]
    /\ due = {}
    /\ target = NoOp
    /\ crashes = 0

Live(o) == pc[o] \notin {"start", "gone"}

\* final_directory.exists()
RunExists(o) == \E p \in Ops : RunOf[p] = RunOf[o] /\ final[p] = "visible"

-----------------------------------------------------------------------------
(* Publisher *)

Advance(o, from, to) ==
    /\ pc[o] = from
    /\ pc' = [pc EXCEPT ![o] = to]

\* The workspace gains or loses entries, which sets an mtime in it.
Touch(o) == quiet' = [quiet EXCEPT ![o] = 0]
Add(o, S) == tree' = [tree EXCEPT ![o] = @ \cup S] /\ Touch(o)
Remove(o, S) == tree' = [tree EXCEPT ![o] = @ \ S] /\ Touch(o)

Begin(o) ==
    /\ Advance(o, "start", "claim")
    /\ ~RunExists(o)
    /\ control' = "present"
    /\ UNCHANGED <<tree, torn, quiet, final, kept, expired, maintenance>>

\* Fails where another process has removed .wp in between.
ClaimOperation(o) ==
    /\ Advance(o, "claim", "intent")
    /\ control = "present"
    /\ Add(o, {"op"})
    /\ UNCHANGED <<control, torn, final, kept, expired, maintenance>>

\* _write_json_exclusive: the receipt exists before its bytes do.
OpenReceipt(o, e, from, to) ==
    /\ Advance(o, from, to)
    /\ "op" \in tree[o]
    /\ Add(o, {e})
    /\ torn' = [torn EXCEPT ![o] = @ \cup {e}]
    /\ UNCHANGED <<control, final, kept, expired, maintenance>>

WriteReceipt(o, e, from, to) ==
    /\ Advance(o, from, to)
    /\ e \in tree[o]
    /\ torn' = [torn EXCEPT ![o] = @ \ {e}]
    /\ Touch(o)
    /\ UNCHANGED <<control, tree, final, kept, expired, maintenance>>

\* write_parsed_batch makes the staged directory, and again each time it writes
\* into it, with every missing parent.
Stage(o, S, from, to) ==
    /\ Advance(o, from, to)
    /\ control' = "present"
    /\ Add(o, S)
    /\ UNCHANGED <<torn, final, kept, expired, maintenance>>

\* write_web_processed_retention_receipt, which wants the run's other files.
WriteRunReceipt(o) ==
    /\ Advance(o, "receipt", "seal")
    /\ {"stage", "data"} \subseteq tree[o]
    /\ Add(o, {"receipt"})
    /\ UNCHANGED <<control, torn, final, kept, expired, maintenance>>

\* What sealing and publishing validate before they act.
Sound(o, receipts) ==
    /\ receipts \cup {"op", "stage"} \cup Files \subseteq tree[o]
    /\ torn[o] = {}
    /\ ~RunExists(o)

Check(o, receipts, from, to) ==
    /\ Advance(o, from, to)
    /\ Sound(o, receipts)
    /\ UNCHANGED <<publication, expired, maintenance>>

PublishReplacing(o) ==
    /\ Advance(o, "rename", "revalidate")
    /\ "stage" \in tree[o]
    /\ final' = [final EXCEPT ![o] = "visible"]
    /\ kept' = [kept EXCEPT ![o] = tree[o] \cap Files]
    /\ Remove(o, {"stage"} \cup Files)
    /\ UNCHANGED <<control, torn, expired, maintenance>>

\* _rename_directory_noreplace: whatever is staged by now becomes visible.
Publish(o) ==
    /\ Advance(o, "rename", "revalidate")
    /\ "stage" \in tree[o]
    /\ ~RunExists(o)
    /\ final' = [final EXCEPT ![o] = "visible"]
    /\ kept' = [kept EXCEPT ![o] = tree[o] \cap Files]
    /\ Remove(o, {"stage"} \cup Files)
    /\ UNCHANGED <<control, torn, expired, maintenance>>

Revalidate(o) ==
    /\ Advance(o, "revalidate", "clean source")
    /\ final[o] = "visible"
    /\ kept[o] = Files
    /\ UNCHANGED <<publication, expired, maintenance>>

\* What a directory holds: rmdir wants it empty.
Inside(e) == CASE e = "op" -> Entries \ {"op"}
               [] e = "source" -> {"stage"} \cup Files
               [] e = "stage" -> Files
               [] OTHER -> {}

Removable(o, e) == e \in tree[o] /\ tree[o] \cap Inside(e) = {}

\* _clean_published_operation
Clean(o, e, from, to) ==
    /\ Advance(o, from, to)
    /\ Removable(o, e)
    /\ Remove(o, {e})
    /\ UNCHANGED <<control, torn, final, kept, expired, maintenance>>

OtherWork == \E o \in Ops : tree[o] # {}

CleanControlAlways(o) ==
    /\ Advance(o, "clean control", "gone")
    /\ control' = "absent"
    /\ UNCHANGED <<tree, torn, quiet, final, kept, expired, maintenance>>

\* rmdir of the shared .wp: it stays while an operation is in it.
CleanControl(o) ==
    /\ Advance(o, "clean control", "gone")
    /\ control' = IF OtherWork THEN control ELSE "absent"
    /\ UNCHANGED <<tree, torn, quiet, final, kept, expired, maintenance>>

\* Any exception, or the death of the process: its files stay.
Stop(o) ==
    /\ Live(o)
    /\ pc' = [pc EXCEPT ![o] = "gone"]
    /\ UNCHANGED <<publication, expired, maintenance>>

Publisher(o) ==
    \/ ClaimOperation(o)
    \/ OpenReceipt(o, "intent", "intent", "writing intent")
    \/ WriteReceipt(o, "intent", "writing intent", "stage")
    \/ Stage(o, {"op", "source", "stage"}, "stage", "data")
    \/ Stage(o, {"op", "source", "stage", "data"}, "data", "receipt")
    \/ WriteRunReceipt(o)
    \/ Check(o, {"intent"}, "seal", "ready")
    \/ OpenReceipt(o, "ready", "ready", "writing ready")
    \/ WriteReceipt(o, "ready", "writing ready", "publish")
    \/ Check(o, {"intent", "ready"}, "publish", "rename")
    \/ Publish(o)
    \/ Revalidate(o)
    \/ Clean(o, "source", "clean source", "clean ready")
    \/ Clean(o, "ready", "clean ready", "clean intent")
    \/ Clean(o, "intent", "clean intent", "clean op")
    \/ Clean(o, "op", "clean op", "clean control")
    \/ CleanControl(o)
    \/ Stop(o)

-----------------------------------------------------------------------------
(* Maintenance *)

Idle ==
    /\ phase' = "idle"
    /\ plan' = [o \in {} |-> {}]
    /\ due' = {}
    /\ target' = NoOp

ReadableWithIntent(o) ==
    \/ tree[o] = {}
    \/ "intent" \in tree[o] /\ torn[o] = {}

\* _scan_publication_operation: the shapes it accepts.
Readable(o) ==
    \/ tree[o] \subseteq {"op"}
    \/ "intent" \in tree[o] /\ torn[o] = {}

\* _scan_processed: the run directories it accepts.
Accepted(o) ==
    /\ final[o] = "visible" => kept[o] = Files
    /\ final[o] = "tombstone" /\ kept[o] # {} => "receipt" \in kept[o] /\ o \in expired

PlanUnaged ==
    /\ phase = "idle"
    /\ \A o \in Ops : Readable(o) /\ Accepted(o)
    /\ phase' = IF control = "present" THEN "reclaiming" ELSE "withdrawing"
    /\ plan' = [o \in {p \in Ops : tree[p] # {}} |-> tree[o]]
    /\ due' = {o \in Ops : \/ final[o] = "tombstone"
                           \/ final[o] = "visible" /\ o \in expired}
    /\ UNCHANGED <<pc, publication, expired, target, crashes>>

\* One unreadable operation or run fails the whole pass, which then changes
\* nothing and is not a step.  Without .wp there is nothing to reclaim.
\* created_at is not a condition of its own: it is never later than the mtime of
\* the intent that carries it.
Plan ==
    /\ phase = "idle"
    /\ \A o \in Ops : Readable(o) /\ Accepted(o)
    /\ phase' = IF control = "present" THEN "reclaiming" ELSE "withdrawing"
    /\ plan' = [o \in {p \in Ops : tree[p] # {} /\ quiet[p] = Grace} |-> tree[o]]
    /\ due' = {o \in Ops : \/ final[o] = "tombstone"
                           \/ final[o] = "visible" /\ o \in expired}
    /\ UNCHANGED <<pc, publication, expired, target, crashes>>

\* The second look at an operation, before its deletion.  mtimes are compared too:
\* they tell more only where a whole publication came and went in between.
Unchanged(o) == tree[o] = plan[o]

\* Somebody has changed the operation since: the pass fails.
GiveUp ==
    /\ Idle
    /\ UNCHANGED <<pc, publication, expired, crashes>>

Recheck(o) ==
    /\ phase = "reclaiming"
    /\ target = NoOp
    /\ o \in DOMAIN plan
    /\ IF Unchanged(o)
       THEN /\ target' = o
            /\ UNCHANGED <<pc, publication, expired, phase, plan, due, crashes>>
       ELSE GiveUp

RankIntentAsFile(e) == CASE e \in Files \cup {"intent", "ready"} -> 0
                         [] e = "stage" -> 1
                         [] e = "source" -> 2
                         [] e = "op" -> 4

\* Files go first, then directories from the inside, the intent, the operation.
Rank(e) == CASE e \in Files \cup {"ready"} -> 0
             [] e = "stage" -> 1
             [] e = "source" -> 2
             [] e = "intent" -> 3
             [] e = "op" -> 4

IsNext(e) ==
    /\ target \in DOMAIN plan
    /\ e \in plan[target]
    /\ \A d \in plan[target] : Rank(e) <= Rank(d)

DeleteEntry(e) ==
    /\ IF e \in tree[target] THEN Remove(target, {e}) ELSE UNCHANGED <<tree, quiet>>
    /\ IF e = "op"
       THEN /\ plan' = [o \in DOMAIN plan \ {target} |-> plan[o]]
            /\ target' = NoOp
       ELSE /\ plan' = [plan EXCEPT ![target] = @ \ {e}]
            /\ UNCHANGED target
    /\ UNCHANGED <<pc, control, torn, final, kept, expired, phase, due, crashes>>

\* The intent alone may be gone already.
RemoveEntry(e) ==
    /\ phase = "reclaiming"
    /\ IsNext(e)
    /\ IF Removable(target, e) \/ e = "intent" THEN DeleteEntry(e) ELSE GiveUp

FinishReclaiming ==
    /\ phase = "reclaiming"
    /\ DOMAIN plan = {}
    /\ phase' = "withdrawing"
    /\ control' = IF OtherWork THEN control ELSE "absent"
    /\ UNCHANGED <<pc, tree, torn, quiet, final, kept, expired, plan, due, target, crashes>>

\* _remove_run: an expired run first becomes a tombstone.
Quarantine(o) ==
    /\ phase = "withdrawing"
    /\ target = NoOp
    /\ o \in due
    /\ target' = o
    /\ final' = [final EXCEPT ![o] = "tombstone"]
    /\ UNCHANGED <<pc, control, tree, torn, quiet, kept, expired, phase, plan, due, crashes>>

\* Its receipt is the last file to go.
DeleteFile(f) ==
    /\ phase = "withdrawing"
    /\ target # NoOp
    /\ f \in kept[target]
    /\ f = "receipt" => kept[target] = {"receipt"}
    /\ kept' = [kept EXCEPT ![target] = @ \ {f}]
    /\ UNCHANGED <<pc, control, tree, torn, quiet, final, expired, maintenance>>

DeleteTombstone ==
    /\ phase = "withdrawing"
    /\ target # NoOp
    /\ kept[target] = {}
    /\ final' = [final EXCEPT ![target] = "none"]
    /\ due' = due \ {target}
    /\ target' = NoOp
    /\ UNCHANGED <<pc, control, tree, torn, quiet, kept, expired, phase, plan, crashes>>

FinishPass ==
    /\ phase = "withdrawing"
    /\ due = {}
    /\ Idle
    /\ UNCHANGED <<pc, publication, expired, crashes>>

Crash ==
    /\ phase # "idle"
    /\ crashes < MaxCrashes
    /\ crashes' = crashes + 1
    /\ Idle
    /\ UNCHANGED <<pc, publication, expired>>

Maintenance ==
    \/ Plan
    \/ \E o \in Ops : Recheck(o) \/ Quarantine(o)
    \/ \E e \in Entries : RemoveEntry(e)
    \/ FinishReclaiming
    \/ \E f \in Files : DeleteFile(f)
    \/ DeleteTombstone
    \/ FinishPass

-----------------------------------------------------------------------------
(* Time *)

Tick ==
    /\ \A o \in Ops : Live(o) /\ tree[o] # {} => quiet[o] < Patience
    /\ quiet' = [o \in Ops |-> IF tree[o] # {} /\ quiet[o] < Grace
                               THEN quiet[o] + 1 ELSE quiet[o]]
    /\ UNCHANGED <<pc, control, tree, torn, final, kept, expired, maintenance>>

\* A date in the receipt, which nothing reads before the run is visible.
Expire(o) ==
    /\ final[o] = "visible"
    /\ expired' = expired \cup {o}
    /\ UNCHANGED <<pc, publication, maintenance>>

Next ==
    \/ \E o \in Ops : Begin(o) \/ Publisher(o) \/ Expire(o)
    \/ Maintenance
    \/ Crash
    \/ Tick

\* A publisher that has begun goes on or dies, the schedule starts a pass every
\* hour, and time passes.  Nothing makes a publisher begin, or succeed.
Fairness ==
    /\ \A o \in Ops : WF_vars(Publisher(o))
    /\ WF_vars(Maintenance)
    /\ WF_vars(Tick)

Spec == Init /\ [][Next]_vars /\ Fairness

-----------------------------------------------------------------------------
(* Properties *)

\* Types; no operation outside .wp, which publishers and maintenance both remove.
TypeOK ==
    /\ pc \in [Ops -> Early \cup Late]
    /\ control \in {"absent", "present"}
    /\ tree \in [Ops -> SUBSET Entries]
    /\ torn \in [Ops -> SUBSET {"intent", "ready"}]
    /\ \A o \in Ops : torn[o] \subseteq tree[o] /\ (tree[o] # {} => control = "present")
    /\ quiet \in [Ops -> 0 .. Grace]
    /\ final \in [Ops -> {"none", "visible", "tombstone"}]
    /\ kept \in [Ops -> SUBSET Files]
    /\ expired \subseteq Ops
    /\ phase \in {"idle", "reclaiming", "withdrawing"}
    /\ DOMAIN plan \subseteq Ops
    /\ \A o \in DOMAIN plan : plan[o] \subseteq Entries
    /\ due \subseteq Ops
    /\ target \in Ops \cup {NoOp}
    /\ crashes \in 0 .. MaxCrashes

\* Readers see what VisibleRuns promises.
Readers == INSTANCE VisibleRuns WITH
    content <- [o \in Ops |-> IF final[o] = "visible" THEN kept[o] ELSE {}]

ImplementsVisibleRuns == Readers!Spec

\* However long a publisher sleeps, and whatever recovery does to its workspace
\* meanwhile, no run is replaced and none withdrawn before it has expired.
Names == INSTANCE VisibleRuns WITH
    content <- [o \in Ops |-> IF final[o] = "visible" THEN Files ELSE {}]

NamesKept == Names!Spec

\* Maintenance takes apart the workspace of no publisher that still runs.
LivingSpared == phase = "reclaiming" /\ target # NoOp => ~Live(target)

\* However a publisher or a recovery was cut short, the next recovery
\* understands what it left, unless a receipt was cut in the writing.
OnlyTornBlocks == \A o \in Ops : ~Live(o) /\ torn[o] = {} => Readable(o)

\* A deletion that was cut short can be resumed: while anything is left in a
\* tombstone, so is the expired receipt without which it may not go.
TombstonesResumable ==
    \A o \in Ops : final[o] = "tombstone" /\ kept[o] # {} =>
        "receipt" \in kept[o] /\ o \in expired

\* Both: whatever crash left them, operations and tombstones can be dealt with.
CrashesUnderstood == OnlyTornBlocks /\ TombstonesResumable

TornForGood == \E o \in Ops : pc[o] = "gone" /\ torn[o] # {}

\* What a dead publisher left is reclaimed at last, maintenance that dies in the
\* middle notwithstanding, unless a torn receipt stands in the way of all.
ResidueReclaimed ==
    \A o \in Ops : pc[o] = "gone" ~> tree[o] = {} \/ TornForGood

\* An expired run goes away at last, under the same condition.
ExpiredDeleted ==
    \A o \in Ops : final[o] = "visible" /\ o \in expired ~> final[o] = "none" \/ TornForGood

\* Both: nothing that is dead or over stays.
RetentionEnds == ResidueReclaimed /\ ExpiredDeleted

\* "the bounded shapes left by every crash point in publication" (publication.py:874)
\* are what recovery validates: it accepts what any dead publisher left.
CrashShapesReadable == \A o \in Ops : pc[o] = "gone" => Readable(o)
=============================================================================
