-------------------------- MODULE RankerPublication --------------------------
(***************************************************************************)
(* Publication of one ranker bundle.  A publisher (LambdaMARTRanker.       *)
(* publish_bundle) builds the bundle in a hidden stage of its own, which it *)
(* marks with a locked file while it works, and renames the stage to the   *)
(* bundle's name unless somebody was faster; then it adopts what is there, *)
(* which changes nothing here and may succeed or be refused.               *)
(* Maintenance (ranking/publication.py) removes stages that are old and    *)
(* not locked.  Nothing else keeps the two apart.                          *)
(*                                                                         *)
(* A step is one change of the file system, or one look at it that a later *)
(* change relies on.                                                       *)
(***************************************************************************)
EXTENDS Naturals

CONSTANTS
    Publishers,   \* bound: calls of publish_bundle for this bundle
    Age,          \* minimum_age, in ticks
    None

ASSUME RankerAssumption ==
    /\ Age \in Nat \ {0}
    /\ None \notin Publishers

\* Model, metadata and manifest, in the order save() gives them their names.
BundleFiles == {"model", "metadata", "manifest"}

\* The activity lock, before and after its one byte is written.
LockFiles == {"empty lock", "lock"}

\* "saving" stands for the lock of save() and its temporary files.
StageFiles == BundleFiles \cup LockFiles \cup {"saving"}

VARIABLES
    pc,        \* where each publisher is
    stage,     \* the files of the directory at its stage's path, None without
    quiet,     \* ticks since that directory changed
    bundle,    \* the publisher whose stage became the bundle
    content,   \* the files of the bundle
    look       \* the stage maintenance is at, and what it claimed of it

place == <<stage, quiet>>
final == <<bundle, content>>
vars == <<pc, place, final, look>>

Working == {"locked", "saving", "saved"}   \* the activity lock is held
Trying == {"made", "creating", "written", "unlocked", "ready"} \cup Working
Over == {"over", "dead"}

Away == [at |-> "away", stage |-> None, left |-> {}, same |-> TRUE]

Init ==
    /\ pc = [p \in Publishers |-> "idle"]
    /\ stage = [p \in Publishers |-> None]
    /\ quiet = [p \in Publishers |-> 0]
    /\ bundle = None
    /\ content = {}
    /\ look = Away

-----------------------------------------------------------------------------
(* The stage on disk *)

Claimed == look.at \in {"claimed", "deleting"}

SetLook(at, left, same) ==
    look' = [at |-> at, stage |-> look.stage, left |-> left, same |-> same]

\* The directory of p becomes d, and is no longer what maintenance saw.
Stage(p, d) ==
    /\ stage' = [stage EXCEPT ![p] = d]
    /\ quiet' = [quiet EXCEPT ![p] = 0]
    /\ SetLook(look.at, look.left, look.same /\ (look.stage # p \/ Claimed))

Exists(p) == stage[p] # None

\* What goes first: the lock, then the files in some order.
First(S) == IF S \cap LockFiles # {} THEN CHOOSE f \in S : f \in LockFiles
                                     ELSE CHOOSE f \in S : TRUE

Go(p, from, to) == pc[p] = from /\ pc' = [pc EXCEPT ![p] = to]

-----------------------------------------------------------------------------
(* publish_bundle *)

\* mkdtemp, unless the bundle is there already.
Begin(p) ==
    /\ Go(p, "idle", "made")
    /\ bundle = None
    /\ Stage(p, {})
    /\ UNCHANGED final

\* acquire_ranker_stage_activity_lock: O_EXCL, one byte, flock.
CreateLock(p) ==
    /\ Go(p, "made", "creating")
    /\ Exists(p)
    /\ Stage(p, stage[p] \cup {"empty lock"})
    /\ UNCHANGED final

\* By descriptor, wherever the directory is by now; which does not make the
\* directory younger.
WriteLock(p) ==
    /\ Go(p, "creating", "written")
    /\ stage' = IF Exists(p)
                THEN [stage EXCEPT ![p] = (@ \ {"empty lock"}) \cup {"lock"}]
                ELSE stage
    /\ SetLook(look.at, look.left, look.same /\ look.stage # p)
    /\ UNCHANGED <<quiet, final>>

TakeLock(p) ==
    /\ Go(p, "written", "locked")
    /\ UNCHANGED <<place, final, look>>

\* save() makes the directory it writes to if it is missing.
OpenSave(p) ==
    /\ Go(p, "locked", "saving")
    /\ Stage(p, {"saving"} \cup IF Exists(p) THEN stage[p] ELSE {})
    /\ UNCHANGED final

Name(p, f) ==
    /\ pc[p] = "saving"
    /\ Exists(p)
    /\ f \notin stage[p]
    /\ f = "metadata" => "model" \in stage[p]
    /\ f = "manifest" => {"model", "metadata"} \subseteq stage[p]
    /\ Stage(p, stage[p] \cup {f})
    /\ UNCHANGED <<pc, final>>

\* MUTANT: temporary files of save() stay.
CloseSaveLittering(p) ==
    /\ Go(p, "saving", "saved")
    /\ Exists(p) /\ BundleFiles \subseteq stage[p]
    /\ UNCHANGED <<place, final, look>>

CloseSave(p) ==
    /\ Go(p, "saving", "saved")
    /\ Exists(p) /\ BundleFiles \subseteq stage[p]
    /\ Stage(p, stage[p] \ {"saving"})
    /\ UNCHANGED final

\* load() of what was staged, and activity_lock.release(remove=True): first the
\* lock, then the file.
Unlock(p) ==
    /\ Go(p, "saved", "unlocked")
    /\ Exists(p) /\ BundleFiles \subseteq stage[p]
    /\ UNCHANGED <<place, final, look>>

\* MUTANT: the lock is released and its file stays.
UnlinkNothing(p) ==
    /\ Go(p, "unlocked", "ready")
    /\ UNCHANGED <<place, final, look>>

Unlink(p) ==
    /\ Go(p, "unlocked", "ready")
    /\ IF Exists(p) /\ "lock" \in stage[p]
       THEN Stage(p, stage[p] \ {"lock"})
       ELSE UNCHANGED <<place, look>>
    /\ UNCHANGED final

\* renameat2 with RENAME_NOREPLACE.
Rename(p) ==
    /\ Exists(p)
    /\ IF bundle = None
       THEN /\ Go(p, "ready", "over")
            /\ bundle' = p
            /\ content' = stage[p]
            /\ Stage(p, None)
       ELSE /\ Go(p, "ready", "leaving")
            /\ UNCHANGED <<place, final, look>>

\* Any error.  The activity lock goes.
Fail(p) ==
    /\ pc[p] \in Trying
    /\ pc' = [pc EXCEPT ![p] = "leaving"]
    /\ UNCHANGED <<place, final, look>>

\* The process dies, and the kernel drops its lock.
Die(p) ==
    /\ pc[p] \in Trying \cup {"leaving", "removing"}
    /\ pc' = [pc EXCEPT ![p] = "dead"]
    /\ UNCHANGED <<place, final, look>>

Leave(p) ==
    /\ Go(p, "leaving", IF Exists(p) THEN "removing" ELSE "over")
    /\ UNCHANGED <<place, final, look>>

\* shutil.rmtree works on the directory it has opened, wherever that is by now.
RemoveFile(p) ==
    /\ pc[p] = "removing"
    /\ IF Exists(p)
       THEN stage[p] # {} /\ Stage(p, stage[p] \ {First(stage[p])})
       ELSE /\ look.stage = p /\ look.left # {}
            /\ SetLook(look.at, look.left \ {First(look.left)}, FALSE)
            /\ UNCHANGED place
    /\ UNCHANGED <<pc, final>>

\* But removes it by its path.
RemoveStage(p) ==
    /\ Go(p, "removing", "over")
    /\ IF Exists(p)
       THEN stage[p] = {} /\ Stage(p, None)
       ELSE UNCHANGED <<place, look>>
    /\ UNCHANGED final

Publisher(p) ==
    \/ CreateLock(p) \/ WriteLock(p) \/ TakeLock(p)
    \/ OpenSave(p) \/ (\E f \in BundleFiles : Name(p, f)) \/ CloseSave(p)
    \/ Unlock(p) \/ Unlink(p)
    \/ Rename(p)
    \/ Fail(p) \/ Die(p) \/ Leave(p) \/ RemoveFile(p) \/ RemoveStage(p)

-----------------------------------------------------------------------------
(* maintain_ranker_publication_stages, with apply *)

To(at) == SetLook(at, look.left, look.same)

\* Nothing more is done about this stage, and what was claimed of it stays
\* for good, under a name that no pass looks for.
Block == look' = Away

\* The first snapshot, and its age.
See(p) ==
    /\ look.at = "away"
    /\ Exists(p) /\ quiet[p] >= Age
    /\ look' = [at |-> "seen", stage |-> p, left |-> {}, same |-> TRUE]
    /\ UNCHANGED <<pc, place, final>>

\* MUTANT: a lock file is taken for a lock.
LockedByName(p) == Exists(p) /\ "lock" \in stage[p]

Locked(p) == Exists(p) /\ "lock" \in stage[p] /\ pc[p] \in Working
Malformed(p) == Exists(p) /\ "empty lock" \in stage[p]

\* _stage_is_active
Probe ==
    /\ look.at = "seen"
    /\ IF Locked(look.stage) \/ Malformed(look.stage)
       THEN Block
       ELSE To("probed")
    /\ UNCHANGED <<pc, place, final>>

SeeAgain ==
    /\ look.at = "probed"
    /\ IF Exists(look.stage) /\ look.same THEN To("again") ELSE Block
    /\ UNCHANGED <<pc, place, final>>

\* The stage is renamed out of everybody's way, whatever it is by now.
Claim ==
    /\ look.at = "again"
    /\ IF Exists(look.stage)
       THEN /\ SetLook("claimed", stage[look.stage], look.same)
            /\ stage' = [stage EXCEPT ![look.stage] = None]
            /\ quiet' = [quiet EXCEPT ![look.stage] = 0]
       ELSE Block /\ UNCHANGED place
    /\ UNCHANGED <<pc, final>>

Recheck ==
    /\ look.at = "claimed"
    /\ IF look.same THEN To("deleting") ELSE Block
    /\ UNCHANGED <<pc, place, final>>

Delete ==
    /\ look.at = "deleting"
    /\ \/ look.left # {} /\ SetLook("deleting", look.left \ {First(look.left)}, look.same)
       \/ look.left = {} /\ look.same /\ look' = Away
       \/ ~look.same /\ Block
    /\ UNCHANGED <<pc, place, final>>

Sweep == Probe \/ SeeAgain \/ Claim \/ Recheck \/ Delete

\* Before it has claimed anything a dead maintenance is one that has not run.
Crash ==
    /\ Claimed
    /\ Block
    /\ UNCHANGED <<pc, place, final>>

Tick ==
    /\ \E p \in Publishers : Exists(p) /\ quiet[p] < Age
    /\ quiet' = [p \in Publishers |-> IF Exists(p) /\ quiet[p] < Age THEN quiet[p] + 1 ELSE quiet[p]]
    /\ UNCHANGED <<pc, stage, final, look>>

Next ==
    \/ \E p \in Publishers : Begin(p) \/ Publisher(p) \/ See(p)
    \/ Sweep
    \/ Crash
    \/ Tick

\* A publisher that has begun goes on, fails or dies; time passes; and the
\* operator repeats the command, which comes to every stage each time.
Fairness ==
    /\ \A p \in Publishers : WF_vars(Publisher(p)) /\ SF_vars(See(p))
    /\ WF_vars(Sweep)
    /\ WF_vars(Tick)

Spec == Init /\ [][Next]_vars /\ Fairness

-----------------------------------------------------------------------------
(* Properties *)

\* Types; what maintenance looks at or has claimed is some stage of a publisher
\* that began; and a stage about to be renamed, if nobody took it, is whole.
TypeOK ==
    /\ pc \in [Publishers -> {"idle", "leaving", "removing"} \cup Trying \cup Over]
    /\ \A p \in Publishers : stage[p] = None \/ stage[p] \subseteq StageFiles
    /\ \A p \in Publishers : pc[p] = "ready" => stage[p] \in {None, BundleFiles}
    /\ quiet \in [Publishers -> 0 .. Age]
    /\ bundle \in Publishers \cup {None}
    /\ content \subseteq StageFiles
    /\ look.at \in {"away", "seen", "probed", "again", "claimed", "deleting"}
    /\ look.left \subseteq StageFiles /\ (look.left # {} => Claimed)
    /\ look.at # "away" => pc[look.stage] # "idle"

\* Readers of the bundle's name see nothing or a whole bundle and nothing
\* else in it, which is never replaced and never goes away, though publishers
\* race, die, lose their stages to maintenance and make them again.
Reader == INSTANCE VisibleRuns WITH
    Ops <- Publishers,
    Runs <- {"bundle"},
    RunOf <- [p \in Publishers |-> "bundle"],
    Files <- BundleFiles,
    content <- [p \in Publishers |-> IF bundle = p THEN content ELSE {}],
    expired <- {}

ImplementsOneBundle == Reader!Spec

\* What a publisher left behind does not stay under a stage's name, unless the
\* publisher died before it had written to its activity lock.
OrphansReclaimed ==
    \A p \in Publishers :
        pc[p] \in Over /\ Exists(p) ~> ~Exists(p) \/ "empty lock" \in stage[p]

\* "remove sufficiently old inactive orphan stages" (docs/model-card.md:143):
\* those without an exception.
OrphansRemoved == \A p \in Publishers : pc[p] \in Over /\ Exists(p) ~> ~Exists(p)

\* And nothing of them is left under another name.
NoTombstones == [][Claimed /\ look' = Away => look.left = {} /\ look.same]_vars

\* "preserves new and actively locked stages" (docs/deployment-runbook.md:319):
\* maintenance takes the stage of no publisher that is between its lock and
\* its rename.
LivingSpared ==
    Claimed => pc[look.stage] \notin Working \cup {"unlocked", "ready"}
=============================================================================
