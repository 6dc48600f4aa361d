----------------------- MODULE RankerPublicationProofs -----------------------
(***************************************************************************)
(* Whatever publishers and maintenance do to each other, what carries the  *)
(* bundle's name is a whole bundle, and stays.  For any publishers and any *)
(* minimum age; nothing here rests on time.                                *)
(***************************************************************************)
EXTENDS RankerPublication, TLAPS

Steps == {"away", "seen", "probed", "again", "claimed", "deleting"}

\* What a publisher finds at its stage's path, if anything is there.
StageFine(p) ==
    \/ stage[p] = None
    \/ /\ stage[p] \subseteq StageFiles
       /\ pc[p] # "idle"
       /\ pc[p] = "made" => stage[p] = {}
       /\ pc[p] = "creating" => stage[p] \subseteq {"empty lock"}
       /\ pc[p] \in {"written", "locked"} => stage[p] \subseteq {"lock"}
       /\ pc[p] = "saving" => stage[p] \subseteq BundleFiles \cup {"lock", "saving"}
       /\ pc[p] \in {"saved", "unlocked"} => /\ BundleFiles \subseteq stage[p]
                                             /\ stage[p] \subseteq BundleFiles \cup {"lock"}
       /\ pc[p] = "ready" => stage[p] = BundleFiles

Places == {"idle", "leaving", "removing"} \cup Trying \cup Over

StageTypes ==
    /\ pc \in [Publishers -> Places]
    /\ DOMAIN stage = Publishers
    /\ stage = [p \in Publishers |-> stage[p]]
    /\ quiet \in [Publishers -> 0 .. Age]

PlacesType ==
    /\ StageTypes
    /\ bundle \in Publishers \cup {None}

LookFine ==
    /\ look \in [at : Steps, stage : Publishers \cup {None},
                 left : SUBSET StageFiles, same : BOOLEAN]
    /\ look.left # {} => Claimed
    /\ look.at # "away" => look.stage \in Publishers /\ pc[look.stage] # "idle"

BundleFine == content = IF bundle = None THEN {} ELSE BundleFiles

Inv ==
    /\ PlacesType
    /\ \A p \in Publishers : StageFine(p)
    /\ LookFine
    /\ BundleFine

-----------------------------------------------------------------------------
(* The invariant *)

LEMMA InitInv == Init => Inv
<1> SUFFICES ASSUME Init PROVE Inv
  OBVIOUS
<1>1. PlacesType
  BY RankerAssumption DEF Init, PlacesType, StageTypes, Places, Trying, Over, Working
<1>2. \A p \in Publishers : StageFine(p)
  BY DEF Init, StageFine
<1>3. LookFine
  BY DEF Init, Away, LookFine, Steps, Claimed
<1>4. BundleFine
  BY DEF Init, BundleFine
<1> QED
  BY <1>1, <1>2, <1>3, <1>4 DEF Inv

\* However what maintenance saw turns out, it stays where it is.
LEMMA LookKept ==
    ASSUME LookFine, PlacesType, NEW p \in Publishers, NEW s \in Places, s # "idle",
           pc' = [pc EXCEPT ![p] = s],
           NEW e \in BOOLEAN, SetLook(look.at, look.left, e)
    PROVE  LookFine'
<1>1. \A q \in Publishers : pc[q] # "idle" => pc'[q] # "idle"
  BY DEF PlacesType, StageTypes
<1>2. look' \in [at : Steps, stage : Publishers \cup {None},
                 left : SUBSET StageFiles, same : BOOLEAN]
  BY DEF LookFine, SetLook
<1>3. look'.at = look.at /\ look'.stage = look.stage /\ look'.left = look.left
  BY DEF SetLook
<1> QED
  BY <1>1, <1>2, <1>3 DEF LookFine, Claimed

\* What a step of one publisher does to the directory at its stage's path.
LEMMA StageStep ==
    ASSUME Inv, NEW p \in Publishers, NEW d, Stage(p, d),
           NEW s \in Places, s # "idle", pc' = [pc EXCEPT ![p] = s]
    PROVE  /\ stage'[p] = d /\ pc'[p] = s
           /\ \A q \in Publishers \ {p} : stage'[q] = stage[q] /\ pc'[q] = pc[q]
           /\ StageTypes' /\ LookFine'
<1>1. stage'[p] = d /\ \A q \in Publishers \ {p} : stage'[q] = stage[q]
  BY DEF Stage, Inv, PlacesType, StageTypes
<1>2. pc'[p] = s /\ \A q \in Publishers \ {p} : pc'[q] = pc[q]
  BY DEF Inv, PlacesType, StageTypes
<1>3. StageTypes'
  BY RankerAssumption DEF Stage, Inv, PlacesType, StageTypes
<1>4. LookFine'
  <2> DEFINE e == look.same /\ (look.stage # p \/ Claimed)
  <2>1. SetLook(look.at, look.left, e)
    BY Zenon DEF Stage
  <2>2. e \in BOOLEAN
    BY Zenon
  <2> HIDE DEF e
  <2> QED
    BY <2>1, <2>2, LookKept DEF Inv
<1> QED
  BY <1>1, <1>2, <1>3, <1>4

\* A publisher's step that changes nothing but where the publisher is.
LEMMA QuietStep ==
    ASSUME Inv, NEW p \in Publishers, UNCHANGED <<stage, quiet, look>>,
           NEW s \in Places, s # "idle", pc' = [pc EXCEPT ![p] = s]
    PROVE  /\ stage'[p] = stage[p] /\ pc'[p] = s
           /\ \A q \in Publishers \ {p} : stage'[q] = stage[q] /\ pc'[q] = pc[q]
           /\ StageTypes' /\ LookFine'
<1>1. /\ pc'[p] = s /\ \A q \in Publishers \ {p} : pc'[q] = pc[q]
      /\ pc' \in [Publishers -> Places]
  BY DEF Inv, PlacesType, StageTypes
<1>2. LookFine'
  BY <1>1 DEF Inv, LookFine, Claimed
<1>3. StageTypes'
  BY <1>1 DEF Inv, PlacesType, StageTypes
<1> QED
  BY <1>1, <1>2, <1>3

\* The publishers a step does not concern keep what they had.
LEMMA Others ==
    ASSUME Inv, NEW p \in Publishers,
           \A q \in Publishers \ {p} : stage'[q] = stage[q] /\ pc'[q] = pc[q],
           StageFine(p)'
    PROVE  \A q \in Publishers : StageFine(q)'
<1> TAKE q \in Publishers
<1>1. CASE q = p
  BY <1>1
<1>2. CASE q # p
  BY <1>2 DEF Inv, StageFine
<1> QED
  BY <1>1, <1>2

\* What it takes to keep the invariant in a step of one publisher.
LEMMA Stepped ==
    ASSUME Inv, NEW p \in Publishers,
           \A q \in Publishers \ {p} : stage'[q] = stage[q] /\ pc'[q] = pc[q],
           StageTypes', LookFine', StageFine(p)',
           bundle' \in Publishers \cup {None}, BundleFine'
    PROVE  Inv'
<1>1. \A q \in Publishers : StageFine(q)'
  BY Others
<1> QED
  BY <1>1 DEF Inv, PlacesType

\* The bundle, when its name is left alone.
LEMMA FinalKept ==
    ASSUME Inv, UNCHANGED final
    PROVE  bundle' \in Publishers \cup {None} /\ BundleFine'
BY DEF Inv, PlacesType, BundleFine, final

\* From the directory a publisher makes to the lock it holds on it.
LEMMA LockSteps ==
    ASSUME Inv, NEW p \in Publishers,
           Begin(p) \/ CreateLock(p) \/ WriteLock(p) \/ TakeLock(p)
    PROVE  Inv'
<1> USE DEF Places, Trying, Working, Over
<1>1. CASE Begin(p)
  <2>1. pc' = [pc EXCEPT ![p] = "made"] /\ Stage(p, {}) /\ UNCHANGED final
    BY <1>1 DEF Begin, Go
  <2>2. stage'[p] = {} /\ pc'[p] = "made"
    BY <2>1, StageStep
  <2>3. StageFine(p)'
    BY <2>2 DEF StageFine
  <2> QED
    BY <2>1, <2>3, StageStep, FinalKept, Stepped
<1>2. CASE CreateLock(p)
  <2> DEFINE d == stage[p] \cup {"empty lock"}
  <2>1. /\ pc[p] = "made" /\ Exists(p)
        /\ pc' = [pc EXCEPT ![p] = "creating"] /\ Stage(p, d) /\ UNCHANGED final
    BY <1>2 DEF CreateLock, Go
  <2>2. d = {"empty lock"}
    BY <2>1 DEF Inv, StageFine, Exists
  <2>3. stage'[p] = {"empty lock"} /\ pc'[p] = "creating"
    BY <2>1, <2>2, StageStep
  <2>4. StageFine(p)'
    BY <2>3 DEF StageFine, StageFiles, LockFiles
  <2> QED
    BY <2>1, <2>4, StageStep, FinalKept, Stepped
<1>3. CASE WriteLock(p)
  <2>1. pc[p] = "creating" /\ pc' = [pc EXCEPT ![p] = "written"] /\ UNCHANGED <<quiet, final>>
    BY <1>3 DEF WriteLock, Go
  <2>2. /\ \A q \in Publishers \ {p} : stage'[q] = stage[q] /\ pc'[q] = pc[q]
        /\ pc'[p] = "written" /\ StageTypes'
    BY <1>3, <2>1 DEF WriteLock, Inv, PlacesType, StageTypes
  <2>3. stage'[p] = None \/ stage'[p] \subseteq {"lock"}
    <3>1. stage[p] = None \/ stage[p] \subseteq {"empty lock"}
      BY <2>1 DEF Inv, StageFine
    <3>2. stage'[p] = IF Exists(p) THEN (stage[p] \ {"empty lock"}) \cup {"lock"} ELSE stage[p]
      BY <1>3 DEF WriteLock, Inv, PlacesType, StageTypes
    <3> QED
      BY <3>1, <3>2 DEF Exists
  <2>4. StageFine(p)'
    BY <2>2, <2>3 DEF StageFine, StageFiles, LockFiles
  <2>5. LookFine'
    <3> DEFINE e == look.same /\ look.stage # p
    <3>1. SetLook(look.at, look.left, e)
      BY <1>3, Zenon DEF WriteLock
    <3>2. e \in BOOLEAN
      BY Zenon
    <3> HIDE DEF e
    <3> QED
      BY <2>1, <3>1, <3>2, LookKept DEF Inv
  <2> QED
    BY <2>1, <2>2, <2>4, <2>5, FinalKept, Stepped
<1>4. CASE TakeLock(p)
  <2>1. /\ pc[p] = "written" /\ pc' = [pc EXCEPT ![p] = "locked"]
        /\ UNCHANGED <<stage, quiet, look>> /\ UNCHANGED final
    BY <1>4 DEF TakeLock, Go, place
  <2>2. stage'[p] = stage[p] /\ pc'[p] = "locked"
    BY <2>1, QuietStep
  <2>3. StageFine(p)'
    BY <2>1, <2>2 DEF Inv, StageFine
  <2> QED
    BY <2>1, <2>3, QuietStep, FinalKept, Stepped
<1> QED
  BY <1>1, <1>2, <1>3, <1>4

\* The directory fills up, whoever made it, and whole it loses the lock.
LEMMA SaveSteps ==
    ASSUME Inv, NEW p \in Publishers,
           OpenSave(p) \/ (\E f \in BundleFiles : Name(p, f)) \/ CloseSave(p)
             \/ Unlock(p) \/ Unlink(p)
    PROVE  Inv'
<1> USE DEF Places, Trying, Working, Over
<1>1. CASE OpenSave(p)
  <2> DEFINE d == {"saving"} \cup IF Exists(p) THEN stage[p] ELSE {}
  <2>1. /\ pc[p] = "locked" /\ pc' = [pc EXCEPT ![p] = "saving"]
        /\ Stage(p, d) /\ UNCHANGED final
    BY <1>1 DEF OpenSave, Go
  <2>2. d \subseteq {"lock", "saving"}
    BY <2>1 DEF Inv, StageFine, Exists
  <2>3. stage'[p] = d /\ pc'[p] = "saving"
    BY <2>1, StageStep
  <2>4. StageFine(p)'
    BY <2>2, <2>3 DEF StageFine, StageFiles, LockFiles
  <2> QED
    BY <2>1, <2>4, StageStep, FinalKept, Stepped
<1>2. CASE \E f \in BundleFiles : Name(p, f)
  <2> PICK f \in BundleFiles : Name(p, f)
    BY <1>2
  <2> DEFINE d == stage[p] \cup {f}
  <2>1. pc[p] = "saving" /\ Exists(p) /\ Stage(p, d) /\ pc' = pc /\ UNCHANGED final
    BY DEF Name
  <2>2. pc' = [pc EXCEPT ![p] = "saving"]
    BY <2>1 DEF Inv, PlacesType, StageTypes
  <2>3. d \subseteq BundleFiles \cup {"lock", "saving"}
    BY <2>1 DEF Inv, StageFine, Exists
  <2>4. stage'[p] = d /\ pc'[p] = "saving"
    <3>1. "saving" \in Places /\ "saving" # "idle"
      OBVIOUS
    <3>2. Stage(p, d)
      BY <2>1
    <3> HIDE DEF d
    <3> QED
      BY <2>2, <3>1, <3>2, StageStep
  <2>5. StageFine(p)'
    BY <2>3, <2>4 DEF StageFine, StageFiles, LockFiles
  <2> QED
    BY <2>1, <2>2, <2>5, StageStep, FinalKept, Stepped
<1>3. CASE CloseSave(p)
  <2> DEFINE d == stage[p] \ {"saving"}
  <2>1. /\ pc[p] = "saving" /\ pc' = [pc EXCEPT ![p] = "saved"]
        /\ Exists(p) /\ BundleFiles \subseteq stage[p] /\ Stage(p, d) /\ UNCHANGED final
    BY <1>3 DEF CloseSave, Go
  <2>2. BundleFiles \subseteq d /\ d \subseteq BundleFiles \cup {"lock"}
    BY <2>1 DEF Inv, StageFine, Exists, BundleFiles
  <2>3. stage'[p] = d /\ pc'[p] = "saved"
    BY <2>1, StageStep
  <2>4. StageFine(p)'
    BY <2>2, <2>3 DEF StageFine, StageFiles, LockFiles
  <2> QED
    BY <2>1, <2>4, StageStep, FinalKept, Stepped
<1>4. CASE Unlock(p)
  <2>1. /\ pc[p] = "saved" /\ pc' = [pc EXCEPT ![p] = "unlocked"]
        /\ UNCHANGED <<stage, quiet, look>> /\ UNCHANGED final
    BY <1>4 DEF Unlock, Go, place
  <2>2. stage'[p] = stage[p] /\ pc'[p] = "unlocked"
    BY <2>1, QuietStep
  <2>3. StageFine(p)'
    BY <2>1, <2>2 DEF Inv, StageFine
  <2> QED
    BY <2>1, <2>3, QuietStep, FinalKept, Stepped
<1>5. CASE Unlink(p)
  <2> DEFINE d == stage[p] \ {"lock"}
  <2>1. /\ pc[p] = "unlocked" /\ pc' = [pc EXCEPT ![p] = "ready"] /\ UNCHANGED final
    BY <1>5 DEF Unlink, Go
  <2>2. CASE Exists(p) /\ "lock" \in stage[p]
    <3>1. Stage(p, d)
      BY <1>5, <2>2 DEF Unlink
    <3>2. d = BundleFiles
      BY <2>1, <2>2 DEF Inv, StageFine, Exists, BundleFiles
    <3>3. stage'[p] = BundleFiles /\ pc'[p] = "ready"
      BY <2>1, <3>1, <3>2, StageStep
    <3>4. StageFine(p)'
      BY <3>3 DEF StageFine, StageFiles
    <3> QED
      BY <2>1, <3>1, <3>4, StageStep, FinalKept, Stepped
  <2>3. CASE ~(Exists(p) /\ "lock" \in stage[p])
    <3>1. UNCHANGED <<stage, quiet, look>>
      BY <1>5, <2>3 DEF Unlink, place
    <3>2. stage[p] = None \/ stage[p] = BundleFiles
      BY <2>1, <2>3 DEF Inv, StageFine, Exists
    <3>3. stage'[p] = stage[p] /\ pc'[p] = "ready"
      BY <2>1, <3>1, QuietStep
    <3>4. StageFine(p)'
      BY <3>2, <3>3 DEF StageFine, StageFiles
    <3> QED
      BY <2>1, <3>1, <3>4, QuietStep, FinalKept, Stepped
  <2> QED
    BY <2>2, <2>3
<1> QED
  BY <1>1, <1>2, <1>3, <1>4, <1>5

\* Only the first rename gives the bundle its name.
LEMMA RenameStep ==
    ASSUME Inv, NEW p \in Publishers, Rename(p)
    PROVE  Inv'
<1> USE DEF Places, Trying, Working, Over
<1>1. Exists(p) /\ pc[p] = "ready"
  BY DEF Rename, Go
<1>2. CASE bundle = None
  <2>1. /\ pc' = [pc EXCEPT ![p] = "over"] /\ Stage(p, None)
        /\ bundle' = p /\ content' = stage[p]
    BY <1>2 DEF Rename, Go
  <2>2. /\ stage'[p] = None /\ StageTypes' /\ LookFine'
        /\ \A q \in Publishers \ {p} : stage'[q] = stage[q] /\ pc'[q] = pc[q]
    BY <2>1, StageStep
  <2>3. StageFine(p)'
    BY <2>2 DEF StageFine
  <2>4. bundle' \in Publishers \cup {None} /\ BundleFine'
    BY <1>1, <2>1, RankerAssumption DEF Inv, StageFine, Exists, BundleFine
  <2> QED
    BY <2>2, <2>3, <2>4, Stepped
<1>3. CASE bundle # None
  <2>1. /\ pc' = [pc EXCEPT ![p] = "leaving"]
        /\ UNCHANGED <<stage, quiet, look>> /\ UNCHANGED final
    BY <1>3 DEF Rename, Go, place
  <2>2. stage'[p] = stage[p] /\ pc'[p] = "leaving"
    BY <2>1, QuietStep
  <2>3. StageFine(p)'
    BY <2>2 DEF Inv, StageFine
  <2> QED
    BY <2>1, <2>3, QuietStep, FinalKept, Stepped
<1> QED
  BY <1>2, <1>3

\* A publisher that gives up may do so anywhere.
LEMMA LeaveSteps ==
    ASSUME Inv, NEW p \in Publishers,
           Fail(p) \/ Die(p) \/ Leave(p) \/ RemoveFile(p) \/ RemoveStage(p)
    PROVE  Inv'
<1> USE DEF Places, Trying, Working, Over
<1>1. CASE Fail(p) \/ Die(p) \/ Leave(p)
  <2>1. PICK s \in {"leaving", "removing", "over", "dead"} :
              /\ pc' = [pc EXCEPT ![p] = s]
              /\ UNCHANGED <<stage, quiet, look>> /\ UNCHANGED final
    BY <1>1 DEF Fail, Die, Leave, Go, place
  <2>2. pc[p] \in Trying \cup {"leaving", "removing"}
    BY <1>1 DEF Fail, Die, Leave, Go
  <2>3. stage'[p] = stage[p] /\ pc'[p] = s
    BY <2>1, QuietStep
  <2>4. StageFine(p)'
    BY <2>2, <2>3 DEF Inv, StageFine
  <2> QED
    BY <2>1, <2>4, QuietStep, FinalKept, Stepped
<1>2. CASE RemoveFile(p)
  <2>1. pc[p] = "removing" /\ pc' = pc /\ UNCHANGED final
    BY <1>2 DEF RemoveFile
  <2>2. pc' = [pc EXCEPT ![p] = "removing"]
    BY <2>1 DEF Inv, PlacesType, StageTypes
  <2>3. CASE Exists(p)
    <3> DEFINE d == stage[p] \ {First(stage[p])}
    <3>1. Stage(p, d)
      BY <1>2, <2>3 DEF RemoveFile
    <3>2. d \subseteq StageFiles
      BY <2>3 DEF Inv, StageFine, Exists
    <3> HIDE DEF d
    <3>3. stage'[p] = d /\ pc'[p] = "removing"
      BY <2>2, <3>1, StageStep
    <3>4. StageFine(p)'
      BY <3>2, <3>3 DEF StageFine
    <3> QED
      BY <2>1, <2>2, <3>1, <3>4, StageStep, FinalKept, Stepped
  <2>4. CASE ~Exists(p)
    <3>1. /\ UNCHANGED <<stage, quiet>>
          /\ look.left # {} /\ SetLook(look.at, look.left \ {First(look.left)}, FALSE)
      BY <1>2, <2>4 DEF RemoveFile, place
    <3>2. LookFine'
      BY <2>1, <3>1 DEF Inv, LookFine, SetLook, Claimed
    <3>3. StageFine(p)' /\ StageTypes'
      BY <2>1, <3>1 DEF Inv, PlacesType, StageTypes, StageFine
    <3> QED
      BY <2>1, <3>1, <3>2, <3>3, FinalKept, Stepped
  <2> QED
    BY <2>3, <2>4
<1>3. CASE RemoveStage(p)
  <2>1. pc' = [pc EXCEPT ![p] = "over"] /\ UNCHANGED final /\ pc[p] = "removing"
    BY <1>3 DEF RemoveStage, Go
  <2>2. CASE Exists(p)
    <3>1. Stage(p, None)
      BY <1>3, <2>2 DEF RemoveStage
    <3>2. stage'[p] = None
      BY <2>1, <3>1, StageStep
    <3>3. StageFine(p)'
      BY <3>2 DEF StageFine
    <3> QED
      BY <2>1, <3>1, <3>3, StageStep, FinalKept, Stepped
  <2>3. CASE ~Exists(p)
    <3>1. UNCHANGED <<stage, quiet, look>>
      BY <1>3, <2>3 DEF RemoveStage, place
    <3>2. stage'[p] = stage[p] /\ pc'[p] = "over"
      BY <2>1, <3>1, QuietStep
    <3>3. StageFine(p)'
      BY <2>1, <3>2 DEF Inv, StageFine
    <3> QED
      BY <2>1, <3>1, <3>3, QuietStep, FinalKept, Stepped
  <2> QED
    BY <2>2, <2>3
<1> QED
  BY <1>1, <1>2, <1>3

\* Maintenance touches no bundle and puts nothing into a stage: it takes the
\* directory away, or leaves it.
LEMMA SweepSteps ==
    ASSUME Inv, (\E p \in Publishers : See(p)) \/ Sweep \/ Crash \/ Tick
    PROVE  Inv'
<1>1. pc' = pc /\ UNCHANGED final
  BY DEF See, Sweep, Probe, SeeAgain, Claim, Recheck, Delete, Crash, Tick
<1>2. CASE Claim /\ Exists(look.stage)
  <2>1. look.at = "again" /\ look.stage \in Publishers /\ pc[look.stage] # "idle"
    BY <1>2 DEF Claim, Inv, LookFine
  <2> PICK p \in Publishers : p = look.stage
    BY <2>1
  <2>2. /\ stage' = [stage EXCEPT ![p] = None] /\ quiet' = [quiet EXCEPT ![p] = 0]
        /\ SetLook("claimed", stage[p], look.same)
    BY <1>2 DEF Claim
  <2>3. /\ stage'[p] = None /\ StageTypes'
        /\ \A q \in Publishers \ {p} : stage'[q] = stage[q] /\ pc'[q] = pc[q]
    BY <1>1, <2>1, <2>2, RankerAssumption DEF Inv, PlacesType, StageTypes
  <2>4. stage[p] \subseteq StageFiles
    BY <1>2, <2>1 DEF Inv, StageFine, Exists
  <2>5. LookFine'
    BY <1>1, <2>1, <2>2, <2>4 DEF Inv, LookFine, SetLook, Claimed, Steps
  <2>6. StageFine(p)'
    BY <2>3 DEF StageFine
  <2> QED
    BY <1>1, <2>3, <2>5, <2>6, FinalKept, Stepped
<1>3. CASE ~(Claim /\ Exists(look.stage))
  <2>1. stage' = stage /\ quiet' \in [Publishers -> 0 .. Age]
    BY <1>3, RankerAssumption
       DEF See, Sweep, Probe, SeeAgain, Claim, Recheck, Delete, Crash, Tick, place,
           Inv, PlacesType, StageTypes
  <2>2. LookFine'
    <3>1. CASE \E p \in Publishers : See(p)
      <4>1. PICK p \in Publishers : See(p)
        BY <3>1
      <4>2. pc'[p] # "idle"
        BY <1>1, <4>1 DEF See, Exists, Inv, StageFine
      <4>3. look' = [at |-> "seen", stage |-> p, left |-> {}, same |-> TRUE]
        BY <4>1 DEF See
      <4> QED
        BY <4>2, <4>3 DEF LookFine, Claimed, Steps
    <3>2. CASE look' = Away
      BY <3>2 DEF Away, LookFine, Claimed, Steps
    <3>3. CASE UNCHANGED look
      BY <1>1, <3>3 DEF Inv, LookFine, Claimed
    <3>4. CASE \/ look.at = "seen" /\ To("probed")
               \/ look.at = "probed" /\ To("again")
               \/ look.at = "claimed" /\ To("deleting")
      BY <1>1, <3>4 DEF To, SetLook, Inv, LookFine, Claimed, Steps
    <3>5. CASE /\ look.at = "deleting"
               /\ SetLook("deleting", look.left \ {First(look.left)}, look.same)
      BY <1>1, <3>5 DEF SetLook, Inv, LookFine, Claimed, Steps
    <3> QED
      BY <1>3, <3>1, <3>2, <3>3, <3>4, <3>5
         DEF Sweep, Probe, SeeAgain, Claim, Recheck, Delete, Crash, Tick, Block
  <2>3. \A p \in Publishers : StageFine(p)'
    BY <1>1, <2>1 DEF Inv, StageFine
  <2>4. StageTypes'
    BY <1>1, <2>1 DEF Inv, PlacesType, StageTypes
  <2> QED
    BY <1>1, <2>2, <2>3, <2>4, FinalKept DEF Inv, PlacesType
<1> QED
  BY <1>2, <1>3

LEMMA Preserved == Inv /\ [Next]_vars => Inv'
<1> SUFFICES ASSUME Inv, [Next]_vars PROVE Inv'
  OBVIOUS
<1>1. CASE \E p \in Publishers : Begin(p) \/ Publisher(p)
  BY <1>1, LockSteps, SaveSteps, RenameStep, LeaveSteps DEF Publisher
<1>2. CASE (\E p \in Publishers : See(p)) \/ Sweep \/ Crash \/ Tick
  BY <1>2, SweepSteps
<1>3. CASE UNCHANGED vars
  BY <1>3 DEF vars, place, final, Inv, PlacesType, StageTypes, StageFine, LookFine,
              Claimed, BundleFine
<1> QED
  BY <1>1, <1>2, <1>3 DEF Next

THEOREM Invariance == Spec => []Inv
BY InitInv, Preserved, PTL DEF Spec

\* What maintenance looks at or has claimed is some stage of a publisher that
\* began (publication.py:339), and the stage about to be renamed is whole or
\* gone (lambdamart.py:728), for any publishers and any minimum age.
THEOREM TypesHold == Spec => []TypeOK
<1>1. Inv => TypeOK
  <2> SUFFICES ASSUME Inv PROVE TypeOK
    OBVIOUS
  <2>1. \A p \in Publishers : /\ stage[p] = None \/ stage[p] \subseteq StageFiles
                              /\ pc[p] = "ready" => stage[p] \in {None, BundleFiles}
    BY DEF Inv, StageFine
  <2>2. content \subseteq StageFiles
    BY DEF Inv, BundleFine, StageFiles
  <2> QED
    BY <2>1, <2>2 DEF TypeOK, Inv, PlacesType, StageTypes, Places, LookFine, Steps
<1> QED
  BY <1>1, Invariance, PTL

-----------------------------------------------------------------------------
(* The abstract specification *)

\* Who finds the name free gives a whole bundle to it; nothing else touches it.
LEMMA OneStepShows ==
    Inv /\ [Next]_vars => [Reader!Next]_Reader!vars
<1> SUFFICES ASSUME Inv, [Next]_vars PROVE [Reader!Next]_Reader!vars
  OBVIOUS
<1>1. CASE UNCHANGED final
  BY <1>1 DEF final, Reader!vars
<1>2. CASE \E p \in Publishers : Rename(p) /\ ~UNCHANGED final
  <2>1. PICK p \in Publishers : Rename(p) /\ ~UNCHANGED final
    BY <1>2
  <2>2. pc[p] = "ready" /\ Exists(p) /\ bundle = None /\ bundle' = p /\ content' = stage[p]
    BY <2>1 DEF Rename, Go, final
  <2>3. content' = BundleFiles
    BY <2>2 DEF Inv, StageFine, Exists
  <2>4. Reader!Show(p)
    BY <2>2, <2>3, RankerAssumption DEF Reader!Show
  <2> QED
    BY <2>4 DEF Reader!Next
<1> QED
  BY <1>1, <1>2 DEF Next, Publisher, Begin, CreateLock, WriteLock, TakeLock, OpenSave,
     Name, CloseSave, Unlock, Unlink, Fail, Die, Leave, RemoveFile, RemoveStage,
     See, Sweep, Probe, SeeAgain, Claim, Recheck, Delete, Crash, Tick, vars

\* Publishers that race, die, lose their stages to maintenance and make them
\* again still show readers nothing or one whole bundle, for good
\* (lambdamart.py:728, publication.py:339).
THEOREM BundleImplemented == Spec => ImplementsOneBundle
<1>1. Init => Reader!Init
  BY RankerAssumption DEF Init, Reader!Init
<1> QED
  BY <1>1, OneStepShows, Invariance, PTL DEF Spec, ImplementsOneBundle, Reader!Spec
=============================================================================
