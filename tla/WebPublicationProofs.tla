------------------------ MODULE WebPublicationProofs ------------------------
(***************************************************************************)
(* Proofs about WebPublication, for any number of publications of any      *)
(* runs: while no live publisher leaves its workspace alone for as long as *)
(* the grace period (Punctual), maintenance takes apart the workspaces of  *)
(* dead publishers only, and readers see whole runs that disappear only    *)
(* when they have expired.  That no run is replaced, nor withdrawn before  *)
(* it has expired, holds without Punctual.                                 *)
(*                                                                         *)
(* What maintenance has planned to reclaim is old, so its publisher is     *)
(* dead and stays dead; so a publisher that has checked its stage still    *)
(* finds every file in it when it renames it.                              *)
(***************************************************************************)
EXTENDS WebPublication, TLAPS

Punctual == Patience < Grace

\* From the creation of its intent to its removal.
WithIntent == (Early \cup {"revalidate", "clean source", "clean ready", "clean intent"})
                 \ {"start", "claim", "intent"}

\* What a live publisher finds in its workspace.
Workspace(o) ==
    /\ pc[o] \in {"start", "claim", "clean control"} => tree[o] = {}
    /\ pc[o] \in WithIntent => "intent" \in tree[o]
    /\ pc[o] = "rename" => {"stage"} \cup Files \subseteq tree[o]
    /\ pc[o] \in {"revalidate", "clean source"} => tree[o] \cap ({"stage"} \cup Files) = {}
    /\ pc[o] = "clean ready" => tree[o] \subseteq {"op", "intent", "ready"}
    /\ pc[o] = "clean intent" => tree[o] \subseteq {"op", "intent"}
    /\ pc[o] \in {"intent", "clean op"} => tree[o] \subseteq {"op"}
    /\ tree[o] \subseteq {"op"} \/ "intent" \in tree[o]

\* Which of its receipts may be torn.
Receipts(o) ==
    /\ pc[o] = "writing intent" => torn[o] \subseteq {"intent"}
    /\ pc[o] = "writing ready" => torn[o] \subseteq {"ready"}
    /\ pc[o] \notin {"writing intent", "writing ready", "gone"} => torn[o] = {}

\* Its run directory once renamed.
RunDirectory(o) ==
    /\ pc[o] \in Early => final[o] = "none"
    /\ final[o] = "visible" => kept[o] = Files
    /\ final[o] = "tombstone" => o \in expired /\ (kept[o] # {} => "receipt" \in kept[o])

Young(o) == Live(o) /\ tree[o] # {} => quiet[o] <= Patience

PublicationFine(o) == Workspace(o) /\ Receipts(o) /\ RunDirectory(o) /\ Young(o)

\* What maintenance relies on while it works.
PlanSound ==
    /\ \A o \in DOMAIN plan : pc[o] = "gone" /\ torn[o] = {}
    /\ \A o \in due : o \in expired /\ final[o] # "none"
    /\ phase = "idle" => target = NoOp
    /\ phase = "reclaiming" /\ target # NoOp =>
         target \in DOMAIN plan /\ tree[target] = plan[target]
    /\ phase = "withdrawing" /\ target # NoOp => final[target] = "tombstone"

Inv ==
    /\ TypeOK
    /\ PlanSound
    /\ \A o \in Ops : PublicationFine(o)

\* The invariant holds at the start.
LEMMA InitInv == Init => Inv
  BY PublicationAssumption DEF PublicationAssumption, Init, Inv, TypeOK, PlanSound,
     PublicationFine, Workspace, Receipts, RunDirectory, Young, Live, WithIntent, Early,
     Late, Files, Entries

-----------------------------------------------------------------------------
(* Publishers *)

\* Only o's own entries of the publication's state change.
OnlyAt(o) ==
    /\ \A p \in Ops \ {o} : /\ pc'[p] = pc[p]
                            /\ tree'[p] = tree[p]
                            /\ torn'[p] = torn[p]
                            /\ quiet'[p] = quiet[p]
                            /\ final'[p] = final[p]
                            /\ kept'[p] = kept[p]
    /\ UNCHANGED <<expired, maintenance>>

\* A publisher that is not dead is in no plan, and its step leaves the others and
\* maintenance as they are.
LEMMA Frame ==
    ASSUME Inv, NEW o \in Ops, TypeOK', OnlyAt(o), pc[o] # "gone",
           final[o] = "none" \/ final'[o] = final[o],
           PublicationFine(o)'
    PROVE  Inv'
<1>1. ASSUME NEW p \in Ops PROVE PublicationFine(p)'
  <2>1. CASE p = o
    BY <2>1
  <2>2. CASE p # o
    <3>1. /\ pc'[p] = pc[p] /\ tree'[p] = tree[p] /\ torn'[p] = torn[p]
          /\ quiet'[p] = quiet[p] /\ final'[p] = final[p] /\ kept'[p] = kept[p]
          /\ expired' = expired
      BY <2>2 DEF OnlyAt
    <3>2. Workspace(p) /\ Receipts(p) /\ RunDirectory(p) /\ Young(p)
      BY DEF Inv, PublicationFine
    <3>3. Workspace(p)'
      BY <3>1, <3>2 DEF Workspace
    <3>4. Receipts(p)' /\ RunDirectory(p)'
      BY <3>1, <3>2 DEF Receipts, RunDirectory
    <3>5. Young(p)'
      BY <3>1, <3>2 DEF Young, Live
    <3> QED
      BY <3>3, <3>4, <3>5 DEF PublicationFine
  <2> QED
    BY <2>1, <2>2
<1>2. o \notin DOMAIN plan
  BY DEF Inv, PlanSound
<1>3. PlanSound'
  BY <1>2, PublicationAssumption
  DEF Inv, PlanSound, OnlyAt, maintenance, TypeOK, PublicationAssumption
<1> QED
  BY <1>1, <1>3 DEF Inv

\* What the parts of a step do to the functions they change.
LEMMA Advances ==
    ASSUME TypeOK, NEW o \in Ops, NEW from, NEW to \in Early \cup Late, Advance(o, from, to)
    PROVE  /\ pc[o] = from
           /\ pc' \in [Ops -> Early \cup Late]
           /\ pc'[o] = to
           /\ \A p \in Ops \ {o} : pc'[p] = pc[p]
  BY DEF TypeOK, Advance

LEMMA Touches ==
    ASSUME TypeOK, NEW o \in Ops, Touch(o)
    PROVE  /\ quiet' \in [Ops -> 0 .. Grace]
           /\ quiet'[o] = 0
           /\ \A p \in Ops \ {o} : quiet'[p] = quiet[p]
  BY PublicationAssumption DEF TypeOK, Touch, PublicationAssumption

LEMMA Adds ==
    ASSUME TypeOK, NEW o \in Ops, NEW S \in SUBSET Entries, Add(o, S)
    PROVE  /\ tree' \in [Ops -> SUBSET Entries]
           /\ tree'[o] = tree[o] \cup S
           /\ \A p \in Ops \ {o} : tree'[p] = tree[p]
           /\ Touch(o)
  BY DEF TypeOK, Add

LEMMA Removes ==
    ASSUME TypeOK, NEW o \in Ops, NEW S, Remove(o, S)
    PROVE  /\ tree' \in [Ops -> SUBSET Entries]
           /\ tree'[o] = tree[o] \ S
           /\ \A p \in Ops \ {o} : tree'[p] = tree[p]
           /\ Touch(o)
  BY DEF TypeOK, Remove

\* Each publisher step keeps the types, its own part of the invariant, and the rest.
LEMMA PublisherInv ==
    ASSUME Inv, NEW o \in Ops, Publisher(o) \/ Begin(o)
    PROVE  Inv'
<1>0. TypeOK /\ PublicationFine(o)
  BY DEF Inv
<1>1. CASE Begin(o)
  <2>1. /\ pc[o] = "start" /\ pc'[o] = "claim"
        /\ pc' \in [Ops -> Early \cup Late]
        /\ \A p \in Ops \ {o} : pc'[p] = pc[p]
    <3>1. Advance(o, "start", "claim") /\ "claim" \in Early \cup Late
      BY <1>1 DEF Begin, Early, Late
    <3> QED
      BY <1>0, <3>1, Advances
  <2>2. UNCHANGED <<tree, quiet>> /\ tree' \in [Ops -> SUBSET Entries]
        /\ quiet' \in [Ops -> 0 .. Grace]
    BY <1>0, <1>1 DEF Begin, publication, TypeOK
  <2>3. UNCHANGED <<torn, final, kept>>
    BY <1>1 DEF Begin, publication
  <2>4. control' = "present" /\ UNCHANGED <<expired, phase, plan, due, target, crashes>>
    BY <1>1 DEF Begin, publication, maintenance
  <2>5. OnlyAt(o) /\ pc[o] # "gone"
    BY <2>1, <2>2, <2>3, <2>4 DEF OnlyAt, maintenance
  <2>6. \A p \in Ops : torn'[p] \subseteq tree'[p] /\ (tree'[p] # {} => control' = "present")
    BY <1>0, <2>1, <2>2, <2>3, <2>4 DEF TypeOK, Begin, PublicationFine, Receipts
  <2>7. TypeOK'
    BY <1>0, <2>1, <2>2, <2>3, <2>4, <2>6 DEF TypeOK
  <2>8. Workspace(o)'
    BY <1>0, <1>1, <2>1, <2>2 DEF Begin, PublicationFine, Workspace, WithIntent, Early, Files
  <2>9. Receipts(o)'
    BY <1>0, <2>1, <2>3 DEF PublicationFine, Receipts
  <2>10. RunDirectory(o)'
    BY <1>0, <2>1, <2>3, <2>4 DEF PublicationFine, RunDirectory, Early
  <2>11. Young(o)'
    BY <1>0, <2>1, <2>2 DEF PublicationFine, Young, Live, Workspace
  <2>12. final[o] = "none" \/ final'[o] = final[o]
    BY <1>0, <2>1, <2>3
  <2> QED
    BY <2>5, <2>7, <2>8, <2>9, <2>10, <2>11, <2>12, Frame DEF PublicationFine
<1>2. CASE ClaimOperation(o)
  <2>1. /\ pc[o] = "claim" /\ pc'[o] = "intent"
        /\ pc' \in [Ops -> Early \cup Late]
        /\ \A p \in Ops \ {o} : pc'[p] = pc[p]
    <3>1. Advance(o, "claim", "intent") /\ "intent" \in Early \cup Late
      BY <1>2 DEF ClaimOperation, Early, Late
    <3> QED
      BY <1>0, <3>1, Advances
  <2>2. /\ tree'[o] = tree[o] \cup {"op"} /\ quiet'[o] = 0
        /\ tree' \in [Ops -> SUBSET Entries] /\ quiet' \in [Ops -> 0 .. Grace]
        /\ \A p \in Ops \ {o} : tree'[p] = tree[p] /\ quiet'[p] = quiet[p]
    <3>1. Add(o, {"op"})
      BY <1>2 DEF ClaimOperation
    <3>2. {"op"} \in SUBSET Entries
      BY DEF Entries, Files
    <3> QED
      BY <1>0, <3>1, <3>2, Adds, Touches
  <2>3. UNCHANGED <<torn, final, kept>>
    BY <1>2 DEF ClaimOperation, publication
  <2>4. UNCHANGED control /\ UNCHANGED <<expired, phase, plan, due, target, crashes>>
    BY <1>2 DEF ClaimOperation, publication, maintenance
  <2>5. OnlyAt(o) /\ pc[o] # "gone"
    BY <2>1, <2>2, <2>3, <2>4 DEF OnlyAt, maintenance
  <2>6. \A p \in Ops : torn'[p] \subseteq tree'[p] /\ (tree'[p] # {} => control' = "present")
    BY <1>0, <1>2, <2>1, <2>2, <2>3, <2>4 DEF TypeOK, ClaimOperation, PublicationFine, Receipts
  <2>7. TypeOK'
    BY <1>0, <2>1, <2>2, <2>3, <2>4, <2>6 DEF TypeOK
  <2>8. Workspace(o)'
    BY <1>0, <1>2, <2>1, <2>2 DEF ClaimOperation, PublicationFine, Workspace, WithIntent, Early, Files
  <2>9. Receipts(o)'
    BY <1>0, <2>1, <2>3 DEF PublicationFine, Receipts
  <2>10. RunDirectory(o)'
    BY <1>0, <2>1, <2>3, <2>4 DEF PublicationFine, RunDirectory, Early
  <2>11. Young(o)'
    BY <2>2, PublicationAssumption DEF Young, PublicationAssumption
  <2>12. final[o] = "none" \/ final'[o] = final[o]
    BY <1>0, <2>1, <2>3
  <2> QED
    BY <2>5, <2>7, <2>8, <2>9, <2>10, <2>11, <2>12, Frame DEF PublicationFine
<1>3. CASE OpenReceipt(o, "intent", "intent", "writing intent")
  <2>1. /\ pc[o] = "intent" /\ pc'[o] = "writing intent"
        /\ pc' \in [Ops -> Early \cup Late]
        /\ \A p \in Ops \ {o} : pc'[p] = pc[p]
    <3>1. Advance(o, "intent", "writing intent") /\ "writing intent" \in Early \cup Late
      BY <1>3 DEF OpenReceipt, Early, Late
    <3> QED
      BY <1>0, <3>1, Advances
  <2>2. /\ tree'[o] = tree[o] \cup {"intent"} /\ quiet'[o] = 0
        /\ tree' \in [Ops -> SUBSET Entries] /\ quiet' \in [Ops -> 0 .. Grace]
        /\ \A p \in Ops \ {o} : tree'[p] = tree[p] /\ quiet'[p] = quiet[p]
    <3>1. Add(o, {"intent"})
      BY <1>3 DEF OpenReceipt
    <3>2. {"intent"} \in SUBSET Entries
      BY DEF Entries, Files
    <3> QED
      BY <1>0, <3>1, <3>2, Adds, Touches
  <2>3. /\ torn'[o] = torn[o] \cup {"intent"} /\ torn' \in [Ops -> SUBSET {"intent", "ready"}]
        /\ \A p \in Ops \ {o} : torn'[p] = torn[p]
        /\ UNCHANGED <<final, kept>>
    BY <1>0, <1>3 DEF OpenReceipt, TypeOK
  <2>4. UNCHANGED control /\ UNCHANGED <<expired, phase, plan, due, target, crashes>>
    BY <1>3 DEF OpenReceipt, publication, maintenance
  <2>5. OnlyAt(o) /\ pc[o] # "gone"
    BY <2>1, <2>2, <2>3, <2>4 DEF OnlyAt, maintenance
  <2>6. \A p \in Ops : torn'[p] \subseteq tree'[p] /\ (tree'[p] # {} => control' = "present")
    BY <1>0, <1>3, <2>1, <2>2, <2>3, <2>4 DEF TypeOK, OpenReceipt, PublicationFine, Receipts
  <2>7. TypeOK'
    BY <1>0, <2>1, <2>2, <2>3, <2>4, <2>6 DEF TypeOK
  <2>8. Workspace(o)'
    BY <1>0, <1>3, <2>1, <2>2 DEF OpenReceipt, PublicationFine, Workspace, WithIntent, Early, Files
  <2>9. Receipts(o)'
    BY <1>0, <2>1, <2>3 DEF PublicationFine, Receipts
  <2>10. RunDirectory(o)'
    BY <1>0, <2>1, <2>3, <2>4 DEF PublicationFine, RunDirectory, Early
  <2>11. Young(o)'
    BY <2>2, PublicationAssumption DEF Young, PublicationAssumption
  <2>12. final[o] = "none" \/ final'[o] = final[o]
    BY <1>0, <2>1, <2>3
  <2> QED
    BY <2>5, <2>7, <2>8, <2>9, <2>10, <2>11, <2>12, Frame DEF PublicationFine
<1>4. CASE WriteReceipt(o, "intent", "writing intent", "stage")
  <2>1. /\ pc[o] = "writing intent" /\ pc'[o] = "stage"
        /\ pc' \in [Ops -> Early \cup Late]
        /\ \A p \in Ops \ {o} : pc'[p] = pc[p]
    <3>1. Advance(o, "writing intent", "stage") /\ "stage" \in Early \cup Late
      BY <1>4 DEF WriteReceipt, Early, Late
    <3> QED
      BY <1>0, <3>1, Advances
  <2>2. /\ UNCHANGED tree /\ quiet'[o] = 0
        /\ tree' \in [Ops -> SUBSET Entries] /\ quiet' \in [Ops -> 0 .. Grace]
        /\ \A p \in Ops \ {o} : quiet'[p] = quiet[p]
    BY <1>0, <1>4, Touches DEF WriteReceipt, TypeOK
  <2>3. /\ torn'[o] = torn[o] \ {"intent"} /\ torn' \in [Ops -> SUBSET {"intent", "ready"}]
        /\ \A p \in Ops \ {o} : torn'[p] = torn[p]
        /\ UNCHANGED <<final, kept>>
    BY <1>0, <1>4 DEF WriteReceipt, TypeOK
  <2>4. UNCHANGED control /\ UNCHANGED <<expired, phase, plan, due, target, crashes>>
    BY <1>4 DEF WriteReceipt, publication, maintenance
  <2>5. OnlyAt(o) /\ pc[o] # "gone"
    BY <2>1, <2>2, <2>3, <2>4 DEF OnlyAt, maintenance
  <2>6. \A p \in Ops : torn'[p] \subseteq tree'[p] /\ (tree'[p] # {} => control' = "present")
    BY <1>0, <1>4, <2>1, <2>2, <2>3, <2>4 DEF TypeOK, WriteReceipt, PublicationFine, Receipts
  <2>7. TypeOK'
    BY <1>0, <2>1, <2>2, <2>3, <2>4, <2>6 DEF TypeOK
  <2>8. Workspace(o)'
    BY <1>0, <1>4, <2>1, <2>2 DEF WriteReceipt, PublicationFine, Workspace, WithIntent, Early, Files
  <2>9. Receipts(o)'
    BY <1>0, <2>1, <2>3 DEF PublicationFine, Receipts
  <2>10. RunDirectory(o)'
    BY <1>0, <2>1, <2>3, <2>4 DEF PublicationFine, RunDirectory, Early
  <2>11. Young(o)'
    BY <2>2, PublicationAssumption DEF Young, PublicationAssumption
  <2>12. final[o] = "none" \/ final'[o] = final[o]
    BY <1>0, <2>1, <2>3
  <2> QED
    BY <2>5, <2>7, <2>8, <2>9, <2>10, <2>11, <2>12, Frame DEF PublicationFine
<1>5. CASE Stage(o, {"op", "source", "stage"}, "stage", "data")
  <2>1. /\ pc[o] = "stage" /\ pc'[o] = "data"
        /\ pc' \in [Ops -> Early \cup Late]
        /\ \A p \in Ops \ {o} : pc'[p] = pc[p]
    <3>1. Advance(o, "stage", "data") /\ "data" \in Early \cup Late
      BY <1>5 DEF Stage, Early, Late
    <3> QED
      BY <1>0, <3>1, Advances
  <2>2. /\ tree'[o] = tree[o] \cup {"op", "source", "stage"} /\ quiet'[o] = 0
        /\ tree' \in [Ops -> SUBSET Entries] /\ quiet' \in [Ops -> 0 .. Grace]
        /\ \A p \in Ops \ {o} : tree'[p] = tree[p] /\ quiet'[p] = quiet[p]
    <3>1. Add(o, {"op", "source", "stage"})
      BY <1>5 DEF Stage
    <3>2. {"op", "source", "stage"} \in SUBSET Entries
      BY DEF Entries, Files
    <3> QED
      BY <1>0, <3>1, <3>2, Adds, Touches
  <2>3. UNCHANGED <<torn, final, kept>>
    BY <1>5 DEF Stage, publication
  <2>4. control' = "present" /\ UNCHANGED <<expired, phase, plan, due, target, crashes>>
    BY <1>5 DEF Stage, publication, maintenance
  <2>5. OnlyAt(o) /\ pc[o] # "gone"
    BY <2>1, <2>2, <2>3, <2>4 DEF OnlyAt, maintenance
  <2>6. \A p \in Ops : torn'[p] \subseteq tree'[p] /\ (tree'[p] # {} => control' = "present")
    BY <1>0, <2>1, <2>2, <2>3, <2>4 DEF TypeOK, Stage, PublicationFine, Receipts
  <2>7. TypeOK'
    BY <1>0, <2>1, <2>2, <2>3, <2>4, <2>6 DEF TypeOK
  <2>8. Workspace(o)'
    BY <1>0, <1>5, <2>1, <2>2 DEF Stage, PublicationFine, Workspace, WithIntent, Early, Files
  <2>9. Receipts(o)'
    BY <1>0, <2>1, <2>3 DEF PublicationFine, Receipts
  <2>10. RunDirectory(o)'
    BY <1>0, <2>1, <2>3, <2>4 DEF PublicationFine, RunDirectory, Early
  <2>11. Young(o)'
    BY <2>2, PublicationAssumption DEF Young, PublicationAssumption
  <2>12. final[o] = "none" \/ final'[o] = final[o]
    BY <1>0, <2>1, <2>3
  <2> QED
    BY <2>5, <2>7, <2>8, <2>9, <2>10, <2>11, <2>12, Frame DEF PublicationFine
<1>6. CASE Stage(o, {"op", "source", "stage", "data"}, "data", "receipt")
  <2>1. /\ pc[o] = "data" /\ pc'[o] = "receipt"
        /\ pc' \in [Ops -> Early \cup Late]
        /\ \A p \in Ops \ {o} : pc'[p] = pc[p]
    <3>1. Advance(o, "data", "receipt") /\ "receipt" \in Early \cup Late
      BY <1>6 DEF Stage, Early, Late
    <3> QED
      BY <1>0, <3>1, Advances
  <2>2. /\ tree'[o] = tree[o] \cup {"op", "source", "stage", "data"} /\ quiet'[o] = 0
        /\ tree' \in [Ops -> SUBSET Entries] /\ quiet' \in [Ops -> 0 .. Grace]
        /\ \A p \in Ops \ {o} : tree'[p] = tree[p] /\ quiet'[p] = quiet[p]
    <3>1. Add(o, {"op", "source", "stage", "data"})
      BY <1>6 DEF Stage
    <3>2. {"op", "source", "stage", "data"} \in SUBSET Entries
      BY DEF Entries, Files
    <3> QED
      BY <1>0, <3>1, <3>2, Adds, Touches
  <2>3. UNCHANGED <<torn, final, kept>>
    BY <1>6 DEF Stage, publication
  <2>4. control' = "present" /\ UNCHANGED <<expired, phase, plan, due, target, crashes>>
    BY <1>6 DEF Stage, publication, maintenance
  <2>5. OnlyAt(o) /\ pc[o] # "gone"
    BY <2>1, <2>2, <2>3, <2>4 DEF OnlyAt, maintenance
  <2>6. \A p \in Ops : torn'[p] \subseteq tree'[p] /\ (tree'[p] # {} => control' = "present")
    BY <1>0, <2>1, <2>2, <2>3, <2>4 DEF TypeOK, Stage, PublicationFine, Receipts
  <2>7. TypeOK'
    BY <1>0, <2>1, <2>2, <2>3, <2>4, <2>6 DEF TypeOK
  <2>8. Workspace(o)'
    BY <1>0, <1>6, <2>1, <2>2 DEF Stage, PublicationFine, Workspace, WithIntent, Early, Files
  <2>9. Receipts(o)'
    BY <1>0, <2>1, <2>3 DEF PublicationFine, Receipts
  <2>10. RunDirectory(o)'
    BY <1>0, <2>1, <2>3, <2>4 DEF PublicationFine, RunDirectory, Early
  <2>11. Young(o)'
    BY <2>2, PublicationAssumption DEF Young, PublicationAssumption
  <2>12. final[o] = "none" \/ final'[o] = final[o]
    BY <1>0, <2>1, <2>3
  <2> QED
    BY <2>5, <2>7, <2>8, <2>9, <2>10, <2>11, <2>12, Frame DEF PublicationFine
<1>7. CASE WriteRunReceipt(o)
  <2>1. /\ pc[o] = "receipt" /\ pc'[o] = "seal"
        /\ pc' \in [Ops -> Early \cup Late]
        /\ \A p \in Ops \ {o} : pc'[p] = pc[p]
    <3>1. Advance(o, "receipt", "seal") /\ "seal" \in Early \cup Late
      BY <1>7 DEF WriteRunReceipt, Early, Late
    <3> QED
      BY <1>0, <3>1, Advances
  <2>2. /\ tree'[o] = tree[o] \cup {"receipt"} /\ quiet'[o] = 0
        /\ tree' \in [Ops -> SUBSET Entries] /\ quiet' \in [Ops -> 0 .. Grace]
        /\ \A p \in Ops \ {o} : tree'[p] = tree[p] /\ quiet'[p] = quiet[p]
    <3>1. Add(o, {"receipt"})
      BY <1>7 DEF WriteRunReceipt
    <3>2. {"receipt"} \in SUBSET Entries
      BY DEF Entries, Files
    <3> QED
      BY <1>0, <3>1, <3>2, Adds, Touches
  <2>3. UNCHANGED <<torn, final, kept>>
    BY <1>7 DEF WriteRunReceipt, publication
  <2>4. UNCHANGED control /\ UNCHANGED <<expired, phase, plan, due, target, crashes>>
    BY <1>7 DEF WriteRunReceipt, publication, maintenance
  <2>5. OnlyAt(o) /\ pc[o] # "gone"
    BY <2>1, <2>2, <2>3, <2>4 DEF OnlyAt, maintenance
  <2>6. \A p \in Ops : torn'[p] \subseteq tree'[p] /\ (tree'[p] # {} => control' = "present")
    BY <1>0, <1>7, <2>1, <2>2, <2>3, <2>4 DEF TypeOK, WriteRunReceipt, PublicationFine, Receipts
  <2>7. TypeOK'
    BY <1>0, <2>1, <2>2, <2>3, <2>4, <2>6 DEF TypeOK
  <2>8. Workspace(o)'
    BY <1>0, <1>7, <2>1, <2>2 DEF WriteRunReceipt, PublicationFine, Workspace, WithIntent, Early, Files
  <2>9. Receipts(o)'
    BY <1>0, <2>1, <2>3 DEF PublicationFine, Receipts
  <2>10. RunDirectory(o)'
    BY <1>0, <2>1, <2>3, <2>4 DEF PublicationFine, RunDirectory, Early
  <2>11. Young(o)'
    BY <2>2, PublicationAssumption DEF Young, PublicationAssumption
  <2>12. final[o] = "none" \/ final'[o] = final[o]
    BY <1>0, <2>1, <2>3
  <2> QED
    BY <2>5, <2>7, <2>8, <2>9, <2>10, <2>11, <2>12, Frame DEF PublicationFine
<1>8. CASE Check(o, {"intent"}, "seal", "ready")
  <2>1. /\ pc[o] = "seal" /\ pc'[o] = "ready"
        /\ pc' \in [Ops -> Early \cup Late]
        /\ \A p \in Ops \ {o} : pc'[p] = pc[p]
    <3>1. Advance(o, "seal", "ready") /\ "ready" \in Early \cup Late
      BY <1>8 DEF Check, Early, Late
    <3> QED
      BY <1>0, <3>1, Advances
  <2>2. UNCHANGED <<tree, quiet>> /\ tree' \in [Ops -> SUBSET Entries]
        /\ quiet' \in [Ops -> 0 .. Grace]
    BY <1>0, <1>8 DEF Check, publication, TypeOK
  <2>3. UNCHANGED <<torn, final, kept>>
    BY <1>8 DEF Check, publication
  <2>4. UNCHANGED control /\ UNCHANGED <<expired, phase, plan, due, target, crashes>>
    BY <1>8 DEF Check, publication, maintenance
  <2>5. OnlyAt(o) /\ pc[o] # "gone"
    BY <2>1, <2>2, <2>3, <2>4 DEF OnlyAt, maintenance
  <2>6. \A p \in Ops : torn'[p] \subseteq tree'[p] /\ (tree'[p] # {} => control' = "present")
    BY <1>0, <2>1, <2>2, <2>3, <2>4 DEF TypeOK, Check, PublicationFine, Receipts
  <2>7. TypeOK'
    BY <1>0, <2>1, <2>2, <2>3, <2>4, <2>6 DEF TypeOK
  <2>8. Workspace(o)'
    BY <1>0, <1>8, <2>1, <2>2 DEF Check, PublicationFine, Workspace, WithIntent, Early, Files, Sound
  <2>9. Receipts(o)'
    BY <1>0, <2>1, <2>3 DEF PublicationFine, Receipts
  <2>10. RunDirectory(o)'
    BY <1>0, <2>1, <2>3, <2>4 DEF PublicationFine, RunDirectory, Early
  <2>11. Young(o)'
    BY <1>0, <2>1, <2>2 DEF PublicationFine, Young, Live
  <2>12. final[o] = "none" \/ final'[o] = final[o]
    BY <1>0, <2>1, <2>3
  <2> QED
    BY <2>5, <2>7, <2>8, <2>9, <2>10, <2>11, <2>12, Frame DEF PublicationFine
<1>9. CASE OpenReceipt(o, "ready", "ready", "writing ready")
  <2>1. /\ pc[o] = "ready" /\ pc'[o] = "writing ready"
        /\ pc' \in [Ops -> Early \cup Late]
        /\ \A p \in Ops \ {o} : pc'[p] = pc[p]
    <3>1. Advance(o, "ready", "writing ready") /\ "writing ready" \in Early \cup Late
      BY <1>9 DEF OpenReceipt, Early, Late
    <3> QED
      BY <1>0, <3>1, Advances
  <2>2. /\ tree'[o] = tree[o] \cup {"ready"} /\ quiet'[o] = 0
        /\ tree' \in [Ops -> SUBSET Entries] /\ quiet' \in [Ops -> 0 .. Grace]
        /\ \A p \in Ops \ {o} : tree'[p] = tree[p] /\ quiet'[p] = quiet[p]
    <3>1. Add(o, {"ready"})
      BY <1>9 DEF OpenReceipt
    <3>2. {"ready"} \in SUBSET Entries
      BY DEF Entries, Files
    <3> QED
      BY <1>0, <3>1, <3>2, Adds, Touches
  <2>3. /\ torn'[o] = torn[o] \cup {"ready"} /\ torn' \in [Ops -> SUBSET {"intent", "ready"}]
        /\ \A p \in Ops \ {o} : torn'[p] = torn[p]
        /\ UNCHANGED <<final, kept>>
    BY <1>0, <1>9 DEF OpenReceipt, TypeOK
  <2>4. UNCHANGED control /\ UNCHANGED <<expired, phase, plan, due, target, crashes>>
    BY <1>9 DEF OpenReceipt, publication, maintenance
  <2>5. OnlyAt(o) /\ pc[o] # "gone"
    BY <2>1, <2>2, <2>3, <2>4 DEF OnlyAt, maintenance
  <2>6. \A p \in Ops : torn'[p] \subseteq tree'[p] /\ (tree'[p] # {} => control' = "present")
    BY <1>0, <1>9, <2>1, <2>2, <2>3, <2>4 DEF TypeOK, OpenReceipt, PublicationFine, Receipts
  <2>7. TypeOK'
    BY <1>0, <2>1, <2>2, <2>3, <2>4, <2>6 DEF TypeOK
  <2>8. Workspace(o)'
    BY <1>0, <1>9, <2>1, <2>2 DEF OpenReceipt, PublicationFine, Workspace, WithIntent, Early, Files
  <2>9. Receipts(o)'
    BY <1>0, <2>1, <2>3 DEF PublicationFine, Receipts
  <2>10. RunDirectory(o)'
    BY <1>0, <2>1, <2>3, <2>4 DEF PublicationFine, RunDirectory, Early
  <2>11. Young(o)'
    BY <2>2, PublicationAssumption DEF Young, PublicationAssumption
  <2>12. final[o] = "none" \/ final'[o] = final[o]
    BY <1>0, <2>1, <2>3
  <2> QED
    BY <2>5, <2>7, <2>8, <2>9, <2>10, <2>11, <2>12, Frame DEF PublicationFine
<1>10. CASE WriteReceipt(o, "ready", "writing ready", "publish")
  <2>1. /\ pc[o] = "writing ready" /\ pc'[o] = "publish"
        /\ pc' \in [Ops -> Early \cup Late]
        /\ \A p \in Ops \ {o} : pc'[p] = pc[p]
    <3>1. Advance(o, "writing ready", "publish") /\ "publish" \in Early \cup Late
      BY <1>10 DEF WriteReceipt, Early, Late
    <3> QED
      BY <1>0, <3>1, Advances
  <2>2. /\ UNCHANGED tree /\ quiet'[o] = 0
        /\ tree' \in [Ops -> SUBSET Entries] /\ quiet' \in [Ops -> 0 .. Grace]
        /\ \A p \in Ops \ {o} : quiet'[p] = quiet[p]
    BY <1>0, <1>10, Touches DEF WriteReceipt, TypeOK
  <2>3. /\ torn'[o] = torn[o] \ {"ready"} /\ torn' \in [Ops -> SUBSET {"intent", "ready"}]
        /\ \A p \in Ops \ {o} : torn'[p] = torn[p]
        /\ UNCHANGED <<final, kept>>
    BY <1>0, <1>10 DEF WriteReceipt, TypeOK
  <2>4. UNCHANGED control /\ UNCHANGED <<expired, phase, plan, due, target, crashes>>
    BY <1>10 DEF WriteReceipt, publication, maintenance
  <2>5. OnlyAt(o) /\ pc[o] # "gone"
    BY <2>1, <2>2, <2>3, <2>4 DEF OnlyAt, maintenance
  <2>6. \A p \in Ops : torn'[p] \subseteq tree'[p] /\ (tree'[p] # {} => control' = "present")
    BY <1>0, <1>10, <2>1, <2>2, <2>3, <2>4 DEF TypeOK, WriteReceipt, PublicationFine, Receipts
  <2>7. TypeOK'
    BY <1>0, <2>1, <2>2, <2>3, <2>4, <2>6 DEF TypeOK
  <2>8. Workspace(o)'
    BY <1>0, <1>10, <2>1, <2>2 DEF WriteReceipt, PublicationFine, Workspace, WithIntent, Early, Files
  <2>9. Receipts(o)'
    BY <1>0, <2>1, <2>3 DEF PublicationFine, Receipts
  <2>10. RunDirectory(o)'
    BY <1>0, <2>1, <2>3, <2>4 DEF PublicationFine, RunDirectory, Early
  <2>11. Young(o)'
    BY <2>2, PublicationAssumption DEF Young, PublicationAssumption
  <2>12. final[o] = "none" \/ final'[o] = final[o]
    BY <1>0, <2>1, <2>3
  <2> QED
    BY <2>5, <2>7, <2>8, <2>9, <2>10, <2>11, <2>12, Frame DEF PublicationFine
<1>11. CASE Check(o, {"intent", "ready"}, "publish", "rename")
  <2>1. /\ pc[o] = "publish" /\ pc'[o] = "rename"
        /\ pc' \in [Ops -> Early \cup Late]
        /\ \A p \in Ops \ {o} : pc'[p] = pc[p]
    <3>1. Advance(o, "publish", "rename") /\ "rename" \in Early \cup Late
      BY <1>11 DEF Check, Early, Late
    <3> QED
      BY <1>0, <3>1, Advances
  <2>2. UNCHANGED <<tree, quiet>> /\ tree' \in [Ops -> SUBSET Entries]
        /\ quiet' \in [Ops -> 0 .. Grace]
    BY <1>0, <1>11 DEF Check, publication, TypeOK
  <2>3. UNCHANGED <<torn, final, kept>>
    BY <1>11 DEF Check, publication
  <2>4. UNCHANGED control /\ UNCHANGED <<expired, phase, plan, due, target, crashes>>
    BY <1>11 DEF Check, publication, maintenance
  <2>5. OnlyAt(o) /\ pc[o] # "gone"
    BY <2>1, <2>2, <2>3, <2>4 DEF OnlyAt, maintenance
  <2>6. \A p \in Ops : torn'[p] \subseteq tree'[p] /\ (tree'[p] # {} => control' = "present")
    BY <1>0, <2>1, <2>2, <2>3, <2>4 DEF TypeOK, Check, PublicationFine, Receipts
  <2>7. TypeOK'
    BY <1>0, <2>1, <2>2, <2>3, <2>4, <2>6 DEF TypeOK
  <2>8. Workspace(o)'
    BY <1>0, <1>11, <2>1, <2>2 DEF Check, PublicationFine, Workspace, WithIntent, Early, Files, Sound
  <2>9. Receipts(o)'
    BY <1>0, <2>1, <2>3 DEF PublicationFine, Receipts
  <2>10. RunDirectory(o)'
    BY <1>0, <2>1, <2>3, <2>4 DEF PublicationFine, RunDirectory, Early
  <2>11. Young(o)'
    BY <1>0, <2>1, <2>2 DEF PublicationFine, Young, Live
  <2>12. final[o] = "none" \/ final'[o] = final[o]
    BY <1>0, <2>1, <2>3
  <2> QED
    BY <2>5, <2>7, <2>8, <2>9, <2>10, <2>11, <2>12, Frame DEF PublicationFine
<1>12. CASE Publish(o)
  <2>1. /\ pc[o] = "rename" /\ pc'[o] = "revalidate"
        /\ pc' \in [Ops -> Early \cup Late]
        /\ \A p \in Ops \ {o} : pc'[p] = pc[p]
    <3>1. Advance(o, "rename", "revalidate") /\ "revalidate" \in Early \cup Late
      BY <1>12 DEF Publish, Early, Late
    <3> QED
      BY <1>0, <3>1, Advances
  <2>2. /\ tree'[o] = tree[o] \ ({"stage"} \cup Files) /\ quiet'[o] = 0
        /\ tree' \in [Ops -> SUBSET Entries] /\ quiet' \in [Ops -> 0 .. Grace]
        /\ \A p \in Ops \ {o} : tree'[p] = tree[p] /\ quiet'[p] = quiet[p]
    <3>1. Remove(o, {"stage"} \cup Files)
      BY <1>12 DEF Publish
    <3> QED
      BY <1>0, <3>1, Removes, Touches
  <2>3. /\ final'[o] = "visible" /\ final' \in [Ops -> {"none", "visible", "tombstone"}]
        /\ kept'[o] = tree[o] \cap Files /\ kept' \in [Ops -> SUBSET Files]
        /\ \A p \in Ops \ {o} : final'[p] = final[p] /\ kept'[p] = kept[p]
        /\ UNCHANGED torn
    BY <1>0, <1>12 DEF Publish, TypeOK
  <2>4. UNCHANGED control /\ UNCHANGED <<expired, phase, plan, due, target, crashes>>
    BY <1>12 DEF Publish, publication, maintenance
  <2>5. OnlyAt(o) /\ pc[o] # "gone"
    BY <2>1, <2>2, <2>3, <2>4 DEF OnlyAt, maintenance
  <2>6. \A p \in Ops : torn'[p] \subseteq tree'[p] /\ (tree'[p] # {} => control' = "present")
    BY <1>0, <2>1, <2>2, <2>3, <2>4 DEF TypeOK, Publish, PublicationFine, Receipts, Files
  <2>7. TypeOK'
    BY <1>0, <2>1, <2>2, <2>3, <2>4, <2>6 DEF TypeOK
  <2>8. Workspace(o)'
    BY <1>0, <1>12, <2>1, <2>2 DEF Publish, PublicationFine, Workspace, WithIntent, Early, Files, TypeOK, Entries
  <2>9. Receipts(o)'
    BY <1>0, <2>1, <2>3 DEF PublicationFine, Receipts
  <2>10. RunDirectory(o)'
    BY <1>0, <2>1, <2>3, <2>4 DEF PublicationFine, RunDirectory, Early, Workspace, Files
  <2>11. Young(o)'
    BY <2>2, PublicationAssumption DEF Young, PublicationAssumption
  <2>12. final[o] = "none" \/ final'[o] = final[o]
    BY <1>0, <2>1, <2>3 DEF PublicationFine, RunDirectory, Early
  <2> QED
    BY <2>5, <2>7, <2>8, <2>9, <2>10, <2>11, <2>12, Frame DEF PublicationFine
<1>13. CASE Revalidate(o)
  <2>1. /\ pc[o] = "revalidate" /\ pc'[o] = "clean source"
        /\ pc' \in [Ops -> Early \cup Late]
        /\ \A p \in Ops \ {o} : pc'[p] = pc[p]
    <3>1. Advance(o, "revalidate", "clean source") /\ "clean source" \in Early \cup Late
      BY <1>13 DEF Revalidate, Early, Late
    <3> QED
      BY <1>0, <3>1, Advances
  <2>2. UNCHANGED <<tree, quiet>> /\ tree' \in [Ops -> SUBSET Entries]
        /\ quiet' \in [Ops -> 0 .. Grace]
    BY <1>0, <1>13 DEF Revalidate, publication, TypeOK
  <2>3. UNCHANGED <<torn, final, kept>>
    BY <1>13 DEF Revalidate, publication
  <2>4. UNCHANGED control /\ UNCHANGED <<expired, phase, plan, due, target, crashes>>
    BY <1>13 DEF Revalidate, publication, maintenance
  <2>5. OnlyAt(o) /\ pc[o] # "gone"
    BY <2>1, <2>2, <2>3, <2>4 DEF OnlyAt, maintenance
  <2>6. \A p \in Ops : torn'[p] \subseteq tree'[p] /\ (tree'[p] # {} => control' = "present")
    BY <1>0, <2>1, <2>2, <2>3, <2>4 DEF TypeOK, Revalidate, PublicationFine, Receipts
  <2>7. TypeOK'
    BY <1>0, <2>1, <2>2, <2>3, <2>4, <2>6 DEF TypeOK
  <2>8. Workspace(o)'
    BY <1>0, <1>13, <2>1, <2>2 DEF Revalidate, PublicationFine, Workspace, WithIntent, Early, Files
  <2>9. Receipts(o)'
    BY <1>0, <2>1, <2>3 DEF PublicationFine, Receipts
  <2>10. RunDirectory(o)'
    BY <1>0, <2>1, <2>3, <2>4 DEF PublicationFine, RunDirectory, Early
  <2>11. Young(o)'
    BY <1>0, <2>1, <2>2 DEF PublicationFine, Young, Live
  <2>12. final[o] = "none" \/ final'[o] = final[o]
    BY <1>0, <2>1, <2>3
  <2> QED
    BY <2>5, <2>7, <2>8, <2>9, <2>10, <2>11, <2>12, Frame DEF PublicationFine
<1>14. CASE Clean(o, "source", "clean source", "clean ready")
  <2>1. /\ pc[o] = "clean source" /\ pc'[o] = "clean ready"
        /\ pc' \in [Ops -> Early \cup Late]
        /\ \A p \in Ops \ {o} : pc'[p] = pc[p]
    <3>1. Advance(o, "clean source", "clean ready") /\ "clean ready" \in Early \cup Late
      BY <1>14 DEF Clean, Early, Late
    <3> QED
      BY <1>0, <3>1, Advances
  <2>2. /\ tree'[o] = tree[o] \ {"source"} /\ quiet'[o] = 0
        /\ tree' \in [Ops -> SUBSET Entries] /\ quiet' \in [Ops -> 0 .. Grace]
        /\ \A p \in Ops \ {o} : tree'[p] = tree[p] /\ quiet'[p] = quiet[p]
    <3>1. Remove(o, {"source"})
      BY <1>14 DEF Clean
    <3> QED
      BY <1>0, <3>1, Removes, Touches
  <2>3. UNCHANGED <<torn, final, kept>>
    BY <1>14 DEF Clean, publication
  <2>4. UNCHANGED control /\ UNCHANGED <<expired, phase, plan, due, target, crashes>>
    BY <1>14 DEF Clean, publication, maintenance
  <2>5. OnlyAt(o) /\ pc[o] # "gone"
    BY <2>1, <2>2, <2>3, <2>4 DEF OnlyAt, maintenance
  <2>6. \A p \in Ops : torn'[p] \subseteq tree'[p] /\ (tree'[p] # {} => control' = "present")
    BY <1>0, <1>14, <2>1, <2>2, <2>3, <2>4 DEF TypeOK, Clean, PublicationFine, Receipts
  <2>7. TypeOK'
    BY <1>0, <2>1, <2>2, <2>3, <2>4, <2>6 DEF TypeOK
  <2>8. Workspace(o)'
    BY <1>0, <1>14, <2>1, <2>2 DEF Clean, PublicationFine, Workspace, WithIntent, Early, Files, TypeOK, Entries, Removable, Inside
  <2>9. Receipts(o)'
    BY <1>0, <2>1, <2>3 DEF PublicationFine, Receipts
  <2>10. RunDirectory(o)'
    BY <1>0, <2>1, <2>3, <2>4 DEF PublicationFine, RunDirectory, Early
  <2>11. Young(o)'
    BY <2>2, PublicationAssumption DEF Young, PublicationAssumption
  <2>12. final[o] = "none" \/ final'[o] = final[o]
    BY <1>0, <2>1, <2>3
  <2> QED
    BY <2>5, <2>7, <2>8, <2>9, <2>10, <2>11, <2>12, Frame DEF PublicationFine
<1>15. CASE Clean(o, "ready", "clean ready", "clean intent")
  <2>1. /\ pc[o] = "clean ready" /\ pc'[o] = "clean intent"
        /\ pc' \in [Ops -> Early \cup Late]
        /\ \A p \in Ops \ {o} : pc'[p] = pc[p]
    <3>1. Advance(o, "clean ready", "clean intent") /\ "clean intent" \in Early \cup Late
      BY <1>15 DEF Clean, Early, Late
    <3> QED
      BY <1>0, <3>1, Advances
  <2>2. /\ tree'[o] = tree[o] \ {"ready"} /\ quiet'[o] = 0
        /\ tree' \in [Ops -> SUBSET Entries] /\ quiet' \in [Ops -> 0 .. Grace]
        /\ \A p \in Ops \ {o} : tree'[p] = tree[p] /\ quiet'[p] = quiet[p]
    <3>1. Remove(o, {"ready"})
      BY <1>15 DEF Clean
    <3> QED
      BY <1>0, <3>1, Removes, Touches
  <2>3. UNCHANGED <<torn, final, kept>>
    BY <1>15 DEF Clean, publication
  <2>4. UNCHANGED control /\ UNCHANGED <<expired, phase, plan, due, target, crashes>>
    BY <1>15 DEF Clean, publication, maintenance
  <2>5. OnlyAt(o) /\ pc[o] # "gone"
    BY <2>1, <2>2, <2>3, <2>4 DEF OnlyAt, maintenance
  <2>6. \A p \in Ops : torn'[p] \subseteq tree'[p] /\ (tree'[p] # {} => control' = "present")
    BY <1>0, <1>15, <2>1, <2>2, <2>3, <2>4 DEF TypeOK, Clean, PublicationFine, Receipts
  <2>7. TypeOK'
    BY <1>0, <2>1, <2>2, <2>3, <2>4, <2>6 DEF TypeOK
  <2>8. Workspace(o)'
    BY <1>0, <1>15, <2>1, <2>2 DEF Clean, PublicationFine, Workspace, WithIntent, Early, Files, TypeOK, Entries, Removable, Inside
  <2>9. Receipts(o)'
    BY <1>0, <2>1, <2>3 DEF PublicationFine, Receipts
  <2>10. RunDirectory(o)'
    BY <1>0, <2>1, <2>3, <2>4 DEF PublicationFine, RunDirectory, Early
  <2>11. Young(o)'
    BY <2>2, PublicationAssumption DEF Young, PublicationAssumption
  <2>12. final[o] = "none" \/ final'[o] = final[o]
    BY <1>0, <2>1, <2>3
  <2> QED
    BY <2>5, <2>7, <2>8, <2>9, <2>10, <2>11, <2>12, Frame DEF PublicationFine
<1>16. CASE Clean(o, "intent", "clean intent", "clean op")
  <2>1. /\ pc[o] = "clean intent" /\ pc'[o] = "clean op"
        /\ pc' \in [Ops -> Early \cup Late]
        /\ \A p \in Ops \ {o} : pc'[p] = pc[p]
    <3>1. Advance(o, "clean intent", "clean op") /\ "clean op" \in Early \cup Late
      BY <1>16 DEF Clean, Early, Late
    <3> QED
      BY <1>0, <3>1, Advances
  <2>2. /\ tree'[o] = tree[o] \ {"intent"} /\ quiet'[o] = 0
        /\ tree' \in [Ops -> SUBSET Entries] /\ quiet' \in [Ops -> 0 .. Grace]
        /\ \A p \in Ops \ {o} : tree'[p] = tree[p] /\ quiet'[p] = quiet[p]
    <3>1. Remove(o, {"intent"})
      BY <1>16 DEF Clean
    <3> QED
      BY <1>0, <3>1, Removes, Touches
  <2>3. UNCHANGED <<torn, final, kept>>
    BY <1>16 DEF Clean, publication
  <2>4. UNCHANGED control /\ UNCHANGED <<expired, phase, plan, due, target, crashes>>
    BY <1>16 DEF Clean, publication, maintenance
  <2>5. OnlyAt(o) /\ pc[o] # "gone"
    BY <2>1, <2>2, <2>3, <2>4 DEF OnlyAt, maintenance
  <2>6. \A p \in Ops : torn'[p] \subseteq tree'[p] /\ (tree'[p] # {} => control' = "present")
    BY <1>0, <1>16, <2>1, <2>2, <2>3, <2>4 DEF TypeOK, Clean, PublicationFine, Receipts
  <2>7. TypeOK'
    BY <1>0, <2>1, <2>2, <2>3, <2>4, <2>6 DEF TypeOK
  <2>8. Workspace(o)'
    BY <1>0, <1>16, <2>1, <2>2 DEF Clean, PublicationFine, Workspace, WithIntent, Early, Files, TypeOK, Entries, Removable, Inside
  <2>9. Receipts(o)'
    BY <1>0, <2>1, <2>3 DEF PublicationFine, Receipts
  <2>10. RunDirectory(o)'
    BY <1>0, <2>1, <2>3, <2>4 DEF PublicationFine, RunDirectory, Early
  <2>11. Young(o)'
    BY <2>2, PublicationAssumption DEF Young, PublicationAssumption
  <2>12. final[o] = "none" \/ final'[o] = final[o]
    BY <1>0, <2>1, <2>3
  <2> QED
    BY <2>5, <2>7, <2>8, <2>9, <2>10, <2>11, <2>12, Frame DEF PublicationFine
<1>17. CASE Clean(o, "op", "clean op", "clean control")
  <2>1. /\ pc[o] = "clean op" /\ pc'[o] = "clean control"
        /\ pc' \in [Ops -> Early \cup Late]
        /\ \A p \in Ops \ {o} : pc'[p] = pc[p]
    <3>1. Advance(o, "clean op", "clean control") /\ "clean control" \in Early \cup Late
      BY <1>17 DEF Clean, Early, Late
    <3> QED
      BY <1>0, <3>1, Advances
  <2>2. /\ tree'[o] = tree[o] \ {"op"} /\ quiet'[o] = 0
        /\ tree' \in [Ops -> SUBSET Entries] /\ quiet' \in [Ops -> 0 .. Grace]
        /\ \A p \in Ops \ {o} : tree'[p] = tree[p] /\ quiet'[p] = quiet[p]
    <3>1. Remove(o, {"op"})
      BY <1>17 DEF Clean
    <3> QED
      BY <1>0, <3>1, Removes, Touches
  <2>3. UNCHANGED <<torn, final, kept>>
    BY <1>17 DEF Clean, publication
  <2>4. UNCHANGED control /\ UNCHANGED <<expired, phase, plan, due, target, crashes>>
    BY <1>17 DEF Clean, publication, maintenance
  <2>5. OnlyAt(o) /\ pc[o] # "gone"
    BY <2>1, <2>2, <2>3, <2>4 DEF OnlyAt, maintenance
  <2>6. \A p \in Ops : torn'[p] \subseteq tree'[p] /\ (tree'[p] # {} => control' = "present")
    BY <1>0, <1>17, <2>1, <2>2, <2>3, <2>4 DEF TypeOK, Clean, PublicationFine, Receipts
  <2>7. TypeOK'
    BY <1>0, <2>1, <2>2, <2>3, <2>4, <2>6 DEF TypeOK
  <2>8. Workspace(o)'
    BY <1>0, <1>17, <2>1, <2>2 DEF Clean, PublicationFine, Workspace, WithIntent, Early, Files, TypeOK, Entries, Removable, Inside
  <2>9. Receipts(o)'
    BY <1>0, <2>1, <2>3 DEF PublicationFine, Receipts
  <2>10. RunDirectory(o)'
    BY <1>0, <2>1, <2>3, <2>4 DEF PublicationFine, RunDirectory, Early
  <2>11. Young(o)'
    BY <2>2, PublicationAssumption DEF Young, PublicationAssumption
  <2>12. final[o] = "none" \/ final'[o] = final[o]
    BY <1>0, <2>1, <2>3
  <2> QED
    BY <2>5, <2>7, <2>8, <2>9, <2>10, <2>11, <2>12, Frame DEF PublicationFine
<1>18. CASE CleanControl(o)
  <2>1. /\ pc[o] = "clean control" /\ pc'[o] = "gone"
        /\ pc' \in [Ops -> Early \cup Late]
        /\ \A p \in Ops \ {o} : pc'[p] = pc[p]
    <3>1. Advance(o, "clean control", "gone") /\ "gone" \in Early \cup Late
      BY <1>18 DEF CleanControl, Early, Late
    <3> QED
      BY <1>0, <3>1, Advances
  <2>2. UNCHANGED <<tree, quiet>> /\ tree' \in [Ops -> SUBSET Entries]
        /\ quiet' \in [Ops -> 0 .. Grace]
    BY <1>0, <1>18 DEF CleanControl, publication, TypeOK
  <2>3. UNCHANGED <<torn, final, kept>>
    BY <1>18 DEF CleanControl, publication
  <2>4. control' = (IF OtherWork THEN control ELSE "absent") /\ UNCHANGED <<expired, phase, plan, due, target, crashes>>
    BY <1>18 DEF CleanControl, publication, maintenance
  <2>5. OnlyAt(o) /\ pc[o] # "gone"
    BY <2>1, <2>2, <2>3, <2>4 DEF OnlyAt, maintenance
  <2>6. \A p \in Ops : torn'[p] \subseteq tree'[p] /\ (tree'[p] # {} => control' = "present")
    BY <1>0, <2>1, <2>2, <2>3, <2>4 DEF TypeOK, CleanControl, PublicationFine, Receipts, OtherWork
  <2>7. TypeOK'
    BY <1>0, <2>1, <2>2, <2>3, <2>4, <2>6 DEF TypeOK
  <2>8. Workspace(o)'
    BY <1>0, <1>18, <2>1, <2>2 DEF CleanControl, PublicationFine, Workspace, WithIntent, Early, Files
  <2>9. Receipts(o)'
    BY <1>0, <2>1, <2>3 DEF PublicationFine, Receipts
  <2>10. RunDirectory(o)'
    BY <1>0, <2>1, <2>3, <2>4 DEF PublicationFine, RunDirectory, Early
  <2>11. Young(o)'
    BY <1>0, <2>1, <2>2 DEF PublicationFine, Young, Live
  <2>12. final[o] = "none" \/ final'[o] = final[o]
    BY <1>0, <2>1, <2>3
  <2> QED
    BY <2>5, <2>7, <2>8, <2>9, <2>10, <2>11, <2>12, Frame DEF PublicationFine
<1>19. CASE Stop(o)
  <2>1. /\ Live(o) /\ pc'[o] = "gone"
        /\ pc' \in [Ops -> Early \cup Late]
        /\ \A p \in Ops \ {o} : pc'[p] = pc[p]
    BY <1>0, <1>19 DEF Stop, TypeOK, Late
  <2>2. UNCHANGED <<tree, quiet>> /\ tree' \in [Ops -> SUBSET Entries]
        /\ quiet' \in [Ops -> 0 .. Grace]
    BY <1>0, <1>19 DEF Stop, publication, TypeOK
  <2>3. UNCHANGED <<torn, final, kept>>
    BY <1>19 DEF Stop, publication
  <2>4. UNCHANGED control /\ UNCHANGED <<expired, phase, plan, due, target, crashes>>
    BY <1>19 DEF Stop, publication, maintenance
  <2>5. OnlyAt(o) /\ pc[o] # "gone"
    BY <2>1, <2>2, <2>3, <2>4 DEF OnlyAt, maintenance, Live
  <2>6. \A p \in Ops : torn'[p] \subseteq tree'[p] /\ (tree'[p] # {} => control' = "present")
    BY <1>0, <2>1, <2>2, <2>3, <2>4 DEF TypeOK, Stop, PublicationFine, Receipts
  <2>7. TypeOK'
    BY <1>0, <2>1, <2>2, <2>3, <2>4, <2>6 DEF TypeOK
  <2>8. Workspace(o)'
    BY <1>0, <1>19, <2>1, <2>2 DEF Stop, PublicationFine, Workspace, WithIntent, Early, Files, Live, Late
  <2>9. Receipts(o)'
    BY <1>0, <2>1, <2>3 DEF PublicationFine, Receipts
  <2>10. RunDirectory(o)'
    BY <1>0, <2>1, <2>3, <2>4 DEF PublicationFine, RunDirectory, Early, Late
  <2>11. Young(o)'
    BY <1>0, <2>1, <2>2 DEF PublicationFine, Young, Live
  <2>12. final[o] = "none" \/ final'[o] = final[o]
    BY <1>0, <2>1, <2>3
  <2> QED
    BY <2>5, <2>7, <2>8, <2>9, <2>10, <2>11, <2>12, Frame DEF PublicationFine
<1> QED
  BY <1>1, <1>2, <1>3, <1>4, <1>5, <1>6, <1>7, <1>8, <1>9, <1>10, <1>11, <1>12, <1>13, <1>14, <1>15, <1>16, <1>17, <1>18, <1>19 DEF Publisher
-----------------------------------------------------------------------------
(* Maintenance and time *)

\* A step that changes nothing of what PublicationFine speaks of.
LEMMA Steady ==
    ASSUME Inv, UNCHANGED <<pc, tree, torn, quiet, final, kept, expired>>
    PROVE  \A o \in Ops : PublicationFine(o)'
  BY DEF Inv, PublicationFine, Workspace, Receipts, RunDirectory, Young, Live

\* A pass plans the workspaces of dead publishers only, none of them torn.
LEMMA PlanInv ==
    ASSUME Punctual, Inv, Plan
    PROVE  Inv'
<1>1. TypeOK'
  <2>1. DOMAIN plan' \subseteq Ops /\ \A o \in DOMAIN plan' : plan'[o] \subseteq Entries
    BY DEF Inv, TypeOK, Plan
  <2> QED
    BY <2>1 DEF Inv, TypeOK, Plan, publication
<1>2. ASSUME NEW o \in DOMAIN plan' PROVE pc[o] = "gone" /\ torn[o] = {}
  <2>1. o \in Ops /\ tree[o] # {} /\ quiet[o] = Grace
    BY <1>2 DEF Plan
  <2>2. ~(quiet[o] <= Patience)
    BY <2>1, PublicationAssumption DEF Punctual, PublicationAssumption
  <2>3. pc[o] = "gone"
    BY <2>1, <2>2 DEF Inv, PublicationFine, Young, Live, Workspace
  <2>4. Readable(o) /\ torn[o] \subseteq tree[o] /\ torn[o] \subseteq {"intent", "ready"}
    BY <2>1 DEF Inv, TypeOK, Plan
  <2> QED
    BY <2>3, <2>4 DEF Readable
<1>3. ASSUME NEW o \in due' PROVE o \in expired /\ final[o] # "none"
  BY <1>3 DEF Plan, Inv, PublicationFine, RunDirectory
<1>4. phase' \in {"reclaiming", "withdrawing"} /\ target' = NoOp /\ UNCHANGED <<pc, tree, torn, quiet, final, kept, expired>>
  BY DEF Plan, Inv, PlanSound, publication
<1>5. PlanSound'
  BY <1>2, <1>3, <1>4 DEF PlanSound
<1> QED
  BY <1>1, <1>4, <1>5, Steady DEF Inv

\* A pass that ends, whole or not, forgets its plan.
LEMMA IdleInv ==
    ASSUME Inv, Idle, UNCHANGED <<pc, publication, expired>>, crashes' \in 0 .. MaxCrashes
    PROVE  Inv'
<1>1. UNCHANGED <<pc, control, tree, torn, quiet, final, kept, expired>>
  BY DEF publication
<1>2. TypeOK'
  BY <1>1 DEF Inv, TypeOK, Idle
<1>3. PlanSound'
  BY DEF PlanSound, Idle
<1> QED
  BY <1>1, <1>2, <1>3, Steady DEF Inv

LEMMA GiveUpInv == ASSUME Inv, GiveUp PROVE Inv'
BY IdleInv DEF GiveUp, Inv, TypeOK

\* The second look starts on a planned operation.
LEMMA RecheckInv ==
    ASSUME Inv, NEW o \in Ops, Recheck(o)
    PROVE  Inv'
<1>1. CASE Unchanged(o)
  <2>1. UNCHANGED <<pc, tree, torn, quiet, final, kept, expired>>
    BY <1>1 DEF Recheck, publication
  <2>2. TypeOK'
    BY <1>1 DEF Inv, TypeOK, Recheck, publication
  <2>3. PlanSound'
    BY <1>1 DEF Inv, PlanSound, Recheck, Unchanged, publication
  <2> QED
    BY <2>1, <2>2, <2>3, Steady DEF Inv
<1>2. CASE ~Unchanged(o)
  BY <1>2, GiveUpInv DEF Recheck
<1> QED
  BY <1>1, <1>2

\* Taking an operation apart disturbs no live publisher, and the intent goes when
\* only the directory itself is left.
LEMMA DeleteEntryInv ==
    ASSUME Inv, NEW e \in Entries, phase = "reclaiming", IsNext(e),
           Removable(target, e) \/ e = "intent", DeleteEntry(e)
    PROVE  Inv'
<1> DEFINE t == target
<1>1. /\ t \in Ops /\ t \in DOMAIN plan /\ tree[t] = plan[t] /\ e \in tree[t]
      /\ pc[t] = "gone" /\ torn[t] = {} /\ t # NoOp
  BY PublicationAssumption DEF DeleteEntry, IsNext, Inv, TypeOK, PlanSound, PublicationAssumption
<1>2. /\ tree' \in [Ops -> SUBSET Entries] /\ tree'[t] = tree[t] \ {e}
      /\ quiet' \in [Ops -> 0 .. Grace]
      /\ \A p \in Ops \ {t} : tree'[p] = tree[p] /\ quiet'[p] = quiet[p]
  <2>1. TypeOK /\ Remove(t, {e})
    BY <1>1 DEF DeleteEntry, Inv
  <2> QED
    BY <1>1, <2>1, Removes, Touches
<1>3. UNCHANGED <<pc, control, torn, final, kept, expired, phase, due, crashes>>
  BY DEF DeleteEntry
<1>4. /\ DOMAIN plan' \subseteq DOMAIN plan
      /\ \A o \in DOMAIN plan' : plan'[o] \subseteq plan[o]
      /\ target' \in {t, NoOp}
      /\ target' # NoOp => t \in DOMAIN plan' /\ plan'[t] = plan[t] \ {e}
  BY <1>1 DEF DeleteEntry
<1>5. TypeOK'
  <2>1. \A p \in Ops : torn'[p] \subseteq tree'[p] /\ (tree'[p] # {} => control' = "present")
    BY <1>1, <1>2, <1>3 DEF Inv, TypeOK
  <2> QED
    BY <1>1, <1>2, <1>3, <1>4, <2>1 DEF Inv, TypeOK
<1>6. PlanSound'
  BY <1>1, <1>2, <1>3, <1>4 DEF Inv, PlanSound, DeleteEntry
<1>7. tree'[t] \subseteq {"op"} \/ "intent" \in tree'[t]
  <2>1. tree[t] \subseteq {"op"} \/ "intent" \in tree[t]
    BY <1>1 DEF Inv, PublicationFine, Workspace
  <2>2. CASE e = "intent"
    <3>1. \A d \in tree[t] : Rank("intent") <= Rank(d) /\ d \in Entries
      BY <1>1, <2>2 DEF DeleteEntry, IsNext, Inv, TypeOK
    <3>2. \A d \in tree[t] : d \in {"intent", "op"}
      <4>1. Rank("intent") = 3 /\ Rank("stage") = 1 /\ Rank("source") = 2 /\ Rank("ready") = 0
              /\ \A f \in Files : Rank(f) = 0
        BY DEF Rank, Files
      <4>2. ~(3 <= 0) /\ ~(3 <= 1) /\ ~(3 <= 2)
        OBVIOUS
      <4> QED
        BY <3>1, <4>1, <4>2 DEF Entries
    <3> QED
      BY <1>2, <2>2, <3>2
  <2> QED
    BY <1>2, <2>1, <2>2
<1>8. ASSUME NEW o \in Ops PROVE PublicationFine(o)'
  <2>1. PublicationFine(o)
    BY DEF Inv
  <2>2. CASE o = t
    BY <1>1, <1>3, <1>7, <2>1, <2>2
    DEF PublicationFine, Workspace, Receipts, RunDirectory, Young, Live, WithIntent, Early
  <2>3. CASE o # t
    BY <1>2, <1>3, <2>1, <2>3
    DEF PublicationFine, Workspace, Receipts, RunDirectory, Young, Live
  <2> QED
    BY <2>2, <2>3
<1> QED
  BY <1>5, <1>6, <1>8 DEF Inv

LEMMA RemoveEntryInv ==
    ASSUME Inv, NEW e \in Entries, RemoveEntry(e)
    PROVE  Inv'
<1>1. CASE Removable(target, e) \/ e = "intent"
  BY <1>1, DeleteEntryInv DEF RemoveEntry
<1>2. CASE ~(Removable(target, e) \/ e = "intent")
  BY <1>2, GiveUpInv DEF RemoveEntry
<1> QED
  BY <1>1, <1>2

\* The plan done, .wp goes if it is empty.
LEMMA FinishReclaimingInv ==
    ASSUME Inv, FinishReclaiming
    PROVE  Inv'
<1>1. UNCHANGED <<pc, tree, torn, quiet, final, kept, expired, plan, due, target, crashes>>
  BY DEF FinishReclaiming
<1>2. target = NoOp
  BY DEF Inv, PlanSound, FinishReclaiming
<1>3. control' = (IF OtherWork THEN control ELSE "absent") /\ phase' = "withdrawing"
  BY DEF FinishReclaiming
<1>4. TypeOK'
  <2>1. \A p \in Ops : torn'[p] \subseteq tree'[p] /\ (tree'[p] # {} => control' = "present")
    BY <1>1, <1>3 DEF Inv, TypeOK, OtherWork
  <2> QED
    BY <1>1, <1>3, <2>1 DEF Inv, TypeOK
<1>5. PlanSound'
  BY <1>1, <1>2, <1>3 DEF Inv, PlanSound
<1> QED
  BY <1>1, <1>4, <1>5, Steady DEF Inv

\* What becomes a tombstone was complete and has expired.
LEMMA QuarantineInv ==
    ASSUME Inv, NEW o \in Ops, Quarantine(o)
    PROVE  Inv'
<1>1. /\ final'[o] = "tombstone" /\ final' \in [Ops -> {"none", "visible", "tombstone"}]
      /\ \A p \in Ops \ {o} : final'[p] = final[p]
  BY DEF Quarantine, Inv, TypeOK
<1>2. UNCHANGED <<pc, control, tree, torn, quiet, kept, expired, phase, plan, due, crashes>>
  BY DEF Quarantine
<1>3. o \in expired /\ final[o] \in {"visible", "tombstone"} /\ target' = o /\ phase = "withdrawing"
  BY DEF Quarantine, Inv, PlanSound, TypeOK
<1>4. TypeOK'
  BY <1>1, <1>2, <1>3 DEF Inv, TypeOK
<1>5. PlanSound'
  BY <1>1, <1>2, <1>3 DEF Inv, PlanSound, TypeOK
<1>6. ASSUME NEW p \in Ops PROVE PublicationFine(p)'
  <2>1. PublicationFine(p)
    BY DEF Inv
  <2>2. Workspace(p)' /\ Receipts(p)' /\ Young(p)'
    BY <1>2, <2>1 DEF PublicationFine, Workspace, Receipts, Young, Live
  <2>3. RunDirectory(p)'
    BY <1>1, <1>2, <1>3, <2>1 DEF PublicationFine, RunDirectory, Files
  <2> QED
    BY <2>2, <2>3 DEF PublicationFine
<1> QED
  BY <1>4, <1>5, <1>6 DEF Inv

\* The run directory being deleted is a tombstone.
LEMMA DeletingTombstone ==
    ASSUME Inv, phase = "withdrawing", target # NoOp
    PROVE  target \in Ops /\ final[target] = "tombstone"
  BY DEF Inv, TypeOK, PlanSound

\* Its receipt outlives its other files.
LEMMA DeleteFileInv ==
    ASSUME Inv, NEW f \in Files, DeleteFile(f)
    PROVE  Inv'
<1>1. target \in Ops /\ final[target] = "tombstone"
  BY DeletingTombstone DEF DeleteFile
<1>2. /\ kept'[target] = kept[target] \ {f} /\ kept' \in [Ops -> SUBSET Files]
      /\ \A p \in Ops \ {target} : kept'[p] = kept[p]
      /\ f = "receipt" => kept[target] = {"receipt"}
  BY <1>1 DEF DeleteFile, Inv, TypeOK
<1>3. UNCHANGED <<pc, control, tree, torn, quiet, final, expired, phase, plan, due, target, crashes>>
  BY DEF DeleteFile, maintenance
<1>4. TypeOK'
  BY <1>2, <1>3 DEF Inv, TypeOK
<1>5. PlanSound'
  BY <1>3 DEF Inv, PlanSound
<1>6. ASSUME NEW p \in Ops PROVE PublicationFine(p)'
  <2>1. PublicationFine(p)
    BY DEF Inv
  <2>2. Workspace(p)' /\ Receipts(p)' /\ Young(p)'
    BY <1>3, <2>1 DEF PublicationFine, Workspace, Receipts, Young, Live
  <2>3. RunDirectory(p)'
    BY <1>1, <1>2, <1>3, <2>1 DEF PublicationFine, RunDirectory
  <2> QED
    BY <2>2, <2>3 DEF PublicationFine
<1> QED
  BY <1>4, <1>5, <1>6 DEF Inv

\* An empty tombstone goes, and with it the entry in the plan.
LEMMA DeleteTombstoneInv ==
    ASSUME Inv, DeleteTombstone
    PROVE  Inv'
<1>1. target \in Ops /\ final[target] = "tombstone"
  BY DeletingTombstone DEF DeleteTombstone
<1>2. /\ final'[target] = "none" /\ final' \in [Ops -> {"none", "visible", "tombstone"}]
      /\ \A p \in Ops \ {target} : final'[p] = final[p]
      /\ due' = due \ {target} /\ target' = NoOp
  BY <1>1 DEF DeleteTombstone, Inv, TypeOK
<1>3. UNCHANGED <<pc, control, tree, torn, quiet, kept, expired, phase, plan, crashes>>
  BY DEF DeleteTombstone
<1>4. TypeOK'
  BY <1>2, <1>3 DEF Inv, TypeOK
<1>5. PlanSound'
  BY <1>2, <1>3 DEF Inv, PlanSound, TypeOK
<1>6. ASSUME NEW p \in Ops PROVE PublicationFine(p)'
  <2>1. PublicationFine(p)
    BY DEF Inv
  <2>2. Workspace(p)' /\ Receipts(p)' /\ Young(p)'
    BY <1>3, <2>1 DEF PublicationFine, Workspace, Receipts, Young, Live
  <2>3. RunDirectory(p)'
    BY <1>1, <1>2, <1>3, <2>1 DEF PublicationFine, RunDirectory
  <2> QED
    BY <2>2, <2>3 DEF PublicationFine
<1> QED
  BY <1>4, <1>5, <1>6 DEF Inv

\* Time passes for all workspaces; a live publisher's has been touched lately.
LEMMA TickInv ==
    ASSUME Inv, Tick
    PROVE  Inv'
<1>1. UNCHANGED <<pc, control, tree, torn, final, kept, expired, phase, plan, due, target, crashes>>
  BY DEF Tick, maintenance
<1>2. \A o \in Ops : quiet[o] \in 0 .. Grace
  BY DEF Inv, TypeOK
<1>3. ASSUME NEW o \in Ops
      PROVE  /\ quiet'[o] \in 0 .. Grace
             /\ Live(o) /\ tree[o] # {} => quiet'[o] <= Patience
  <2>1. quiet'[o] = IF tree[o] # {} /\ quiet[o] < Grace THEN quiet[o] + 1 ELSE quiet[o]
    BY DEF Tick
  <2>2. quiet'[o] \in 0 .. Grace
    BY <1>2, <2>1, PublicationAssumption DEF PublicationAssumption
  <2>3. ASSUME Live(o), tree[o] # {} PROVE quiet'[o] <= Patience
    <3>1. quiet[o] < Patience
      BY <2>3 DEF Tick
    <3> QED
      BY <1>2, <2>1, <3>1, PublicationAssumption DEF PublicationAssumption
  <2> QED
    BY <2>2, <2>3
<1>4. quiet' \in [Ops -> 0 .. Grace]
  BY <1>3 DEF Tick
<1>5. TypeOK'
  BY <1>1, <1>4 DEF Inv, TypeOK
<1>6. PlanSound'
  BY <1>1 DEF Inv, PlanSound
<1>7. ASSUME NEW p \in Ops PROVE PublicationFine(p)'
  <2>1. PublicationFine(p)
    BY DEF Inv
  <2>2. Workspace(p)' /\ Receipts(p)' /\ RunDirectory(p)'
    BY <1>1, <2>1 DEF PublicationFine, Workspace, Receipts, RunDirectory
  <2>3. Young(p)'
    BY <1>1, <1>3 DEF Young, Live
  <2> QED
    BY <2>2, <2>3 DEF PublicationFine
<1> QED
  BY <1>5, <1>6, <1>7 DEF Inv

\* Expiry only adds to what may be deleted.
LEMMA ExpireInv ==
    ASSUME Inv, NEW o \in Ops, Expire(o)
    PROVE  Inv'
<1>1. /\ expired' = expired \cup {o}
      /\ UNCHANGED <<pc, control, tree, torn, quiet, final, kept, phase, plan, due, target, crashes>>
  BY DEF Expire, publication, maintenance
<1>2. TypeOK'
  BY <1>1 DEF Inv, TypeOK
<1>3. PlanSound'
  BY <1>1 DEF Inv, PlanSound
<1>4. ASSUME NEW p \in Ops PROVE PublicationFine(p)'
  BY <1>1 DEF Inv, PublicationFine, Workspace, Receipts, RunDirectory, Young, Live
<1> QED
  BY <1>2, <1>3, <1>4 DEF Inv

\* Every step keeps the invariant.
LEMMA StepInv ==
    ASSUME Punctual, Inv, [Next]_vars
    PROVE  Inv'
<1>1. CASE \E o \in Ops : Begin(o) \/ Publisher(o) \/ Expire(o)
  BY <1>1, PublisherInv, ExpireInv
<1>2. CASE Maintenance
  <2>1. CASE Plan
    BY <2>1, PlanInv
  <2>2. CASE \E o \in Ops : Recheck(o) \/ Quarantine(o)
    BY <2>2, RecheckInv, QuarantineInv
  <2>3. CASE \E e \in Entries : RemoveEntry(e)
    BY <2>3, RemoveEntryInv
  <2>4. CASE FinishPass
    BY <2>4, IdleInv DEF FinishPass, Inv, TypeOK
  <2>5. CASE FinishReclaiming
    BY <2>5, FinishReclaimingInv
  <2>6. CASE \E f \in Files : DeleteFile(f)
    BY <2>6, DeleteFileInv
  <2>7. CASE DeleteTombstone
    BY <2>7, DeleteTombstoneInv
  <2> QED
    BY <1>2, <2>1, <2>2, <2>3, <2>4, <2>5, <2>6, <2>7 DEF Maintenance
<1>3. CASE Crash
  <2>1. crashes' \in 0 .. MaxCrashes
    BY <1>3, PublicationAssumption DEF Crash, Inv, TypeOK, PublicationAssumption
  <2> QED
    BY <1>3, <2>1, IdleInv DEF Crash
<1>4. CASE Tick
  BY <1>4, TickInv
<1>5. CASE UNCHANGED vars
  <2>1. UNCHANGED <<pc, tree, torn, quiet, final, kept, expired>>
    BY <1>5 DEF vars, publication
  <2>2. TypeOK'
    BY <1>5 DEF vars, publication, maintenance, Inv, TypeOK
  <2>3. PlanSound'
    BY <1>5 DEF vars, publication, maintenance, Inv, PlanSound
  <2> QED
    BY <2>1, <2>2, <2>3, Steady DEF Inv
<1> QED
  BY <1>1, <1>2, <1>3, <1>4, <1>5 DEF Next

\* The inductive invariant holds throughout.
THEOREM Invariance == ASSUME Punctual PROVE Spec => []Inv
<1>1. Inv /\ [Next]_vars => Inv'
  BY StepInv
<1> QED
  BY <1>1, InitInv, PTL DEF Spec

-----------------------------------------------------------------------------
(* Results *)

\* Types hold, and no operation is outside .wp, though publishers and maintenance
\* both remove it.
THEOREM TypesHold == ASSUME Punctual PROVE Spec => []TypeOK
<1>1. Inv => TypeOK
  BY DEF Inv
<1> QED
  BY <1>1, Invariance, PTL

\* Maintenance takes apart the workspaces of dead publishers only, though it
\* shares no lock with them: their age says enough.
THEOREM LivingAreSpared == ASSUME Punctual PROVE Spec => []LivingSpared
<1>1. Inv => LivingSpared
  BY DEF Inv, PlanSound, LivingSpared, Live
<1> QED
  BY <1>1, Invariance, PTL

\* Whatever step a publisher or a recovery died at, recovery accepts what it left
\* unless a receipt is torn: in both, the intent is the last entry to go.
THEOREM CrashesLeaveReadable == ASSUME Punctual PROVE Spec => []OnlyTornBlocks
<1>1. Inv => OnlyTornBlocks
  BY DEF Inv, PublicationFine, Workspace, OnlyTornBlocks, Readable
<1> QED
  BY <1>1, Invariance, PTL

\* An interrupted deletion can always be resumed.
THEOREM TombstonesStayResumable == ASSUME Punctual PROVE Spec => []TombstonesResumable
<1>1. Inv => TombstonesResumable
  BY DEF Inv, PublicationFine, RunDirectory, TombstonesResumable
<1> QED
  BY <1>1, Invariance, PTL

\* So whatever crash cut a publication, a recovery or a deletion short, a later
\* pass can finish the work.
THEOREM CrashesAreUnderstood == ASSUME Punctual PROVE Spec => []CrashesUnderstood
<1>1. OnlyTornBlocks /\ TombstonesResumable => CrashesUnderstood
  BY DEF CrashesUnderstood
<1> QED
  BY <1>1, CrashesLeaveReadable, TombstonesStayResumable, PTL

-----------------------------------------------------------------------------
(* Refinement *)

\* A step that changes no run directory changes nothing readers see.
LEMMA Unseen ==
    ASSUME UNCHANGED <<final, kept, expired>>
    PROVE  UNCHANGED Readers!vars
BY DEF Readers!vars

\* The rename shows a whole run where none of its run is visible.
LEMMA PublishShows ==
    ASSUME Inv, NEW o \in Ops, Publish(o)
    PROVE  Readers!Show(o)
<1>1. PublicationFine(o)
  BY DEF Inv
<1>2. tree[o] \cap Files = Files
  BY <1>1 DEF PublicationFine, Workspace, Publish, Advance
<1>3. /\ final' = [final EXCEPT ![o] = "visible"]
      /\ kept' = [kept EXCEPT ![o] = Files]
      /\ UNCHANGED expired
  BY <1>2 DEF Publish
<1>4. final \in [Ops -> {"none", "visible", "tombstone"}] /\ kept \in [Ops -> SUBSET Files]
  BY DEF Inv, TypeOK
<1>5. \A p \in Ops : RunOf[p] = RunOf[o] => final[p] # "visible"
  BY DEF Publish, RunExists
<1>6. [p \in Ops |-> IF final'[p] = "visible" THEN kept'[p] ELSE {}]
        = [[p \in Ops |-> IF final[p] = "visible" THEN kept[p] ELSE {}] EXCEPT ![o] = Files]
  BY <1>3, <1>4
<1> QED
  BY <1>3, <1>5, <1>6 DEF Readers!Show

\* Quarantine withdraws an expired run, or moves a tombstone onto itself.
LEMMA QuarantineWithdraws ==
    ASSUME Inv, NEW o \in Ops, Quarantine(o)
    PROVE  Readers!Withdraw(o)
<1>1. o \in expired
  BY DEF Inv, PlanSound, Quarantine
<1>2. final' = [final EXCEPT ![o] = "tombstone"] /\ UNCHANGED <<kept, expired>>
  BY DEF Quarantine
<1>3. final \in [Ops -> {"none", "visible", "tombstone"}]
  BY DEF Inv, TypeOK
<1>4. [p \in Ops |-> IF final'[p] = "visible" THEN kept'[p] ELSE {}]
        = [[p \in Ops |-> IF final[p] = "visible" THEN kept[p] ELSE {}] EXCEPT ![o] = {}]
  BY <1>2, <1>3
<1> QED
  BY <1>1, <1>2, <1>4 DEF Readers!Withdraw

\* What is deleted piece by piece is out of sight already.
LEMMA DeletionUnseen ==
    ASSUME Inv, (\E f \in Files : DeleteFile(f)) \/ DeleteTombstone
    PROVE  UNCHANGED Readers!vars
<1>1. target \in Ops /\ final[target] = "tombstone"
  BY DEF Inv, TypeOK, PlanSound, DeleteFile, DeleteTombstone
<1>2. final \in [Ops -> {"none", "visible", "tombstone"}] /\ kept \in [Ops -> SUBSET Files]
  BY DEF Inv, TypeOK
<1>3. /\ UNCHANGED expired
      /\ \A p \in Ops : p # target => final'[p] = final[p] /\ kept'[p] = kept[p]
      /\ final'[target] # "visible"
  BY <1>1, <1>2 DEF DeleteFile, DeleteTombstone, maintenance
<1>4. \A p \in Ops : (IF final'[p] = "visible" THEN kept'[p] ELSE {})
                       = (IF final[p] = "visible" THEN kept[p] ELSE {})
  BY <1>1, <1>3
<1> QED
  BY <1>3, <1>4 DEF Readers!vars

\* Only the rename of a publisher changes a run directory.
LEMMA PublisherUnseen ==
    ASSUME NEW o \in Ops, Begin(o) \/ Publisher(o), ~Publish(o)
    PROVE  UNCHANGED <<final, kept, expired>>
BY DEF Begin, Publisher, ClaimOperation, OpenReceipt, WriteReceipt, Stage, WriteRunReceipt,
       Check, Revalidate, Clean, CleanControl, Stop, publication

\* Every step is one that readers were promised, or none to them.
LEMMA StepRefines ==
    ASSUME Inv, [Next]_vars
    PROVE  [Readers!Next]_Readers!vars
<1>1. CASE \E o \in Ops : Publish(o) \/ Expire(o) \/ Quarantine(o)
  <2>1. ASSUME NEW o \in Ops, Expire(o) PROVE Readers!Expire(o)
    BY <2>1 DEF Expire, Readers!Expire, publication
  <2> QED
    BY <1>1, <2>1, PublishShows, QuarantineWithdraws DEF Readers!Next
<1>2. CASE \E o \in Ops : (Begin(o) \/ Publisher(o)) /\ ~Publish(o)
  BY <1>2, PublisherUnseen, Unseen
<1>3. CASE (\E f \in Files : DeleteFile(f)) \/ DeleteTombstone
  BY <1>3, DeletionUnseen
<1>4. CASE \/ Plan \/ FinishReclaiming \/ FinishPass \/ Crash \/ Tick
           \/ (\E o \in Ops : Recheck(o)) \/ (\E e \in Entries : RemoveEntry(e))
           \/ UNCHANGED vars
  <2>1. UNCHANGED <<final, kept, expired>>
    BY <1>4 DEF Plan, GiveUp, FinishReclaiming, FinishPass, Crash, Tick, Recheck, RemoveEntry, DeleteEntry,
                vars, publication
  <2> QED
    BY <2>1, Unseen
<1> QED
  BY <1>1, <1>2, <1>3, <1>4 DEF Next, Maintenance

\* Readers see whole runs only, never one replaced by another, and none vanish
\* before it has expired, whoever dies in the middle of what.
THEOREM Refinement == ASSUME Punctual PROVE Spec => ImplementsVisibleRuns
<1>1. Init => Readers!Init
  BY DEF Init, Readers!Init
<1>2. Inv /\ [Next]_vars => [Readers!Next]_Readers!vars
  BY StepRefines
<1> QED
  BY <1>1, <1>2, Invariance, PTL DEF Spec, ImplementsVisibleRuns, Readers!Spec

-----------------------------------------------------------------------------
(* Run directories whatever the timing *)

\* What no sleeping publisher can disturb: it alone renames its stage, once, and
\* maintenance deletes expired runs from their tombstones only.
NamesInv ==
    /\ pc \in [Ops -> Early \cup Late]
    /\ final \in [Ops -> {"none", "visible", "tombstone"}]
    /\ \A o \in Ops : pc[o] \in Early => final[o] = "none"
    /\ \A o \in Ops : final[o] = "tombstone" => o \in expired
    /\ \A o \in due : o \in Ops /\ o \in expired /\ final[o] # "none"
    /\ phase \in {"idle", "reclaiming", "withdrawing"}
    /\ phase = "idle" => target = NoOp
    /\ phase = "reclaiming" /\ target # NoOp => target \in DOMAIN plan
    /\ phase = "withdrawing" /\ target # NoOp => target \in Ops /\ final[target] = "tombstone"

\* A publisher that does not rename only goes on, and never back to show again.
LEMMA PublisherNames ==
    ASSUME NamesInv, NEW o \in Ops, Begin(o) \/ Publisher(o), ~Publish(o)
    PROVE  NamesInv'
<1>1. UNCHANGED <<final, expired, maintenance>>
  BY PublisherUnseen DEF Begin, Publisher, ClaimOperation, OpenReceipt, WriteReceipt, Stage,
     WriteRunReceipt, Check, Revalidate, Clean, CleanControl, Stop, publication
<1>2. pc' = [pc EXCEPT ![o] = pc'[o]] /\ pc'[o] \in Early \cup Late
  BY DEF Begin, Publisher, ClaimOperation, OpenReceipt, WriteReceipt, Stage, WriteRunReceipt,
     Check, Revalidate, Clean, CleanControl, Stop, Advance, Early, Late, NamesInv
<1>3. pc'[o] \in Early => pc[o] \in Early
  BY DEF Begin, Publisher, ClaimOperation, OpenReceipt, WriteReceipt, Stage, WriteRunReceipt,
     Check, Revalidate, Clean, CleanControl, Stop, Advance, Early, Late, NamesInv
<1>4. pc' \in [Ops -> Early \cup Late]
  BY <1>2 DEF NamesInv
<1>5. \A p \in Ops : pc'[p] \in Early => final'[p] = "none"
  BY <1>1, <1>2, <1>3 DEF NamesInv
<1> QED
  BY <1>1, <1>4, <1>5 DEF NamesInv, maintenance

\* The rename.
LEMMA PublishNames ==
    ASSUME NamesInv, NEW o \in Ops, Publish(o)
    PROVE  NamesInv' /\ Names!Show(o)
<1>1. /\ pc[o] = "rename" /\ pc' = [pc EXCEPT ![o] = "revalidate"]
      /\ final' = [final EXCEPT ![o] = "visible"]
      /\ UNCHANGED <<expired, phase, plan, due, target, crashes>>
  BY DEF Publish, Advance, maintenance
<1>2. final[o] = "none"
  BY <1>1 DEF NamesInv, Early
<1>3. NamesInv'
  BY <1>1, <1>2 DEF NamesInv, Early, Late
<1>4. \A p \in Ops : RunOf[p] = RunOf[o] => final[p] # "visible"
  BY DEF Publish, RunExists
<1>5. [p \in Ops |-> IF final'[p] = "visible" THEN Files ELSE {}]
        = [[p \in Ops |-> IF final[p] = "visible" THEN Files ELSE {}] EXCEPT ![o] = Files]
  BY <1>1 DEF NamesInv
<1> QED
  BY <1>1, <1>3, <1>4, <1>5 DEF Names!Show

\* The quarantine.
LEMMA QuarantineNames ==
    ASSUME NamesInv, NEW o \in Ops, Quarantine(o)
    PROVE  NamesInv' /\ Names!Withdraw(o)
<1>1. /\ o \in due /\ phase = "withdrawing" /\ target' = o
      /\ final' = [final EXCEPT ![o] = "tombstone"]
      /\ UNCHANGED <<pc, expired, phase, plan, due>>
  BY DEF Quarantine
<1>2. o \in expired /\ final[o] # "none"
  BY <1>1 DEF NamesInv
<1>3. NamesInv'
  BY <1>1, <1>2 DEF NamesInv
<1>4. [p \in Ops |-> IF final'[p] = "visible" THEN Files ELSE {}]
        = [[p \in Ops |-> IF final[p] = "visible" THEN Files ELSE {}] EXCEPT ![o] = {}]
  BY <1>1 DEF NamesInv
<1> QED
  BY <1>1, <1>2, <1>3, <1>4 DEF Names!Withdraw

\* The end of a deletion, which frees no publisher to show again.
LEMMA DeleteTombstoneNames ==
    ASSUME NamesInv, DeleteTombstone
    PROVE  NamesInv' /\ UNCHANGED Names!vars
<1>1. /\ target \in Ops /\ final[target] = "tombstone" /\ phase = "withdrawing"
      /\ final' = [final EXCEPT ![target] = "none"]
      /\ due' = due \ {target} /\ target' = NoOp
      /\ UNCHANGED <<pc, expired, phase, plan>>
  BY DEF DeleteTombstone, NamesInv
<1>2. NamesInv'
  BY <1>1 DEF NamesInv
<1>3. \A p \in Ops : final'[p] = "visible" <=> final[p] = "visible"
  BY <1>1 DEF NamesInv
<1> QED
  BY <1>1, <1>2, <1>3 DEF Names!vars

\* Every other step of maintenance and of time.
LEMMA OtherNames ==
    ASSUME NamesInv,
           \/ Plan \/ FinishReclaiming \/ FinishPass \/ Crash \/ Tick
           \/ (\E o \in Ops : Recheck(o)) \/ (\E e \in Entries : RemoveEntry(e))
           \/ (\E f \in Files : DeleteFile(f)) \/ UNCHANGED vars
    PROVE  NamesInv' /\ UNCHANGED <<final, expired>>
<1>1. UNCHANGED <<pc, final, expired>>
  BY DEF Plan, GiveUp, FinishReclaiming, FinishPass, Crash, Tick, Recheck, RemoveEntry, DeleteEntry,
         DeleteFile, vars, publication
<1>2. CASE Plan
  <2>1. \A o \in due' : o \in Ops /\ o \in expired /\ (final[o] = "visible" \/ final[o] = "tombstone")
    BY <1>2 DEF Plan, NamesInv
  <2>2. phase' \in {"reclaiming", "withdrawing"} /\ target' = NoOp
    BY <1>2 DEF Plan, NamesInv
  <2> QED
    BY <1>1, <2>1, <2>2 DEF NamesInv
<1>3. CASE FinishPass \/ Crash
  BY <1>1, <1>3 DEF FinishPass, Crash, Idle, NamesInv
<1>4. CASE FinishReclaiming
  BY <1>1, <1>4 DEF FinishReclaiming, NamesInv
<1>5. CASE \E o \in Ops : Recheck(o)
  BY <1>1, <1>5 DEF Recheck, GiveUp, Idle, NamesInv
<1>6. ASSUME NEW e \in Entries, RemoveEntry(e) PROVE NamesInv'
  BY <1>1, <1>6 DEF RemoveEntry, DeleteEntry, GiveUp, Idle, IsNext, NamesInv
<1>7. CASE Tick \/ (\E f \in Files : DeleteFile(f)) \/ UNCHANGED vars
  <2>1. UNCHANGED maintenance
    BY <1>7 DEF Tick, DeleteFile, vars, maintenance
  <2> QED
    BY <1>1, <2>1 DEF NamesInv, maintenance
<1> QED
  BY <1>1, <1>2, <1>3, <1>4, <1>5, <1>6, <1>7

\* No run is replaced, and none withdrawn before it has expired, however long a
\* publisher sleeps: this much needs no assumption about time.
THEOREM NamesAreKept == Spec => NamesKept
<1>1. Init => NamesInv /\ Names!Init
  BY DEF Init, NamesInv, Names!Init, Early
<1>2. NamesInv /\ [Next]_vars => NamesInv' /\ [Names!Next]_Names!vars
  <2> SUFFICES ASSUME NamesInv, [Next]_vars
               PROVE  NamesInv' /\ [Names!Next]_Names!vars
    OBVIOUS
  <2>1. CASE \E o \in Ops : Publish(o) \/ Quarantine(o)
    BY <2>1, PublishNames, QuarantineNames DEF Names!Next
  <2>2. ASSUME NEW o \in Ops, Begin(o) \/ Publisher(o), ~Publish(o)
        PROVE  NamesInv' /\ UNCHANGED Names!vars
    BY <2>2, PublisherNames, PublisherUnseen DEF Names!vars
  <2>3. ASSUME NEW o \in Ops, Expire(o) PROVE NamesInv' /\ Names!Expire(o)
    BY <2>3 DEF Expire, NamesInv, Names!Expire, publication, maintenance
  <2>4. CASE DeleteTombstone
    BY <2>4, DeleteTombstoneNames
  <2>5. CASE \/ Plan \/ FinishReclaiming \/ FinishPass \/ Crash \/ Tick
             \/ (\E o \in Ops : Recheck(o)) \/ (\E e \in Entries : RemoveEntry(e))
             \/ (\E f \in Files : DeleteFile(f)) \/ UNCHANGED vars
    <3>1. NamesInv' /\ UNCHANGED <<final, expired>>
      BY <2>5, OtherNames
    <3> QED
      BY <3>1 DEF Names!vars
  <2> QED
    BY <2>1, <2>2, <2>3, <2>4, <2>5 DEF Next, Maintenance, Names!Next
<1> QED
  BY <1>1, <1>2, PTL DEF Spec, NamesKept, Names!Spec

=============================================================================
