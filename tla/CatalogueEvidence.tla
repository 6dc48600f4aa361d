------------------------- MODULE CatalogueEvidence -------------------------
(***************************************************************************)
(* The evidence behind a build, as application/catalog.py serves it: from  *)
(* one snapshot of the catalogue to the next a specification is restated,  *)
(* withdrawn, loses its authority, or its product is no longer sold, and   *)
(* the gates of the pipeline, the engine and the solver judge again.       *)
(***************************************************************************)
EXTENDS SolverRules

CONSTANTS
    Variants,     \* [Categories -> sets of records]: what a part may be restated as
    Baseline,     \* a build
    Requests,     \* requirements a user may state
    MaxChanges    \* bound: changes of evidence

\* What a record of each category carries; a field without value is Missing.
Fields(c) ==
    {"category", "status", "authority", "brand"} \cup
    CASE c = "cpu"          -> {"socket", "generation", "model", "chipsets", "power", "tdp"}
      [] c = "gpu"          -> {"interface", "length", "width", "power", "transient",
                                "connectors", "vram", "recommended"}
      [] c = "motherboard"  -> {"socket", "chipset", "generations", "models", "matrix",
                                "minimumBios", "bios", "biosUpdate", "updateFor", "form",
                                "memoryType", "maxMemory", "memorySlots", "pcieSlots",
                                "m2Slots", "sataPorts", "storageInterfaces",
                                "storageSlots", "conflicts", "eps", "wifi"}
      [] c = "memory"       -> {"type", "capacity", "modules"}
      [] c = "storage"      -> {"interface", "form", "capacity"}
      [] c = "power_supply" -> {"wattage", "transient", "form", "pcie", "eps"}
      [] c = "cooler"       -> {"type", "height", "radiator", "thickness", "position",
                                "sockets"}
      [] c = "case"         -> {"forms", "gpuLength", "gpuWidth", "coolerHeight", "radiators",
                                "radiatorsAt", "maxRadiator", "thicknessAt", "maxThickness",
                                "bays", "driveBays", "driveForms", "bayLoss", "psuForms",
                                "size"}

\* The fields whose values are added up or compared with a request's.
Amount == Int \cup {Missing}

Described(c, p) ==
    /\ DOMAIN p = Fields(c) /\ p.category = c
    /\ \A f \in {"power", "vram", "capacity", "wattage"} \cap Fields(c) : p[f] \in Amount
    /\ c = "gpu" => p.connectors \in [Connectors -> Nat] \cup {Missing, Garbled}

ASSUME EvidenceAssumption ==
    /\ \A c \in Categories : \A p \in Variants[c] \cup {Baseline[c]} : Described(c, p)
    /\ DOMAIN Baseline = Categories
    /\ \A r \in Requests : {r.vram, r.memory, r.storage} \subseteq Amount
    /\ MaxChanges \in Nat

VARIABLES
    build,      \* the record of each category's part
    lost,       \* the critical fields withdrawn since the record was stated
    kept,       \* the categories whose part the user retains
    request,
    changes

evidence == <<build, lost, kept, request, changes>>

-----------------------------------------------------------------------------
(* What a record holds *)

\* _COMPATIBILITY_CRITICAL_FIELDS, but for the two no rule reads (atx_version and
\* estimated_cooling_capacity_watts).
Critical(c) ==
    CASE c = "cpu"          -> {"socket", "generation", "power"}
      [] c = "gpu"          -> {"length", "width", "power", "connectors"}
      [] c = "motherboard"  -> {"socket", "chipset", "generations", "form", "memoryType",
                                "maxMemory", "memorySlots", "pcieSlots", "m2Slots",
                                "sataPorts", "bios"}
      [] c = "memory"       -> {"type", "capacity", "modules"}
      [] c = "storage"      -> {"interface", "form"}
      [] c = "power_supply" -> {"wattage", "form", "pcie", "eps"}
      [] c = "cooler"       -> {"type", "sockets", "height", "radiator"}
      [] c = "case"         -> {"forms", "gpuLength", "gpuWidth", "coolerHeight",
                                "psuForms", "radiators", "driveBays"}

\* What a field holds that no source gives a value for.
Absent(f) ==
    CASE f \in {"connectors", "pcie"} -> NoConnectors
      [] f \in {"generations", "sockets", "forms", "psuForms", "radiators"} -> {}
      [] OTHER -> Missing

Existing == {build[c] : c \in kept}

Accepted == Feasible(CheckBuild(build, Existing))

-----------------------------------------------------------------------------
(* Changes from one snapshot to the next *)

EvidenceInit ==
    /\ build = Baseline
    /\ lost = {}
    /\ kept = {}
    /\ request \in Requests
    /\ changes = 0

\* A source no longer states the field.
Withdraw(c, f) ==
    /\ <<c, f>> \notin lost
    /\ build' = [build EXCEPT ![c][f] = Absent(f)]
    /\ lost' = lost \cup {<<c, f>>}
    /\ UNCHANGED <<kept, request>>

\* Another specification of the part, or another part in its place.
Restate(c, p) ==
    /\ p # build[c]
    /\ build' = [build EXCEPT ![c] = p]
    /\ lost' = {l \in lost : l[1] # c}
    /\ UNCHANGED <<kept, request>>

\* The product is no longer sold.
Retire(c) ==
    /\ build[c].status = "active"
    /\ build' = [build EXCEPT ![c].status = "discontinued"]
    /\ UNCHANGED <<lost, kept, request>>

\* A source that is no manufacturer joins the product's provenance.
Demote(c) ==
    /\ ~Unverified(build[c])
    /\ build' = [build EXCEPT ![c].authority = "unverified"]
    /\ UNCHANGED <<lost, kept, request>>

\* The user has the part already.
Keep(c) ==
    /\ c \notin kept
    /\ kept' = kept \cup {c}
    /\ UNCHANGED <<build, lost, request>>

EvidenceNext ==
    /\ changes < MaxChanges
    /\ changes' = changes + 1
    /\ \/ \E c \in Categories : \E f \in Critical(c) : Withdraw(c, f)
       \/ \E c \in Categories : \E p \in Variants[c] : Restate(c, p)
       \/ \E c \in Categories : Retire(c)
       \/ \E c \in Categories : Demote(c)
       \/ \E c \in Categories : Keep(c)

EvidenceSpec == EvidenceInit /\ [][EvidenceNext]_evidence

-----------------------------------------------------------------------------
(* Properties *)

(* A withdrawn field another field answers for: a board with other lists of    *)
(* CPUs, a case with a largest radiator, the form of an M.2 device.  And an    *)
(* inventory that could not be read: a GPU without connectors needs none.      *)
AnsweredElsewhere(c, f) ==
    \/ c = "motherboard" /\ f = "generations"
          /\ Consulted(build["cpu"], build[c]) # {"generations"}
    \/ c = "case" /\ f = "radiators" /\ Known(build[c].maxRadiator)
    \/ c = "storage" /\ f = "form" /\ build[c].interface \in {"m2_nvme", "m2_sata"}
    \/ c = "power_supply" /\ f = "pcie" /\ build[c].pcie = Garbled

(* Losing evidence never makes a build acceptable: where the engine refused or *)
(* could not tell, taking a critical field away leaves it so, unless another   *)
(* field answers, or the field is a GPU's connectors, which MissingIsUnknown   *)
(* is about.  The rules of engine.py fail closed one by one; this is about all *)
(* of them on one build, defaults of the domain included.                      *)
EvidenceOnlyHurts ==
    [][\A c \in Categories : \A f \in Critical(c) :
         /\ Withdraw(c, f)
         /\ ~AnsweredElsewhere(c, f) /\ <<c, f>> # <<"gpu", "connectors">>
         /\ ~Accepted
         => ~Accepted']_evidence

\* COMPATIBILITY_PAIRS
PrunedPairs ==
    {<<"cpu", "motherboard">>, <<"memory", "motherboard">>, <<"motherboard", "case">>,
     <<"gpu", "case">>, <<"cooler", "case">>, <<"cpu", "cooler">>,
     <<"gpu", "power_supply">>, <<"storage", "motherboard">>}

(* A build the whole-build check accepts survives the pruning of candidates by *)
(* pairs, retained and discontinued parts included: check_pair is never        *)
(* stricter than check_build.  (pipeline.py:37 "can safely reject a component  *)
(* before optimisation")                                                       *)
PruningSpares ==
    Accepted => \A pair \in PrunedPairs : Feasible(CheckPair(build[pair[1]], build[pair[2]]))

(* What is stated twice means the same.  A part the retrieval filters let      *)
(* through meets the request for validation.py, and the other way round; and   *)
(* the solver's power constraint refuses no supply that the engine finds       *)
(* sufficient, so that no build is lost between two ways to add up the load.   *)
StatedTwiceAgrees ==
    /\ \A c \in Categories : PassesFilters(build[c], request) <=> MeetsRequest(build[c], request)
    /\ Accepted => PowerAccepted(build)

(* docs/product-requirements.md:69 "Missing socket, BIOS, dimensions, slot     *)
(* width, connector, or power data produces UNKNOWN, not PASS.", of the        *)
(* connectors a GPU needs.                                                     *)
MissingIsUnknown ==
    <<"gpu", "connectors">> \in lost => "UNKNOWN" \in CheckPair(build["gpu"], build["power_supply"])
=============================================================================
