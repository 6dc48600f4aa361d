------------------------- MODULE CompatibilityRules -------------------------
(***************************************************************************)
(* The rules of packages/core/.../compatibility/engine.py: what the engine *)
(* says of two components, and of a build.  A component is a record of     *)
(* normalised fields, as compatibility/_access.py reads them: a count or a *)
(* measurement is an integer, a name a string, a list of names a set, a    *)
(* connector inventory a function on Connectors.  Messages and evidence    *)
(* are left out.                                                           *)
(***************************************************************************)
EXTENDS Integers

CONSTANTS
    Missing,     \* what lookup returns for a field the record does not carry
    Garbled      \* a connector inventory with an entry that cannot be parsed

\* The words the rules compare a name with; none stands for a missing one.
Words == {"air", "aio", "liquid", "m2", "2.5", "3.5", "m2_nvme", "m2_sata", "sata", "pcie",
          "active", "discontinued", "upcoming", "unverified"}

ASSUME ValuesAssumption ==
    /\ Missing # Garbled
    /\ Missing \notin Words /\ Garbled \notin Words

Verdicts == {"PASS", "WARNING", "UNKNOWN", "FAIL"}

\* is_compatible: warnings are feasible, an unknown is not.
Feasible(report) == report \subseteq {"PASS", "WARNING"}

Categories == {"cpu", "gpu", "motherboard", "memory", "storage",
               "power_supply", "cooler", "case"}

-----------------------------------------------------------------------------
(* The three forms most rules have. *)

Known(x) == x # Missing

\* An empty list of supported values says as little as none.
Listed(S) == S \notin {Missing, {}}

Verdict(known, ok) ==
    IF ~known THEN "UNKNOWN" ELSE IF ok THEN "PASS" ELSE "FAIL"

Match(x, y) == Verdict(Known(x) /\ Known(y), x = y)

\* MUTANT: a list that was never published excludes nothing.
SupportLenient(x, S) == IF Known(x) /\ Listed(S) /\ x \notin S THEN "FAIL" ELSE "PASS"

Support(x, S) == Verdict(Known(x) /\ Listed(S), x \in S)

\* A measurement below the least plausible one is not evidence.
Fit(size, limit, least) ==
    Verdict(Known(size) /\ Known(limit) /\ size >= least /\ limit >= least,
            size <= limit)

-----------------------------------------------------------------------------
(* CPU and motherboard *)

\* A table keyed by CPU model, or else by generation.
EntryFor(table, cpu) ==
    IF ~Known(table) THEN Missing
    ELSE IF cpu.model \in DOMAIN table THEN table[cpu.model]
    ELSE IF cpu.generation \in DOMAIN table THEN table[cpu.generation]
    ELSE Missing

\* The support lists that can be consulted for this CPU.
Consulted(cpu, board) ==
    {l \in {"generations", "models", "chipsets", "matrix"} :
        CASE l = "generations" -> Listed(board.generations)
          [] l = "models"      -> Listed(board.models) /\ Known(cpu.model)
          [] l = "chipsets"    -> Listed(cpu.chipsets)
          [] l = "matrix"      -> Known(board.matrix) /\ DOMAIN board.matrix # {}}

Includes(list, cpu, board) ==
    CASE list = "generations" -> cpu.generation \in board.generations
      [] list = "models"      -> cpu.model \in board.models
      [] list = "chipsets"    -> board.chipset \in cpu.chipsets
      [] list = "matrix"      -> LET entry == EntryFor(board.matrix, cpu)
                                 IN Known(entry) /\ entry.supported

\* What the entry of the support matrix says, and otherwise the board.
MinimumBios(cpu, board) ==
    LET entry == EntryFor(board.matrix, cpu)
    IN IF Known(entry) /\ Known(entry.bios) THEN entry.bios
       ELSE EntryFor(board.minimumBios, cpu)

BiosUpdate(cpu, board) ==
    LET entry == EntryFor(board.matrix, cpu)
    IN IF Known(entry) /\ Known(entry.update) THEN entry.update ELSE board.biosUpdate

BiosRule(cpu, board) ==
    LET minimum == MinimumBios(cpu, board)
        entry == EntryFor(board.matrix, cpu)
        advised == \/ Known(entry) /\ entry.beta
                   \/ Known(board.updateFor) /\ board.updateFor \cap {cpu.generation, cpu.model} # {}
    IN CASE Known(minimum) /\ ~Known(board.bios) -> "UNKNOWN"
         [] Known(minimum) /\ Known(board.bios) /\ board.bios < minimum ->
                CASE BiosUpdate(cpu, board) = Missing -> "UNKNOWN"
                  [] BiosUpdate(cpu, board) = FALSE   -> "FAIL"
                  [] OTHER                            -> "WARNING"
         [] OTHER -> IF advised THEN "WARNING" ELSE "PASS"

\* Every list that is published must include the CPU.
PlatformRule(cpu, board) ==
    LET lists == Consulted(cpu, board)
    IN IF ~Known(cpu.generation) \/ ~Known(board.chipset) \/ lists = {} THEN "UNKNOWN"
       ELSE IF \E l \in lists : ~Includes(l, cpu, board) THEN "FAIL"
       ELSE BiosRule(cpu, board)

-----------------------------------------------------------------------------
(* Clearances *)

\* A GPU that does not name its interface is taken for PCI Express.
GpuSlot(gpu, board) ==
    Verdict(Known(board.pcieSlots) /\ gpu.interface \in {Missing, "pcie"},
            board.pcieSlots >= 1)

RadiatorSizes(case) ==
    IF Known(case.radiatorsAt)
    THEN UNION {case.radiatorsAt[p] : p \in DOMAIN case.radiatorsAt}
    ELSE case.radiators

\* The thickness limit that applies: the one for the whole case, that of the
\* position the radiator needs, or the largest among those it fits.
ThicknessLimit(cooler, case) ==
    LET limits == case.thicknessAt
        fitting == {p \in DOMAIN limits : Known(case.radiatorsAt)
                        /\ p \in DOMAIN case.radiatorsAt
                        /\ cooler.radiator \in case.radiatorsAt[p]}
    IN CASE Known(case.maxThickness) -> case.maxThickness
         [] ~Known(case.maxThickness) /\ ~Known(limits) -> Missing
         [] ~Known(case.maxThickness) /\ Known(limits) ->
              IF Known(cooler.position)
              THEN IF cooler.position \in DOMAIN limits THEN limits[cooler.position] ELSE Missing
              ELSE IF fitting = {} THEN Missing
              ELSE CHOOSE m \in {limits[p] : p \in fitting} : \A p \in fitting : limits[p] <= m

\* What the position a cooler insists on allows.
PositionRule(cooler, case) ==
    CASE ~Known(cooler.position)   -> "PASS"
      [] Known(cooler.position) /\ ~Known(case.radiatorsAt) -> "UNKNOWN"
      [] OTHER -> Verdict(TRUE, /\ cooler.position \in DOMAIN case.radiatorsAt
                                /\ cooler.radiator \in case.radiatorsAt[cooler.position])

\* Either side publishing a thickness obliges the other to.
ThicknessRule(cooler, case) ==
    IF ~Known(cooler.thickness) /\ ~Known(case.maxThickness) /\ ~Known(case.thicknessAt)
    THEN "PASS"
    ELSE LET limit == ThicknessLimit(cooler, case)
         IN Verdict(Known(cooler.thickness) /\ Known(limit), cooler.thickness <= limit)

RadiatorSize(cooler, case) ==
    LET sizes == RadiatorSizes(case)
    IN Verdict(Known(cooler.radiator) /\ (Listed(sizes) \/ Known(case.maxRadiator)),
               IF Listed(sizes) THEN cooler.radiator \in sizes
               ELSE cooler.radiator <= case.maxRadiator)

\* The first of the three that does not pass decides, in this order.
RadiatorRule(cooler, case) ==
    CASE RadiatorSize(cooler, case) = "UNKNOWN" -> "UNKNOWN"
      [] RadiatorSize(cooler, case) # "UNKNOWN" /\ PositionRule(cooler, case) # "PASS" ->
           PositionRule(cooler, case)
      [] OTHER -> IF ThicknessRule(cooler, case) # "PASS" THEN ThicknessRule(cooler, case)
                  ELSE RadiatorSize(cooler, case)

CoolerClearance(cooler, case) ==
    CASE cooler.type = "air" -> Fit(cooler.height, case.coolerHeight, 0)
      [] cooler.type \in {"aio", "liquid"} -> RadiatorRule(cooler, case)
      [] OTHER -> "UNKNOWN"

-----------------------------------------------------------------------------
(* Power *)

CONSTANTS Accessory, HeadroomPercent, TransientPercent   \* PowerPolicy

ASSUME PowerAssumption ==
    /\ Accessory \in Nat
    /\ HeadroomPercent \in 0..100
    /\ TransientPercent \in Nat /\ TransientPercent >= 100

\* math.ceil(n / 100)
Hundredths(n) == -((-n) \div 100)

Plausible(cpu, gpu, psu) ==
    /\ Known(cpu.power) /\ Known(gpu.power) /\ Known(psu.wattage)
    /\ cpu.power >= 0 /\ gpu.power >= 0 /\ psu.wattage > 0

RequiredWattage(cpu, gpu) ==
    Hundredths((cpu.power + gpu.power + Accessory) * (100 + HeadroomPercent))

PowerCapacity(cpu, gpu, psu) ==
    Verdict(Plausible(cpu, gpu, psu), psu.wattage >= RequiredWattage(cpu, gpu))

\* In hundredths of a watt: a published transient, or the policy's multiple.
GpuTransient(gpu) ==
    IF Known(gpu.transient) /\ gpu.transient > gpu.power THEN gpu.transient * 100
    ELSE IF Known(gpu.transient) THEN gpu.power * 100
    ELSE gpu.power * TransientPercent

TransientCapacity(cpu, gpu, psu) ==
    Verdict(/\ Plausible(cpu, gpu, psu)
            /\ gpu.transient = Missing \/ gpu.transient >= 0
            /\ psu.transient = Missing \/ psu.transient > 0,
            (IF Known(psu.transient) THEN psu.transient ELSE psu.wattage)
                >= Hundredths((cpu.power + Accessory) * 100 + GpuTransient(gpu)))

Connectors == {"8 pin", "6 pin", "other"}

NoConnectors == [c \in Connectors |-> 0]

\* A 6+2-pin lead may serve as a 6-pin once the native 8-pins are supplied.
ConnectorShortage(required, available) ==
    \/ \E c \in Connectors \ {"6 pin"} : required[c] > available[c]
    \/ required["6 pin"] > available["6 pin"] + (available["8 pin"] - required["8 pin"])

\* A GPU that needs none is fine with any supply, even one that lists none.
GpuConnectors(gpu, psu) ==
    IF Garbled \in {gpu.connectors, psu.pcie} \/ gpu.connectors = Missing THEN "UNKNOWN"
    ELSE IF gpu.connectors = NoConnectors THEN "PASS"
    ELSE Verdict(Known(psu.pcie), ~ConnectorShortage(gpu.connectors, psu.pcie))

\* EPS connectors, counted: the board's requirement and the supply's.
EpsConnectors(board, psu) == Fit(board.eps, psu.eps, 0)

-----------------------------------------------------------------------------
(* Storage *)

\* Interfaces the board lists, or those its slot counts imply.
StorageInterfaces(board) ==
    IF Listed(board.storageInterfaces) THEN board.storageInterfaces
    ELSE {i \in {"m2_nvme", "sata", "pcie"} :
            LET slots == CASE i = "m2_nvme" -> board.m2Slots
                           [] i = "sata"    -> board.sataPorts
                           [] i = "pcie"    -> board.pcieSlots
            IN Known(slots) /\ slots > 0}

CountsSlots(board) == \E n \in {board.m2Slots, board.sataPorts, board.pcieSlots} : Known(n)

StorageInterface(storage, board) ==
    Verdict(/\ Known(storage.interface)
            /\ Listed(board.storageInterfaces) \/ CountsSlots(board),
            storage.interface \in StorageInterfaces(board))

\* The slot the device takes, and whether the board has one: an explicit table,
\* or else the board's own counts, in which an absent one counts as none.
StorageSlot(storage, board) ==
    LET slot == CASE storage.interface \in {"m2_nvme", "m2_sata"} -> "m2"
                  [] storage.interface \in {"sata", "pcie"} -> storage.interface
                  [] OTHER -> "none"
        count == CASE slot = "m2"   -> board.m2Slots
                   [] slot = "sata" -> board.sataPorts
                   [] slot = "pcie" -> board.pcieSlots
    IN IF slot = "none" THEN "UNKNOWN"
       ELSE IF Known(board.storageSlots)
       THEN Verdict(TRUE, slot \in DOMAIN board.storageSlots /\ board.storageSlots[slot] >= 1)
       ELSE Verdict(CountsSlots(board), Known(count) /\ count >= 1)

StorageForm(storage) ==
    IF ~Known(storage.form) /\ storage.interface \in {"m2_nvme", "m2_sata"} THEN "m2"
    ELSE storage.form

\* Bays by form factor, or a total with the forms it takes.
StorageBay(storage, case) ==
    LET form == StorageForm(storage)
    IN IF form = "m2" THEN "PASS"
       ELSE IF form \notin {"2.5", "3.5"} \/ case.bays = Garbled THEN "UNKNOWN"
       ELSE IF Known(case.bays)
       THEN Verdict(TRUE, form \in DOMAIN case.bays /\ case.bays[form] >= 1)
       ELSE Verdict(Known(case.driveBays) /\ Known(case.driveForms),
                    form \in case.driveForms /\ case.driveBays >= 1)

-----------------------------------------------------------------------------
(* What check_pair says *)

\* The rules of an ordered pair.
PairRules(l, r) ==
    LET pair == <<l.category, r.category>>
    IN CASE pair = <<"cpu", "motherboard">> -> {Match(l.socket, r.socket), PlatformRule(l, r)}
         [] pair = <<"memory", "motherboard">> ->
                {Match(l.type, r.memoryType), Fit(l.capacity, r.maxMemory, 1),
                 Fit(l.modules, r.memorySlots, 1)}
         [] pair = <<"gpu", "motherboard">> -> {GpuSlot(l, r)}
         [] pair = <<"motherboard", "case">> -> {Support(l.form, r.forms)}
         [] pair = <<"gpu", "case">> -> {Fit(l.length, r.gpuLength, 0), Fit(l.width, r.gpuWidth, 1)}
         [] pair = <<"cooler", "case">> -> {CoolerClearance(l, r)}
         [] pair = <<"storage", "case">> -> {StorageBay(l, r)}
         [] pair = <<"power_supply", "case">> -> {Support(l.form, r.psuForms)}
         [] pair = <<"cpu", "cooler">> -> {Support(l.socket, r.sockets)}
         [] pair = <<"gpu", "power_supply">> -> {GpuConnectors(l, r)}
         [] pair = <<"motherboard", "power_supply">> -> {EpsConnectors(l, r)}
         [] pair = <<"storage", "motherboard">> -> {StorageInterface(l, r), StorageSlot(l, r)}
         [] OTHER -> {}

PairVerdicts(l, r) == PairRules(l, r) \cup PairRules(r, l)

\* _authority_unknowns: a record that wants authoritative evidence and has none.
Unverified(p) == p.authority = "unverified"

\* MUTANT: a pair is refused over a part no longer sold, kept or not.
CheckPairOnSale(l, r) ==
    IF Unverified(l) \/ Unverified(r) THEN {"UNKNOWN"}
    ELSE IF {l.status, r.status} # {"active"} THEN {"FAIL"} ELSE PairVerdicts(l, r)

CheckPair(l, r) ==
    IF Unverified(l) \/ Unverified(r) THEN {"UNKNOWN"} ELSE PairVerdicts(l, r)

-----------------------------------------------------------------------------
(* What check_build says.  A build gives a category its component. *)

\* The pairs check_build evaluates; EPS only where the board states a need.
Pairings == {<<"cpu", "motherboard">>, <<"gpu", "motherboard">>, <<"memory", "motherboard">>,
             <<"motherboard", "case">>, <<"gpu", "case">>, <<"cooler", "case">>,
             <<"storage", "case">>, <<"power_supply", "case">>, <<"cpu", "cooler">>,
             <<"gpu", "power_supply">>, <<"storage", "motherboard">>}

EvaluatedPairs(build) ==
    {p \in Pairings : {p[1], p[2]} \subseteq DOMAIN build}
    \cup {p \in {<<"motherboard", "power_supply">>} :
            /\ {p[1], p[2]} \subseteq DOMAIN build
            /\ Known(build[p[1]].eps)}

PowerVerdicts(build) ==
    IF ~({"cpu", "gpu", "power_supply"} \subseteq DOMAIN build) THEN {}
    ELSE LET cpu == build["cpu"]
             gpu == build["gpu"]
             psu == build["power_supply"]
         IN {PowerCapacity(cpu, gpu, psu), TransientCapacity(cpu, gpu, psu)}

\* How a device's interface may be named in a published conflict.  A rule's names
\* lose their punctuation when read and the interface's own does not, so that a
\* rule on "m2_nvme" matches nothing and one on "storage m2_nvme" does.
StorageResources(storage) ==
    {<<"storage", i>> : i \in {storage.interface} \ {Missing}}
    \cup {<<i>> : i \in {storage.interface} \cap {"sata", "pcie"}}

ActiveResources(build) ==
    {<<c>> : c \in DOMAIN build}
    \cup (IF "storage" \in DOMAIN build THEN StorageResources(build["storage"]) ELSE {})
    \cup {r \in {<<"aio radiator">>} : "cooler" \in DOMAIN build /\ build["cooler"].type = "aio"}
    \cup {r \in {<<"gpu pcie">>} : "gpu" \in DOMAIN build}

ConflictVerdicts(build) ==
    IF "motherboard" \notin DOMAIN build THEN {}
    ELSE LET conflicts == build["motherboard"].conflicts
         IN CASE conflicts = Missing -> {}
              [] conflicts = Garbled -> {"UNKNOWN"}
              [] OTHER -> {Verdict(TRUE, \A r \in conflicts : ~(r \subseteq ActiveResources(build)))}

\* Drive bays a radiator takes: by position and size, or by size.
BaysLost(cooler, case) ==
    LET keys == {<<cooler.position, cooler.radiator>>, <<"any", cooler.radiator>>} \cap DOMAIN case.bayLoss
    IN IF <<cooler.position, cooler.radiator>> \in keys
       THEN case.bayLoss[<<cooler.position, cooler.radiator>>]
       ELSE IF keys # {} THEN case.bayLoss[<<"any", cooler.radiator>>] ELSE Missing

RadiatorBays(cooler, case, storage) ==
    LET form == StorageForm(storage)
        lost == BaysLost(cooler, case)
    IN IF form = "m2" THEN "PASS"
       ELSE IF \/ ~Known(cooler.radiator) \/ ~Known(form)
               \/ case.bays \in {Missing, Garbled} \/ case.bayLoss = Garbled THEN "UNKNOWN"
       ELSE IF form \notin DOMAIN case.bays \/ ~Known(lost) THEN "UNKNOWN"
       ELSE Verdict(TRUE, case.bays[form] - lost >= 1)

RadiatorVerdicts(build) ==
    IF ~({"cooler", "case", "storage"} \subseteq DOMAIN build) THEN {}
    ELSE LET cooler == build["cooler"]
             case == build["case"]
         IN IF ~Known(case.bayLoss) \/ cooler.type # "aio" THEN {}
            ELSE {RadiatorBays(cooler, case, build["storage"])}

\* A part that is no longer sold may stay only where the user keeps it.
Lifecycle(p, retained) ==
    CASE p.status = Missing -> IF retained THEN {"UNKNOWN"} ELSE {}
      [] p.status = "active" -> {"PASS"}
      [] p.status = "discontinued" -> IF retained THEN {"WARNING"} ELSE {"FAIL"}
      [] p.status = "upcoming" -> {"FAIL"}
      [] OTHER -> {"UNKNOWN"}

Selected(build) == {build[c] : c \in DOMAIN build}

\* A retained part that is not selected fails, and its lifecycle is unknown.
RetainedVerdicts(build, existing) ==
    (UNION {Lifecycle(p, p \in existing) : p \in Selected(build)})
    \cup (UNION {IF e \in Selected(build) THEN {"PASS"} ELSE {"FAIL", "UNKNOWN"} : e \in existing})

CheckBuild(build, existing) ==
    {IF c \in DOMAIN build THEN "PASS" ELSE "FAIL" : c \in Categories}
    \cup IF \E p \in Selected(build) \cup existing : Unverified(p) THEN {"UNKNOWN"}
         ELSE (UNION {PairVerdicts(build[p[1]], build[p[2]]) : p \in EvaluatedPairs(build)})
              \cup PowerVerdicts(build) \cup ConflictVerdicts(build)
              \cup RadiatorVerdicts(build) \cup RetainedVerdicts(build, existing)
=============================================================================
