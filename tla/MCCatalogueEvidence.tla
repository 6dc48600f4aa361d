------------------------- MODULE MCCatalogueEvidence -------------------------
(* One build, and what its parts may be restated as. *)
EXTENDS CatalogueEvidence, TLC

Common(c) == [category |-> c, status |-> "active", authority |-> "verified", brand |-> "known"]

MCCpu == Common("cpu") @@ [socket |-> "am5", generation |-> "zen4", model |-> "ryzen",
    chipsets |-> Missing, power |-> 120, tdp |-> 105]

MCGpu == Common("gpu") @@ [interface |-> Missing, length |-> 300, width |-> 3, power |-> 220,
    transient |-> Missing, connectors |-> [NoConnectors EXCEPT !["8 pin"] = 1, !["6 pin"] = 1],
    vram |-> 12, recommended |-> Missing]

MCBoard == Common("motherboard") @@ [socket |-> "am5", chipset |-> "b650",
    generations |-> {"zen4"}, models |-> Missing, matrix |-> Missing, minimumBios |-> Missing,
    bios |-> 3, biosUpdate |-> Missing, updateFor |-> Missing, form |-> "atx",
    memoryType |-> "ddr5", maxMemory |-> 128, memorySlots |-> 4, pcieSlots |-> 2,
    m2Slots |-> 2, sataPorts |-> 4, storageInterfaces |-> Missing, storageSlots |-> Missing,
    conflicts |-> Missing, eps |-> Missing, wifi |-> TRUE]

MCMemory == Common("memory") @@ [type |-> "ddr5", capacity |-> 32, modules |-> 2]

MCStorage == Common("storage") @@ [interface |-> "m2_nvme", form |-> "m2", capacity |-> 1000]

MCSupply == Common("power_supply") @@ [wattage |-> 550, transient |-> Missing, form |-> "atx",
    pcie |-> [NoConnectors EXCEPT !["8 pin"] = 2], eps |-> 1]

MCCooler == Common("cooler") @@ [type |-> "air", height |-> 158, radiator |-> Missing,
    thickness |-> Missing, position |-> Missing, sockets |-> {"am5"}]

MCCase == Common("case") @@ [forms |-> {"atx"}, gpuLength |-> 320, gpuWidth |-> 3,
    coolerHeight |-> 160, radiators |-> {240}, radiatorsAt |-> Missing, maxRadiator |-> Missing,
    thicknessAt |-> Missing, maxThickness |-> Missing, bays |-> Missing, driveBays |-> 2,
    driveForms |-> Missing, bayLoss |-> Missing, psuForms |-> {"atx"}, size |-> "mid"]

MCBaseline == [c \in Categories |->
    CASE c = "cpu" -> MCCpu [] c = "gpu" -> MCGpu [] c = "motherboard" -> MCBoard
      [] c = "memory" -> MCMemory [] c = "storage" -> MCStorage
      [] c = "power_supply" -> MCSupply [] c = "cooler" -> MCCooler [] c = "case" -> MCCase]

(* Parts that do not fit, and datasheets that say more than the catalogue. *)
MCVariants == [c \in Categories |-> {MCBaseline[c]} \cup
    CASE c = "cpu" -> {[MCCpu EXCEPT !.generation = "zen5", !.power = 121],
                       [MCCpu EXCEPT !.chipsets = {"x870"}]}
      [] c = "gpu" -> {[MCGpu EXCEPT !.connectors = [NoConnectors EXCEPT !["8 pin"] = 3]],
                       [MCGpu EXCEPT !.length = 340, !.transient = 500]}
      [] c = "motherboard" ->
            {[MCBoard EXCEPT !.socket = "lga", !.memoryType = "ddr4", !.wifi = FALSE],
             [MCBoard EXCEPT !.models = {"ryzen"}, !.generations = {"zen3"}, !.eps = 2,
                             !.conflicts = {{<<"gpu pcie">>, <<"storage", "m2_nvme">>}}],
             [MCBoard EXCEPT !.bios = 1, !.storageInterfaces = {"m2_nvme", "m2_sata"}, !.matrix =
                 [k \in {"zen4", "zen5"} |->
                    [supported |-> TRUE, bios |-> 2, update |-> k = "zen4", beta |-> FALSE]]]}
      [] c = "memory" -> {[MCMemory EXCEPT !.modules = 8, !.capacity = 256]}
      [] c = "storage" -> {[MCStorage EXCEPT !.interface = "sata", !.form = "3.5"],
                           [MCStorage EXCEPT !.interface = "m2_sata", !.form = "2.5"]}
      [] c = "power_supply" -> {[MCSupply EXCEPT !.wattage = 500], [MCSupply EXCEPT !.form = "sfx"],
                                [MCSupply EXCEPT !.transient = 450], [MCSupply EXCEPT !.pcie = Garbled]}
      [] c = "cooler" -> {[MCCooler EXCEPT !.type = "aio", !.radiator = 360, !.thickness = 27],
                          [MCCooler EXCEPT !.sockets = {"lga"}], [MCCooler EXCEPT !.height = 170]}
      [] c = "case" -> {[MCCase EXCEPT !.maxRadiator = 360, !.maxThickness = 30,
                            !.bays = [b \in {"3.5"} |-> 1],
                            !.bayLoss = [k \in {<<"any", 360>>} |-> 1]]}]

MCNone == [vram |-> Missing, memory |-> Missing, storage |-> Missing, memoryType |-> Missing,
           boardForm |-> Missing, caseSize |-> Missing, wifi |-> FALSE, excludedBrands |-> {}]

MCRequests == {[MCNone EXCEPT !.vram = 8, !.memory = 32, !.storage = 1000, !.memoryType = "ddr5",
                              !.boardForm = "atx", !.caseSize = "mid", !.wifi = TRUE]}
==============================================================================
