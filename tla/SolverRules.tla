---------------------------- MODULE SolverRules ----------------------------
(***************************************************************************)
(* The rules that the retrieval filters and the optimiser state a second   *)
(* time, beside the compatibility engine: retrieval/filters.py with the    *)
(* filters application/pipeline.py builds, optimizer/validation.py,        *)
(* optimizer/scoring.py, and the power and connector constraints of        *)
(* optimizer/engine.py.  Components are the records of CompatibilityRules, *)
(* with whole watts, of which the candidate adapter's rounding up leaves   *)
(* every value as it is.                                                   *)
(***************************************************************************)
EXTENDS CompatibilityRules

CONSTANTS
    Allowances,         \* category_power_allowances_watts, all categories together
    SolverHeadroom,     \* power_headroom_percent
    RequiredEps         \* required_eps_connectors

ASSUME SolverAssumption ==
    /\ Allowances \in Nat /\ SolverHeadroom \in 0..100 /\ RequiredEps \in Nat

\* As shipped, the solver asks for no more power than the engine: 90 W of allowances
\* and 25% (optimizer/models.py:259, 287) against 100 W and 25% (compatibility/
\* models.py:207).  Neither is configured anywhere.
ASSUME PolicyAssumption ==
    Allowances <= Accessory /\ SolverHeadroom <= HeadroomPercent

-----------------------------------------------------------------------------
(* The structured requirements of a request; Missing where it makes none. *)

Asks(limit) == limit # Missing

\* MUTANT: a product that does not say how much it has passes.
AtLeastLenient(value, limit) == Asks(limit) /\ Known(value) => value >= limit

AtLeast(value, limit) == Asks(limit) => Known(value) /\ value >= limit

Exactly(value, wanted) == Asks(wanted) => value = wanted

\* product_matches_filters under the filters of the product's category.  Price
\* and stock are left to the listings, which BuildGates has.
PassesFilters(p, request) ==
    /\ p.brand \notin request.excludedBrands
    /\ p.category = "gpu" => AtLeast(p.vram, request.vram)
    /\ p.category = "memory" =>
           AtLeast(p.capacity, request.memory) /\ Exactly(p.type, request.memoryType)
    /\ p.category = "motherboard" =>
           /\ Exactly(p.memoryType, request.memoryType)
           /\ Exactly(p.form, request.boardForm)
           /\ request.wifi => p.wifi = TRUE
    /\ p.category = "storage" => AtLeast(p.capacity, request.storage)
    /\ p.category = "case" => Exactly(p.size, request.caseSize)

\* The load a CPU is counted at: its peak power, or else its TDP.
CpuDraw(cpu) == IF Known(cpu.power) THEN cpu.power ELSE cpu.tdp

\* What the optimiser refuses a candidate for, whatever the request says.
Evidenced(p) ==
    /\ p.category = "gpu" => Known(p.power)
    /\ p.category = "cpu" => Known(CpuDraw(p))
    /\ p.category = "power_supply" =>
           Known(p.wattage) /\ Known(p.eps) /\ p.eps >= RequiredEps

\* candidate_eligibility_reasons: the part of it the request decides.
MeetsRequest(p, request) ==
    LET refused ==
        CASE p.category = "gpu" -> Asks(request.vram) /\ (~Known(p.vram) \/ p.vram < request.vram)
          [] p.category = "memory" ->
                \/ Asks(request.memory) /\ (~Known(p.capacity) \/ p.capacity < request.memory)
                \/ Asks(request.memoryType) /\ p.type # request.memoryType
          [] p.category = "storage" ->
                Asks(request.storage) /\ (~Known(p.capacity) \/ p.capacity < request.storage)
          [] p.category = "motherboard" ->
                \/ request.wifi /\ p.wifi # TRUE
                \/ Asks(request.memoryType) /\ p.memoryType # request.memoryType
                \/ Asks(request.boardForm) /\ p.form # request.boardForm
          [] p.category = "case" -> Asks(request.caseSize) /\ p.size # request.caseSize
          [] OTHER -> FALSE
    IN p.brand \notin request.excludedBrands /\ ~refused

-----------------------------------------------------------------------------
(* The build as the solver sees it *)

\* estimated_load_watts: nothing is added for the supply itself.
EstimatedLoad(build) == CpuDraw(build["cpu"]) + build["gpu"].power + Allowances

\* The supply carries the load and the headroom, in the integers of the model.
PowerAccepted(build) ==
    EstimatedLoad(build) * (100 + SolverHeadroom) <= build["power_supply"].wattage * 100

\* Connectors are compared name by name, a supply's sixes and eights apart.
ConnectorsSatisfy(required, available) == \A c \in Connectors : available[c] >= required[c]

SolverAccepts(build) ==
    LET gpu == build["gpu"]
        psu == build["power_supply"]
    IN /\ \A c \in Categories : Evidenced(build[c])
       /\ PowerAccepted(build)
       /\ ConnectorsSatisfy(gpu.connectors, psu.pcie)
       /\ Known(gpu.recommended) => psu.wattage >= gpu.recommended
=============================================================================
