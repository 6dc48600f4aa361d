----------------------------- MODULE BuildGates -----------------------------
(***************************************************************************)
(* What a recommended build must satisfy, and the stages that narrow the   *)
(* catalogue down to it: application/pipeline.py (filters, pruning),       *)
(* application/services.py (the optimisation problem), optimizer/          *)
(* validation.py and the constraints of the CP-SAT model in                *)
(* optimizer/engine.py.  What the compatibility rules say of two parts, of *)
(* a whole build, and what the solver's power and connector rules say, is  *)
(* part of the catalogue: CompatibilityRules and SolverRules define it.    *)
(***************************************************************************)
EXTENDS Integers, Sequences, FiniteSets, SequencesExt, FiniteSetsExt

CONSTANTS
    Categories,
    Products,
    CategoryOf,       \* [Products -> Categories]
    PairList,         \* COMPATIBILITY_PAIRS, a sequence of pairs of categories
    Profiles,
    Score,            \* [Profiles -> [Products -> Int]], the objective's coefficients
    Caution,          \* [Products -> [Products -> Nat]], the penalty of a pair with a warning
    PoolLimit,        \* CandidateLimits, the same for every category
    Distance          \* diversity_distance

ASSUME GatesAssumption ==
    /\ IsFiniteSet(Categories) /\ IsFiniteSet(Products)
    /\ CategoryOf \in [Products -> Categories]
    /\ PairList \in Seq(Categories \X Categories)
    /\ Score \in [Profiles -> [Products -> Int]]
    /\ Caution \in [Products -> [Products -> Nat]]
    /\ PoolLimit \in Nat \ {0}
    /\ Distance \in Nat \ {0}

InCategory(c) == {p \in Products : CategoryOf[p] = c}

\* One part for every category.
Selections == {s \in [Categories -> Products] : \A c \in Categories : CategoryOf[s[c]] = c}

Parts(s) == {s[c] : c \in Categories}

(* A catalogue snapshot: the products it knows, those still sold, those with a *)
(* new listing in stock and its price, the pairs check_pair does not find      *)
(* feasible, the builds only check_build refuses, and the builds the solver's  *)
(* own power and connector rules refuse.                                       *)
CatalogueShape ==
    [known : SUBSET Products, active : SUBSET Products, listed : SUBSET Products,
     price : [Products -> Nat], clash : SUBSET SUBSET Products,
     refused : SUBSET Selections, weak : SUBSET Selections]

(* A request: the parts to retain, those of them paid from the budget, the     *)
(* products its requirements and excluded brands rule out, and the profiles.   *)
RequestShape ==
    [existing : SUBSET Products, included : SUBSET Products, budget : Nat,
     barred : SUBSET Products, profiles : Seq(Profiles)]

Retained(request) == {CategoryOf[p] : p \in request.existing}

Clashing(cat, p, q) == {p, q} \in cat.clash

\* check_complete_build, given the parts the user keeps.
Compatible(cat, s, existing) ==
    /\ existing \subseteq Parts(s)
    /\ Parts(s) \subseteq cat.active \cup existing
    /\ \A p, q \in Parts(s) : ~Clashing(cat, p, q)
    /\ s \notin cat.refused

-----------------------------------------------------------------------------
(* CandidatePipeline.prepare *)

\* Documents of products still sold, through the structured filters.
Retrievable(cat, request, c) ==
    {p \in InCategory(c) : /\ p \in cat.active
                           /\ p \in cat.listed
                           /\ cat.price[p] <= request.budget
                           /\ p \notin request.barred}

\* A retained part must be in the catalogue and meet the requirements.
LocksAccepted(cat, request) == request.existing \subseteq cat.known \ request.barred

\* The retriever returns so many of a category; which ones is its business.
Cuts(S, n) == IF Cardinality(S) <= n THEN {S} ELSE kSubset(n, S)

\* One pool for each category, from those it may have.
PoolsFrom(pools) ==
    {choice \in [Categories -> UNION {pools[c] : c \in Categories}] :
        \A c \in Categories : choice[c] \in pools[c]}

Retrievals(cat, request) ==
    PoolsFrom([c \in Categories |->
        IF c \in Retained(request) THEN {request.existing \cap InCategory(c)}
        ELSE Cuts(Retrievable(cat, request, c), 3 * PoolLimit)])

\* One pair of categories: the parts on either side with a feasible partner.
Revise(cat, pools, pair) ==
    LET left == {p \in pools[pair[1]] : \E q \in pools[pair[2]] : ~Clashing(cat, p, q)}
        right == {q \in pools[pair[2]] : \E p \in left : ~Clashing(cat, p, q)}
    IN [pools EXCEPT ![pair[1]] = left, ![pair[2]] = right]

Sweep(cat, pools) == FoldLeft(LAMBDA acc, pair : Revise(cat, acc, pair), pools, PairList)

\* Sweeps until nothing changes: each before the last removes a product.
Prune(cat, pools) ==
    LET after[n \in 0..Cardinality(Products)] ==
            IF n = 0 THEN pools ELSE Sweep(cat, after[n - 1])
    IN after[Cardinality(Products)]

\* The ranker's order decides which candidates a full pool keeps.
Shortlists(pools) == PoolsFrom([c \in Categories |-> Cuts(pools[c], PoolLimit)])

-----------------------------------------------------------------------------
(* The optimisation problem.  A task is a request being worked on: with its   *)
(* catalogue, the parts that cost nothing, whether every retained part is     *)
(* left out of the budget, and the pools.                                     *)

\* What the candidate costs: a retained part without a listing is priced at 0.
CandidatePrice(task, p) ==
    IF \/ p \notin task.cat.listed
       \/ ~task.excludeLocked /\ p \in task.noCost THEN 0
    ELSE task.cat.price[p]

\* MUTANT: a retained part is free even where the budget includes it.
AcquisitionPriceFree(task, p) == IF p \in task.request.existing THEN 0 ELSE CandidatePrice(task, p)

AcquisitionPrice(task, p) ==
    IF task.excludeLocked /\ p \in task.request.existing THEN 0 ELSE CandidatePrice(task, p)

Total(task, s) == SumFunction([c \in Categories |-> AcquisitionPrice(task, s[c])])

\* A product without a listing is no candidate unless it is retained; a listing
\* is in stock; brand and requirements are looked at again.
Eligible(task, p) ==
    /\ p \in task.pools[CategoryOf[p]]
    /\ p \in task.cat.listed \cup task.request.existing
    /\ p \notin task.request.barred

Candidates(task) == {p \in Products : Eligible(task, p)}

\* MUTANT: the cheapest build is charged for the parts the user has.
HopelessCharged(task) ==
    \/ \E c \in Categories : Candidates(task) \cap InCategory(c) = {}
    \/ SumFunction([c \in Categories |->
            Min({task.cat.price[p] : p \in Candidates(task) \cap InCategory(c)})]) > task.request.budget

\* diagnose_problem: a category without a candidate, or too dear at its cheapest.
Hopeless(task) ==
    \/ \E c \in Categories : Candidates(task) \cap InCategory(c) = {}
    \/ SumFunction([c \in Categories |->
            Min({AcquisitionPrice(task, p) : p \in Candidates(task) \cap InCategory(c)})]) > task.request.budget

Unlocked(task) == Categories \ Retained(task.request)

Differences(task, s, t) == Cardinality({c \in Unlocked(task) : s[c] # t[c]})

\* validate_selected_build: every hard constraint once more, without the solver.
Acceptable(task, s) ==
    /\ task.request.existing \subseteq Parts(s)
    /\ \A p \in Parts(s) : Eligible(task, p)
    /\ Total(task, s) <= task.request.budget
    /\ \A i \in 1..Len(PairList) : ~Clashing(task.cat, s[PairList[i][1]], s[PairList[i][2]])
    /\ s \notin task.cat.weak

\* The CP-SAT model of a profile: the same, apart from the earlier solutions.
Model(task, earlier, forbidden) ==
    {s \in Selections : /\ Acceptable(task, s)
                        /\ \A i \in 1..Len(earlier) : Differences(task, s, earlier[i]) >= Distance
                        /\ s \notin forbidden}

\* What the solver maximises: the parts' coefficients, less the penalties of pairs
\* that only warn.  Both are constants: that coefficients follow prices in part,
\* and warnings the evidence, is left out.
Objective(profile, s) ==
    SumFunction([c \in Categories |-> Score[profile][s[c]]])
      - SumFunction([i \in 1..Len(PairList) |-> Caution[s[PairList[i][1]]][s[PairList[i][2]]]])

Best(profile, S) == {s \in S : \A t \in S : Objective(profile, t) <= Objective(profile, s)}
=============================================================================
