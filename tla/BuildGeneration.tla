--------------------------- MODULE BuildGeneration ---------------------------
(***************************************************************************)
(* Generating builds and replacing a component: GenerateBuildsService and  *)
(* ReplaceComponentService of application/services.py with the loop of     *)
(* optimizer/engine.py, under core_service.py's mutation lock, which lets  *)
(* one call of either work at a time.  Results are durable; a restart      *)
(* loses the call in progress and may serve another catalogue.             *)
(***************************************************************************)
EXTENDS BuildGates

CONSTANTS
    Catalogues,        \* a sequence of snapshots, one served at a time
    Requests,
    MaxRejections,     \* max_validator_rejections
    MinDifference,     \* of the service's own diversity check
    MaxGenerations, MaxRestarts,      \* bounds
    None

\* A catalogue offers only products it knows; the service's and the solver's
\* diversity are both two (services.py:554, optimizer/models.py:293).
ASSUME GenerationAssumption ==
    /\ Catalogues \in Seq(CatalogueShape)
    /\ \A i \in 1..Len(Catalogues) : Catalogues[i].active \subseteq Catalogues[i].known
    /\ \A r \in Requests : /\ r \in RequestShape /\ r.included \subseteq r.existing
                           /\ Len(r.profiles) \in 1..5
                           /\ \A c \in Categories : Cardinality(r.existing \cap InCategory(c)) <= 1
    /\ MaxRejections \in Nat \ {0} /\ MinDifference = Distance
    /\ MaxGenerations \in Nat /\ MaxRestarts \in Nat
    /\ None \notin [Categories -> SUBSET Products]

VARIABLES
    shop,        \* the snapshot served
    job,         \* the call at work, or None
    store,       \* the generations saved, in order
    restarts

vars == <<shop, job, store, restarts>>

Modes == {"lock_other_components", "reoptimize_unlocked"}
Statuses == {"OPTIMAL", "FEASIBLE", "INFEASIBLE", "UNKNOWN"}

Cat == Catalogues[shop]

-----------------------------------------------------------------------------
(* The call at work *)

\* What the gates need to know of a job or of a saved generation.
Task(g, pools) ==
    [cat |-> Catalogues[g.shop], request |-> g.request, noCost |-> g.noCost,
     excludeLocked |-> g.excludeLocked, pools |-> pools]

JobTask == Task(job, job.pools)

Requested(g) == Len(g.request.profiles)

\* The status of the whole: every profile solved to the end, or some, or none.
ResultStatus(j) ==
    LET last == IF j.records = <<>> THEN "INFEASIBLE" ELSE Last(j.records)
    IN IF j.sols = <<>> THEN IF last = "OPTIMAL" THEN "INFEASIBLE" ELSE last
       ELSE IF Len(j.sols) = Requested(j) /\ ToSet(j.records) = {"OPTIMAL"} THEN "OPTIMAL"
       ELSE "FEASIBLE"

\* MUTANT: the part leaves the total and the new one does not enter it.
TotalAfterUnpriced(task, build, c, p) == build.total - CandidatePrice(task, build.parts[c])

TotalAfter(task, build, c, p) ==
    build.total + (IF p \in task.cat.listed THEN task.cat.price[p] ELSE 0)
        - CandidatePrice(task, build.parts[c])

\* Parts that could take the place of one of the build's: in budget and, as far
\* as the whole-build check goes, compatible.  Three at most are offered.
Offers(task, build) ==
    {offer \in [category : Categories, product : Products] :
        LET c == offer.category
            p == offer.product
            s == build.parts
        IN /\ p \in task.pools[c] \ Parts(s)
           /\ s[c] \notin task.noCost
           /\ TotalAfter(task, build, c, p) <= task.request.budget
           /\ Compatible(task.cat, [s EXCEPT ![c] = p], {})}

\* A solution is checked once more, and against the builds before it.
Presentable(task, builds, sol) ==
    /\ Compatible(task.cat, sol.parts, task.request.existing)
    /\ \A i \in 1..Len(builds) : Differences(task, sol.parts, builds[i].parts) >= MinDifference

Presented(task, sols) ==
    FoldLeft(LAMBDA builds, sol :
                IF ~Presentable(task, builds, sol) THEN builds
                ELSE LET build == [profile |-> sol.profile, parts |-> sol.parts,
                                   total |-> Total(task, sol.parts)]
                     IN Append(builds, [profile |-> build.profile, parts |-> build.parts,
                                        total |-> build.total, offers |-> Offers(task, build)]),
             <<>>, sols)

\* What is saved.
Generation(j, status, builds) ==
    [request |-> j.request, noCost |-> j.noCost, owned |-> j.owned, shop |-> j.shop,
     excludeLocked |-> j.excludeLocked, origin |-> j.origin, cut |-> j.cut,
     rejections |-> j.rejections, ran |-> j.pools # None, status |-> status, builds |-> builds]

NewJob(request, noCost, owned, excludeLocked, origin) ==
    [request |-> request, noCost |-> noCost, owned |-> owned, shop |-> shop,
     excludeLocked |-> excludeLocked, origin |-> origin, cut |-> FALSE, rejections |-> 0,
     pools |-> None, sols |-> <<>>, records |-> <<>>, forbidden |-> {}, done |-> FALSE]

-----------------------------------------------------------------------------
(* Actions *)

Init ==
    /\ shop \in 1..Len(Catalogues)
    /\ job = None
    /\ store = <<>>
    /\ restarts = 0

\* CandidatePipeline.prepare: an infeasible request is answered without solving.
Prepare(new) ==
    LET unsolved(cut) ==
            /\ store' = Append(store, Generation([new EXCEPT !.cut = cut], "INFEASIBLE", <<>>))
            /\ UNCHANGED job
    IN \/ ~LocksAccepted(Cat, new.request) /\ unsolved(FALSE)
       \/ /\ LocksAccepted(Cat, new.request)
          /\ \E pools \in Retrievals(Cat, new.request) :
               LET short == \E c \in Categories \ Retained(new.request) :
                                pools[c] # Retrievable(Cat, new.request, c)
                   pruned == Prune(Cat, pools)
               IN \/ (\E c \in Categories : {} \in {pools[c], pruned[c]}) /\ unsolved(short)
                  \/ /\ \A c \in Categories : {} \notin {pools[c], pruned[c]}
                     /\ \E pool \in Shortlists(pruned) :
                          job' = [new EXCEPT !.pools = pool, !.cut = short \/ pool # pruned]
                     /\ UNCHANGED store

\* GenerateBuildsService.generate: a retained part the budget includes has a price.
Generate(request) ==
    /\ job = None /\ Len(store) < MaxGenerations
    /\ request.included \subseteq Cat.known \cap Cat.listed
    /\ Prepare(NewJob(request, request.existing \ request.included, request.existing,
                      request.included = {}, None))
    /\ UNCHANGED <<shop, restarts>>

\* MUTANT: reoptimising around a part leaves the user's own parts open.
LockedForgetful(g, parts, p, mode) ==
    {q \in Parts(parts) : mode = "lock_other_components" \/ q = p}

\* The parts a replacement holds on to.
Locked(g, parts, p, mode) ==
    {q \in Parts(parts) : \/ mode = "lock_other_components" \/ q = p
                          \/ q \in g.noCost \cup g.owned}

\* ReplaceComponentService.replace
Replace(i, b, c, p, mode) ==
    LET g == store[i]
        build == g.builds[b]
        parts == [build.parts EXCEPT ![c] = p]
        old == build.parts[c]
    IN /\ job = None /\ Len(store) < MaxGenerations
       /\ Parts(parts) \subseteq Cat.known
       /\ Prepare(NewJob([g.request EXCEPT !.existing = Locked(g, parts, p, mode), !.included = {},
                                           !.profiles = <<build.profile>>],
                         g.noCost \ {old}, g.owned \ {old}, FALSE,
                         [generation |-> i, build |-> b, category |-> c, product |-> p, mode |-> mode]))
       /\ UNCHANGED <<shop, restarts>>

\* The solver finds a selection: accepted, or rejected and forbidden.
Found(profile, status, s) ==
    IF Acceptable(JobTask, s) /\ Compatible(JobTask.cat, s, job.request.existing)
    THEN job' = [job EXCEPT !.sols = Append(@, [profile |-> profile, parts |-> s]),
                            !.records = Append(@, status), !.forbidden = {},
                            !.done = \/ Len(job.sols) + 1 = Requested(job)
                                     \/ Cardinality(Unlocked(JobTask)) < Distance]
    ELSE LET last == job.rejections + 1 >= MaxRejections
         IN job' = [job EXCEPT !.rejections = @ + 1, !.forbidden = @ \cup {s}, !.done = last,
                               !.records = IF last THEN Append(@, status) ELSE @]

\* MUTANT: the profile is tried again.
NotFoundAgain(status) == job' = [job EXCEPT !.records = Append(@, status)]

\* The solver finds nothing, and the profiles after this one are not tried.
NotFound(status) == job' = [job EXCEPT !.records = Append(@, status), !.done = TRUE]

\* One call of the solver, which may run out of time with or without a selection.
Solve ==
    /\ job # None /\ ~job.done
    /\ LET index == Len(job.sols) + 1
           profile == job.request.profiles[index]
           model == Model(JobTask, [i \in 1..Len(job.sols) |-> job.sols[i].parts], job.forbidden)
       IN \/ Hopeless(JobTask) /\ job' = [job EXCEPT !.done = TRUE]
          \/ /\ ~Hopeless(JobTask)
             /\ \/ \E s \in Best(profile, model) : Found(profile, "OPTIMAL", s)
                \/ \E s \in model : Found(profile, "FEASIBLE", s)
                \/ model = {} /\ NotFound("INFEASIBLE")
                \/ NotFound("UNKNOWN")
    /\ UNCHANGED <<shop, store, restarts>>

\* The solutions are presented and the generation saved.
Save ==
    /\ job # None /\ job.done
    /\ store' = Append(store, Generation(job, ResultStatus(job), Presented(JobTask, job.sols)))
    /\ job' = None
    /\ UNCHANGED <<shop, restarts>>

\* The process starts again, on this release of the catalogue or on another.
Restart(i) ==
    /\ restarts < MaxRestarts
    /\ job # None \/ i # shop
    /\ shop' = i
    /\ job' = None
    /\ restarts' = restarts + 1
    /\ UNCHANGED store

Next ==
    \/ \E request \in Requests : Generate(request)
    \/ \E i \in 1..Len(store) : \E b \in 1..Len(store[i].builds) : \E c \in Categories :
          \E p \in InCategory(c) : \E mode \in Modes : Replace(i, b, c, p, mode)
    \/ Solve
    \/ Save
    \/ \E i \in 1..Len(Catalogues) : Restart(i)

Spec == Init /\ [][Next]_vars

-----------------------------------------------------------------------------
(* Properties *)

BuildShape == [profile : Profiles, parts : Selections, total : Nat,
               offers : SUBSET [category : Categories, product : Products]]

(* The job and the saved generations have their shapes, a job has at most one  *)
(* solution for a profile, and the rejections stay within their limit.         *)
TypeOK ==
    /\ shop \in 1..Len(Catalogues)
    /\ restarts \in 0..MaxRestarts
    /\ Len(store) <= MaxGenerations
    /\ \A i \in 1..Len(store) :
         /\ store[i].status \in Statuses
         /\ store[i].noCost \subseteq Products /\ store[i].owned \subseteq Products
         /\ store[i].builds \in Seq(BuildShape)
         /\ store[i].rejections <= MaxRejections
    /\ job # None =>
         /\ Len(job.sols) <= Requested(job)
         /\ Len(job.records) <= Requested(job)
         /\ job.rejections <= MaxRejections
         /\ ToSet(job.records) \subseteq Statuses

\* The catalogue prices of the parts that are not free of cost.
Bill(g, s) ==
    SumFunction([p \in Parts(s) |->
        IF p \in g.noCost \/ p \notin Catalogues[g.shop].listed THEN 0
        ELSE Catalogues[g.shop].price[p]])

\* What a user may ask of a build, said without the stages that lead to it.
Sound(g, s) ==
    LET cat == Catalogues[g.shop]
    IN /\ Compatible(cat, s, g.request.existing)
       /\ g.request.existing \subseteq cat.known \ g.request.barred
       /\ \A c \in Categories \ Retained(g.request) : s[c] \in Retrievable(cat, g.request, c)
       /\ Bill(g, s) <= g.request.budget
       /\ s \notin cat.weak

Apart(g, s, t) == Cardinality({c \in Categories \ Retained(g.request) : s[c] # t[c]}) >= MinDifference

(* Every build of every generation saved is complete, compatible with the      *)
(* parts kept, within budget by the catalogue's own prices, meets the filters, *)
(* and differs from the others: however retrieval, pruning, ranking and the    *)
(* solver chose.  (docs/product-requirements.md:71)                            *)
BuildsSound ==
    \A i \in 1..Len(store) : LET g == store[i] IN
        /\ \A b \in 1..Len(g.builds) : /\ Sound(g, g.builds[b].parts)
                                       /\ g.builds[b].total = Bill(g, g.builds[b].parts)
        /\ \A b, d \in 1..Len(g.builds) :
              b < d => Apart(g, g.builds[b].parts, g.builds[d].parts)

(* The status is the truth.  "Infeasible": unless a pool was cut short or the  *)
(* rejections ran out, no build of the whole catalogue would have been sound.  *)
(* "Optimal": unless a pool was cut short, no sound build that differs from    *)
(* the earlier ones scores higher in its profile.  And what core_service.py    *)
(* _assert_conclusive refuses to answer is never saved with builds to show,    *)
(* replace or share.                                                           *)
HonestStatus ==
    \A i \in 1..Len(store) : LET g == store[i] IN
        /\ g.status = "INFEASIBLE" /\ ~g.cut /\ g.rejections < MaxRejections
             => \A s \in Selections : ~Sound(g, s)
        /\ g.status = "OPTIMAL" /\ ~g.cut =>
             /\ Len(g.builds) = Requested(g)
             /\ \A b \in 1..Len(g.builds) : \A s \in Selections :
                  Sound(g, s) /\ (\A d \in 1..b-1 : Apart(g, s, g.builds[d].parts))
                     => Objective(g.builds[b].profile, s)
                          <= Objective(g.builds[b].profile, g.builds[b].parts)
        /\ g.builds # <<>> => g.status \in {"OPTIMAL", "FEASIBLE"}
        /\ ~g.ran => g.status = "INFEASIBLE"

(* A replacement keeps what it says it keeps, over any number of replacements  *)
(* and releases: the new part is in, locked parts are as they were, parts of   *)
(* the user stay, and no part becomes free of cost.                            *)
ReplacementKept ==
    \A i \in 1..Len(store) : LET g == store[i] IN g.origin # None =>
        LET from == store[g.origin.generation]
            build == from.builds[g.origin.build]
            mine == from.noCost \cup from.owned
        IN /\ g.noCost \subseteq from.noCost \cap Parts(build.parts)
           /\ \A b \in 1..Len(g.builds) : \A c \in Categories :
                LET part == g.builds[b].parts[c]
                IN IF c = g.origin.category THEN part = g.origin.product
                   ELSE g.origin.mode = "lock_other_components" \/ build.parts[c] \in mine
                            => part = build.parts[c]

(* An alternative that was offered can be taken: replacing it with the other   *)
(* parts locked passes every gate on the same catalogue, but for the solver's  *)
(* own power and connector rules, which no offer is checked against.           *)
OffersHold ==
    \A i \in 1..Len(store) : \A b \in 1..Len(store[i].builds) :
        \A offer \in store[i].builds[b].offers :
            LET g == store[i]
                cat == Catalogues[g.shop]
                parts == [g.builds[b].parts EXCEPT ![offer.category] = offer.product]
                request == [g.request EXCEPT !.existing = Parts(parts)]
                task == [cat |-> cat, request |-> request, excludeLocked |-> FALSE,
                         noCost |-> g.noCost \ {g.builds[b].parts[offer.category]},
                         pools |-> [c \in Categories |-> {parts[c]}]]
            IN parts \notin cat.weak =>
                 /\ LocksAccepted(cat, request)
                 /\ ~Hopeless(task)
                 /\ Model(task, <<>>, {}) = {parts}
                 /\ Compatible(cat, parts, request.existing)

(* docs/product-requirements.md:72 "Retail price means the cheapest current    *)
(* permitted in-stock listing": every part the user has to buy has one.        *)
RetailPrices ==
    \A i \in 1..Len(store) : \A b \in 1..Len(store[i].builds) :
        LET g == store[i] IN Parts(g.builds[b].parts) \ (g.noCost \cup g.owned)
            \subseteq Catalogues[g.shop].listed
=============================================================================
