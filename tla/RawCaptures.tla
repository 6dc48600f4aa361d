----------------------------- MODULE RawCaptures -----------------------------
(***************************************************************************)
(* The raw evidence of one governed web source: bodies and receipts under  *)
(* raw/<source>/pages, and http-cache.json beside them.  A crawl           *)
(* (pipelines/sources/web_product.py) fetches robots.txt, the reviewed     *)
(* terms, its pages and the terms again, and writes a body and a receipt   *)
(* for each answer.  The hourly maintenance (pipelines/retention/web.py)   *)
(* deletes what has expired.  The two share no lock.                       *)
(*                                                                         *)
(* A step is one change of the file system, or one look at it that a later *)
(* change relies on.  Time is relative: receipts, bodies and the authority *)
(* to crawl grow old with each Tick.                                       *)
(***************************************************************************)
EXTENDS Integers, FiniteSets

CONSTANTS
    Robots,          \* bound: the robots.txt of the hosts a crawl uses
    Pages,           \* bound: the product pages of a crawl
    Changing,        \* bound: the documents that say different things at different times
    MaxConcurrency,  \* policy.max_concurrency
    Retention,       \* retention_days, in ticks
    Authority,       \* ticks until the acquisition authority has expired
    Grace,           \* orphan_grace, in ticks
    Duration,        \* bound: a crawl takes no more than so many ticks
    MaxCrashes,      \* bound: how often maintenance dies
    None

Documents == Robots \cup {"terms"} \cup Pages

\* What a document may say.  "reviewed" terms have the reviewed hash, and
\* "reviewed" robots.txt permits every page.
Wordings == {"reviewed", "other"}

ASSUME CapturesAssumption ==
    /\ Pages # {} /\ "terms" \notin Robots \cup Pages /\ Robots \cap Pages = {}
    /\ Changing \subseteq Documents
    /\ MaxConcurrency \in Nat \ {0}
    /\ Retention \in Nat \ {0} /\ Authority \in Nat /\ Grace \in Nat \ {0}
    /\ Duration \in Nat /\ MaxCrashes \in Nat

\* A receipt: retention_expires_at is in "left" ticks, and "late" tells that
\* it was retrieved after the authority it names had expired.  Receipts alike,
\* written in one tick, count as one.
Receipts == [url : Documents, wording : Wordings, left : 0 .. Retention, late : BOOLEAN]

VARIABLES
    authority,   \* ticks the authority is still good for
    bodies,      \* the bodies on disk, with the ticks since they were written
    receipts,    \* the receipts on disk
    cache,       \* the entries of http-cache.json, None for a URL without
    stamp,       \* that file: "absent", "kept" since the last scan, or "touched"
    phase,       \* what the crawl is doing
    memory,      \* its self._state
    task,        \* where the fetch of each document stands
    elapsed,     \* ticks since it began
    hand,        \* the receipt it is about to write, or wrote
    plan,        \* what maintenance still has to delete
    crashes

disk == <<bodies, receipts, cache, stamp>>
crawl == <<phase, memory, task, hand, elapsed>>
maintenance == <<plan, crashes>>
vars == <<authority, disk, crawl, maintenance>>

NoEntries == [u \in Documents |-> None]
Untouched == [u \in Documents |-> "none"]
Nothing == [cache |-> FALSE, bodies |-> {}, receipts |-> {}, seen |-> {}]

BodyOf(r) == <<r.url, r.wording>>
OnDisk(r) == BodyOf(r) \in DOMAIN bodies

\* _effective_expiry of maintenance; the crawler reads retention_expires_at only.
\* (At the very instant of that time both would have the receipt.)
Expired(r) == r.left = 0 \/ authority = 0
Active(r) == r.left > 0

Init ==
    /\ authority = Authority
    /\ bodies = [b \in {} |-> 0]
    /\ receipts = {}
    /\ cache = NoEntries
    /\ stamp = "absent"
    /\ phase = "idle"
    /\ memory = NoEntries
    /\ task = Untouched
    /\ hand = NoEntries
    /\ elapsed = 0
    /\ plan = Nothing
    /\ crashes = 0

-----------------------------------------------------------------------------
(* Crawl *)

\* The entry's receipt is there and its body is not: _validate_metadata raises.
Broken(entry) == entry \in receipts /\ ~OnDisk(entry)

\* An entry as _cache_entry_is_active leaves it.
Retained(entry) == IF entry \in receipts /\ Active(entry) THEN entry ELSE None

\* assert_authorized_now, the one time a crawl asks; then its cache is loaded
\* without the entries that have lapsed.
StartCrawl ==
    /\ phase = "idle"
    /\ authority > 0
    /\ \A u \in Documents : ~Broken(cache[u])
    /\ phase' = "open"
    /\ memory' = [u \in Documents |-> Retained(cache[u])]
    /\ UNCHANGED <<authority, disk, task, hand, elapsed, maintenance>>

WriteState(from, to) ==
    /\ phase = from
    /\ phase' = to
    /\ cache' = memory
    /\ stamp' = "touched"

\* What the crawl fetches now.
Wanted == CASE phase = "robots" -> Robots
            [] phase \in {"terms", "terms again"} -> {"terms"}
            [] phase = "pages" -> Pages
            [] OTHER -> {}

\* A request, conditional on the retained entry but for the second look at the
\* terms, and its answer: the whole document, or "not modified", an observation
\* of the cached body.  retrieved_at is the time of the answer; a body that
\* exists is not written again.  A document may redirect to one of the policy's.
Fetch(u, w) ==
    LET seen == [url |-> u, wording |-> w, left |-> Retention, late |-> authority = 0] IN
    /\ u \in Wanted
    /\ w = "reviewed" \/ u \in Changing
    /\ task[u] = "none"
    /\ Cardinality({v \in Wanted : task[v] \in {"writing", "bodied"}})
         < IF phase = "pages" THEN MaxConcurrency ELSE 1
    /\ phase # "terms again" => ~Broken(memory[u])
    /\ task' = [task EXCEPT ![u] = IF OnDisk(seen) THEN "bodied" ELSE "writing"]
    /\ hand' = [hand EXCEPT ![u] = seen]
    /\ UNCHANGED <<authority, disk, phase, memory, elapsed, maintenance>>

WriteBody(u) ==
    /\ task[u] = "writing"
    /\ task' = [task EXCEPT ![u] = "bodied"]
    /\ bodies' = [b \in DOMAIN bodies \cup {BodyOf(hand[u])} |->
                    IF b = BodyOf(hand[u]) THEN 0 ELSE bodies[b]]
    /\ UNCHANGED <<authority, receipts, cache, stamp, phase, memory, hand, elapsed, maintenance>>

WriteReceipt(u) ==
    /\ task[u] = "bodied"
    /\ task' = [task EXCEPT ![u] = "done"]
    /\ receipts' = receipts \cup {hand[u]}
    /\ memory' = [memory EXCEPT ![u] = hand[u]]
    /\ hand' = [hand EXCEPT ![u] = None]
    /\ UNCHANGED <<authority, bodies, cache, stamp, phase, elapsed, maintenance>>

\* Control documents are read back from their bodies, and must say what was
\* reviewed.
Approve(from, controls, to) ==
    /\ phase = from
    /\ \A u \in controls : /\ task[u] = "done"
                           /\ OnDisk(memory[u]) /\ memory[u].wording = "reviewed"
    /\ phase' = to
    /\ task' = Untouched
    /\ UNCHANGED <<authority, disk, memory, hand, elapsed, maintenance>>

FinishPages ==
    /\ phase = "pages"
    /\ \A u \in Pages : task[u] = "done"
    /\ phase' = "terms again"
    /\ UNCHANGED <<authority, disk, memory, task, hand, elapsed, maintenance>>

Open ==
    /\ WriteState("open", "robots")
    /\ UNCHANGED <<authority, bodies, receipts, memory, task, hand, elapsed, maintenance>>

\* What follows, parsing and publishing the run, changes nothing here.
Close ==
    /\ WriteState("close", "idle")
    /\ memory' = NoEntries
    /\ elapsed' = 0
    /\ UNCHANGED <<authority, bodies, receipts, task, hand, maintenance>>

\* MUTANT: a crawl that fails takes its receipts back.
StopTidying ==
    /\ phase # "idle"
    /\ phase' = "idle"
    /\ receipts' = receipts \ {memory[u] : u \in Documents}
    /\ memory' = NoEntries
    /\ task' = Untouched
    /\ hand' = NoEntries
    /\ elapsed' = 0
    /\ UNCHANGED <<authority, bodies, cache, stamp, maintenance>>

\* Any error, limit, refusal or crash.  What is on disk stays; what the crawl
\* knew is lost, its cache entries among it.
Stop ==
    /\ phase # "idle"
    /\ phase' = "idle"
    /\ memory' = NoEntries
    /\ task' = Untouched
    /\ hand' = NoEntries
    /\ elapsed' = 0
    /\ UNCHANGED <<authority, disk, maintenance>>

Crawler ==
    \/ Open
    \/ \E u \in Documents : (\E w \in Wordings : Fetch(u, w)) \/ WriteBody(u) \/ WriteReceipt(u)
    \/ Approve("robots", Robots, "terms")
    \/ Approve("terms", {"terms"}, "pages")
    \/ FinishPages
    \/ Approve("terms again", {"terms"}, "close")
    \/ Close
    \/ Stop

-----------------------------------------------------------------------------
(* Maintenance *)

\* Receipts that no maintenance accepts: "raw receipt was retrieved after
\* acquisition authority expiry".
Poisoned == \E r \in receipts : r.late

\* Every receipt is read before anything is deleted.
Refused == Poisoned \/ \E r \in receipts : ~Expired(r) /\ ~OnDisk(r)

Live == {r \in receipts : ~Expired(r)}

\* MUTANT: a body goes with the first of its receipts that expires.
ExpiredBodiesShared == {b \in DOMAIN bodies : \E r \in receipts \ Live : BodyOf(r) = b}

\* Bodies of expired receipts only, and bodies without a receipt that are old.
ExpiredBodies ==
    {b \in DOMAIN bodies : /\ \E r \in receipts : BodyOf(r) = b
                           /\ \A r \in Live : BodyOf(r) # b}
\* MUTANT: a body without a receipt is taken for one still to get it.
OrphanBodiesSpared == {b \in DOMAIN bodies : bodies[b] > Grace /\ \A r \in receipts : BodyOf(r) # b}

OrphanBodies ==
    {b \in DOMAIN bodies : bodies[b] = Grace /\ \A r \in receipts : BodyOf(r) # b}

\* MUTANT: an expired receipt without its body is passed over.
ScanOverlooking ==
    /\ plan = Nothing
    /\ ~Refused
    /\ plan' = [cache |-> receipts # Live /\ stamp # "absent",
                bodies |-> ExpiredBodies \cup OrphanBodies,
                receipts |-> {r \in receipts \ Live : OnDisk(r)},
                seen |-> Live]
    /\ plan'.bodies # {} \/ plan'.receipts # {}
    /\ stamp' = IF stamp = "touched" THEN "kept" ELSE stamp
    /\ UNCHANGED <<authority, bodies, receipts, cache, crawl, crashes>>

\* _scan_raw.  The cache file goes if any receipt goes.
Scan ==
    /\ plan = Nothing
    /\ ~Refused
    /\ plan' = [cache |-> receipts # Live /\ stamp # "absent",
                bodies |-> ExpiredBodies \cup OrphanBodies,
                receipts |-> receipts \ Live,
                seen |-> Live]
    /\ plan'.bodies # {} \/ plan'.receipts # {}
    /\ stamp' = IF stamp = "touched" THEN "kept" ELSE stamp
    /\ UNCHANGED <<authority, bodies, receipts, cache, crawl, crashes>>

\* The pass is over once nothing is left to delete.
Left(p) == IF p.bodies = {} /\ p.receipts = {} THEN Nothing ELSE p

\* Unless a crawl has rewritten the file: then the pass fails.
RemoveCache ==
    /\ plan.cache
    /\ IF stamp = "kept"
       THEN /\ plan' = [plan EXCEPT !.cache = FALSE]
            /\ cache' = NoEntries
            /\ stamp' = "absent"
       ELSE /\ plan' = Nothing
            /\ UNCHANGED <<cache, stamp>>
    /\ UNCHANGED <<authority, bodies, receipts, crawl, crashes>>

RemoveBody ==
    /\ ~plan.cache
    /\ \E b \in plan.bodies :
        /\ bodies' = [d \in DOMAIN bodies \ {b} |-> bodies[d]]
        /\ plan' = Left([plan EXCEPT !.bodies = @ \ {b}])
    /\ UNCHANGED <<authority, receipts, cache, stamp, crawl, crashes>>

RemoveReceipt ==
    /\ ~plan.cache /\ plan.bodies = {}
    /\ \E r \in plan.receipts :
        /\ receipts' = receipts \ {r}
        /\ plan' = Left([plan EXCEPT !.receipts = @ \ {r}])
    /\ UNCHANGED <<authority, bodies, cache, stamp, crawl, crashes>>

Maintenance == Scan \/ RemoveCache \/ RemoveBody \/ RemoveReceipt

Crash ==
    /\ plan # Nothing
    /\ crashes < MaxCrashes
    /\ crashes' = crashes + 1
    /\ plan' = Nothing
    /\ UNCHANGED <<authority, disk, crawl>>

-----------------------------------------------------------------------------
(* Time *)

Older(r) == IF r = None THEN None ELSE [r EXCEPT !.left = IF @ = 0 THEN 0 ELSE @ - 1]
AllOlder(S) == {Older(r) : r \in S}
EntriesOlder(f) == [u \in Documents |-> Older(f[u])]

\* A pass of maintenance takes less than a tick.
Tick ==
    /\ plan = Nothing
    /\ phase # "idle" => elapsed < Duration
    /\ elapsed' = IF phase = "idle" THEN 0 ELSE elapsed + 1
    /\ authority' = IF authority = 0 THEN 0 ELSE authority - 1
    /\ bodies' = [b \in DOMAIN bodies |-> IF bodies[b] = Grace THEN Grace ELSE bodies[b] + 1]
    /\ receipts' = AllOlder(receipts)
    /\ cache' = EntriesOlder(cache)
    /\ memory' = EntriesOlder(memory)
    /\ hand' = EntriesOlder(hand)
    /\ UNCHANGED <<stamp, phase, task, maintenance>>

Next ==
    \/ StartCrawl
    \/ Crawler
    \/ Maintenance
    \/ Crash
    \/ Tick

\* A crawl that has begun goes on or stops, the schedule starts a pass every
\* hour, and time passes.  Nothing makes a crawl begin, or succeed.
Fairness ==
    /\ WF_vars(Crawler)
    /\ WF_vars(Maintenance)
    /\ SF_vars(Tick)

Spec == Init /\ [][Next]_vars /\ Fairness

-----------------------------------------------------------------------------
(* Properties *)

Entries == {None} \cup Receipts

\* Types, and that maintenance only has on its list what is still on disk: crawls
\* take nothing away, and what it spares it still finds.  (An entry of the cache
\* may outlive its receipt: Retained drops it when the next crawl begins.)
TypeOK ==
    /\ authority \in 0 .. Authority
    /\ DOMAIN bodies \subseteq Documents \X Wordings
    /\ \A b \in DOMAIN bodies : bodies[b] \in 0 .. Grace
    /\ receipts \subseteq Receipts
    /\ \A f \in {cache, memory, hand} :
          DOMAIN f = Documents /\ \A u \in Documents : f[u] \in Entries
    /\ stamp \in {"absent", "kept", "touched"}
    /\ phase \in {"idle", "open", "robots", "terms", "pages", "terms again", "close"}
    /\ task \in [Documents -> {"none", "writing", "bodied", "done"}]
    /\ plan.cache \in BOOLEAN
    /\ plan.bodies \subseteq DOMAIN bodies
    /\ elapsed \in 0 .. Duration
    /\ plan.receipts \cup plan.seen \subseteq receipts
    /\ crashes \in 0 .. MaxCrashes

\* Maintenance deletes a receipt only when it has expired, and a body only when
\* every receipt that names it has, or was written after the scan
\* (tests/unit/test_web_retention_maintenance.py:411).
DeletesOnlyExpired ==
    [][\/ Tick
       \/ /\ \A r \in receipts \ receipts' : Expired(r)
          /\ \A b \in DOMAIN bodies \ DOMAIN bodies' :
               \A r \in plan.seen : BodyOf(r) = b => Expired(r)]_vars

\* Once the authority is over, all evidence goes away at last, whatever crawls
\* and passes were cut short, unless a receipt stands in the way of all.
Purged == <>[]((receipts = {} /\ DOMAIN bodies = {}) \/ Poisoned)

\* A cache that stops every crawl of the source does not do so for good.
CrawlsResume ==
    (\E u \in Documents : Broken(cache[u])) ~> (\A u \in Documents : ~Broken(cache[u])) \/ Poisoned

\* The body of a receipt that has not expired is there.
LiveEvidenceKept == \A r \in receipts : ~Expired(r) => OnDisk(r)

\* "remains usable after acquisition authority has expired" (retention/web.py:1643).
MaintenanceUsable == authority = 0 => ~Poisoned
=============================================================================
