--------------------------- MODULE EvidenceProofs ---------------------------
(***************************************************************************)
(* The evidence of the catalogue, from the crawl to the verdict, for any   *)
(* documents, terms, builds and requests.  First the raw captures: what    *)
(* maintenance has planned to delete stays worthless until it is deleted,  *)
(* since neither time nor a crawl can change what it saw.  Then the        *)
(* evidence behind a build, which the engine, the pruning of candidates,   *)
(* the filters and the solver judge by rules of their own.                 *)
(***************************************************************************)
EXTENDS RawCaptures, CatalogueEvidence, TLAPS

-----------------------------------------------------------------------------
(* Raw captures *)

\* What maintenance is about to delete has expired, and no receipt that it saw
\* alive names a body on its list.
PlanSound ==
    /\ plan = [cache |-> plan.cache, bodies |-> plan.bodies, receipts |-> plan.receipts,
               seen |-> plan.seen]
    /\ \A r \in plan.receipts : Expired(r)
    /\ \A b \in plan.bodies : \A r \in plan.seen : BodyOf(r) # b

LEMMA NothingSound == plan = Nothing => PlanSound
BY DEF Nothing, PlanSound

\* A plan that has grown shorter, on a disk that has grown no older.
LEMMA ShorterSound ==
    ASSUME PlanSound, authority' = authority,
           plan'.receipts \subseteq plan.receipts, plan'.bodies \subseteq plan.bodies,
           plan' = [cache |-> plan'.cache, bodies |-> plan'.bodies,
                    receipts |-> plan'.receipts, seen |-> plan.seen]
    PROVE  PlanSound'
BY DEF PlanSound, Expired

LEMMA InitSound == Init => PlanSound
BY NothingSound DEF Init

\* Only live receipts keep their bodies.
LEMMA ScanSound == Scan => PlanSound'
<1> SUFFICES ASSUME Scan PROVE PlanSound'
  OBVIOUS
<1>1. /\ plan' = [cache |-> receipts # Live /\ stamp # "absent",
                  bodies |-> ExpiredBodies \cup OrphanBodies,
                  receipts |-> receipts \ Live, seen |-> Live]
      /\ authority' = authority
  BY DEF Scan
<1>2. \A r \in receipts \ Live : Expired(r)
  BY DEF Live
<1>3. \A b \in ExpiredBodies \cup OrphanBodies : \A r \in Live : BodyOf(r) # b
  BY DEF ExpiredBodies, OrphanBodies, Live
<1> QED
  BY <1>1, <1>2, <1>3 DEF PlanSound, Expired

\* The steps of a pass, each of which takes one thing off the plan.
LEMMA RemovalSound ==
    ASSUME PlanSound, RemoveCache \/ RemoveBody \/ RemoveReceipt
    PROVE  PlanSound'
<1>1. authority' = authority
  BY DEF RemoveCache, RemoveBody, RemoveReceipt
<1>2. CASE plan' = Nothing
  BY <1>2 DEF Nothing, PlanSound
<1>3. CASE plan' # Nothing
  <2>1. PICK c, B, R : /\ B \subseteq plan.bodies /\ R \subseteq plan.receipts
                       /\ plan' = [cache |-> c, bodies |-> B, receipts |-> R, seen |-> plan.seen]
    <3>1. CASE RemoveCache
      <4>1. plan' = [plan EXCEPT !.cache = FALSE]
        BY <1>3, <3>1 DEF RemoveCache
      <4>2. plan' = [cache |-> FALSE, bodies |-> plan.bodies, receipts |-> plan.receipts,
                     seen |-> plan.seen]
        BY <4>1 DEF PlanSound
      <4> QED
        BY <4>2
    <3>2. CASE RemoveBody
      <4>1. PICK b \in plan.bodies : plan' = [plan EXCEPT !.bodies = plan.bodies \ {b}]
        BY <1>3, <3>2 DEF RemoveBody, Left
      <4>2. plan' = [cache |-> plan.cache, bodies |-> plan.bodies \ {b},
                     receipts |-> plan.receipts, seen |-> plan.seen]
        BY <4>1 DEF PlanSound
      <4> QED
        BY <4>2
    <3>3. CASE RemoveReceipt
      <4>1. PICK r \in plan.receipts : plan' = [plan EXCEPT !.receipts = plan.receipts \ {r}]
        BY <1>3, <3>3 DEF RemoveReceipt, Left
      <4>2. plan' = [cache |-> plan.cache, bodies |-> plan.bodies,
                     receipts |-> plan.receipts \ {r}, seen |-> plan.seen]
        BY <4>1 DEF PlanSound
      <4> QED
        BY <4>2
    <3> QED
      BY <3>1, <3>2, <3>3
  <2> QED
    BY <1>1, <2>1, ShorterSound
<1> QED
  BY <1>2, <1>3

\* A crawl changes nothing the plan rests on: it writes receipts only.
LEMMA StepSound == PlanSound /\ [Next]_vars => PlanSound'
<1> SUFFICES ASSUME PlanSound, [Next]_vars PROVE PlanSound'
  OBVIOUS
<1>1. CASE Maintenance
  BY <1>1, ScanSound, RemovalSound DEF Maintenance
<1>2. CASE Crash \/ Tick
  <2>1. plan' = Nothing
    BY <1>2 DEF Crash, Tick, maintenance
  <2> QED
    BY <2>1 DEF Nothing, PlanSound
<1>3. CASE StartCrawl \/ Crawler \/ UNCHANGED vars
  <2>1. plan' = plan /\ authority' = authority
    BY <1>3 DEF StartCrawl, Crawler, Open, Fetch, WriteBody, WriteReceipt, Approve, FinishPages,
                Close, Stop, maintenance, vars
  <2> QED
    BY <2>1 DEF PlanSound, Expired
<1> QED
  BY <1>1, <1>2, <1>3 DEF Next

\* What disappears from the disk but by time was on a sound plan.
LEMMA DeletionSound ==
    ASSUME PlanSound, [Next]_vars
    PROVE  [\/ Tick
            \/ /\ \A r \in receipts \ receipts' : Expired(r)
               /\ \A b \in DOMAIN bodies \ DOMAIN bodies' :
                    \A r \in plan.seen : BodyOf(r) = b => Expired(r)]_vars
<1>1. CASE RemoveBody
  <2>1. PICK b \in plan.bodies : bodies' = [d \in DOMAIN bodies \ {b} |-> bodies[d]]
    BY <1>1 DEF RemoveBody
  <2>2. receipts' = receipts /\ \A d \in DOMAIN bodies \ DOMAIN bodies' : d = b
    BY <1>1, <2>1 DEF RemoveBody
  <2> QED
    BY <2>2 DEF PlanSound
<1>2. CASE RemoveReceipt
  BY <1>2 DEF RemoveReceipt, PlanSound
<1>3. CASE \/ StartCrawl \/ Open \/ (\E u \in Documents, w \in Wordings : Fetch(u, w))
           \/ (\E from, to, S : Approve(from, S, to)) \/ FinishPages \/ Close \/ Stop
           \/ Scan \/ RemoveCache \/ Crash
  <2>1. receipts' = receipts /\ bodies' = bodies
    BY <1>3 DEF StartCrawl, Open, Fetch, Approve, FinishPages, Close, Stop, Scan, RemoveCache,
                Crash, disk
  <2> QED
    BY <2>1
<1>4. CASE \E u \in Documents : WriteBody(u) \/ WriteReceipt(u)
  <2>1. receipts \subseteq receipts' /\ DOMAIN bodies \subseteq DOMAIN bodies'
    BY <1>4 DEF WriteBody, WriteReceipt
  <2> QED
    BY <2>1
<1> QED
  BY <1>1, <1>2, <1>3, <1>4 DEF Next, Crawler, Maintenance

\* Maintenance deletes a receipt only when it has expired, and a body only when
\* every receipt that the scan saw name it has (web.py:1709), however crawls and
\* crashes come between.
THEOREM DeletionsExpired == Spec => DeletesOnlyExpired
BY InitSound, StepSound, DeletionSound, PTL DEF Spec, DeletesOnlyExpired

-----------------------------------------------------------------------------
(* Types *)

\* A fetch under way has a receipt in hand, and what maintenance saw alive is
\* not on its list.
HandsFull == \A u \in Documents : task[u] \in {"writing", "bodied"} => hand[u] \in Receipts
SeenSpared == plan.receipts \cap plan.seen = {}
Consistent == TypeOK /\ PlanSound /\ HandsFull /\ SeenSpared

\* An entry per document, as the cache, the crawl's memory and its hands have.
EntriesOK(f) == DOMAIN f = Documents /\ \A u \in Documents : f[u] \in Entries

\* The crawl's variables, and the disk with the plan made for it.
CrawlOK ==
    /\ EntriesOK(memory) /\ EntriesOK(hand)
    /\ phase \in {"idle", "open", "robots", "terms", "pages", "terms again", "close"}
    /\ task \in [Documents -> {"none", "writing", "bodied", "done"}]
    /\ elapsed \in 0 .. Duration
    /\ HandsFull
DiskOK ==
    /\ authority \in 0 .. Authority
    /\ DOMAIN bodies \subseteq Documents \X Wordings
    /\ \A b \in DOMAIN bodies : bodies[b] \in 0 .. Grace
    /\ receipts \subseteq Receipts
    /\ EntriesOK(cache)
    /\ stamp \in {"absent", "kept", "touched"}
    /\ plan.cache \in BOOLEAN
    /\ plan.bodies \subseteq DOMAIN bodies
    /\ plan.receipts \cup plan.seen \subseteq receipts
    /\ SeenSpared
    /\ crashes \in 0 .. MaxCrashes

LEMMA TwoHalves == TypeOK /\ HandsFull /\ SeenSpared <=> CrawlOK /\ DiskOK
BY DEF TypeOK, CrawlOK, DiskOK, EntriesOK

LEMMA NoEntriesOK == EntriesOK(NoEntries)
BY DEF EntriesOK, NoEntries, Entries

LEMMA InitConsistent == Init => Consistent
<1> SUFFICES ASSUME Init PROVE Consistent
  OBVIOUS
<1>1. CrawlOK
  BY NoEntriesOK, CapturesAssumption
    DEF Init, CrawlOK, HandsFull, Untouched, CapturesAssumption
<1>2. DiskOK
  BY NoEntriesOK, CapturesAssumption
    DEF Init, DiskOK, SeenSpared, Nothing, CapturesAssumption
<1> QED
  BY <1>1, <1>2, TwoHalves, InitSound DEF Consistent

\* The crawl's own variables keep their types: a fetch fills its hand.
LEMMA CrawlStep ==
    ASSUME CrawlOK, DiskOK, StartCrawl \/ Crawler
    PROVE  CrawlOK'
<1>1. CASE StartCrawl
  <2>1. memory' = [u \in Documents |-> Retained(cache[u])] /\ phase' = "open"
    BY <1>1 DEF StartCrawl
  <2>2. EntriesOK(memory)'
    BY <2>1 DEF EntriesOK, Retained, DiskOK, Entries
  <2> QED
    BY <1>1, <2>1, <2>2 DEF StartCrawl, CrawlOK, HandsFull, EntriesOK
<1>2. ASSUME NEW u \in Documents, NEW w \in Wordings, Fetch(u, w) PROVE CrawlOK'
  <2>1. PICK late \in BOOLEAN : late = (authority = 0)
    BY Zenon
  <2>2. PICK seen : seen = [url |-> u, wording |-> w, left |-> Retention, late |-> late]
    OBVIOUS
  <2>3. seen \in Receipts
    BY <2>2, CapturesAssumption DEF Receipts, CapturesAssumption
  <2>4. hand' = [hand EXCEPT ![u] = seen]
    BY <1>2, <2>1, <2>2 DEF Fetch
  <2>5. \E step \in {"bodied", "writing"} : task' = [task EXCEPT ![u] = step]
    BY <1>2 DEF Fetch
  <2>6. phase' = phase /\ memory' = memory /\ elapsed' = elapsed
    BY <1>2 DEF Fetch
  <2> QED
    BY <2>3, <2>4, <2>5, <2>6 DEF CrawlOK, HandsFull, EntriesOK, Entries
<1>3. ASSUME NEW u \in Documents, WriteBody(u) PROVE CrawlOK'
  BY <1>3 DEF WriteBody, CrawlOK, HandsFull, EntriesOK
<1>4. ASSUME NEW u \in Documents, WriteReceipt(u) PROVE CrawlOK'
  BY <1>4 DEF WriteReceipt, CrawlOK, HandsFull, EntriesOK, Entries
<1>5. ASSUME NEW from, NEW S,
             NEW to \in {"terms", "pages", "close"}, Approve(from, S, to)
      PROVE  CrawlOK'
  BY <1>5 DEF Approve, CrawlOK, HandsFull, EntriesOK, Untouched
<1>6. CASE FinishPages \/ Open
  BY <1>6 DEF FinishPages, Open, WriteState, CrawlOK, HandsFull, EntriesOK
<1>7. CASE Close \/ Stop
  <2>1. /\ memory' = NoEntries /\ phase' = "idle" /\ elapsed' = 0
        /\ \/ task' = task /\ hand' = hand
           \/ task' = Untouched /\ hand' = NoEntries
    BY <1>7 DEF Close, Stop, WriteState
  <2>2. 0 \in 0 .. Duration
    BY CapturesAssumption DEF CapturesAssumption
  <2> QED
    BY <2>1, <2>2, NoEntriesOK DEF CrawlOK, HandsFull, EntriesOK, Untouched
<1> QED
  BY <1>1, <1>2, <1>3, <1>4, <1>5, <1>6, <1>7 DEF Crawler

\* A crawl only adds to the disk, and so leaves the plan a part of it.
LEMMA CrawlKeepsDisk ==
    ASSUME CrawlOK, DiskOK, StartCrawl \/ Crawler
    PROVE  DiskOK'
<1>0. plan' = plan /\ crashes' = crashes /\ authority' = authority
  BY DEF StartCrawl, Crawler, Open, Fetch, WriteBody, WriteReceipt, Approve, FinishPages,
         Close, Stop, maintenance
<1>1. CASE UNCHANGED disk
  BY <1>0, <1>1 DEF disk, DiskOK, EntriesOK, SeenSpared
<1>2. ASSUME NEW u \in Documents, WriteBody(u) PROVE DiskOK'
  <2>1. BodyOf(hand[u]) \in Documents \X Wordings
    BY <1>2 DEF WriteBody, CrawlOK, HandsFull, Receipts, BodyOf
  <2>2. PICK new : new = BodyOf(hand[u])
    OBVIOUS
  <2>3. bodies' = [b \in DOMAIN bodies \cup {new} |-> IF b = new THEN 0 ELSE bodies[b]]
    BY <1>2, <2>2 DEF WriteBody
  <2>4. 0 \in 0 .. Grace
    BY CapturesAssumption DEF CapturesAssumption
  <2>5. receipts' = receipts /\ cache' = cache /\ stamp' = stamp
    BY <1>2 DEF WriteBody
  <2> QED
    BY <1>0, <2>1, <2>2, <2>3, <2>4, <2>5 DEF DiskOK, EntriesOK, SeenSpared
<1>3. ASSUME NEW u \in Documents, WriteReceipt(u) PROVE DiskOK'
  <2>1. /\ receipts' = receipts \cup {hand[u]} /\ hand[u] \in Receipts
        /\ bodies' = bodies /\ cache' = cache /\ stamp' = stamp
    BY <1>3 DEF WriteReceipt, CrawlOK, HandsFull
  <2> QED
    BY <1>0, <2>1 DEF DiskOK, EntriesOK, SeenSpared
<1>4. CASE Open \/ Close
  <2>1. /\ receipts' = receipts /\ bodies' = bodies
        /\ cache' = memory /\ stamp' = "touched"
    BY <1>4 DEF Open, Close, WriteState
  <2> QED
    BY <1>0, <2>1 DEF DiskOK, CrawlOK, EntriesOK, SeenSpared
<1> QED
  BY <1>1, <1>2, <1>3, <1>4 DEF StartCrawl, Crawler, Fetch, Approve, FinishPages, Stop

\* A scan plans for what is there, and keeps what it saw alive off its list.
LEMMA ScanTypes == ASSUME DiskOK, Scan PROVE DiskOK'
<1>1. PICK c \in BOOLEAN : c = (receipts # Live /\ stamp # "absent")
  BY Zenon
<1>2. plan' = [cache |-> c, bodies |-> ExpiredBodies \cup OrphanBodies,
               receipts |-> receipts \ Live, seen |-> Live]
  BY <1>1 DEF Scan
<1>3. /\ authority' = authority /\ receipts' = receipts /\ bodies' = bodies /\ cache' = cache
      /\ crashes' = crashes
      /\ stamp' = stamp \/ stamp' = "kept"
  BY DEF Scan
<1>4. ExpiredBodies \cup OrphanBodies \subseteq DOMAIN bodies /\ Live \subseteq receipts
  BY DEF ExpiredBodies, OrphanBodies, Live
<1> QED
  BY <1>2, <1>3, <1>4 DEF DiskOK, EntriesOK, SeenSpared

\* A deletion takes from the disk and from the plan alike, and never what the
\* scan saw alive.
LEMMA RemovalTypes ==
    ASSUME DiskOK, PlanSound, RemoveCache \/ RemoveBody \/ RemoveReceipt
    PROVE  DiskOK'
<1>1. CASE RemoveCache
  <2>1. /\ plan' = Nothing
        /\ cache' = cache /\ stamp' = stamp
        \/ /\ plan' = [plan EXCEPT !.cache = FALSE]
           /\ cache' = NoEntries /\ stamp' = "absent"
    BY <1>1 DEF RemoveCache
  <2>2. /\ plan'.cache = FALSE
        /\ \/ plan'.bodies = {} /\ plan'.receipts = {} /\ plan'.seen = {}
           \/ plan'.bodies = plan.bodies /\ plan'.receipts = plan.receipts
              /\ plan'.seen = plan.seen
    <3>1. CASE plan' = Nothing
      BY <3>1 DEF Nothing
    <3>2. CASE plan' = [plan EXCEPT !.cache = FALSE]
      <4>1. plan' = [cache |-> FALSE, bodies |-> plan.bodies, receipts |-> plan.receipts,
                     seen |-> plan.seen]
        BY <3>2 DEF PlanSound
      <4> QED
        BY <4>1
    <3> QED
      BY <2>1, <3>1, <3>2
  <2>3. /\ receipts' = receipts /\ bodies' = bodies /\ authority' = authority
        /\ crashes' = crashes
    BY <1>1 DEF RemoveCache
  <2>4. EntriesOK(cache)' /\ stamp' \in {"absent", "kept", "touched"}
    BY <2>1, NoEntriesOK DEF DiskOK, EntriesOK
  <2> QED
    BY <2>2, <2>3, <2>4 DEF DiskOK, SeenSpared
<1>2. CASE RemoveBody
  <2>1. PICK b \in plan.bodies :
          /\ bodies' = [d \in DOMAIN bodies \ {b} |-> bodies[d]]
          /\ plan' = Left([plan EXCEPT !.bodies = plan.bodies \ {b}])
    BY <1>2 DEF RemoveBody
  <2>2. PICK shorter : shorter = [cache |-> plan.cache, bodies |-> plan.bodies \ {b},
                                  receipts |-> plan.receipts, seen |-> plan.seen]
    OBVIOUS
  <2>3. [plan EXCEPT !.bodies = plan.bodies \ {b}] = shorter
    BY <2>2 DEF PlanSound
  <2>4. plan' = shorter \/ plan' = Nothing
    BY <2>1, <2>3 DEF Left
  <2>5. /\ receipts' = receipts /\ cache' = cache /\ stamp' = stamp /\ authority' = authority
        /\ crashes' = crashes
    BY <1>2 DEF RemoveBody
  <2>6. /\ plan'.cache \in BOOLEAN
        /\ plan'.bodies \subseteq plan.bodies \ {b} /\ plan'.receipts \subseteq plan.receipts
        /\ plan'.seen \subseteq plan.seen
    <3>1. CASE plan' = shorter
      BY <2>2, <3>1 DEF DiskOK
    <3>2. CASE plan' = Nothing
      BY <3>2 DEF Nothing
    <3> QED
      BY <2>4, <3>1, <3>2
  <2> QED
    BY <2>1, <2>5, <2>6 DEF DiskOK, EntriesOK, SeenSpared
<1>3. CASE RemoveReceipt
  <2>1. PICK r \in plan.receipts :
          /\ receipts' = receipts \ {r}
          /\ plan' = Left([plan EXCEPT !.receipts = plan.receipts \ {r}])
    BY <1>3 DEF RemoveReceipt
  <2>2. PICK shorter : shorter = [cache |-> plan.cache, bodies |-> plan.bodies,
                                  receipts |-> plan.receipts \ {r}, seen |-> plan.seen]
    OBVIOUS
  <2>3. [plan EXCEPT !.receipts = plan.receipts \ {r}] = shorter
    BY <2>2 DEF PlanSound
  <2>4. plan' = shorter \/ plan' = Nothing
    BY <2>1, <2>3 DEF Left
  <2>5. /\ bodies' = bodies /\ cache' = cache /\ stamp' = stamp /\ authority' = authority
        /\ crashes' = crashes
    BY <1>3 DEF RemoveReceipt
  <2>6. /\ plan'.cache \in BOOLEAN
        /\ plan'.bodies \subseteq plan.bodies /\ plan'.receipts \subseteq plan.receipts \ {r}
        /\ plan'.seen \subseteq plan.seen
    <3>1. CASE plan' = shorter
      BY <2>2, <3>1 DEF DiskOK
    <3>2. CASE plan' = Nothing
      BY <3>2 DEF Nothing
    <3> QED
      BY <2>4, <3>1, <3>2
  <2> QED
    BY <2>1, <2>5, <2>6 DEF DiskOK, EntriesOK, SeenSpared
<1> QED
  BY <1>1, <1>2, <1>3

\* A receipt that has grown older is still one.
LEMMA OlderType == ASSUME NEW r \in Entries PROVE Older(r) \in Entries
                          /\ (r \in Receipts => Older(r) \in Receipts)
<1>1. CASE r = None
  BY <1>1 DEF Older
<1>2. CASE r # None
  <2>1. r \in Receipts
    BY <1>2 DEF Entries
  <2>2. PICK left \in 0 .. Retention : left = (IF r.left = 0 THEN 0 ELSE r.left - 1)
    BY <2>1, CapturesAssumption DEF Receipts, CapturesAssumption
  <2>3. Older(r) = [r EXCEPT !.left = left]
    BY <1>2, <2>1, <2>2 DEF Older, Receipts
  <2> QED
    BY <2>1, <2>3 DEF Receipts, Entries
<1> QED
  BY <1>1, <1>2

\* Time passes only between passes, when there is no plan.
LEMMA TickTypes == ASSUME CrawlOK, DiskOK, Tick PROVE CrawlOK' /\ DiskOK'
<1>1. EntriesOK(memory)' /\ EntriesOK(hand)' /\ EntriesOK(cache)'
  BY OlderType DEF Tick, EntriesOlder, EntriesOK, CrawlOK, DiskOK
<1>2. HandsFull'
  BY OlderType DEF Tick, EntriesOlder, HandsFull, CrawlOK, EntriesOK
<1>3. elapsed' \in 0 .. Duration
  <2>1. Duration \in Nat /\ elapsed \in 0 .. Duration
    BY CapturesAssumption DEF CrawlOK, CapturesAssumption
  <2>2. elapsed' = 0 \/ (elapsed' = elapsed + 1 /\ elapsed < Duration)
    BY DEF Tick
  <2> QED
    BY <2>1, <2>2
<1>4. authority' \in 0 .. Authority
  BY CapturesAssumption DEF Tick, DiskOK, CapturesAssumption
<1>5. DOMAIN bodies' = DOMAIN bodies /\ \A b \in DOMAIN bodies' : bodies'[b] \in 0 .. Grace
  BY CapturesAssumption DEF Tick, DiskOK, CapturesAssumption
<1>6. receipts' \subseteq Receipts
  BY OlderType DEF Tick, AllOlder, DiskOK, Entries
<1>7. plan' = Nothing /\ crashes' = crashes /\ stamp' = stamp /\ phase' = phase /\ task' = task
  BY DEF Tick, maintenance
<1>8. CrawlOK'
  BY <1>1, <1>2, <1>3, <1>7 DEF CrawlOK
<1>9. DiskOK'
  BY <1>1, <1>4, <1>5, <1>6, <1>7 DEF DiskOK, SeenSpared, Nothing
<1> QED
  BY <1>8, <1>9

LEMMA StepConsistent == Consistent /\ [Next]_vars => Consistent'
<1> SUFFICES ASSUME Consistent, [Next]_vars PROVE Consistent'
  OBVIOUS
<1>1. CrawlOK /\ DiskOK /\ PlanSound
  BY TwoHalves DEF Consistent
<1>2. CrawlOK' /\ DiskOK'
  <2>1. CASE StartCrawl \/ Crawler
    BY <1>1, <2>1, CrawlStep, CrawlKeepsDisk
  <2>2. CASE Maintenance
    <3>1. CrawlOK'
      BY <1>1, <2>2 DEF Maintenance, Scan, RemoveCache, RemoveBody, RemoveReceipt, crawl,
                        CrawlOK, EntriesOK, HandsFull
    <3> QED
      BY <1>1, <2>2, <3>1, ScanTypes, RemovalTypes DEF Maintenance
  <2>3. CASE Crash
    <3>1. CrawlOK'
      BY <1>1, <2>3 DEF Crash, crawl, CrawlOK, EntriesOK, HandsFull
    <3>2. crashes' \in 0 .. MaxCrashes
      BY <1>1, <2>3, CapturesAssumption DEF Crash, DiskOK, CapturesAssumption
    <3>3. DiskOK'
      BY <1>1, <2>3, <3>2 DEF Crash, disk, DiskOK, EntriesOK, SeenSpared, Nothing
    <3> QED
      BY <3>1, <3>3
  <2>4. CASE Tick
    BY <1>1, <2>4, TickTypes
  <2>5. CASE UNCHANGED vars
    BY <1>1, <2>5 DEF vars, disk, crawl, maintenance, CrawlOK, DiskOK, EntriesOK, HandsFull,
                      SeenSpared
  <2> QED
    BY <2>1, <2>2, <2>3, <2>4, <2>5 DEF Next
<1>3. (TypeOK /\ HandsFull /\ SeenSpared <=> CrawlOK /\ DiskOK)'
  BY TwoHalves, PTL
<1> QED
  BY <1>1, <1>2, <1>3, StepSound DEF Consistent

\* Every file and every entry keeps its type, and maintenance only ever has on
\* its list what is still on disk, however crawls, passes, crashes and time
\* interleave.
THEOREM CapturesTyped == Spec => []TypeOK
<1>1. Consistent => TypeOK
  BY DEF Consistent
<1> QED
  BY <1>1, InitConsistent, StepConsistent, PTL DEF Spec

-----------------------------------------------------------------------------
(* The evidence behind a build *)

Shaped(b) ==
    /\ DOMAIN b = Categories
    /\ \A c \in Categories : Described(c, b[c])

EvidenceInv == Shaped(build) /\ request \in Requests /\ kept \subseteq Categories

\* q is p, but for the field f that is withdrawn.
Loses(c, p, f, q) ==
    /\ DOMAIN q = Fields(c)
    /\ q[f] = Absent(f)
    /\ \A g \in Fields(c) \ {f} : q[g] = p[g]

\* The source of field f of part c no longer states it.
Without(b, c, f, b2) == b2 = [b EXCEPT ![c][f] = Absent(f)]

LEMMA CriticalFields ==
    ASSUME NEW c \in Categories, NEW f \in Critical(c)
    PROVE  f \in Fields(c) /\ f \notin {"category", "status", "authority", "brand"}
BY DEF Categories, Critical, Fields

LEMMA WithdrawnIs ==
    ASSUME NEW b, Shaped(b), NEW c \in Categories, NEW f \in Critical(c),
           NEW b2, Without(b, c, f, b2)
    PROVE  /\ Shaped(b2)
           /\ Loses(c, b[c], f, b2[c])
           /\ \A d \in Categories \ {c} : b2[d] = b[d]
<1>1. PICK p : p = b[c] /\ Described(c, p)
  BY DEF Shaped
<1>2. f \in Fields(c) /\ f \notin {"category", "status", "authority", "brand"}
  BY CriticalFields
<1>3. DOMAIN b2 = Categories /\ (\A d \in Categories \ {c} : b2[d] = b[d])
      /\ b2[c] = [p EXCEPT ![f] = Absent(f)]
  BY <1>1 DEF Shaped, Without
<1>4. PICK q : q = b2[c]
  OBVIOUS
<1>5. Loses(c, p, f, q)
  BY <1>1, <1>2, <1>3, <1>4 DEF Loses, Described
<1>6. Described(c, q)
  <2>1. q.category = c
    <3>1. "category" \in Fields(c)
      BY DEF Fields
    <3> QED
      BY <1>1, <1>2, <1>5, <3>1 DEF Loses, Described
  <2>2. \A g \in {"power", "vram", "capacity", "wattage"} \cap Fields(c) : q[g] \in Amount
    <3> SUFFICES ASSUME NEW g \in {"power", "vram", "capacity", "wattage"} \cap Fields(c)
                 PROVE  q[g] \in Amount
      OBVIOUS
    <3>1. CASE g = f
      BY <1>5, <3>1 DEF Loses, Absent, Amount
    <3>2. CASE g # f
      BY <1>1, <1>5, <3>2 DEF Loses, Described
    <3> QED
      BY <3>1, <3>2
  <2>3. c = "gpu" => q.connectors \in [Connectors -> Nat] \cup {Missing, Garbled}
    <3>1. CASE f = "connectors"
      BY <1>5, <3>1 DEF Loses, Absent, NoConnectors
    <3>2. CASE f # "connectors"
      <4>1. c = "gpu" => "connectors" \in Fields(c)
        BY DEF Fields
      <4> QED
        BY <1>1, <1>5, <3>2, <4>1 DEF Loses, Described
    <3> QED
      BY <3>1, <3>2
  <2> QED
    BY <1>5, <2>1, <2>2, <2>3 DEF Loses, Described
<1>7. ASSUME NEW d \in Categories PROVE Described(d, b2[d])
  <2>1. CASE d = c
    BY <1>4, <1>6, <2>1
  <2>2. CASE d # c
    BY <1>3, <2>2 DEF Shaped
  <2> QED
    BY <2>1, <2>2
<1> QED
  BY <1>1, <1>3, <1>4, <1>5, <1>7 DEF Shaped

-----------------------------------------------------------------------------
(* A build the engine accepts, rule by rule *)

OK(v) == v \in {"PASS", "WARNING"}

\* The rules of the pairs, part by part.
RulesFine(cpu, gpu, board, ram, storage, psu, cooler, case) ==
    /\ OK(Match(cpu.socket, board.socket)) /\ OK(PlatformRule(cpu, board))
    /\ OK(GpuSlot(gpu, board))
    /\ OK(Match(ram.type, board.memoryType))
    /\ OK(Fit(ram.capacity, board.maxMemory, 1))
    /\ OK(Fit(ram.modules, board.memorySlots, 1))
    /\ OK(Support(board.form, case.forms))
    /\ OK(Fit(gpu.length, case.gpuLength, 0)) /\ OK(Fit(gpu.width, case.gpuWidth, 1))
    /\ OK(CoolerClearance(cooler, case))
    /\ OK(StorageBay(storage, case))
    /\ OK(Support(psu.form, case.psuForms))
    /\ OK(Support(cpu.socket, cooler.sockets))
    /\ OK(GpuConnectors(gpu, psu))
    /\ OK(StorageInterface(storage, board)) /\ OK(StorageSlot(storage, board))
    /\ Known(board.eps) => OK(EpsConnectors(board, psu))
    /\ OK(PowerCapacity(cpu, gpu, psu)) /\ OK(TransientCapacity(cpu, gpu, psu))

BuildFine(b) ==
    /\ RulesFine(b["cpu"], b["gpu"], b["motherboard"], b["memory"], b["storage"],
                 b["power_supply"], b["cooler"], b["case"])
    /\ Feasible(ConflictVerdicts(b))
    /\ Feasible(RadiatorVerdicts(b))

PartsFine(b, k) ==
    \A c \in Categories : ~Unverified(b[c]) /\ Feasible(Lifecycle(b[c], c \in k))

\* What the rules of an ordered pair say; those of the pair turned round say nothing.
LEMMA PairsAre ==
    ASSUME NEW b, Shaped(b)
    PROVE  /\ PairVerdicts(b["cpu"], b["motherboard"])
                = {Match(b["cpu"].socket, b["motherboard"].socket),
                   PlatformRule(b["cpu"], b["motherboard"])}
           /\ PairVerdicts(b["memory"], b["motherboard"])
                = {Match(b["memory"].type, b["motherboard"].memoryType),
                   Fit(b["memory"].capacity, b["motherboard"].maxMemory, 1),
                   Fit(b["memory"].modules, b["motherboard"].memorySlots, 1)}
           /\ PairVerdicts(b["gpu"], b["motherboard"]) = {GpuSlot(b["gpu"], b["motherboard"])}
           /\ PairVerdicts(b["motherboard"], b["case"])
                = {Support(b["motherboard"].form, b["case"].forms)}
           /\ PairVerdicts(b["gpu"], b["case"])
                = {Fit(b["gpu"].length, b["case"].gpuLength, 0),
                   Fit(b["gpu"].width, b["case"].gpuWidth, 1)}
           /\ PairVerdicts(b["cooler"], b["case"]) = {CoolerClearance(b["cooler"], b["case"])}
           /\ PairVerdicts(b["storage"], b["case"]) = {StorageBay(b["storage"], b["case"])}
           /\ PairVerdicts(b["power_supply"], b["case"])
                = {Support(b["power_supply"].form, b["case"].psuForms)}
           /\ PairVerdicts(b["cpu"], b["cooler"])
                = {Support(b["cpu"].socket, b["cooler"].sockets)}
           /\ PairVerdicts(b["gpu"], b["power_supply"])
                = {GpuConnectors(b["gpu"], b["power_supply"])}
           /\ PairVerdicts(b["motherboard"], b["power_supply"])
                = {EpsConnectors(b["motherboard"], b["power_supply"])}
           /\ PairVerdicts(b["storage"], b["motherboard"])
                = {StorageInterface(b["storage"], b["motherboard"]),
                   StorageSlot(b["storage"], b["motherboard"])}
<1>1. \A c \in Categories : b[c].category = c
  BY DEF Shaped, Described
<1>2. /\ b["cpu"].category = "cpu" /\ b["gpu"].category = "gpu"
      /\ b["motherboard"].category = "motherboard" /\ b["memory"].category = "memory"
      /\ b["storage"].category = "storage" /\ b["power_supply"].category = "power_supply"
      /\ b["cooler"].category = "cooler" /\ b["case"].category = "case"
  BY <1>1 DEF Categories
<1> QED
  BY <1>2 DEF PairVerdicts, PairRules

\* A part counts as retained by its record, which names its category.
LEMMA RetainedIs ==
    ASSUME NEW b, Shaped(b), NEW k \in SUBSET Categories
    PROVE  Feasible(RetainedVerdicts(b, {b[c] : c \in k}))
              <=> \A c \in Categories : Feasible(Lifecycle(b[c], c \in k))
<1> DEFINE E == {b[c] : c \in k}
<1>1. DOMAIN b = Categories /\ \A c \in Categories : b[c].category = c
  BY DEF Shaped, Described
<1>2. \A c \in Categories : (b[c] \in E) <=> (c \in k)
  <2> SUFFICES ASSUME NEW c \in Categories PROVE (b[c] \in E) <=> (c \in k)
    OBVIOUS
  <2>1. ASSUME b[c] \in E PROVE c \in k
    <3>1. PICK d \in k : b[c] = b[d]
      BY <2>1
    <3>2. c = d
      BY <1>1, <3>1
    <3> QED
      BY <3>2
  <2> QED
    BY <2>1
<1>3. Selected(b) = {b[c] : c \in Categories} /\ E \subseteq Selected(b)
  BY <1>1 DEF Selected
<1> DEFINE L == UNION {Lifecycle(p, p \in E) : p \in Selected(b)}
           R == UNION {IF e \in Selected(b) THEN {"PASS"} ELSE {"FAIL", "UNKNOWN"} : e \in E}
<1>4. R \subseteq {"PASS"}
  BY <1>3
<1>5. Feasible(L) <=> \A p \in Selected(b) : Feasible(Lifecycle(p, p \in E))
  BY Zenon DEF Feasible
<1>6. (\A p \in Selected(b) : Feasible(Lifecycle(p, p \in E)))
        <=> \A c \in Categories : Feasible(Lifecycle(b[c], b[c] \in E))
  BY <1>3, Zenon
<1>7. \A c \in Categories : Lifecycle(b[c], b[c] \in E) = Lifecycle(b[c], c \in k)
  <2> SUFFICES ASSUME NEW c \in Categories
               PROVE  Lifecycle(b[c], b[c] \in E) = Lifecycle(b[c], c \in k)
    OBVIOUS
  <2>1. (b[c] \in E) <=> (c \in k)
    BY <1>2
  <2> HIDE DEF E
  <2> QED
    BY <2>1, SMT DEF Lifecycle
<1>8. Feasible(RetainedVerdicts(b, E)) <=> Feasible(L)
  <2>1. RetainedVerdicts(b, E) = L \cup R
    BY Zenon DEF RetainedVerdicts
  <2> HIDE DEF L, R
  <2> QED
    BY <1>4, <2>1 DEF Feasible
<1> QED
  BY <1>5, <1>6, <1>7, <1>8

\* Each pair, and the two power rules, in terms of what single rules say.
LEMMA PairFine ==
    ASSUME NEW b, Shaped(b)
    PROVE  /\ Feasible(PairVerdicts(b["cpu"], b["motherboard"]))
                <=> /\ OK(Match(b["cpu"].socket, b["motherboard"].socket))
                    /\ OK(PlatformRule(b["cpu"], b["motherboard"]))
           /\ Feasible(PairVerdicts(b["memory"], b["motherboard"]))
                <=> /\ OK(Match(b["memory"].type, b["motherboard"].memoryType))
                    /\ OK(Fit(b["memory"].capacity, b["motherboard"].maxMemory, 1))
                    /\ OK(Fit(b["memory"].modules, b["motherboard"].memorySlots, 1))
           /\ Feasible(PairVerdicts(b["gpu"], b["motherboard"]))
                <=> OK(GpuSlot(b["gpu"], b["motherboard"]))
           /\ Feasible(PairVerdicts(b["motherboard"], b["case"]))
                <=> OK(Support(b["motherboard"].form, b["case"].forms))
           /\ Feasible(PairVerdicts(b["gpu"], b["case"]))
                <=> /\ OK(Fit(b["gpu"].length, b["case"].gpuLength, 0))
                    /\ OK(Fit(b["gpu"].width, b["case"].gpuWidth, 1))
           /\ Feasible(PairVerdicts(b["cooler"], b["case"]))
                <=> OK(CoolerClearance(b["cooler"], b["case"]))
           /\ Feasible(PairVerdicts(b["storage"], b["case"]))
                <=> OK(StorageBay(b["storage"], b["case"]))
           /\ Feasible(PairVerdicts(b["power_supply"], b["case"]))
                <=> OK(Support(b["power_supply"].form, b["case"].psuForms))
           /\ Feasible(PairVerdicts(b["cpu"], b["cooler"]))
                <=> OK(Support(b["cpu"].socket, b["cooler"].sockets))
           /\ Feasible(PairVerdicts(b["gpu"], b["power_supply"]))
                <=> OK(GpuConnectors(b["gpu"], b["power_supply"]))
           /\ Feasible(PairVerdicts(b["motherboard"], b["power_supply"]))
                <=> OK(EpsConnectors(b["motherboard"], b["power_supply"]))
           /\ Feasible(PairVerdicts(b["storage"], b["motherboard"]))
                <=> /\ OK(StorageInterface(b["storage"], b["motherboard"]))
                    /\ OK(StorageSlot(b["storage"], b["motherboard"]))
<1>1. ASSUME NEW x PROVE Feasible({x}) <=> OK(x)
  BY DEF Feasible, OK
<1>2. ASSUME NEW x, NEW y PROVE Feasible({x, y}) <=> OK(x) /\ OK(y)
  BY DEF Feasible, OK
<1>3. ASSUME NEW x, NEW y, NEW z PROVE Feasible({x, y, z}) <=> OK(x) /\ OK(y) /\ OK(z)
  BY DEF Feasible, OK
<1>4. Feasible(PairVerdicts(b["cpu"], b["motherboard"]))
        <=> /\ OK(Match(b["cpu"].socket, b["motherboard"].socket))
            /\ OK(PlatformRule(b["cpu"], b["motherboard"]))
  BY <1>2, PairsAre, SMT
<1>5. Feasible(PairVerdicts(b["memory"], b["motherboard"]))
        <=> /\ OK(Match(b["memory"].type, b["motherboard"].memoryType))
            /\ OK(Fit(b["memory"].capacity, b["motherboard"].maxMemory, 1))
            /\ OK(Fit(b["memory"].modules, b["motherboard"].memorySlots, 1))
  BY <1>3, PairsAre, SMT
<1>6. Feasible(PairVerdicts(b["gpu"], b["motherboard"]))
        <=> OK(GpuSlot(b["gpu"], b["motherboard"]))
  BY <1>1, PairsAre, SMT
<1>7. Feasible(PairVerdicts(b["motherboard"], b["case"]))
        <=> OK(Support(b["motherboard"].form, b["case"].forms))
  BY <1>1, PairsAre, SMT
<1>8. Feasible(PairVerdicts(b["gpu"], b["case"]))
        <=> /\ OK(Fit(b["gpu"].length, b["case"].gpuLength, 0))
            /\ OK(Fit(b["gpu"].width, b["case"].gpuWidth, 1))
  BY <1>2, PairsAre, SMT
<1>9. Feasible(PairVerdicts(b["cooler"], b["case"]))
        <=> OK(CoolerClearance(b["cooler"], b["case"]))
  BY <1>1, PairsAre, SMT
<1>10. Feasible(PairVerdicts(b["storage"], b["case"]))
        <=> OK(StorageBay(b["storage"], b["case"]))
  BY <1>1, PairsAre, SMT
<1>11. Feasible(PairVerdicts(b["power_supply"], b["case"]))
        <=> OK(Support(b["power_supply"].form, b["case"].psuForms))
  BY <1>1, PairsAre, SMT
<1>12. Feasible(PairVerdicts(b["cpu"], b["cooler"]))
        <=> OK(Support(b["cpu"].socket, b["cooler"].sockets))
  BY <1>1, PairsAre, SMT
<1>13. Feasible(PairVerdicts(b["gpu"], b["power_supply"]))
        <=> OK(GpuConnectors(b["gpu"], b["power_supply"]))
  BY <1>1, PairsAre, SMT
<1>14. Feasible(PairVerdicts(b["motherboard"], b["power_supply"]))
        <=> OK(EpsConnectors(b["motherboard"], b["power_supply"]))
  <2>1. PairVerdicts(b["motherboard"], b["power_supply"])
          = {EpsConnectors(b["motherboard"], b["power_supply"])}
    BY PairsAre
  <2> QED
    BY <1>1, <2>1
<1>15. Feasible(PairVerdicts(b["storage"], b["motherboard"]))
        <=> /\ OK(StorageInterface(b["storage"], b["motherboard"]))
            /\ OK(StorageSlot(b["storage"], b["motherboard"]))
  BY <1>2, PairsAre, SMT
<1> QED
  BY <1>4, <1>5, <1>6, <1>7, <1>8, <1>9, <1>10, <1>11, <1>12, <1>13, <1>14, <1>15, Zenon

\* The pairs that check_build evaluates, EPS only where the board states a need.
LEMMA PairsFine ==
    ASSUME NEW b, Shaped(b)
    PROVE  Feasible((UNION {PairVerdicts(b[p[1]], b[p[2]]) : p \in EvaluatedPairs(b)})
                       \cup PowerVerdicts(b))
              <=> RulesFine(b["cpu"], b["gpu"], b["motherboard"], b["memory"], b["storage"],
                            b["power_supply"], b["cooler"], b["case"])
<1>1. DOMAIN b = Categories
  BY DEF Shaped
<1> DEFINE V(p) == PairVerdicts(b[p[1]], b[p[2]])
<1>2. EvaluatedPairs(b) = Pairings \cup
          IF Known(b["motherboard"].eps) THEN {<<"motherboard", "power_supply">>} ELSE {}
  <2>1. \A p \in Pairings \cup {<<"motherboard", "power_supply">>} :
           {p[1], p[2]} \subseteq DOMAIN b
    BY <1>1 DEF Pairings, Categories
  <2> QED
    BY <2>1 DEF EvaluatedPairs
<1>3. PowerVerdicts(b) = {PowerCapacity(b["cpu"], b["gpu"], b["power_supply"]),
                          TransientCapacity(b["cpu"], b["gpu"], b["power_supply"])}
  BY <1>1 DEF PowerVerdicts, Categories
<1>4. Feasible((UNION {V(p) : p \in EvaluatedPairs(b)}) \cup PowerVerdicts(b))
        <=> /\ \A p \in Pairings : Feasible(V(p))
            /\ Known(b["motherboard"].eps) => Feasible(V(<<"motherboard", "power_supply">>))
            /\ Feasible(PowerVerdicts(b))
  <2>1. Feasible((UNION {V(p) : p \in EvaluatedPairs(b)}) \cup PowerVerdicts(b))
        <=> (\A p \in EvaluatedPairs(b) : Feasible(V(p))) /\ Feasible(PowerVerdicts(b))
    <3> HIDE DEF V
    <3>1. Feasible(UNION {V(p) : p \in EvaluatedPairs(b)})
            <=> \A p \in EvaluatedPairs(b) : Feasible(V(p))
      BY Zenon DEF Feasible
    <3>2. \A S, T : Feasible(S \cup T) <=> Feasible(S) /\ Feasible(T)
      BY DEF Feasible
    <3> QED
      BY <3>1, <3>2, Zenon
  <2> HIDE DEF V
  <2> QED
    BY <1>2, <2>1
<1>5. (\A p \in Pairings : Feasible(V(p)))
        <=> /\ Feasible(PairVerdicts(b["cpu"], b["motherboard"]))
            /\ Feasible(PairVerdicts(b["gpu"], b["motherboard"]))
            /\ Feasible(PairVerdicts(b["memory"], b["motherboard"]))
            /\ Feasible(PairVerdicts(b["motherboard"], b["case"]))
            /\ Feasible(PairVerdicts(b["gpu"], b["case"]))
            /\ Feasible(PairVerdicts(b["cooler"], b["case"]))
            /\ Feasible(PairVerdicts(b["storage"], b["case"]))
            /\ Feasible(PairVerdicts(b["power_supply"], b["case"]))
            /\ Feasible(PairVerdicts(b["cpu"], b["cooler"]))
            /\ Feasible(PairVerdicts(b["gpu"], b["power_supply"]))
            /\ Feasible(PairVerdicts(b["storage"], b["motherboard"]))
  BY DEF Pairings
<1>6. Feasible(PowerVerdicts(b))
        <=> /\ OK(PowerCapacity(b["cpu"], b["gpu"], b["power_supply"]))
            /\ OK(TransientCapacity(b["cpu"], b["gpu"], b["power_supply"]))
  BY <1>3 DEF Feasible, OK
<1>7. V(<<"motherboard", "power_supply">>) = PairVerdicts(b["motherboard"], b["power_supply"])
  OBVIOUS
<1>8. UNION {PairVerdicts(b[p[1]], b[p[2]]) : p \in EvaluatedPairs(b)}
        = UNION {V(p) : p \in EvaluatedPairs(b)}
  OBVIOUS
<1> HIDE DEF V
<1>9. Feasible((UNION {V(p) : p \in EvaluatedPairs(b)}) \cup PowerVerdicts(b))
        <=> RulesFine(b["cpu"], b["gpu"], b["motherboard"], b["memory"], b["storage"],
                      b["power_supply"], b["cooler"], b["case"])
  BY <1>4, <1>5, <1>6, <1>7, PairFine, SMT DEF RulesFine
<1> QED
  BY <1>8, <1>9, Zenon

\* What makes check_build accept: nothing of it is optional.
LEMMA AcceptIs ==
    ASSUME NEW b, Shaped(b), NEW k \in SUBSET Categories
    PROVE  Feasible(CheckBuild(b, {b[c] : c \in k})) <=> BuildFine(b) /\ PartsFine(b, k)
<1> DEFINE E == {b[c] : c \in k}
           U == UNION {PairVerdicts(b[p[1]], b[p[2]]) : p \in EvaluatedPairs(b)}
<1>1. DOMAIN b = Categories
  BY DEF Shaped
<1>2. {IF c \in DOMAIN b THEN "PASS" ELSE "FAIL" : c \in Categories} = {"PASS"}
  BY <1>1 DEF Categories
<1>3. (\E p \in Selected(b) \cup E : Unverified(p)) <=> \E c \in Categories : Unverified(b[c])
  BY <1>1 DEF Selected
<1>4. Feasible(RetainedVerdicts(b, E))
         <=> \A c \in Categories : Feasible(Lifecycle(b[c], c \in k))
  BY RetainedIs
<1>5. Feasible(U \cup PowerVerdicts(b))
         <=> RulesFine(b["cpu"], b["gpu"], b["motherboard"], b["memory"], b["storage"],
                       b["power_supply"], b["cooler"], b["case"])
  BY PairsFine, Zenon
<1> HIDE DEF E
<1>6. CASE \E c \in Categories : Unverified(b[c])
  <2>1. "UNKNOWN" \in CheckBuild(b, E)
    BY <1>3, <1>6 DEF CheckBuild
  <2>2. ~Feasible(CheckBuild(b, E)) 
    BY <2>1 DEF Feasible
  <2>3. ~PartsFine(b, k)
    BY <1>6 DEF PartsFine
  <2> QED
    BY <2>2, <2>3 DEF E
<1>7. CASE ~\E c \in Categories : Unverified(b[c])
  <2>1. CheckBuild(b, E) = {"PASS"} \cup U \cup PowerVerdicts(b) \cup ConflictVerdicts(b)
                              \cup RadiatorVerdicts(b) \cup RetainedVerdicts(b, E)
    <3>1. CheckBuild(b, E) = {"PASS"} \cup (U \cup PowerVerdicts(b) \cup ConflictVerdicts(b)
                              \cup RadiatorVerdicts(b) \cup RetainedVerdicts(b, E))
      <4>1. ~\E p \in Selected(b) \cup E : Unverified(p)
        BY <1>3, <1>7, Zenon
      <4> QED
        BY <1>2, <4>1, Zenon DEF CheckBuild
    <3> HIDE DEF U
    <3> QED
      BY <3>1
  <2> HIDE DEF U
  <2>2. Feasible(CheckBuild(b, E))
          <=> /\ Feasible(U \cup PowerVerdicts(b)) /\ Feasible(ConflictVerdicts(b))
              /\ Feasible(RadiatorVerdicts(b)) /\ Feasible(RetainedVerdicts(b, E))
    BY <2>1 DEF Feasible
  <2>3. PartsFine(b, k) <=> \A c \in Categories : Feasible(Lifecycle(b[c], c \in k))
    BY <1>7 DEF PartsFine
  <2> QED
    BY <1>4, <1>5, <2>2, <2>3, Zenon DEF BuildFine, E
<1> QED
  BY <1>6, <1>7

-----------------------------------------------------------------------------
(* What the loss of a critical field does to the rules *)

\* No rule reads around a field of a CPU, a GPU, a memory kit or a drive that has
\* no value, so the build is refused.
LEMMA CpuLoss ==
    ASSUME NEW p, NEW q, NEW f \in Critical("cpu"), Loses("cpu", p, f, q),
           NEW gpu, NEW board, NEW ram, NEW storage, NEW psu, NEW cooler, NEW case
    PROVE  ~RulesFine(q, gpu, board, ram, storage, psu, cooler, case)
<1>1. q[f] = Missing /\ f \in {"socket", "generation", "power"}
  BY DEF Loses, Absent, Critical
<1>2. CASE f = "socket"
  BY <1>1, <1>2 DEF RulesFine, Match, Verdict, Known, OK
<1>3. CASE f = "generation"
  BY <1>1, <1>3 DEF RulesFine, PlatformRule, Known, OK
<1>4. CASE f = "power"
  BY <1>1, <1>4 DEF RulesFine, PowerCapacity, Plausible, Verdict, Known, OK
<1> QED
  BY <1>1, <1>2, <1>3, <1>4

LEMMA GpuLoss ==
    ASSUME NEW p, NEW q, NEW f \in Critical("gpu") \ {"connectors"}, Loses("gpu", p, f, q),
           NEW cpu, NEW board, NEW ram, NEW storage, NEW psu, NEW cooler, NEW case
    PROVE  ~RulesFine(cpu, q, board, ram, storage, psu, cooler, case)
<1>1. q[f] = Missing /\ f \in {"length", "width", "power"}
  BY DEF Loses, Absent, Critical
<1>2. CASE f \in {"length", "width"}
  BY <1>1, <1>2 DEF RulesFine, Fit, Verdict, Known, OK
<1>3. CASE f = "power"
  BY <1>1, <1>3 DEF RulesFine, PowerCapacity, Plausible, Verdict, Known, OK
<1> QED
  BY <1>1, <1>2, <1>3

LEMMA MemoryLoss ==
    ASSUME NEW p, NEW q, NEW f \in Critical("memory"), Loses("memory", p, f, q),
           NEW cpu, NEW gpu, NEW board, NEW storage, NEW psu, NEW cooler, NEW case
    PROVE  ~RulesFine(cpu, gpu, board, q, storage, psu, cooler, case)
<1>1. q[f] = Missing /\ f \in {"type", "capacity", "modules"}
  BY DEF Loses, Absent, Critical
<1> QED
  BY <1>1 DEF RulesFine, Match, Fit, Verdict, Known, OK

LEMMA StorageLoss ==
    ASSUME NEW p, NEW q, NEW f \in Critical("storage"), Loses("storage", p, f, q),
           NEW cpu, NEW gpu, NEW board, NEW ram, NEW psu, NEW cooler, NEW case,
           f = "form" => p.interface \notin {"m2_nvme", "m2_sata"}
    PROVE  ~RulesFine(cpu, gpu, board, ram, q, psu, cooler, case)
<1>1. q[f] = Missing /\ f \in {"interface", "form"}
  BY DEF Loses, Absent, Critical
<1>2. CASE f = "interface"
  BY <1>1, <1>2 DEF RulesFine, StorageInterface, Verdict, Known, OK
<1>3. CASE f = "form"
  <2>1. q.interface = p.interface
    BY <1>3 DEF Loses, Fields
  <2>2. StorageForm(q) = Missing
    BY <1>1, <1>3, <2>1 DEF StorageForm
  <2>3. StorageBay(q, case) = "UNKNOWN"
    BY <2>2, ValuesAssumption DEF StorageBay, Words
  <2> QED
    BY <2>3 DEF RulesFine, OK
<1> QED
  BY <1>1, <1>2, <1>3

\* Of a board, a supply, a cooler and a case some fields are read only where the
\* other part needs them: with the field gone no rule passes that did not before.
LEMMA BoardLoss ==
    ASSUME NEW p, NEW q, NEW f \in Critical("motherboard"), Loses("motherboard", p, f, q),
           NEW cpu, NEW gpu, NEW ram, NEW storage, NEW psu, NEW cooler, NEW case,
           f = "generations" => Consulted(cpu, p) = {"generations"},
           RulesFine(cpu, gpu, q, ram, storage, psu, cooler, case)
    PROVE  RulesFine(cpu, gpu, p, ram, storage, psu, cooler, case)
<1>1. \A g \in {"socket", "chipset", "generations", "models", "matrix", "minimumBios", "bios",
                "biosUpdate", "updateFor", "form", "memoryType", "maxMemory", "memorySlots",
                "pcieSlots", "m2Slots", "sataPorts", "storageInterfaces", "storageSlots",
                "eps"} : g = f \/ q[g] = p[g]
  BY DEF Loses, Fields
<1>2. CASE f \in {"socket", "form", "memoryType", "maxMemory", "memorySlots", "pcieSlots"}
  <2>1. q[f] = Missing
    BY <1>2 DEF Loses, Absent
  <2> QED
    BY <1>2, <2>1 DEF RulesFine, Match, Support, Fit, GpuSlot, Verdict, Known, OK
<1>3. CASE f = "chipset"
  <2>1. q.chipset = Missing
    BY <1>3 DEF Loses, Absent
  <2> QED
    BY <2>1 DEF RulesFine, PlatformRule, Known, OK
<1>4. CASE f = "generations"
  <2>1. q.generations = {}
    BY <1>4 DEF Loses, Absent
  <2>2. q.models = p.models /\ q.matrix = p.matrix
    BY <1>1, <1>4
  <2>3. Consulted(cpu, q) \subseteq Consulted(cpu, p) /\ "generations" \notin Consulted(cpu, q)
    BY <2>1, <2>2 DEF Consulted, Listed
  <2>4. Consulted(cpu, q) = {}
    BY <1>4, <2>3
  <2> QED
    BY <2>4 DEF RulesFine, PlatformRule, OK
<1>5. CASE f = "bios"
  <2>1. q.bios = Missing
    BY <1>5 DEF Loses, Absent
  <2>2. /\ q.socket = p.socket /\ q.chipset = p.chipset /\ q.generations = p.generations
        /\ q.models = p.models /\ q.matrix = p.matrix /\ q.minimumBios = p.minimumBios
        /\ q.biosUpdate = p.biosUpdate /\ q.updateFor = p.updateFor /\ q.form = p.form
        /\ q.memoryType = p.memoryType /\ q.maxMemory = p.maxMemory
        /\ q.memorySlots = p.memorySlots /\ q.pcieSlots = p.pcieSlots
        /\ q.m2Slots = p.m2Slots /\ q.sataPorts = p.sataPorts
        /\ q.storageInterfaces = p.storageInterfaces
        /\ q.storageSlots = p.storageSlots /\ q.eps = p.eps
    BY <1>1, <1>5
  <2>3. Consulted(cpu, q) = Consulted(cpu, p)
    BY <2>2 DEF Consulted
  <2>4. \A l \in Consulted(cpu, p) : Includes(l, cpu, q) = Includes(l, cpu, p)
    BY <2>2 DEF Includes
  <2>5. MinimumBios(cpu, q) = MinimumBios(cpu, p)
    BY <2>2 DEF MinimumBios
  <2>6. OK(BiosRule(cpu, q)) => OK(BiosRule(cpu, p))
    BY <2>1, <2>2, <2>5 DEF BiosRule, OK, Known
  <2>7. OK(PlatformRule(cpu, q)) => OK(PlatformRule(cpu, p))
    BY <2>2, <2>3, <2>4, <2>6 DEF PlatformRule, OK
  <2>8. /\ StorageInterface(storage, q) = StorageInterface(storage, p)
        /\ StorageSlot(storage, q) = StorageSlot(storage, p)
        /\ GpuSlot(gpu, q) = GpuSlot(gpu, p)
        /\ EpsConnectors(q, psu) = EpsConnectors(p, psu)
    BY <2>2 DEF StorageInterface, StorageInterfaces, CountsSlots, StorageSlot, GpuSlot,
                EpsConnectors
  <2> QED
    BY <2>2, <2>7, <2>8 DEF RulesFine
<1>6. CASE f \in {"m2Slots", "sataPorts"}
  <2>1. q[f] = Missing
    BY <1>6 DEF Loses, Absent
  <2>2. /\ q.socket = p.socket /\ q.chipset = p.chipset /\ q.generations = p.generations
        /\ q.models = p.models /\ q.matrix = p.matrix /\ q.minimumBios = p.minimumBios
        /\ q.biosUpdate = p.biosUpdate /\ q.updateFor = p.updateFor /\ q.form = p.form
        /\ q.memoryType = p.memoryType /\ q.maxMemory = p.maxMemory
        /\ q.memorySlots = p.memorySlots /\ q.pcieSlots = p.pcieSlots /\ q.bios = p.bios
        /\ q.storageInterfaces = p.storageInterfaces
        /\ q.storageSlots = p.storageSlots /\ q.eps = p.eps
    BY <1>1, <1>6
  <2>3. /\ q.m2Slots = p.m2Slots \/ q.m2Slots = Missing
        /\ q.sataPorts = p.sataPorts \/ q.sataPorts = Missing
    BY <1>1, <1>6, <2>1
  <2>4. Consulted(cpu, q) = Consulted(cpu, p)
    BY <2>2 DEF Consulted
  <2>5. \A l \in Consulted(cpu, p) : Includes(l, cpu, q) = Includes(l, cpu, p)
    BY <2>2 DEF Includes
  <2>6. MinimumBios(cpu, q) = MinimumBios(cpu, p) /\ BiosUpdate(cpu, q) = BiosUpdate(cpu, p)
    BY <2>2 DEF MinimumBios, BiosUpdate
  <2>7. BiosRule(cpu, q) = BiosRule(cpu, p)
    BY <2>2, <2>6 DEF BiosRule
  <2>8. PlatformRule(cpu, q) = PlatformRule(cpu, p)
    BY <2>2, <2>4, <2>5, <2>7 DEF PlatformRule
  <2>9. CountsSlots(q) => CountsSlots(p)
    BY <2>2, <2>3 DEF CountsSlots, Known
  <2>10. OK(StorageInterface(storage, q)) => OK(StorageInterface(storage, p))
    <3>1. StorageInterfaces(q) \subseteq StorageInterfaces(p)
      BY <2>2, <2>3 DEF StorageInterfaces, Known
    <3> QED
      BY <2>2, <2>9, <3>1 DEF StorageInterface, Verdict, OK
  <2>11. OK(StorageSlot(storage, q)) => OK(StorageSlot(storage, p))
    BY <2>2, <2>3, <2>9 DEF StorageSlot, Verdict, OK, Known
  <2>12. GpuSlot(gpu, q) = GpuSlot(gpu, p) /\ EpsConnectors(q, psu) = EpsConnectors(p, psu)
    BY <2>2 DEF GpuSlot, EpsConnectors
  <2> QED
    BY <2>2, <2>8, <2>10, <2>11, <2>12 DEF RulesFine
<1> QED
  BY <1>2, <1>3, <1>4, <1>5, <1>6 DEF Critical

LEMMA SupplyLoss ==
    ASSUME NEW p, NEW q, NEW f \in Critical("power_supply"), Loses("power_supply", p, f, q),
           NEW cpu, NEW gpu, NEW board, NEW ram, NEW storage, NEW cooler, NEW case,
           f = "pcie" => p.pcie # Garbled,
           gpu.connectors \in [Connectors -> Nat] \cup {Missing, Garbled},
           RulesFine(cpu, gpu, board, ram, storage, q, cooler, case)
    PROVE  RulesFine(cpu, gpu, board, ram, storage, p, cooler, case)
<1>1. \A g \in {"wattage", "transient", "form", "pcie", "eps"} : g = f \/ q[g] = p[g]
  BY DEF Loses, Fields
<1>2. CASE f = "wattage"
  <2>1. q.wattage = Missing
    BY <1>2 DEF Loses, Absent
  <2> QED
    BY <2>1 DEF RulesFine, PowerCapacity, Plausible, Verdict, Known, OK
<1>3. CASE f = "form"
  <2>1. q.form = Missing
    BY <1>3 DEF Loses, Absent
  <2> QED
    BY <2>1 DEF RulesFine, Support, Verdict, Known, OK
<1>4. CASE f = "eps"
  <2>1. q.eps = Missing
    BY <1>4 DEF Loses, Absent
  <2>2. q.wattage = p.wattage /\ q.transient = p.transient /\ q.form = p.form /\ q.pcie = p.pcie
    BY <1>1, <1>4
  <2>3. ~Known(board.eps)
    BY <2>1 DEF RulesFine, EpsConnectors, Fit, Verdict, Known, OK
  <2>4. /\ PowerCapacity(cpu, gpu, q) = PowerCapacity(cpu, gpu, p)
        /\ TransientCapacity(cpu, gpu, q) = TransientCapacity(cpu, gpu, p)
        /\ GpuConnectors(gpu, q) = GpuConnectors(gpu, p)
    BY <2>2 DEF PowerCapacity, TransientCapacity, Plausible, GpuConnectors
  <2> QED
    BY <2>2, <2>3, <2>4 DEF RulesFine
<1>5. CASE f = "pcie"
  <2>1. q.pcie = NoConnectors
    BY <1>5 DEF Loses, Absent
  <2>2. q.wattage = p.wattage /\ q.transient = p.transient /\ q.form = p.form /\ q.eps = p.eps
    BY <1>1, <1>5
  <2>3. /\ PowerCapacity(cpu, gpu, q) = PowerCapacity(cpu, gpu, p)
        /\ TransientCapacity(cpu, gpu, q) = TransientCapacity(cpu, gpu, p)
        /\ EpsConnectors(board, q) = EpsConnectors(board, p)
    BY <2>2 DEF PowerCapacity, TransientCapacity, Plausible, EpsConnectors
  <2>4. PICK n : n = gpu.connectors
    OBVIOUS
  <2>5. n \in [Connectors -> Nat] /\ ~ConnectorShortage(n, NoConnectors) => n = NoConnectors
    <3>1. SUFFICES ASSUME n \in [Connectors -> Nat], ~ConnectorShortage(n, NoConnectors)
                   PROVE  n = NoConnectors
      OBVIOUS
    <3>2. \A c \in Connectors : n[c] \in Nat /\ NoConnectors[c] = 0
      BY <3>1 DEF NoConnectors
    <3>3. /\ n["8 pin"] \in Nat /\ n["other"] \in Nat /\ n["6 pin"] \in Nat
          /\ NoConnectors["8 pin"] = 0 /\ NoConnectors["other"] = 0 /\ NoConnectors["6 pin"] = 0
      BY <3>2 DEF Connectors
    <3>4. /\ ~(n["8 pin"] > NoConnectors["8 pin"]) /\ ~(n["other"] > NoConnectors["other"])
          /\ ~(n["6 pin"] > NoConnectors["6 pin"] + (NoConnectors["8 pin"] - n["8 pin"]))
      BY <3>1 DEF ConnectorShortage, Connectors
    <3>5. PICK eight, six, other : eight = n["8 pin"] /\ six = n["6 pin"] /\ other = n["other"]
      OBVIOUS
    <3>6. /\ eight \in Nat /\ six \in Nat /\ other \in Nat
          /\ ~(eight > 0) /\ ~(other > 0) /\ ~(six > 0 + (0 - eight))
      BY <3>3, <3>4, <3>5, Zenon
    <3>7. eight = 0 /\ six = 0 /\ other = 0
      BY <3>6
    <3>8. \A c \in Connectors : n[c] = 0
      BY <3>5, <3>7 DEF Connectors
    <3> QED
      BY <3>1, <3>8 DEF NoConnectors
  <2>6. OK(GpuConnectors(gpu, q)) => n = NoConnectors
    BY <2>1, <2>4, <2>5 DEF GpuConnectors, Verdict, OK
  <2>7. OK(GpuConnectors(gpu, q)) => n # Garbled /\ n # Missing
    BY <2>4 DEF GpuConnectors, OK
  <2>8. OK(GpuConnectors(gpu, q)) => OK(GpuConnectors(gpu, p))
    BY <1>5, <2>4, <2>6, <2>7 DEF GpuConnectors, OK
  <2> QED
    BY <2>2, <2>3, <2>8 DEF RulesFine
<1> QED
  BY <1>2, <1>3, <1>4, <1>5 DEF Critical

\* The rule of the radiator reads its size, its position and its thickness.
LEMMA RadiatorReads ==
    ASSUME NEW p, NEW q, NEW case, q.radiator = p.radiator, q.position = p.position,
           q.thickness = p.thickness
    PROVE  RadiatorRule(q, case) = RadiatorRule(p, case)
<1>1. RadiatorSize(q, case) = RadiatorSize(p, case)
  BY DEF RadiatorSize
<1>2. PositionRule(q, case) = PositionRule(p, case)
  BY DEF PositionRule
<1>3. ThicknessLimit(q, case) = ThicknessLimit(p, case)
  BY DEF ThicknessLimit
<1>4. ThicknessRule(q, case) = ThicknessRule(p, case)
  BY <1>3 DEF ThicknessRule
<1> QED
  BY <1>1, <1>2, <1>4 DEF RadiatorRule

LEMMA CoolerLoss ==
    ASSUME NEW p, NEW q, NEW f \in Critical("cooler"), Loses("cooler", p, f, q),
           NEW cpu, NEW gpu, NEW board, NEW ram, NEW storage, NEW psu, NEW case,
           RulesFine(cpu, gpu, board, ram, storage, psu, q, case)
    PROVE  /\ RulesFine(cpu, gpu, board, ram, storage, psu, p, case)
           /\ q.type = p.type /\ q.position = p.position
           /\ p.type = "aio" => q.radiator = p.radiator
<1>1. \A g \in {"type", "height", "radiator", "thickness", "position", "sockets"} :
         g = f \/ q[g] = p[g]
  BY DEF Loses, Fields
<1>2. f # "type"
  <2>1. SUFFICES ASSUME f = "type" PROVE FALSE
    OBVIOUS
  <2>2. q.type = Missing
    BY <2>1 DEF Loses, Absent
  <2> QED
    BY <2>2, ValuesAssumption DEF RulesFine, CoolerClearance, OK, Words
<1>3. f # "sockets"
  <2>1. SUFFICES ASSUME f = "sockets" PROVE FALSE
    OBVIOUS
  <2>2. q.sockets = {}
    BY <2>1 DEF Loses, Absent
  <2> QED
    BY <2>2 DEF RulesFine, Support, Listed, Verdict, OK
<1>4. q.type = p.type /\ q.sockets = p.sockets /\ q.position = p.position
      /\ q.thickness = p.thickness
  BY <1>1, <1>2, <1>3 DEF Critical
<1>5. q.type \in {"air", "aio", "liquid"}
  BY DEF RulesFine, CoolerClearance, OK
<1>6. q.type = "air" => f # "height"
  <2>1. SUFFICES ASSUME f = "height", q.type = "air" PROVE FALSE
    OBVIOUS
  <2>2. q.height = Missing
    BY <2>1 DEF Loses, Absent
  <2> QED
    BY <2>1, <2>2 DEF RulesFine, CoolerClearance, Fit, Verdict, Known, OK
<1>7. q.type # "air" => f # "radiator"
  <2>1. SUFFICES ASSUME f = "radiator", q.type # "air" PROVE FALSE
    OBVIOUS
  <2>2. q.radiator = Missing
    BY <2>1 DEF Loses, Absent
  <2>3. RadiatorRule(q, case) = "UNKNOWN"
    BY <2>2 DEF RadiatorRule, RadiatorSize, Verdict, Known
  <2> QED
    BY <1>5, <2>1, <2>3 DEF RulesFine, CoolerClearance, OK
<1>8. CoolerClearance(q, case) = CoolerClearance(p, case)
  <2>1. CASE q.type = "air"
    <3>1. q.height = p.height
      BY <1>1, <1>6, <2>1
    <3> QED
      BY <1>4, <2>1, <3>1 DEF CoolerClearance
  <2>2. CASE q.type # "air"
    <3>1. q.radiator = p.radiator
      BY <1>1, <1>7, <2>2
    <3>2. RadiatorRule(q, case) = RadiatorRule(p, case)
      BY <1>4, <3>1, RadiatorReads
    <3> QED
      BY <1>4, <2>2, <3>2 DEF CoolerClearance
  <2> QED
    BY <2>1, <2>2
<1>9. p.type = "aio" => q.radiator = p.radiator
  BY <1>1, <1>4, <1>7
<1> QED
  BY <1>4, <1>8, <1>9 DEF RulesFine

LEMMA CaseLoss ==
    ASSUME NEW p, NEW q, NEW f \in Critical("case"), Loses("case", p, f, q),
           NEW cpu, NEW gpu, NEW board, NEW ram, NEW storage, NEW psu, NEW cooler,
           f = "radiators" => ~Known(p.maxRadiator),
           RulesFine(cpu, gpu, board, ram, storage, psu, cooler, q)
    PROVE  RulesFine(cpu, gpu, board, ram, storage, psu, cooler, p)
<1>1. \A g \in {"forms", "gpuLength", "gpuWidth", "coolerHeight", "radiators", "radiatorsAt",
                "maxRadiator", "thicknessAt", "maxThickness", "bays", "driveBays",
                "driveForms", "psuForms"} : g = f \/ q[g] = p[g]
  BY DEF Loses, Fields
<1>2. f \notin {"forms", "psuForms"}
  <2>1. SUFFICES ASSUME f \in {"forms", "psuForms"} PROVE FALSE
    OBVIOUS
  <2>2. q[f] = {}
    BY <2>1 DEF Loses, Absent
  <2> QED
    BY <2>1, <2>2 DEF RulesFine, Support, Listed, Verdict, OK
<1>3. f \notin {"gpuLength", "gpuWidth"}
  <2>1. SUFFICES ASSUME f \in {"gpuLength", "gpuWidth"} PROVE FALSE
    OBVIOUS
  <2>2. q[f] = Missing
    BY <2>1 DEF Loses, Absent
  <2> QED
    BY <2>1, <2>2 DEF RulesFine, Fit, Verdict, Known, OK
<1>4. /\ q.forms = p.forms /\ q.gpuLength = p.gpuLength /\ q.gpuWidth = p.gpuWidth
      /\ q.radiatorsAt = p.radiatorsAt /\ q.maxRadiator = p.maxRadiator
      /\ q.thicknessAt = p.thicknessAt /\ q.maxThickness = p.maxThickness
      /\ q.bays = p.bays /\ q.driveForms = p.driveForms /\ q.psuForms = p.psuForms
  BY <1>1, <1>2, <1>3 DEF Critical
<1>5. OK(StorageBay(storage, p))
  <2>1. OK(StorageBay(storage, q))
    BY DEF RulesFine
  <2>2. CASE f = "driveBays"
    <3>1. q.driveBays = Missing
      BY <2>2 DEF Loses, Absent
    <3> QED
      BY <1>4, <2>1, <3>1 DEF StorageBay, Verdict, OK, Known
  <2>3. CASE f # "driveBays"
    <3>1. q.driveBays = p.driveBays
      BY <1>1, <2>3
    <3>2. StorageBay(storage, q) = StorageBay(storage, p)
      BY <1>4, <3>1 DEF StorageBay
    <3> QED
      BY <2>1, <3>2
  <2> QED
    BY <2>2, <2>3
<1>6. OK(CoolerClearance(cooler, p))
  <2>1. OK(CoolerClearance(cooler, q))
    BY DEF RulesFine
  <2>2. CASE cooler.type = "air"
    <3>1. q.coolerHeight # Missing
      BY <2>1, <2>2 DEF CoolerClearance, Fit, Verdict, Known, OK
    <3>2. f # "coolerHeight"
      BY <3>1 DEF Loses, Absent
    <3>3. q.coolerHeight = p.coolerHeight
      BY <1>1, <3>2
    <3> QED
      BY <2>1, <2>2, <3>3 DEF CoolerClearance
  <2>3. CASE cooler.type # "air"
    <3>1. cooler.type \in {"aio", "liquid"} /\ OK(RadiatorRule(cooler, q))
      BY <2>1, <2>3 DEF CoolerClearance, OK
    <3>2. RadiatorSize(cooler, q) # "UNKNOWN"
      BY <3>1 DEF RadiatorRule, OK
    <3>3. RadiatorSizes(q) = RadiatorSizes(p)
      <4>1. CASE f # "radiators"
        <5>1. q.radiators = p.radiators
          BY <1>1, <4>1
        <5> QED
          BY <1>4, <5>1 DEF RadiatorSizes
      <4>2. CASE f = "radiators"
        <5>1. q.radiators = {} /\ ~Known(q.maxRadiator)
          BY <1>4, <4>2 DEF Loses, Absent
        <5>2. Listed(RadiatorSizes(q))
          BY <3>2, <5>1 DEF RadiatorSize, Verdict
        <5>3. Known(q.radiatorsAt)
          BY <5>1, <5>2 DEF RadiatorSizes, Listed
        <5> QED
          BY <1>4, <5>3 DEF RadiatorSizes
      <4> QED
        BY <4>1, <4>2
    <3>4. RadiatorSize(cooler, q) = RadiatorSize(cooler, p)
      BY <1>4, <3>3 DEF RadiatorSize
    <3>5. PositionRule(cooler, q) = PositionRule(cooler, p)
      BY <1>4 DEF PositionRule
    <3>6. ThicknessLimit(cooler, q) = ThicknessLimit(cooler, p)
      BY <1>4 DEF ThicknessLimit
    <3>7. ThicknessRule(cooler, q) = ThicknessRule(cooler, p)
      BY <1>4, <3>6 DEF ThicknessRule
    <3>8. RadiatorRule(cooler, q) = RadiatorRule(cooler, p)
      BY <3>4, <3>5, <3>7 DEF RadiatorRule
    <3> QED
      BY <2>3, <3>1, <3>8 DEF CoolerClearance
  <2> QED
    BY <2>2, <2>3
<1> QED
  BY <1>4, <1>5, <1>6 DEF RulesFine

\* What the rules on the whole build read of its parts.
LEMMA ConflictsRead ==
    ASSUME NEW b, NEW b2, DOMAIN b2 = DOMAIN b, DOMAIN b = Categories,
           b2["motherboard"].conflicts = b["motherboard"].conflicts,
           b2["storage"].interface = b["storage"].interface,
           b2["cooler"].type = b["cooler"].type
    PROVE  ConflictVerdicts(b2) = ConflictVerdicts(b)
<1>1. StorageResources(b2["storage"]) = StorageResources(b["storage"])
  BY DEF StorageResources
<1>2. ActiveResources(b2) = ActiveResources(b)
  BY <1>1 DEF ActiveResources
<1> QED
  BY <1>2 DEF ConflictVerdicts

LEMMA RadiatorsRead ==
    ASSUME NEW b, NEW b2, DOMAIN b2 = DOMAIN b, DOMAIN b = Categories,
           b2["case"].bays = b["case"].bays, b2["case"].bayLoss = b["case"].bayLoss,
           b2["storage"].interface = b["storage"].interface,
           b2["storage"].form = b["storage"].form,
           b2["cooler"].type = b["cooler"].type,
           b2["cooler"].type = "aio" => /\ b2["cooler"].radiator = b["cooler"].radiator
                                        /\ b2["cooler"].position = b["cooler"].position
    PROVE  RadiatorVerdicts(b2) = RadiatorVerdicts(b)
<1>1. StorageForm(b2["storage"]) = StorageForm(b["storage"])
  BY DEF StorageForm
<1>2. CASE b2["cooler"].type # "aio"
  BY <1>2 DEF RadiatorVerdicts
<1>3. CASE b2["cooler"].type = "aio"
  <2>1. BaysLost(b2["cooler"], b2["case"]) = BaysLost(b["cooler"], b["case"])
    BY <1>3 DEF BaysLost
  <2>2. RadiatorBays(b2["cooler"], b2["case"], b2["storage"])
          = RadiatorBays(b["cooler"], b["case"], b["storage"])
    BY <1>1, <1>3, <2>1 DEF RadiatorBays
  <2> QED
    BY <1>3, <2>2 DEF RadiatorVerdicts
<1> QED
  BY <1>2, <1>3

\* The exceptions of EvidenceOnlyHurts, of any build.
Answered(b, c, f) ==
    \/ c = "motherboard" /\ f = "generations"
          /\ Consulted(b["cpu"], b[c]) # {"generations"}
    \/ c = "case" /\ f = "radiators" /\ Known(b[c].maxRadiator)
    \/ c = "storage" /\ f = "form" /\ b[c].interface \in {"m2_nvme", "m2_sata"}
    \/ c = "power_supply" /\ f = "pcie" /\ b[c].pcie = Garbled

\* No part's loss makes a build fine that was not.
LEMMA LossKeepsRefusal ==
    ASSUME NEW b, Shaped(b), NEW b2, Shaped(b2), NEW c \in Categories, NEW f \in Critical(c),
           Loses(c, b[c], f, b2[c]), \A d \in Categories \ {c} : b2[d] = b[d],
           ~Answered(b, c, f), <<c, f>> # <<"gpu", "connectors">>, BuildFine(b2)
    PROVE  BuildFine(b)
<1>1. RulesFine(b2["cpu"], b2["gpu"], b2["motherboard"], b2["memory"], b2["storage"],
                b2["power_supply"], b2["cooler"], b2["case"])
  BY DEF BuildFine
<1>2. DOMAIN b = Categories /\ DOMAIN b2 = Categories
  BY DEF Shaped
<1>3. ASSUME ConflictVerdicts(b2) = ConflictVerdicts(b),
             RadiatorVerdicts(b2) = RadiatorVerdicts(b),
             RulesFine(b["cpu"], b["gpu"], b["motherboard"], b["memory"], b["storage"],
                       b["power_supply"], b["cooler"], b["case"])
      PROVE  BuildFine(b)
  BY <1>3 DEF BuildFine
<1>4. CASE c = "cpu"
  <2>1. f \in Critical("cpu") /\ Loses("cpu", b["cpu"], f, b2["cpu"])
    BY <1>4
  <2> QED
    BY <1>1, <2>1, CpuLoss
<1>5. CASE c = "gpu"
  <2>1. f \in Critical("gpu") \ {"connectors"} /\ Loses("gpu", b["gpu"], f, b2["gpu"])
    BY <1>5
  <2> QED
    BY <1>1, <2>1, GpuLoss
<1>6. CASE c = "memory"
  <2>1. f \in Critical("memory") /\ Loses("memory", b["memory"], f, b2["memory"])
    BY <1>6
  <2> QED
    BY <1>1, <2>1, MemoryLoss
<1>7. CASE c = "storage"
  <2>1. /\ f \in Critical("storage") /\ Loses("storage", b["storage"], f, b2["storage"])
        /\ f = "form" => b["storage"].interface \notin {"m2_nvme", "m2_sata"}
    BY <1>7 DEF Answered
  <2> QED
    BY <1>1, <2>1, StorageLoss
<1>8. CASE c = "motherboard"
  <2>1. /\ f \in Critical("motherboard")
        /\ Loses("motherboard", b["motherboard"], f, b2["motherboard"])
        /\ f = "generations" => Consulted(b["cpu"], b["motherboard"]) = {"generations"}
    BY <1>8 DEF Answered
  <2>2. /\ b2["cpu"] = b["cpu"] /\ b2["gpu"] = b["gpu"] /\ b2["memory"] = b["memory"]
        /\ b2["storage"] = b["storage"] /\ b2["power_supply"] = b["power_supply"]
        /\ b2["cooler"] = b["cooler"] /\ b2["case"] = b["case"]
    BY <1>8 DEF Categories
  <2>3. RulesFine(b["cpu"], b["gpu"], b["motherboard"], b["memory"], b["storage"],
                  b["power_supply"], b["cooler"], b["case"])
    BY <1>1, <2>1, <2>2, BoardLoss
  <2>4. b2["motherboard"].conflicts = b["motherboard"].conflicts
    BY <2>1 DEF Loses, Fields, Critical
  <2>5. ConflictVerdicts(b2) = ConflictVerdicts(b)
    BY <1>2, <2>2, <2>4, ConflictsRead
  <2>6. RadiatorVerdicts(b2) = RadiatorVerdicts(b)
    BY <1>2, <2>2, RadiatorsRead
  <2> QED
    BY <1>3, <2>3, <2>5, <2>6
<1>9. CASE c = "power_supply"
  <2>1. /\ f \in Critical("power_supply")
        /\ Loses("power_supply", b["power_supply"], f, b2["power_supply"])
        /\ f = "pcie" => b["power_supply"].pcie # Garbled
    BY <1>9 DEF Answered
  <2>2. /\ b2["cpu"] = b["cpu"] /\ b2["gpu"] = b["gpu"] /\ b2["memory"] = b["memory"]
        /\ b2["storage"] = b["storage"] /\ b2["motherboard"] = b["motherboard"]
        /\ b2["cooler"] = b["cooler"] /\ b2["case"] = b["case"]
    BY <1>9 DEF Categories
  <2>3. b["gpu"].connectors \in [Connectors -> Nat] \cup {Missing, Garbled}
    BY DEF Shaped, Described, Categories
  <2>4. RulesFine(b["cpu"], b["gpu"], b["motherboard"], b["memory"], b["storage"],
                  b["power_supply"], b["cooler"], b["case"])
    BY <1>1, <2>1, <2>2, <2>3, SupplyLoss
  <2>5. ConflictVerdicts(b2) = ConflictVerdicts(b)
    BY <1>2, <2>2, ConflictsRead
  <2>6. RadiatorVerdicts(b2) = RadiatorVerdicts(b)
    BY <1>2, <2>2, RadiatorsRead
  <2> QED
    BY <1>3, <2>4, <2>5, <2>6
<1>10. CASE c = "cooler"
  <2>1. f \in Critical("cooler") /\ Loses("cooler", b["cooler"], f, b2["cooler"])
    BY <1>10
  <2>2. /\ b2["cpu"] = b["cpu"] /\ b2["gpu"] = b["gpu"] /\ b2["memory"] = b["memory"]
        /\ b2["storage"] = b["storage"] /\ b2["motherboard"] = b["motherboard"]
        /\ b2["power_supply"] = b["power_supply"] /\ b2["case"] = b["case"]
    BY <1>10 DEF Categories
  <2>3. /\ RulesFine(b["cpu"], b["gpu"], b["motherboard"], b["memory"], b["storage"],
                     b["power_supply"], b["cooler"], b["case"])
        /\ b2["cooler"].type = b["cooler"].type /\ b2["cooler"].position = b["cooler"].position
        /\ b["cooler"].type = "aio" => b2["cooler"].radiator = b["cooler"].radiator
    BY <1>1, <2>1, <2>2, CoolerLoss
  <2>4. ConflictVerdicts(b2) = ConflictVerdicts(b)
    BY <1>2, <2>2, <2>3, ConflictsRead
  <2>5. RadiatorVerdicts(b2) = RadiatorVerdicts(b)
    BY <1>2, <2>2, <2>3, RadiatorsRead
  <2> QED
    BY <1>3, <2>3, <2>4, <2>5
<1>11. CASE c = "case"
  <2>1. /\ f \in Critical("case") /\ Loses("case", b["case"], f, b2["case"])
        /\ f = "radiators" => ~Known(b["case"].maxRadiator)
    BY <1>11 DEF Answered
  <2>2. /\ b2["cpu"] = b["cpu"] /\ b2["gpu"] = b["gpu"] /\ b2["memory"] = b["memory"]
        /\ b2["storage"] = b["storage"] /\ b2["motherboard"] = b["motherboard"]
        /\ b2["power_supply"] = b["power_supply"] /\ b2["cooler"] = b["cooler"]
    BY <1>11 DEF Categories
  <2>3. RulesFine(b["cpu"], b["gpu"], b["motherboard"], b["memory"], b["storage"],
                  b["power_supply"], b["cooler"], b["case"])
    BY <1>1, <2>1, <2>2, CaseLoss
  <2>4. b2["case"].bays = b["case"].bays /\ b2["case"].bayLoss = b["case"].bayLoss
    BY <2>1 DEF Loses, Fields, Critical
  <2>5. ConflictVerdicts(b2) = ConflictVerdicts(b)
    BY <1>2, <2>2, ConflictsRead
  <2>6. RadiatorVerdicts(b2) = RadiatorVerdicts(b)
    BY <1>2, <2>2, <2>4, RadiatorsRead
  <2> QED
    BY <1>3, <2>3, <2>5, <2>6
<1> QED
  BY <1>4, <1>5, <1>6, <1>7, <1>8, <1>9, <1>10, <1>11 DEF Categories

-----------------------------------------------------------------------------
(* What holds of every snapshot *)

\* A part is sold or not, authoritative or not, without being another part.
LEMMA StandingChanged ==
    ASSUME NEW b, Shaped(b), NEW c \in Categories, NEW g \in {"status", "authority"}, NEW v,
           NEW b2, b2 = [b EXCEPT ![c][g] = v]
    PROVE  Shaped(b2)
<1>1. PICK p : p = b[c] /\ Described(c, p)
  BY DEF Shaped
<1>2. DOMAIN b2 = Categories /\ (\A d \in Categories \ {c} : b2[d] = b[d])
      /\ b2[c] = [p EXCEPT ![g] = v]
  BY <1>1 DEF Shaped
<1>3. PICK q : q = b2[c]
  OBVIOUS
<1>4. DOMAIN q = Fields(c) /\ \A h \in Fields(c) \ {g} : q[h] = p[h]
  BY <1>1, <1>2, <1>3 DEF Described
<1>5. q.category = c
  <2>1. "category" \in Fields(c) \ {g}
    BY DEF Fields
  <2> QED
    BY <1>1, <1>4, <2>1 DEF Described
<1>6. \A h \in {"power", "vram", "capacity", "wattage"} \cap Fields(c) : q[h] \in Amount
  <2>1. \A h \in {"power", "vram", "capacity", "wattage"} : h # g
    OBVIOUS
  <2> QED
    BY <1>1, <1>4, <2>1 DEF Described
<1>7. c = "gpu" => q.connectors \in [Connectors -> Nat] \cup {Missing, Garbled}
  <2>1. c = "gpu" => "connectors" \in Fields(c) \ {g}
    BY DEF Fields
  <2> QED
    BY <1>1, <1>4, <2>1 DEF Described
<1>8. Described(c, q)
  BY <1>4, <1>5, <1>6, <1>7 DEF Described
<1>9. ASSUME NEW d \in Categories PROVE Described(d, b2[d])
  <2>1. CASE d = c
    BY <1>3, <1>8, <2>1
  <2>2. CASE d # c
    BY <1>2, <2>2 DEF Shaped
  <2> QED
    BY <2>1, <2>2
<1> QED
  BY <1>2, <1>9 DEF Shaped

(* Every snapshot describes a build, whatever the sources have restated or     *)
(* withdrawn: a part of each category with the fields of its class in          *)
(* domain/components.py, amounts where amounts are added up, and an inventory  *)
(* of connectors that counts.                                                  *)
THEOREM SnapshotsTyped == EvidenceSpec => []EvidenceInv
<1>1. EvidenceInit => EvidenceInv
  BY EvidenceAssumption DEF EvidenceInit, EvidenceInv, Shaped
<1>2. EvidenceInv /\ [EvidenceNext]_evidence => EvidenceInv'
  <2> SUFFICES ASSUME EvidenceInv, [EvidenceNext]_evidence
               PROVE  EvidenceInv'
    OBVIOUS
  <2>1. ASSUME NEW c \in Categories, NEW f \in Critical(c), Withdraw(c, f)
        PROVE  EvidenceInv'
    <3>1. PICK b2 : b2 = build' /\ Without(build, c, f, b2)
      BY <2>1 DEF Withdraw, Without
    <3>2. Shaped(b2)
      BY <3>1, WithdrawnIs DEF EvidenceInv
    <3> QED
      BY <2>1, <3>1, <3>2 DEF EvidenceInv, Withdraw, Shaped
  <2>2. ASSUME NEW c \in Categories, NEW p \in Variants[c], Restate(c, p)
        PROVE  EvidenceInv'
    <3>1. Described(c, p)
      BY EvidenceAssumption
    <3>2. build' = [build EXCEPT ![c] = p]
      BY <2>2 DEF Restate
    <3>3. DOMAIN build' = Categories /\ \A d \in Categories : Described(d, build'[d])
      BY <3>1, <3>2 DEF EvidenceInv, Shaped
    <3> QED
      BY <2>2, <3>3 DEF EvidenceInv, Restate, Shaped
  <2>3. ASSUME NEW c \in Categories, Retire(c)
        PROVE  EvidenceInv'
    <3>1. PICK b2 : b2 = build' /\ b2 = [build EXCEPT ![c]["status"] = "discontinued"]
      BY <2>3 DEF Retire
    <3>2. Shaped(b2)
      BY <3>1, StandingChanged DEF EvidenceInv
    <3> QED
      BY <2>3, <3>1, <3>2 DEF EvidenceInv, Retire, Shaped
  <2>4. ASSUME NEW c \in Categories, Demote(c)
        PROVE  EvidenceInv'
    <3>1. PICK b2 : b2 = build' /\ b2 = [build EXCEPT ![c]["authority"] = "unverified"]
      BY <2>4 DEF Demote
    <3>2. Shaped(b2)
      BY <3>1, StandingChanged DEF EvidenceInv
    <3> QED
      BY <2>4, <3>1, <3>2 DEF EvidenceInv, Demote, Shaped
  <2>5. ASSUME NEW c \in Categories, Keep(c)
        PROVE  EvidenceInv'
    BY <2>5 DEF EvidenceInv, Keep, Shaped
  <2>6. CASE UNCHANGED evidence
    BY <2>6 DEF EvidenceInv, Shaped, evidence
  <2> QED
    BY <2>1, <2>2, <2>3, <2>4, <2>5, <2>6 DEF EvidenceNext
<1> QED
  BY <1>1, <1>2, PTL DEF EvidenceSpec

\* A build is accepted exactly when every rule is met, on it and on each part.
LEMMA AcceptedIs ==
    ASSUME EvidenceInv
    PROVE  Accepted <=> BuildFine(build) /\ PartsFine(build, kept)
BY AcceptIs DEF Accepted, Existing, EvidenceInv

(* PruningSpares for every catalogue: a build that check_build accepts is made *)
(* of pairs that check_pair accepts (pipeline.py:37).  The rules of a pair are *)
(* among the rules of the build, and what check_pair adds, an unverified part, *)
(* check_build refuses too.                                                    *)
THEOREM PruningLosesNothing == EvidenceSpec => []PruningSpares
<1>1. EvidenceInv => PruningSpares
  <2> SUFFICES ASSUME EvidenceInv, Accepted, NEW pair \in PrunedPairs
               PROVE  Feasible(CheckPair(build[pair[1]], build[pair[2]]))
    BY DEF PruningSpares
  <2>1. BuildFine(build) /\ PartsFine(build, kept) /\ Shaped(build)
    BY AcceptedIs DEF EvidenceInv
  <2>2. {pair[1], pair[2]} \subseteq Categories
    BY DEF PrunedPairs, Categories
  <2>3. CheckPair(build[pair[1]], build[pair[2]]) = PairVerdicts(build[pair[1]], build[pair[2]])
    BY <2>1, <2>2 DEF CheckPair, PartsFine
  <2>4. /\ Feasible(PairVerdicts(build["cpu"], build["motherboard"]))
        /\ Feasible(PairVerdicts(build["memory"], build["motherboard"]))
        /\ Feasible(PairVerdicts(build["motherboard"], build["case"]))
        /\ Feasible(PairVerdicts(build["gpu"], build["case"]))
        /\ Feasible(PairVerdicts(build["cooler"], build["case"]))
        /\ Feasible(PairVerdicts(build["cpu"], build["cooler"]))
        /\ Feasible(PairVerdicts(build["gpu"], build["power_supply"]))
        /\ Feasible(PairVerdicts(build["storage"], build["motherboard"]))
    BY <2>1, PairFine DEF BuildFine, RulesFine
  <2>5. Feasible(PairVerdicts(build[pair[1]], build[pair[2]]))
    BY <2>4 DEF PrunedPairs
  <2> QED
    BY <2>3, <2>5
<1> QED
  BY <1>1, SnapshotsTyped, PTL

\* The engine's division rounds up, and the solver's sum is the smaller one.
LEMMA RoundedUp ==
    ASSUME NEW n \in Int, NEW w \in Int, w >= Hundredths(n)
    PROVE  100 * w >= n
BY DEF Hundredths

LEMMA ProductGrows ==
    ASSUME NEW x \in Nat, NEW y \in Nat, NEW u \in Nat, NEW v \in Nat, x <= y, u <= v
    PROVE  x * u <= y * v
<1>1. x * u <= y * u
  BY SMT
<1>2. y * u <= y * v
  BY SMT
<1> QED
  BY <1>1, <1>2

\* The engine's sum and the solver's, of one build.
LEMMA SupplyCarries ==
    ASSUME NEW b, Shaped(b),
           OK(PowerCapacity(b["cpu"], b["gpu"], b["power_supply"]))
    PROVE  PowerAccepted(b)
<1>1. PICK c, g, w : c = b["cpu"].power /\ g = b["gpu"].power /\ w = b["power_supply"].wattage
  OBVIOUS
<1>2. c \in Amount /\ g \in Amount /\ w \in Amount
  BY <1>1 DEF Shaped, Described, Categories, Fields
<1>3. /\ Known(c) /\ Known(g) /\ Known(w) /\ c >= 0 /\ g >= 0 /\ w > 0
      /\ w >= Hundredths((c + g + Accessory) * (100 + HeadroomPercent))
  BY <1>1, Zenon DEF PowerCapacity, Plausible, RequiredWattage, Verdict, OK
<1>4. c \in Nat /\ g \in Nat /\ w \in Nat
  BY <1>2, <1>3 DEF Amount, Known
<1>5. Accessory \in Nat /\ HeadroomPercent \in Nat /\ Allowances \in Nat
      /\ SolverHeadroom \in Nat /\ Allowances <= Accessory /\ SolverHeadroom <= HeadroomPercent
  BY PowerAssumption, SolverAssumption, PolicyAssumption
<1>6. PICK x, y, u, v : /\ x = c + g + Allowances /\ y = c + g + Accessory
                        /\ u = 100 + SolverHeadroom /\ v = 100 + HeadroomPercent
  OBVIOUS
<1>7. x \in Nat /\ y \in Nat /\ u \in Nat /\ v \in Nat /\ x <= y /\ u <= v
  BY <1>4, <1>5, <1>6
<1>8. x * u <= y * v
  BY <1>7, ProductGrows
<1>9. 100 * w >= y * v
  <2>1. y * v \in Int /\ w >= Hundredths(y * v)
    BY <1>3, <1>6, <1>7
  <2> QED
    BY <1>4, <2>1, RoundedUp
<1>10. x * u <= w * 100
  <2>1. PICK m, n : m = x * u /\ n = y * v /\ m \in Int /\ n \in Int
    BY <1>7
  <2> QED
    BY <1>4, <1>8, <1>9, <2>1
<1>11. EstimatedLoad(b) = x
  <2>1. CpuDraw(b["cpu"]) = c
    BY <1>1, <1>3 DEF CpuDraw
  <2> QED
    BY <1>1, <1>6, <2>1 DEF EstimatedLoad
<1> QED
  BY <1>1, <1>6, <1>10, <1>11 DEF PowerAccepted

LEMMA AtLeastIs ==
    ASSUME NEW value \in Amount, NEW limit \in Amount
    PROVE  AtLeast(value, limit) <=> ~(Asks(limit) /\ (~Known(value) \/ value < limit))
BY DEF AtLeast, Asks, Known, Amount

\* The filters of the retrieval and the validation of a solution, of one part.
LEMMA FiltersAgree ==
    ASSUME NEW c \in Categories, NEW p, Described(c, p), NEW r \in Requests
    PROVE  PassesFilters(p, r) <=> MeetsRequest(p, r)
<1>1. p.category = c
  BY DEF Described
<1>2. r.vram \in Amount /\ r.memory \in Amount /\ r.storage \in Amount
  BY EvidenceAssumption
<1>3. CASE c = "gpu"
  <2>1. p.vram \in Amount
    BY <1>3 DEF Described, Fields
  <2>2. AtLeast(p.vram, r.vram) <=> ~(Asks(r.vram) /\ (~Known(p.vram) \/ p.vram < r.vram))
    BY <1>2, <2>1, AtLeastIs
  <2> QED
    BY <1>1, <1>3, <2>2 DEF PassesFilters, MeetsRequest
<1>4. CASE c = "memory"
  <2>1. p.capacity \in Amount
    BY <1>4 DEF Described, Fields
  <2>2. AtLeast(p.capacity, r.memory)
          <=> ~(Asks(r.memory) /\ (~Known(p.capacity) \/ p.capacity < r.memory))
    BY <1>2, <2>1, AtLeastIs
  <2> QED
    BY <1>1, <1>4, <2>2 DEF PassesFilters, MeetsRequest, Exactly
<1>5. CASE c = "storage"
  <2>1. p.capacity \in Amount
    BY <1>5 DEF Described, Fields
  <2>2. AtLeast(p.capacity, r.storage)
          <=> ~(Asks(r.storage) /\ (~Known(p.capacity) \/ p.capacity < r.storage))
    BY <1>2, <2>1, AtLeastIs
  <2> QED
    BY <1>1, <1>5, <2>2 DEF PassesFilters, MeetsRequest
<1>6. CASE c = "motherboard"
  BY <1>1, <1>6 DEF PassesFilters, MeetsRequest, Exactly
<1>7. CASE c = "case"
  BY <1>1, <1>7 DEF PassesFilters, MeetsRequest, Exactly
<1>8. CASE c \in {"cpu", "power_supply", "cooler"}
  BY <1>1, <1>8 DEF PassesFilters, MeetsRequest
<1> QED
  BY <1>3, <1>4, <1>5, <1>6, <1>7, <1>8 DEF Categories

(* StatedTwiceAgrees for every catalogue and request: a part passes the        *)
(* retrieval filters exactly when it meets the request for validation.py, and  *)
(* the solver's power constraint takes every supply the engine finds           *)
(* sufficient, whatever the watts, as long as its allowances and its headroom  *)
(* do not exceed the engine's (PolicyAssumption).                              *)
THEOREM StatedTwiceMeansOnce == EvidenceSpec => []StatedTwiceAgrees
<1>1. EvidenceInv => StatedTwiceAgrees
  <2> SUFFICES ASSUME EvidenceInv PROVE StatedTwiceAgrees
    OBVIOUS
  <2>1. ASSUME NEW c \in Categories
        PROVE  PassesFilters(build[c], request) <=> MeetsRequest(build[c], request)
    <3>1. Described(c, build[c]) /\ request \in Requests
      BY DEF EvidenceInv, Shaped
    <3> QED
      BY <3>1, FiltersAgree
  <2>2. ASSUME Accepted PROVE PowerAccepted(build)
    <3>1. OK(PowerCapacity(build["cpu"], build["gpu"], build["power_supply"]))
      BY <2>2, AcceptedIs DEF BuildFine, RulesFine
    <3> QED
      BY <3>1, SupplyCarries DEF EvidenceInv
  <2> QED
    BY <2>1, <2>2 DEF StatedTwiceAgrees
<1> QED
  BY <1>1, SnapshotsTyped, PTL

(* EvidenceOnlyHurts for every catalogue: taking a critical field away from a  *)
(* part of a refused build leaves the build refused, rule by rule of           *)
(* engine.py, the rules on the whole build included, but for the exceptions    *)
(* that the property names.                                                    *)
THEOREM LossNeverHelps == EvidenceSpec => EvidenceOnlyHurts
<1> DEFINE Hurts == \A c \in Categories : \A f \in Critical(c) :
                      /\ Withdraw(c, f)
                      /\ ~AnsweredElsewhere(c, f) /\ <<c, f>> # <<"gpu", "connectors">>
                      /\ ~Accepted
                      => ~Accepted'
<1>1. EvidenceInv /\ [EvidenceNext]_evidence => [Hurts]_evidence
  <2> SUFFICES ASSUME EvidenceInv, NEW c \in Categories, NEW f \in Critical(c),
                      Withdraw(c, f), ~AnsweredElsewhere(c, f),
                      <<c, f>> # <<"gpu", "connectors">>, Accepted'
               PROVE  Accepted
    OBVIOUS
  <2>1. PICK b2 : b2 = build' /\ Without(build, c, f, b2)
    BY DEF Withdraw, Without
  <2>2. Shaped(build) /\ kept \in SUBSET Categories /\ kept' = kept
    BY DEF EvidenceInv, Withdraw
  <2>3. /\ Shaped(b2) /\ Loses(c, build[c], f, b2[c])
        /\ \A d \in Categories \ {c} : b2[d] = build[d]
    BY <2>1, <2>2, WithdrawnIs
  <2>4. Feasible(CheckBuild(b2, {b2[d] : d \in kept}))
    BY <2>1, <2>2 DEF Accepted, Existing
  <2>5. BuildFine(b2) /\ PartsFine(b2, kept)
    BY <2>2, <2>3, <2>4, AcceptIs
  <2>6. ~Answered(build, c, f)
    BY DEF Answered, AnsweredElsewhere
  <2>7. BuildFine(build)
    BY <2>2, <2>3, <2>5, <2>6, LossKeepsRefusal
  <2>8. PartsFine(build, kept)
    <3>1. ASSUME NEW d \in Categories
          PROVE  b2[d].status = build[d].status /\ b2[d].authority = build[d].authority
      <4>1. CASE d = c
        <5>1. {"status", "authority"} \subseteq Fields(c) \ {f}
          BY CriticalFields DEF Fields
        <5> QED
          BY <2>3, <4>1, <5>1 DEF Loses
      <4>2. CASE d # c
        BY <2>3, <4>2
      <4> QED
        BY <4>1, <4>2
    <3> QED
      BY <2>5, <3>1 DEF PartsFine, Unverified, Lifecycle
  <2> QED
    BY <2>7, <2>8, AcceptedIs
<1>2. EvidenceSpec => [][Hurts]_evidence
  BY <1>1, SnapshotsTyped, PTL DEF EvidenceSpec
<1> QED
  BY <1>2 DEF EvidenceOnlyHurts
=============================================================================
