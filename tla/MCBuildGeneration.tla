-------------------------- MODULE MCBuildGeneration --------------------------
(* Three categories, seven products, two releases of the catalogue.           *)
EXTENDS BuildGeneration, TLC

CONSTANTS c1, c2, c3, b1, b2, p1, p2

MCCategoryOf == [p \in Products |-> CASE p \in {c1, c2, c3} -> "cpu" [] p \in {b1, b2} -> "board"
                                       [] p \in {p1, p2} -> "psu"]

MCPairList == <<<<"cpu", "board">>, <<"board", "psu">>>>

MCScore == [profile \in Profiles |->
    IF profile = "performance" THEN c1 :> 1 @@ c2 :> 3 @@ c3 :> 5 @@ b1 :> 1 @@ b2 :> 2 @@ p1 :> 0 @@ p2 :> 1
    ELSE c1 :> 4 @@ c2 :> 3 @@ c3 :> 1 @@ b1 :> 2 @@ b2 :> 1 @@ p1 :> 1 @@ p2 :> 0]

\* The best board for performance warns beside the best CPU.
MCCaution == [p \in Products |-> [q \in Products |-> IF p = c3 /\ q = b2 THEN 2 ELSE 0]]

Build(c, b, p) == [k \in Categories |-> CASE k = "cpu" -> c [] k = "board" -> b [] k = "psu" -> p]

\* The second release takes c2 off the shelves, unlists p2 and raises a price.
MCCatalogues == <<
    [known |-> Products, active |-> Products, listed |-> Products,
     price |-> c1 :> 1 @@ c2 :> 2 @@ c3 :> 3 @@ b1 :> 1 @@ b2 :> 2 @@ p1 :> 1 @@ p2 :> 2,
     clash |-> {{c1, b2}}, refused |-> {Build(c3, b1, p2), Build(c3, b2, p1)}, weak |-> {Build(c2, b2, p1)}],
    [known |-> Products, active |-> Products \ {c2}, listed |-> Products \ {p2},
     price |-> c1 :> 1 @@ c2 :> 2 @@ c3 :> 3 @@ b1 :> 3 @@ b2 :> 2 @@ p1 :> 1 @@ p2 :> 2,
     clash |-> {{c1, b2}, {b1, p1}}, refused |-> {}, weak |-> {Build(c3, b1, p2)}]>>

Both == <<"performance", "value">>

MCRequests ==
    {[existing |-> {}, included |-> {}, budget |-> 6, barred |-> {}, profiles |-> Both],
     [existing |-> {p2}, included |-> {}, budget |-> 4, barred |-> {c1}, profiles |-> Both],
     [existing |-> {c3}, included |-> {c3}, budget |-> 6, barred |-> {}, profiles |-> Both],
     [existing |-> {c1}, included |-> {}, budget |-> 2, barred |-> {b1}, profiles |-> Both]}
==============================================================================
