------------------------ MODULE MCOptimizerAdmission ------------------------
(* An instance of OptimizerAdmission: five callers of the two routes for two *)
(* slots and two places in the queue.                                        *)
EXTENDS OptimizerAdmission, TLC

CONSTANTS c1, c2, c3, c4, c5

MCOperationOf == (c1 :> "generate") @@ (c2 :> "replace") @@ (c3 :> "generate")
                 @@ (c4 :> "replace") @@ (c5 :> "generate")
=============================================================================
