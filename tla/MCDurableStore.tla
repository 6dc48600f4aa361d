--------------------------- MODULE MCDurableStore ---------------------------
(* Two workers, one result shown to ana, and the retries that can meet:     *)
(* the same key with the same and with another body, another key on the     *)
(* same impression, unsigned events with, without and beyond their key.     *)
EXTENDS DurableStore, TLC

CONSTANTS ana, impression, built, gone, share, w1, w2

Signed1(key, body) ==
    [session |-> ana, key |-> key, impression |-> impression, kind |-> "build_saved",
     subject |-> None, body |-> body]
Unsigned(key, subject) ==
    [session |-> ana, key |-> key, impression |-> None, kind |-> "feedback_submitted",
     subject |-> subject, body |-> "plain"]

TheRequests ==
    {Signed1("k1", "plain"), Signed1("k1", "noted"), Signed1("k2", "plain"),
     Unsigned("k1", None), Unsigned(None, gone)}
TheDisplays == {[actor |-> ana, subject |-> built, display |-> "build_result"]}
Threads == Permutations(Workers)
=============================================================================
