----------------------------- MODULE VisibleRuns -----------------------------
(***************************************************************************)
(* What a reader of data/processed may rely on: a run directory is there   *)
(* with all its files or not at all, at most one publication of a run is   *)
(* visible at a time, none is ever replaced, and one disappears only after *)
(* its retention has expired.                                              *)
(***************************************************************************)
CONSTANTS
    Ops,           \* publications
    Runs, RunOf,   \* the run each of them publishes
    Files          \* the files of a run

VARIABLES
    content,       \* the files of each publication that a reader sees
    expired        \* the publications whose retention has expired

vars == <<content, expired>>

Init ==
    /\ content = [o \in Ops |-> {}]
    /\ expired = {}

Show(o) ==
    /\ \A p \in Ops : RunOf[p] = RunOf[o] => content[p] = {}
    /\ content' = [content EXCEPT ![o] = Files]
    /\ UNCHANGED expired

Withdraw(o) ==
    /\ o \in expired
    /\ content' = [content EXCEPT ![o] = {}]
    /\ UNCHANGED expired

Expire(o) ==
    /\ expired' = expired \cup {o}
    /\ UNCHANGED content

Next == \E o \in Ops : Show(o) \/ Withdraw(o) \/ Expire(o)

Spec == Init /\ [][Next]_vars
=============================================================================
