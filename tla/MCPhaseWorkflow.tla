-------------------------- MODULE MCPhaseWorkflow --------------------------
(* Small instances of PhaseWorkflow for TLC. *)
EXTENDS PhaseWorkflow, TLC

CONSTANTS c1, c2, a1, a2, a3, b1, b2

TwoCases == {c1, c2}
(* Each Case has its own pool of attempt identities. *)
Owner0 == [a \in {a1, a2} |-> c1]
Owner1 == [a \in {a1, a2, a3} |-> c1]
Owner2 == [a \in {a1, a2, b1, b2} |-> IF a \in {a1, a2} THEN c1 ELSE c2]
Pool0 == DOMAIN Owner0
Pool1 == DOMAIN Owner1
Pool2 == DOMAIN Owner2

(* One live process, whose starts succeed and whose Cases nobody resets:   *)
(* what is left is how the runs of two Cases meet a live recovery pass.   *)
LiveStep ==
    /\ Next
    /\ up'
    /\ \A c \in Cases : status'[c] # "reset_archived"
    /\ \A a \in Attempts : worker'[a] # "failed"
LiveSpec == Init /\ [][LiveStep]_vars

Symmetry1 == Permutations({a1, a2, a3})
Symmetry2 == Permutations({a1, a2}) \cup Permutations({b1, b2})
=============================================================================
