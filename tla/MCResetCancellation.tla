------------------------ MODULE MCResetCancellation ------------------------
(* A small instance of ResetCancellation for TLC: a reset that is repeated *)
(* in another process, with the agent in the first one.                    *)
EXTENDS ResetCancellation, TLC

CONSTANTS c1, c2, p1, p2, k1

TwoCallers == {c1, c2}
OneKey == {k1}
TwoProcesses == {p1, p2}
Apart == (c1 :> p1) @@ (c2 :> p2)
=============================================================================
