-------------------------- MODULE MCEvidenceFiles --------------------------
(* A small instance of EvidenceFiles for TLC. *)
EXTENDS EvidenceFiles, TLC

CONSTANTS c1, c2, x1, s1, s2, u1, u2, d1, d2, d3

TwoCases == {c1, c2}
OneDigest == {x1}
TwoSlots == {s1, s2}
TwoCallers == {u1, u2}
ThreeDirs == {d1, d2, d3}

Symmetry == Permutations(TwoSlots) \cup Permutations(TwoCallers) \cup Permutations(ThreeDirs)
=============================================================================
