CONSTANTS
  c1 = c1
  c2 = c2
  x1 = x1
  s1 = s1
  s2 = s2
  u1 = u1
  u2 = u2
  d1 = d1
  d2 = d2
  d3 = d3
  None = None
  Cases <- TwoCases
  Digests <- OneDigest
  Slots <- TwoSlots
  Callers <- TwoCallers
  Dirs <- ThreeDirs
SPECIFICATION Spec
SYMMETRY Symmetry
INVARIANTS
  EvidenceTypeOK
  EvidenceIsKept
  EvidenceIsAccounted
