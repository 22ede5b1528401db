SPECIFICATION Spec
CONSTANTS
  NoOne = NoOne
  p = p
  c = c
  q = q
  r1 = r1
  r2 = r2
  Facts = {p, c, q}
  Rules = {r1, r2}
  Entails <- SmallEntails
  Families <- SmallFamilies
  Callers = {c1, c2}
  Workers = {w1, w2}
  MaxGeneration = 2
  MaxRequests = 3
SYMMETRY Symmetry
INVARIANTS
  TypeOK
  HeirIsNamed
  OutputIsConcluded
  RunConverges
PROPERTIES
  RetractionStands
CHECK_DEADLOCK FALSE
