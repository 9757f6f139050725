SPECIFICATION Spec
CONSTANTS
  p1 = p1
  p2 = p2
  p3 = p3
  Pages <- MCPages
  Tempo <- MCTempo
INVARIANTS
  NeverEarly
PROPERTIES
  StopResets
  RunsOut
