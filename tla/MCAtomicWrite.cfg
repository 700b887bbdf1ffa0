SPECIFICATION Spec
CONSTANTS
  w1 = w1
  w2 = w2
  p1 = p1
  p2 = p2
  Writers = {w1, w2}
  Payloads = {p1, p2}
SYMMETRY Sym
INVARIANTS
  ModeIsExact
PROPERTIES
  ChangesAreWhole
