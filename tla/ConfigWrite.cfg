SPECIFICATION Spec
CONSTANTS
  w1 = w1  w2 = w2
  full = full  less = less  few = few  empty = empty  broken = broken
  Writer = {w1, w2}
  Plans <- MCPlans
  Size <- MCSize
  Sound <- MCSound
  Share = 25
  Keep = 2
  MaxClock = 4
  None = None
  Torn = Torn
SYMMETRY Symmetry
CHECK_DEADLOCK FALSE
INVARIANT TypeOK
INVARIANT OnlyVetted
INVARIANT UndoesLastWrite
