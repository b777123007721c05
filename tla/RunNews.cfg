SPECIFICATION Spec
CONSTANTS
  o1 = o1
  o2 = o2
  i1 = i1
  i2 = i2
  i3 = i3
  Inode <- TheInodes
  tick = tick
  byhand = byhand
  None = None
  Fetchers <- TheFetchers
  Answers <- TheAnswers
  Offerings = {o1, o2}
  Minimum = 1
  MaxFetches = 2
  MaxEdits = 1
INVARIANTS TypeOK TornOnlyByOverlap
PROPERTY RecordedIsTold
SYMMETRY TheSymmetry
