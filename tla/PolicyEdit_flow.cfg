SPECIFICATION Spec
CONSTANTS
  Surface = {s1}
  Id = {i1, i2}
  Value = {v1}
  None = None
  Maintainer = Maintainer
  FlowEntries = TRUE
  Commented = {}
  MaxSaves = 1
  MaxSections = 3
PROPERTY OnlyUnwithholdClears
