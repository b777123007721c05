SPECIFICATION Spec
CONSTANTS
  m1 = m1  m2 = m2  w1 = w1
  e1 = e1  e2 = e2  b1 = b1  b2 = b2
  k1 = k1  k2 = k2
  Maintainer = {m1, m2}
  Confirmer = {w1}
  Entry = {e1, e2}
  Probe = {b1, b2}
  Key = {k1, k2}
  KeyOf <- MCKeyOf
  AdmittedSets <- MCAdmittedSets
  MaxCrash = 1
  NoProcess = NoProcess
PROPERTY ConfirmKeepsRecords
