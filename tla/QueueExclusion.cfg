SPECIFICATION Spec
CONSTANTS
  mops = mops
  twse = twse
  p1 = p1
  p2 = p2
  p3 = p3
  p4 = p4
  r1 = r1
  r2 = r2
  NoHolder = NoHolder
  Sources <- TwoSources
  Procs <- FourProcs
  Requests <- OneRequest
  MaxId = 1
  LeaseTTL = 1
  MaxBusy = 1
  Faults = {"batch"}
SYMMETRY Symmetry
INVARIANTS MutualExclusion NoStrandedNotice
