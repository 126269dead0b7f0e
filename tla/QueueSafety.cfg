SPECIFICATION Spec
CONSTANTS
  mops = mops
  twse = twse
  p1 = p1
  p2 = p2
  p3 = p3
  p4 = p4
  r1 = r1
  r2 = r2
  NoHolder = NoHolder
  Sources <- OneSource
  Procs <- TwoProcs
  Requests <- TwoRequests
  MaxId = 2
  LeaseTTL = 1
  MaxBusy = 2
  Faults = {"crash", "db", "trigger", "batch"}
SYMMETRY Symmetry
INVARIANTS TypeOK DoneCovered
PROPERTY RefinesLog
