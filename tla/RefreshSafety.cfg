SPECIFICATION Spec
CONSTANTS
  s1 = s1
  s2 = s2
  s3 = s3
  w1 = w1
  w2 = w2
  w3 = w3
  Null = Null
  Error = Error
  Symbols <- ThreeSymbols
  Workers <- ThreeWorkers
  Concurrency = 2
  ClearEvery = 2
  Quarters = 2
  Daily <- TwoDaily
  MaxVersion = 1
  MaxRanges = 2
  Flaky <- OneFlaky
  Faults = {"throw", "crash"}
SYMMETRY Symmetry
INVARIANTS TypeOK DrainedIsCurrent DailyReadsFresh MemoBounded
