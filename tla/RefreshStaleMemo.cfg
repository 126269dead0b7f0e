SPECIFICATION Spec
CONSTANTS
  s1 = s1
  s2 = s2
  s3 = s3
  w1 = w1
  w2 = w2
  w3 = w3
  Null = Null
  Error = Error
  Symbols <- TwoSymbols
  Workers <- ThreeWorkers
  Concurrency = 2
  ClearEvery = 2
  Quarters = 1
  Daily <- OneDaily
  MaxVersion = 1
  MaxRanges = 2
  Flaky = {}
  Faults = {}
INVARIANT NeverSilentlyStale
