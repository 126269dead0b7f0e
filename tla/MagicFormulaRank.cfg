SPECIFICATION Spec
CONSTANTS
  processor = processor
  backfill = backfill
  Null = Null
  NoRow = NoRow
  Symbols <- Market
  Financial <- Banks
  Quarters <- TwoQuarters
  Values <- TwoValues
  Processors <- OneProcessor
  Scripts <- OneScript
  MaxNotices = 1
  MaxChanges = 1
  MaxStops = 1
CHECK_DEADLOCK FALSE
INVARIANTS TypeOK RanksCurrent TraceAddsUp
