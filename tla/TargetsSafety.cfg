SPECIFICATION Spec
CONSTANTS
  a = a
  b = b
  Null = Null
  Symbols = {a, b}
  RowChanges <- Rows
  HistoryFloor = 452
  LatestQuarters = {454, 455}
  MaxRows = 3
INVARIANTS TypeOK RowsCovered NoMoreThanAsked MergeCovers NothingDropped
