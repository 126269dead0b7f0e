SPECIFICATION MarketSpec
CONSTANTS
  Null = Null
  NaN = NaN
  Quarters <- CompanyQuarters
  Tables <- CompanyTables
  Contents <- CompanyContents
  ShareRows <- CompanyShares
  Valuations <- CompanyValuations
  ShareEvents <- CompanyEvents
  PriceLevel <- CompanyPriceLevel
  Asked <- MarketAsked
  Situations <- MarketSituations
  Revisions <- MarketRevisions
  Announcements <- CompanyAnnouncements
  Repricings <- CompanyRepricings
  MaxSteps = 1
  DividendRows <- CompanyDividends
  DIVIDEND_EVENTS_WINDOW_START_FLOOR <- CompanyFloor
  MonthlyRevenue <- CompanyMonths
  IndexCloses <- CompanyIndex
  Today = 4290
  BETA_MIN_OBSERVATIONS = 4
CHECK_DEADLOCK FALSE
INVARIANTS ValueXorReason ProvenanceAgrees
PROPERTIES NoLookAhead RoutedForward ProvenanceExplains
