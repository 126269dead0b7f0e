SPECIFICATION StatementSpec
CONSTANTS
  Null = Null
  NaN = NaN
  Quarters <- CompanyQuarters
  Tables <- CompanyTables
  Contents <- CompanyContents
  ShareRows <- CompanyShares
  Valuations <- CompanyValuations
  ShareEvents <- CompanyEvents
  PriceLevel <- CompanyPriceLevel
  Asked <- CompanyAsked
  Situations <- CompanySituations
  Revisions <- CompanyRevisions
  Announcements <- CompanyAnnouncements
  Repricings <- CompanyRepricings
  MaxSteps = 1
CHECK_DEADLOCK FALSE
INVARIANTS ValueXorReason ProvenanceAgrees
PROPERTIES NoLookAhead RoutedForward ProvenanceExplains HalvesAddUp
