SPECIFICATION FairSpec
CONSTANTS
  show = show
  split = split
  movie = movie
  Items <- Three
  LibraryOrder <- OrderOfThree
  LibraryOf <- Placed
  TypeOf <- Typed
  Paths <- FewPaths
  Inventories <- InPlex
  Preserved <- SplitOnly
  Records = {"m1", "m2", "s1", "s2", "p1"}
  States <- TwoStates
  ExternalOf <- Externals
  YearOf <- Years
  Matches <- Matched
  Overrides <- Given
  BackupCount = 1
  MaxChanges = 1
  MaxFaults = 1
PROPERTIES
  FieldsKept
  LedgerTrue
  FilesFollow
  RightTitle
