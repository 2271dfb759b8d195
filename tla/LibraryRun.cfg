SPECIFICATION LSpec
CONSTANTS
  a = a
  b = b
  Libraries = {a, b}
  Items = {1, 2}
  Rank <- Order
  TypeOf <- AllMovieLibraries
  KindOf <- AllMovies
  Selections <- AllOrBoth
  Small = 1
  Page = 1
  Builds = {old, new}
  old = old
  new = new
  MaxChanges = 2
  MaxFaults = 1
INVARIANTS
  PresentIsSeen
  MissingIsGuarded
  BuildQualified
  OthersProcessed
CHECK_DEADLOCK FALSE
SYMMETRY Symmetry
