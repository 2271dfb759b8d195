SPECIFICATION FairSpec
CONSTANTS
  movie = movie
  movies = movies
  shows = shows
  Titles <- One
  Libraries <- Both
  Home <- HomeOfOne
  Hours = 2
  Window = 1
  TTL = 3
  Interval = 2
  JobDays = 1
  MaxChanges = 1
  MaxKills = 1
INVARIANTS
  NoGapBetweenWindows
  ListedIsApplied
PROPERTY
  OutputConverges
