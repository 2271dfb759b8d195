SPECIFICATION FairSpec
CONSTANTS
  show = show
  season = season
  twin = twin
  poster = poster
  seasonPoster = seasonPoster
  Items = {show, season, twin}
  Parent <- OfShow
  Editions = {}
  Files = {poster, seasonPoster}
  Dest <- Art
  Folder <- OneFolder
  Required = 2
  Grace = 1
  MaxMoves = 3
  MaxFaults = 1
PROPERTIES
  RowsConfirmed
  QuarantineIsJust
  Reconciled
