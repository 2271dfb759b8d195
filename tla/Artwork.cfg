CONSTANTS
  a = a  b = b  x = x  m = m  y = y  s1 = s1  s2 = s2  s3 = s3  f = f  r = r  u1 = u1
  NoFile = NoFile
  Items = {a, b, x}
  Tmdb <- TmdbDef
  Shows = {y}
  Offerings <- OfferingsDef
  Provider <- ProviderDef
  Canonical = {s1, s2}
  Accepted = {s1, s2, f}
  Relaxed = {r}
  UserArt = {u1}
  Policy = "managed"
  Due = {"poster and background", "background"}
  MaxChanges = 2
SPECIFICATION Spec
INVARIANT
  OneTitle
PROPERTY
  UserArtKept
  ConfirmedTwice
CHECK_DEADLOCK FALSE
SYMMETRY Symmetry
