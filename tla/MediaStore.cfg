SPECIFICATION Spec
CONSTANTS
  movie1 = movie1
  movie2 = movie2
  show1 = show1
  show2 = show2
  lib1 = lib1
  lib2 = lib2
  place = place
  NoPlace = NoPlace
  Absent = Absent
  Keys = {movie1, movie2, show1}
  Shows = {show1}
  Rebindable = {movie1, movie2}
  Libraries = {lib1, lib2}
  Places = {place}
  Inputs <- MoviesAndShow
INVARIANTS
  ScopeReads
PROPERTY
  Implements
