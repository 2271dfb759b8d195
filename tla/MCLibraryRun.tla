---------------------------- MODULE MCLibraryRun ----------------------------
(***************************************************************************)
(* Instances of LibraryRun: two libraries of movies.                        *)
(***************************************************************************)
EXTENDS LibraryRun, TLC

CONSTANTS a, b, old, new
Order == [l \in Libraries |-> IF l = a THEN 1 ELSE 2]
AllMovieLibraries == [l \in Libraries |-> "movie"]
AllMovies == [i \in Items |-> "movie"]
Symmetry == Permutations(Builds)
AllOrBoth == {{}, {a, b}}
=============================================================================
