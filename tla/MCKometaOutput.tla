--------------------------- MODULE MCKometaOutput ---------------------------
(***************************************************************************)
(* A small instance of KometaOutput for TLC: two shows in two libraries    *)
(* that share the file of their type, and a movie in a third.  TMDb has    *)
(* two records of the movie, one of which the operator may name for it;    *)
(* Plex may know the show by the id of either of two records, and the show *)
(* that is split by its external id only.                                  *)
(***************************************************************************)
EXTENDS KometaOutput, TLC

CONSTANTS show, split, movie

Three == {show, split, movie}
OrderOfThree == <<"anime", "movies", "tv">>
Placed == show :> "tv" @@ split :> "anime" @@ movie :> "movies"
Typed == "tv" :> "tv" @@ "anime" :> "tv" @@ "movies" :> "movie"
SplitOnly == {split}
Keyed(place, keys) == {[place |-> place, key |-> k] : k \in keys}
FewPaths ==
  Keyed(<<>>, {"summary", "genre", "genre.sync", "note", "runtime"})
  \cup Keyed(<<1>>, {"note"}) \cup Keyed(<<1, 1>>, {"title"})
One == {<<1>>, <<1, 1>>}
InPlex == show :> {{}, One} @@ split :> {One} @@ movie :> {{}}

TwoStates == "m1" :> {"m1", "m1 revised"} @@ "m2" :> {"m2"} @@ "s1" :> {"s1", "s1 revised"} @@ "s2" :> {"s2"} @@ "p1" :> {"p1"}
Externals == "m1" :> "tt1" @@ "m2" :> "tt1" @@ "s1" :> "none" @@ "s2" :> "none" @@ "p1" :> "tt3"
Years == "m1" :> 2001 @@ "m2" :> 2002 @@ "s1" :> 0 @@ "s2" :> 2010 @@ "p1" :> 0
Ids(tmdb, external, year) == [tmdb |-> tmdb, external |-> external, year |-> year]
Matched ==
  movie :> <<Ids("m1", "tt1", 2001)>>
  @@ show :> <<Ids("s1", "none", 0), Ids("s2", "none", 0), Ids("s2", "none", 2001)>>
  @@ split :> <<Ids("none", "tt3", 0)>>
Given == movie :> "m2" @@ show :> "none" @@ split :> "none"
=============================================================================
