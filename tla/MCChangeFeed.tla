---------------------------- MODULE MCChangeFeed ----------------------------
(***************************************************************************)
(* Small instances of ChangeFeed: one title, a library that has it and     *)
(* one that has not, a day of two ticks, a window of two calendar days.    *)
(***************************************************************************)
EXTENDS ChangeFeed

CONSTANTS movie, movies, shows

One == {movie}
Both == {movies, shows}
HomeOfOne == [t \in One |-> movies]
=============================================================================
