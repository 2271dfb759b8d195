----------------------------- MODULE MCCleanup -----------------------------
(***************************************************************************)
(* Instances of Cleanup: a show with a season, and a title that shares the *)
(* folder and the poster of the show.                                      *)
(***************************************************************************)
EXTENDS Cleanup

CONSTANTS show, season, twin, poster, seasonPoster

OfShow == [i \in Items |-> IF i = season THEN show ELSE i]
Art == [i \in Items |-> IF i = season THEN seasonPoster ELSE poster]
OneFolder == [i \in Items |-> "folder"]
=============================================================================
