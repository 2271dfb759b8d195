---------------------------- MODULE MCMediaStore ----------------------------
(* Instances of MediaStore: two movies that an operator rebinds and a show, *)
(* and two shows.                                                           *)
EXTENDS MediaStore

CONSTANTS movie1, movie2, show1, show2, lib1, lib2, place

Movie == {[lib |-> n, root |-> r, season |-> NoPlace, average |-> FALSE] :
            n \in Libraries, r \in Claim}
Show == {[lib |-> lib1, root |-> NoPlace, season |-> s, average |-> a] :
            s \in Claim, a \in BOOLEAN}
MoviesAndShow == [k \in Keys |-> IF k \in Shows THEN Show ELSE Movie]
TwoShows ==
  [k \in Keys |-> {[lib |-> IF k = show1 THEN lib1 ELSE lib2, root |-> NoPlace,
                    season |-> s, average |-> TRUE] : s \in Claim}]
=============================================================================
