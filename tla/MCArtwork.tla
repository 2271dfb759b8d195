----------------------------- MODULE MCArtwork -----------------------------
(***************************************************************************)
(* A small instance of Artwork: two editions of a movie and a show that    *)
(* resolve to one destination.                                             *)
(***************************************************************************)
EXTENDS Artwork, TLC
CONSTANTS a, b, x, m, y, s1, s2, s3, f, r, u1
\* a and b are editions of the movie m, x is the show y.
TmdbDef == [i \in Items |-> IF i = x THEN y ELSE m]
\* The show is offered Fanart.tv's f and TMDb's s3, which is below the minimum, or r.
OfferingsDef ==
  [t \in {m, y} |-> IF t = m THEN {{s1}, {s2}, {}} ELSE {{s3, f}, {r}}]
ProviderDef == [s \in {s1, s2, s3, f, r} |-> IF s = f THEN "fanart" ELSE "tmdb"]
Symmetry == Permutations({a, b}) \cup Permutations({s1, s2})
=============================================================================
