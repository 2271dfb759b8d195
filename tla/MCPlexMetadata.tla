--------------------------- MODULE MCPlexMetadata ---------------------------
(***************************************************************************)
(* Instances of PlexMetadata: an item with tags and a season, which has    *)
(* none.                                                                   *)
(***************************************************************************)
EXTENDS PlexMetadata

CONSTANTS item, season, v, u, g, h
TwoOffers(o) ==
  IF o = item THEN {[val |-> v, tags |-> {g, h}], [val |-> Empty, tags |-> {h}]}
  ELSE {[val |-> v, tags |-> {}]}
OfferedDef == [o \in Objects |-> TwoOffers(o)]
=============================================================================
