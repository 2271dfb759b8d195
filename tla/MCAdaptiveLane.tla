--------------------------- MODULE MCAdaptiveLane ---------------------------
(***************************************************************************)
(* Small instances of AdaptiveLane: three callers on a lane of one or two  *)
(* slots, a circuit that two failures open, and a clock that lets two      *)
(* cooldowns pass.                                                         *)
(***************************************************************************)
EXTENDS AdaptiveLane, TLC

CONSTANTS c1, c2, c3

Three == {c1, c2, c3}
AnyCaller == Permutations(Three)
ShortOrLong == {0, 2}
Tmdb == {"provider"}
EveryKind == {"pressure", "duration", "provider"}
=============================================================================
