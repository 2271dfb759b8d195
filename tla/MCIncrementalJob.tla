-------------------------- MODULE MCIncrementalJob --------------------------
(***************************************************************************)
(* Small instances of IncrementalJob for TLC: two or three items, a        *)
(* two-step back-off, and the interval and clock chosen so that a full     *)
(* scan becomes due again while a retry is still waiting.                  *)
(***************************************************************************)
EXTENDS IncrementalJob, TLC

CONSTANTS a, b

Two == {a, b}
Swap == Permutations(Two)
OnlyB == {b}
Nobody == {}
ShortDelays == <<1, 1>>
OneDelay == <<1>>
Twice == [i \in Items |-> 2]
AThrice == [i \in Items |-> IF i = a THEN 3 ELSE 1]
=============================================================================
