---------------------------- MODULE MCQuarantine ----------------------------
(* An instance of Quarantine with two names, so that a second file can be  *)
(* quarantined, restored or purged beside what the first operation left.   *)
EXTENDS Quarantine

CONSTANTS u1, u2
=============================================================================
