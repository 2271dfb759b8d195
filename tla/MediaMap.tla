------------------------------ MODULE MediaMap ------------------------------
(***************************************************************************)
(* What MediaStateStore promises (helper/state_db.py: "Dictionary-         *)
(* compatible, transactionally batched media state"): a mapping a job      *)
(* edits, a copy of it that survives, and a step that makes the whole of   *)
(* the one the other.  A preview (dry run) saves nothing.                  *)
(***************************************************************************)
CONSTANTS
  Keys, Values, Absent,
  Stored(_, _), \* what is left of a key's value once it has been saved
  Merged(_, _)  \* the value that takes over the claims of another one

VARIABLES
  seen,  \* the mapping as the job reads it
  kept,  \* the mapping the next job will find
  mode   \* "closed" between jobs; "writable", or "preview": it may not save

vars == <<seen, kept, mode>>

Init ==
  /\ kept = [k \in Keys |-> Absent]
  /\ seen = kept
  /\ mode = "closed"

Open(m) ==
  /\ mode = "closed" /\ mode' = m
  /\ UNCHANGED <<seen, kept>>

(* The job ends; what it has not saved is gone. *)
Close ==
  /\ mode # "closed" /\ mode' = "closed"
  /\ seen' = kept
  /\ UNCHANGED kept

Put(k, v) ==
  /\ mode # "closed"
  /\ seen' = [seen EXCEPT ![k] = v]
  /\ UNCHANGED <<kept, mode>>

Drop(k) ==
  /\ mode = "writable" /\ seen[k] # Absent
  /\ seen' = [seen EXCEPT ![k] = Absent]
  /\ UNCHANGED <<kept, mode>>

Save ==
  /\ mode = "writable"
  /\ kept' = [k \in Keys |-> Stored(k, seen[k])]
  /\ seen' = kept'
  /\ UNCHANGED mode

(* The operator, between jobs: an artwork claim is forgotten, or the claims *)
(* of one identity are transferred to another.                              *)
Release(k, v) ==
  /\ mode = "closed" /\ kept[k] # Absent
  /\ kept' = [kept EXCEPT ![k] = v]
  /\ seen' = kept'
  /\ UNCHANGED mode

Transfer(k, l) ==
  /\ mode = "closed" /\ kept[k] # Absent /\ kept[l] # Absent
  /\ kept' = [kept EXCEPT ![l] = Merged(kept[k], @), ![k] = Absent]
  /\ seen' = kept'
  /\ UNCHANGED mode

Next ==
  \/ \E m \in {"writable", "preview"} : Open(m)
  \/ Close
  \/ \E k \in Keys, v \in Values : Put(k, v) \/ Release(k, v)
  \/ \E k \in Keys : Drop(k)
  \/ Save
  \/ \E k, l \in Keys : Transfer(k, l)

Spec == Init /\ [][Next]_vars
=============================================================================
