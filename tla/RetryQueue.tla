----------------------------- MODULE RetryQueue -----------------------------
(***************************************************************************)
(* The rows of item_retry_queue in meta_db.sqlite3 (helper/state_db.py) as *)
(* values, and what the three statements that change a row return.  A row  *)
(* is keyed by server, library and Plex rating key; a module that keeps a  *)
(* queue holds a function from items to rows.  NoRetry stands for an       *)
(* absent row.  Markers are the Plex updatedAt values the row was written  *)
(* for; 0 is the marker of no row.                                         *)
(***************************************************************************)
EXTENDS Naturals, Sequences

CONSTANT Delays     \* _RETRY_DELAYS: the back-off of each attempt, in ticks

ASSUME DelaysAssumption == Delays \in Seq(Nat) /\ Len(Delays) > 0

Statuses == {"none", "running", "pending", "parked"}
FailureClasses == {"transient", "permanent"}

(* attempts is only compared with Len(Delays), so it is kept up to the     *)
(* first value above it.                                                   *)
AttemptCap == Len(Delays) + 1

RetryRow == [status : Statuses, attempts : 0 .. AttemptCap, mark : Nat,
             next : Nat]

NoRetry == [status |-> "none", attempts |-> 0, mark |-> 0, next |-> 0]

(* mark_items_started: upsert one selected item as running.  A marker that *)
(* differs from the row's resets the attempts.                             *)
Started(row, mark) ==
  [status |-> "running",
   attempts |-> IF row.mark = mark THEN row.attempts ELSE 0,
   mark |-> mark,
   next |-> row.next]

AttemptsAfter(row, mark) ==
  IF row.status = "none" \/ row.mark # mark THEN 1
  ELSE IF row.attempts < AttemptCap THEN row.attempts + 1 ELSE AttemptCap

(* record_item_failure: count the attempt and either schedule the next one *)
(* or park the item.                                                       *)
Failed(row, mark, class, t) ==
  LET n == AttemptsAfter(row, mark)
      parks == class = "permanent" \/ n > Len(Delays)
  IN [status |-> IF parks THEN "parked" ELSE "pending",
      attempts |-> n,
      mark |-> mark,
      next |-> IF parks THEN 0 ELSE t + Delays[n]]

(* load_due_item_retries: interrupted work, and pending work whose         *)
(* deadline has passed.                                                    *)
RetryDue(row, t) ==
  \/ row.status = "running"
  \/ row.status = "pending" /\ row.next <= t
=============================================================================
