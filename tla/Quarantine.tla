----------------------------- MODULE Quarantine -----------------------------
(***************************************************************************)
(* The recoverable quarantine of helper/quarantine.py, for one managed     *)
(* artwork file: moved out of its place by cleanup, put back by an         *)
(* operator, purged after its retention, with a failure or a kill after    *)
(* every file operation and every transaction.  Whoever does it holds the  *)
(* run lock, so that there is one operation at a time; users change the    *)
(* file whenever they like, and the copies while no file is being moved.   *)
(***************************************************************************)
EXTENDS Naturals

CONSTANTS
  Units,        \* names in the quarantine folder
  Retention,    \* cleanup.quarantine_days, in ticks
  MaxFaults

ASSUME QuarantineAssumption ==
  /\ Units # {} /\ Retention \in Nat \ {0} /\ MaxFaults \in Nat

VARIABLES
  file,   \* the place: "none", "art" that MetaFusion wrote, or a "user" file
  stored, \* copies in the quarantine folder, as they were made
  foreign, \* names of copies where something else is by now: the file was
           \* altered, is no regular file, or its path leads out of the folder
  rec,    \* table cleanup_quarantine; "free" is no row
  left,   \* until expires_at
  at,     \* where the operation is
  unit,   \* the copy it deals with
  due,    \* a purge: the records still to look at
  taken,  \* history: copies of a file MetaFusion removed and has neither put
          \* back nor purged
  cut,    \* history: copies whose operation was killed or could not be undone,
          \* and copies somebody altered or removed
  faults

qvars == <<file, stored, foreign, rec, left, at, unit, due, taken, cut, faults>>

Steps == {"idle", "copied", "unlinked", "undo", "undone",
          "putBack", "emptied", "unrestore", "unrestored", "purge", "purging"}

Statuses == {"free", "active", "restored", "purged", "missing"}

QTypeOK ==
  /\ file \in {"none", "art", "user"}
  /\ stored \in SUBSET Units /\ taken \in SUBSET Units /\ cut \in SUBSET Units
  /\ foreign \in SUBSET Units /\ due \in SUBSET Units /\ foreign \intersect stored = {}
  /\ rec \in [Units -> Statuses]
  /\ left \in [Units -> 0 .. Retention]
  /\ at \in Steps /\ unit \in Units
  /\ faults \in 0 .. MaxFaults

QInit ==
  /\ file = "art" /\ stored = {} /\ foreign = {} /\ due = {}
  /\ taken = {} /\ cut = {}
  /\ rec = [u \in Units |-> "free"] /\ left = [u \in Units |-> 0]
  /\ at = "idle" /\ unit \in Units /\ faults = 0

Fault == faults < MaxFaults /\ faults' = faults + 1
Step(from, to) == at = from /\ at' = to

-----------------------------------------------------------------------------
(* quarantine_managed_asset *)

(* The checks, and a copy under a new name that was verified against the   *)
(* checksum.                                                               *)
CopyOut(u) ==
  /\ Step("idle", "copied") /\ unit' = u
  /\ file = "art" /\ u \notin stored \union foreign \union taken
  /\ rec[u] = "free"
  /\ stored' = stored \union {u}
  /\ UNCHANGED <<foreign, due, file, rec, left, taken, cut, faults>>

(* Whatever is there by now is removed. *)
Unlink ==
  /\ Step("copied", "unlinked") /\ file # "none"
  /\ file' = "none" /\ taken' = taken \union {unit}
  /\ UNCHANGED <<foreign, due, stored, rec, left, unit, cut, faults>>

(* The original is still there, so that nothing is undone. *)
UnlinkFails ==
  /\ Step("copied", "idle") /\ file # "none" /\ Fault
  /\ UNCHANGED <<foreign, due, file, stored, rec, left, unit, taken, cut>>

(* The user was faster; the removed file is put back. *)
NothingToUnlink ==
  /\ Step("copied", "undo") /\ file = "none"
  /\ UNCHANGED <<foreign, due, file, stored, rec, left, unit, taken, cut, faults>>

Record ==
  /\ Step("unlinked", "idle")
  /\ rec' = [rec EXCEPT ![unit] = "active"]
  /\ left' = [left EXCEPT ![unit] = Retention]
  /\ UNCHANGED <<foreign, due, file, stored, unit, taken, cut, faults>>

(* The mutant leaves it at that. *)
GiveUp == "idle"
AfterRecordFails == "undo"

RecordFails ==
  /\ Step("unlinked", AfterRecordFails) /\ Fault
  /\ UNCHANGED <<foreign, due, file, stored, rec, left, unit, taken, cut>>

CopyBack ==
  /\ at = "undo"
  /\ \/ /\ file = "none" /\ at' = "undone"
        /\ file' = "art" /\ taken' = taken \ {unit}
        /\ UNCHANGED cut
     \/ /\ file # "none" /\ at' = "idle"
        /\ cut' = cut \union {unit}
        /\ UNCHANGED <<file, taken>>
  /\ UNCHANGED <<foreign, due, stored, rec, left, unit, faults>>

CopyBackFails ==
  /\ Step("undo", "idle") /\ Fault
  /\ cut' = cut \union {unit}
  /\ UNCHANGED <<foreign, due, file, stored, rec, left, unit, taken>>

DropCopy ==
  /\ Step("undone", "idle")
  /\ \/ stored' = stored \ {unit} /\ UNCHANGED faults
     \/ Fault /\ UNCHANGED stored
  /\ UNCHANGED <<foreign, due, file, rec, left, unit, taken, cut>>

-----------------------------------------------------------------------------
(* restore_quarantined_asset *)

Restore(u) ==
  /\ Step("idle", "putBack") /\ unit' = u
  /\ rec[u] = "active" /\ u \in stored /\ file = "none"
  /\ file' = "art" /\ taken' = taken \ {u}
  /\ UNCHANGED <<foreign, due, stored, rec, left, cut, faults>>

Empty ==
  /\ at = "putBack"
  /\ \/ at' = "emptied" /\ stored' = stored \ {unit} /\ UNCHANGED faults
     \/ at' = "idle" /\ Fault /\ UNCHANGED stored
  /\ UNCHANGED <<foreign, due, file, rec, left, unit, taken, cut>>

Restored ==
  /\ Step("emptied", "idle")
  /\ rec' = [rec EXCEPT ![unit] = "restored"]
  /\ UNCHANGED <<foreign, due, file, stored, left, unit, taken, cut, faults>>

RestoreFails ==
  /\ Step("emptied", "unrestore") /\ Fault
  /\ UNCHANGED <<foreign, due, file, stored, rec, left, unit, taken, cut>>

(* Back into the quarantine, if the file is there and still the same. *)
Unrestore ==
  /\ at = "unrestore"
  /\ \/ /\ file = "art" /\ at' = "unrestored"
        /\ stored' = stored \union {unit}
        /\ UNCHANGED cut
     \/ /\ file # "art" /\ at' = "idle"
        /\ cut' = cut \union {unit}
        /\ UNCHANGED stored
  /\ UNCHANGED <<foreign, due, file, rec, left, unit, taken, faults>>

UnrestoreFails ==
  /\ Step("unrestore", "idle") /\ Fault
  /\ cut' = cut \union {unit}
  /\ UNCHANGED <<foreign, due, file, stored, rec, left, unit, taken>>

TakeAway ==
  /\ Step("unrestored", "idle")
  /\ file' = "none"
  /\ \/ file # "none" /\ taken' = taken \union {unit}
     \/ file = "none" /\ UNCHANGED taken
  /\ UNCHANGED <<foreign, due, stored, rec, left, unit, cut, faults>>

TakeAwayFails ==
  /\ Step("unrestored", "idle") /\ Fault
  /\ UNCHANGED <<foreign, due, file, stored, rec, left, unit, taken, cut>>

-----------------------------------------------------------------------------
(* purge_expired_quarantine.  Every cleanup that is no dry run begins with *)
(* it, and --cleanup-purge runs it.                                        *)

(* The mutant purges what is still retained. *)
ExpiredOrNot(u) == TRUE
Expired(u) == left[u] = 0

(* load_cleanup_quarantine: the active records whose retention is over.    *)
BeginPurge ==
  /\ Step("idle", "purge")
  /\ due' = {u \in Units : rec[u] = "active" /\ Expired(u)}
  /\ UNCHANGED <<file, stored, foreign, rec, left, unit, taken, cut, faults>>

(* The mutant does not close the record of a file that is gone. *)
NeverMissing(u) == FALSE
IsMissing(u) == u \notin stored \union foreign

Missing(u) ==
  /\ at = "purge" /\ u \in due /\ IsMissing(u)
  /\ rec' = [rec EXCEPT ![u] = "missing"] /\ due' = due \ {u}
  /\ UNCHANGED <<file, stored, foreign, left, at, unit, taken, cut, faults>>

(* "protected": neither the file nor the record is touched, and a later    *)
(* purge looks at it again.                                                *)
Protect(u) ==
  /\ at = "purge" /\ u \in due /\ u \in foreign
  /\ due' = due \ {u}
  /\ UNCHANGED <<file, stored, foreign, rec, left, at, unit, taken, cut, faults>>

Purge(u) ==
  /\ Step("purge", "purging") /\ unit' = u
  /\ u \in due /\ u \in stored
  /\ stored' = stored \ {u} /\ taken' = taken \ {u} /\ due' = due \ {u}
  /\ UNCHANGED <<file, foreign, rec, left, cut, faults>>

Purged ==
  /\ Step("purging", "purge")
  /\ rec' = [rec EXCEPT ![unit] = "purged"]
  /\ UNCHANGED <<file, stored, foreign, left, unit, due, taken, cut, faults>>

(* Any exception ends the purge; the records left wait for the next one.   *)
PurgeFails ==
  /\ at \in {"purge", "purging"} /\ at' = "idle" /\ Fault
  /\ cut' = IF at = "purging" THEN cut \union {unit} ELSE cut
  /\ due' = {}
  /\ UNCHANGED <<file, stored, foreign, rec, left, unit, taken>>

PurgeEnds ==
  /\ Step("purge", "idle") /\ due = {}
  /\ UNCHANGED <<file, stored, foreign, rec, left, unit, due, taken, cut, faults>>

-----------------------------------------------------------------------------
(* Everything else *)

Kill ==
  /\ at # "idle" /\ at' = "idle" /\ Fault
  /\ cut' = IF at = "purge" THEN cut ELSE cut \union {unit}
  /\ due' = {}
  /\ UNCHANGED <<file, stored, foreign, rec, left, unit, taken>>

(* A job builds the item again, or a user puts a file there or removes it. *)
Build ==
  /\ at = "idle" /\ file = "none" /\ file' = "art"
  /\ UNCHANGED <<stored, foreign, rec, left, at, unit, due, taken, cut, faults>>

UserChanges ==
  /\ file' \in {"none", "user"} \ {file}
  /\ UNCHANGED <<stored, foreign, rec, left, at, unit, due, taken, cut, faults>>

(* Somebody alters or removes a copy, or puts the right one back.          *)
Disturb(u) ==
  /\ at \in {"idle", "purge"} /\ u \in stored
  /\ stored' = stored \ {u} /\ foreign' \in {foreign, foreign \union {u}}
  /\ cut' = cut \union {u}
  /\ UNCHANGED <<file, rec, left, at, unit, due, taken, faults>>

Mend(u) ==
  /\ at \in {"idle", "purge"} /\ u \in foreign
  /\ foreign' = foreign \ {u} /\ stored' = stored \union {u}
  /\ UNCHANGED <<file, rec, left, at, unit, due, taken, cut, faults>>

Sooner(n) == IF n = 0 THEN 0 ELSE n - 1

Tick ==
  /\ at = "idle" /\ \E u \in Units : left[u] > 0
  /\ left' = [u \in Units |-> Sooner(left[u])]
  /\ UNCHANGED <<file, stored, foreign, rec, at, unit, due, taken, cut, faults>>

InOperation ==
  \/ Unlink \/ UnlinkFails \/ NothingToUnlink \/ Record \/ RecordFails
  \/ CopyBack \/ CopyBackFails \/ DropCopy
  \/ Empty \/ Restored \/ RestoreFails
  \/ Unrestore \/ UnrestoreFails \/ TakeAway \/ TakeAwayFails
  \/ (\E u \in Units : Missing(u) \/ Protect(u) \/ Purge(u))
  \/ Purged \/ PurgeFails \/ PurgeEnds

QNext ==
  \/ InOperation \/ Kill \/ Build \/ UserChanges \/ Tick \/ BeginPurge
  \/ \E u \in Units : CopyOut(u) \/ Restore(u) \/ Disturb(u) \/ Mend(u)

QSpec == QInit /\ [][QNext]_qvars

(* An operation that has begun goes on, and time passes.                   *)
QFairSpec == QSpec /\ WF_qvars(InOperation) /\ SF_qvars(Tick)

-----------------------------------------------------------------------------
(* Properties *)

(* An operation removes managed artwork from its place only when it has a  *)
(* verified copy, and drops the copy of a file it removed only when that   *)
(* file is back in its place or its retention is over, whatever fails or   *)
(* is changed by the user in between (docs/policies.md:392).               *)
NothingDestroyed ==
  [][at' # at =>
       /\ file = "art" /\ file' = "none" =>
            unit' = unit /\ unit \in stored \intersect stored'
       /\ \A u \in (stored \ stored') \intersect taken :
            rec[u] = "active" /\ left[u] = 0]_qvars

(* Between operations every file that was taken away is on record with its *)
(* copy, so that --cleanup-restore finds it: unless the operation was      *)
(* killed in the middle, a second failure or an edit by the user met its   *)
(* being undone, or somebody altered or removed the copy.                  *)
Restorable ==
  at = "idle" => \A u \in Units \ cut :
    /\ u \in taken => rec[u] = "active"
    /\ rec[u] = "active" => u \in stored

(* docs/lifecycle-management.md:101-113: if purges go on, no record stays  *)
(* active for ever, whichever of them fail or are killed half-way, and     *)
(* whatever became of the copy in between: it is restored, purged or found *)
(* missing, unless something else lies where the copy was.                 *)
RetentionEnds ==
  []<>(at = "purge") =>
    \A u \in Units : rec[u] = "active" ~> rec[u] # "active" \/ u \in foreign
=============================================================================
