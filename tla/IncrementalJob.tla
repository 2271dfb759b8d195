--------------------------- MODULE IncrementalJob ---------------------------
(***************************************************************************)
(* One Plex library as MetaFusion's jobs see it: plan_items decides which  *)
(* items a job evaluates, process_library evaluates them and writes the    *)
(* output, the markers, the retry queue and the scan state, and            *)
(* run_metafusion_job flushes the media-state cache at the end.  Plex is   *)
(* edited while a job runs, an item evaluation fails, the job is cancelled *)
(* or the process is killed between any two steps.                         *)
(*                                                                         *)
(* Durable state survives Crash; the state of the running job does not.    *)
(***************************************************************************)
EXTENDS RetryQueue, FiniteSets

CONSTANTS
  Items,          \* the rating keys of the library
  PlexMode,       \* TRUE: RUN_MODE=plex; FALSE: RUN_MODE=kometa
  CleanupEnabled, \* RUN_CLEANUP
  Incomplete,     \* items whose path or season inventory Plex cannot give
  Stubborn,       \* items that may fail any number of times
  Workers,        \* the item lane: how many evaluations run at once
  Threshold,      \* the item lane: failures in a row that open its circuit
  FullInterval,   \* FULL_SCAN_INTERVAL_HOURS, in ticks
  MaxMarker,      \* bound for TLC: the marker of every item
  MaxConf, MaxNow, MaxFaults    \* bounds for TLC

ASSUME JobAssumption ==
  /\ PlexMode \in BOOLEAN /\ CleanupEnabled \in BOOLEAN
  /\ Incomplete \subseteq Items /\ Stubborn \subseteq Items
  /\ Workers \in Nat \ {0} /\ Threshold \in Nat \ {0}
  /\ FullInterval \in Nat \ {0}
  /\ MaxMarker \in [Items -> Nat] /\ MaxConf \in Nat /\ MaxNow \in Nat /\ MaxFaults \in Nat

VARIABLES
  marker,   \* Plex: updatedAt of every item
  ver,      \* Plex: the edit of the item that a user or scanner made last
  conf,     \* the configuration fingerprint the next job will load
  now,      \* the clock
  faults,   \* failures, cancellations and crashes so far
  out,      \* durable: the edit and configuration whose evaluation is output
  rows,     \* durable: media_state rows in SQLite
  retry,    \* durable: item_retry_queue
  scan,     \* durable: library_scan_state
  phase,    \* the running job: where it is
  plan,     \* the running job: kind of scan, rating keys it may select, the
            \* inventory (updatedAt and edit of every item), configuration
  mem,      \* media_state as MediaStateStore shows it, pending writes included
  todo,     \* selected items still in the queue
  busy,     \* items a worker is evaluating
  written,  \* busy items whose Plex fields this job has written
  streak,   \* failures in a row on the item lane; Threshold once it is open
  ok,       \* items evaluated with _incremental_success
  errors,   \* items in item_errors or metadata_errors
  recMark   \* meta["updatedAt"] of every item: the marker to record

world == <<marker, ver, conf, now>>
durable == <<out, rows, retry, scan>>
lane == <<busy, written, streak>>
results == <<ok, errors, recMark>>
vars == <<world, faults, durable, phase, plan, mem, todo, lane, results>>

Phases == {"idle", "listed", "preload", "work", "record", "clear", "complete",
           "flush"}
Kinds == {"full", "incremental", "targeted"}
Plan == [kind : Kinds, wanted : SUBSET Items, seen : [Items -> Nat],
         ver : [Items -> Nat], conf : Nat]
NoPlan == [kind |-> "incremental", wanted |-> {}, seen |-> [i \in Items |-> 0],
           ver |-> [i \in Items |-> 0], conf |-> 0]
Row == [mark : Nat, conf : Nat]
NoRow == [mark |-> 0, conf |-> 0]
Output == [ver : Nat, conf : Nat]
NoOutput == [ver |-> 0, conf |-> 0]

-----------------------------------------------------------------------------
(* Planning                                                                *)

(* library_full_scan_decisions: no saved state, a configuration other than *)
(* the one the last successful scan ran with, or an interval that is over. *)
FullScanDue ==
  \/ scan.done = 0
  \/ scan.conf # conf
  \/ now - scan.done >= FullInterval

(* The mutant of RowCurrent: plan_items forgets config_fingerprint.        *)
CurrentIgnoringConf(row, mark, c) == row.mark = mark

(* A media_state row that gives plan_items no reason to select the item.   *)
RowCurrent(row, mark, c) == row.mark = mark /\ row.conf = c

(* plan_items: everything wanted in a full or targeted run; otherwise the  *)
(* items with a due retry, a missing or outdated row, or (timed) a         *)
(* metadata or artwork recheck that has become due.                        *)
Planned(timed) ==
  IF plan.kind # "incremental" THEN plan.wanted
  ELSE {i \in plan.wanted : \/ RetryDue(retry[i], now)
                       \/ ~RowCurrent(mem[i], plan.seen[i], plan.conf)
                       \/ i \in timed}

(* Whether the next scheduled job is certain to select item i.             *)
WouldSelect(i) ==
  \/ FullScanDue
  \/ RetryDue(retry[i], now)
  \/ ~RowCurrent(rows[i], marker[i], conf)

-----------------------------------------------------------------------------
(* Faults are counted so that a liveness property can say "once failures   *)
(* stop"; the failures of a stubborn item are free.                        *)
Fault == faults < MaxFaults /\ faults' = faults + 1
ItemFault(i) == IF i \in Stubborn THEN faults' = faults ELSE Fault

(* What process_library worked with is gone; only the cache is left.       *)
LeaveLibrary ==
  /\ plan' = NoPlan /\ todo' = {}
  /\ busy' = {} /\ written' = {} /\ streak' = 0
  /\ ok' = {} /\ errors' = {} /\ recMark' = [i \in Items |-> 0]

EndJob == phase' = "idle" /\ LeaveLibrary /\ mem' = [i \in Items |-> NoRow]

Init ==
  /\ marker = [i \in Items |-> 1] /\ ver = [i \in Items |-> 1]
  /\ conf = 1 /\ now = 1 /\ faults = 0
  /\ out = [i \in Items |-> NoOutput]
  /\ rows = [i \in Items |-> NoRow]
  /\ retry = [i \in Items |-> NoRetry]
  /\ scan = [done |-> 0, conf |-> 0]
  /\ phase = "idle" /\ plan = NoPlan
  /\ mem = [i \in Items |-> NoRow] /\ todo = {}
  /\ busy = {} /\ written = {} /\ streak = 0
  /\ ok = {} /\ errors = {} /\ recMark = [i \in Items |-> 0]

-----------------------------------------------------------------------------
(* A job.  begin_cache_session opens a MediaStateStore without pending     *)
(* writes; the inventory is read once, before anything is planned, and the *)
(* lanes start closed.                                                     *)
Begin(k, S) ==
  /\ phase = "idle"
  /\ phase' = "listed"
  /\ plan' = [kind |-> k, wanted |-> S, seen |-> marker, ver |-> ver,
              conf |-> conf]
  /\ mem' = rows /\ recMark' = marker
  /\ UNCHANGED <<world, faults, durable, todo, lane, ok, errors>>

(* The scheduler's job; --full-scan forces a full one.                     *)
BeginScheduled ==
  Begin(IF FullScanDue THEN "full" ELSE "incremental", Items)
BeginForced == ~FullScanDue /\ Begin("full", Items)

(* --rating-key and --retry-failed.                                        *)
BeginTargeted == \E S \in (SUBSET Items) \ {{}} : Begin("targeted", S)

(* load_due_item_retries, plan_items and mark_items_started: the selection *)
(* is one durable transaction.                                             *)
PlanLibrary ==
  /\ phase = "listed"
  /\ \E timed \in SUBSET plan.wanted :
       /\ todo' = Planned(timed)
       /\ retry' = [i \in Items |-> IF i \in todo' THEN Started(retry[i], plan.seen[i])
                                    ELSE retry[i]]
  /\ phase' = "preload"
  /\ UNCHANGED <<world, faults, out, rows, scan, plan, mem, lane, results>>

RecordFailure(i, class) ==
  retry' = [retry EXCEPT ![i] = Failed(retry[i], plan.seen[i], class, now)]

(* get_plex_metadata raised for one item of the preload loop.              *)
PreloadFails(i) ==
  /\ phase = "preload" /\ i \in todo
  /\ ItemFault(i)
  /\ \E class \in FailureClasses : RecordFailure(i, class)
  /\ todo' = todo \ {i} /\ errors' = errors \cup {i}
  /\ UNCHANGED <<world, out, rows, scan, phase, plan, mem, lane, ok, recMark>>

(* LibraryProcessingError before the workers start or instead of the       *)
(* output: nothing is recorded and the library is not complete.            *)
AbortLibrary ==
  /\ phase' = "flush" /\ LeaveLibrary
  /\ UNCHANGED <<world, durable, mem>>

(* The mutant: incomplete items abort a full scan without cleanup as well. *)
RefusesAlways ==
  plan.kind = "full" /\ (errors # {} \/ todo \cap Incomplete # {})

(* With cleanup enabled a full scan refuses a library whose inventory has  *)
(* a hole: a failed preload, or an item without path or seasons.           *)
CleanupRefuses ==
  CleanupEnabled /\ plan.kind = "full" /\ (errors # {} \/ todo \cap Incomplete # {})

PreloadRefused ==
  /\ phase = "preload" /\ CleanupRefuses
  /\ UNCHANGED faults /\ AbortLibrary

(* Ambiguous editions, or existing YAML that cannot be parsed.             *)
PreloadRaises == phase = "preload" /\ Fault /\ AbortLibrary

PreloadDone ==
  /\ phase = "preload" /\ ~CleanupRefuses
  /\ phase' = "work"
  /\ UNCHANGED <<world, faults, durable, plan, mem, todo, lane, results>>

-----------------------------------------------------------------------------
(* Evaluation.  A worker takes an item and enters the item lane; the lane  *)
(* counts an exception as a failure, and Threshold of them in a row open   *)
(* its circuit.  The other workers then empty the queue against the open   *)
(* circuit before its cooldown is over.                                    *)
StartItem(i) ==
  /\ phase = "work" /\ i \in todo
  /\ Cardinality(busy) < Workers /\ streak < Threshold
  /\ todo' = todo \ {i} /\ busy' = busy \cup {i}
  /\ UNCHANGED <<world, faults, durable, phase, plan, mem, written, streak,
                 results>>

(* CircuitOpenError: the item fails without a record_item_failure.         *)
RejectItem(i) ==
  /\ phase = "work" /\ i \in todo /\ streak = Threshold
  /\ todo' = todo \ {i} /\ errors' = errors \cup {i}
  /\ UNCHANGED <<world, faults, durable, phase, plan, mem, lane, ok, recMark>>

LaneSucceeds == streak' = IF streak = Threshold THEN Threshold ELSE 0
LaneFails == streak' = IF streak = Threshold THEN Threshold ELSE streak + 1

(* apply_plex_metadata saves fields, and Plex bumps updatedAt.             *)
PlexWrites(i) ==
  /\ PlexMode /\ phase = "work" /\ i \in busy \ written
  /\ marker[i] < MaxMarker[i]
  /\ marker' = [marker EXCEPT ![i] = @ + 1]
  /\ written' = written \cup {i}
  /\ UNCHANGED <<ver, conf, now, faults, durable, phase, plan, mem, todo, busy,
                 streak, results>>

(* The mutant keeps the marker of the inventory.                           *)
NoReload(i) == recMark' = recMark

(* An item that was written is reloaded, and the marker found then is the  *)
(* one that will be recorded.                                              *)
Reload(i) ==
  recMark' = IF i \in written THEN [recMark EXCEPT ![i] = marker[i]] ELSE recMark

LeaveLane(i) == busy' = busy \ {i} /\ written' = written \ {i}

Evaluated(i) == [ver |-> plan.ver[i], conf |-> plan.conf]

(* process_and_collect with _incremental_success: Plex has the values, the *)
(* YAML entry waits for the library to be written.                         *)
ProcessOk(i) ==
  /\ phase = "work" /\ i \in busy
  /\ Reload(i) /\ LeaveLane(i) /\ LaneSucceeds
  /\ out' = IF PlexMode THEN [out EXCEPT ![i] = Evaluated(i)] ELSE out
  /\ ok' = ok \cup {i}
  /\ UNCHANGED <<world, faults, rows, retry, scan, phase, plan, mem, todo, errors>>

(* _retry_error: an action failed or was deferred.  The library still      *)
(* counts as successful.                                                   *)
ProcessDefers(i) ==
  /\ phase = "work" /\ i \in busy
  /\ ItemFault(i) /\ Reload(i) /\ LeaveLane(i) /\ LaneSucceeds
  /\ \E class \in FailureClasses : RecordFailure(i, class)
  /\ UNCHANGED <<world, out, rows, scan, phase, plan, mem, todo, ok, errors>>

(* process_item raised.                                                    *)
ProcessRaises(i) ==
  /\ phase = "work" /\ i \in busy
  /\ ItemFault(i) /\ LeaveLane(i) /\ LaneFails
  /\ \E class \in FailureClasses : RecordFailure(i, class)
  /\ errors' = errors \cup {i}
  /\ UNCHANGED <<world, out, rows, scan, phase, plan, mem, todo, ok, recMark>>

-----------------------------------------------------------------------------
(* The end of process_library, once queue.join() returns.                  *)
WriteOutput ==
  /\ phase = "work" /\ todo = {} /\ busy = {}
  /\ out' = IF PlexMode THEN out
            ELSE [i \in Items |-> IF i \in ok THEN Evaluated(i) ELSE out[i]]
  /\ phase' = "record"
  /\ UNCHANGED <<world, faults, rows, retry, scan, plan, mem, todo, lane, results>>

OutputFails ==
  /\ phase = "work" /\ todo = {} /\ busy = {} /\ ~PlexMode
  /\ Fault /\ AbortLibrary

(* The mutant: the marker Plex has now instead of the one evaluated.       *)
RecordedLate(S) ==
  [i \in Items |-> IF i \in S THEN [mark |-> marker[i], conf |-> plan.conf]
                   ELSE mem[i]]

(* meta_cache_async for pending_incremental: in memory until the flush.    *)
Recorded(S) ==
  [i \in Items |-> IF i \in S THEN [mark |-> recMark[i], conf |-> plan.conf]
                   ELSE mem[i]]

RecordMarkers ==
  /\ phase = "record"
  /\ mem' = Recorded(ok)
  /\ phase' = "clear"
  /\ UNCHANGED <<world, faults, durable, plan, todo, lane, results>>

(* clear_item_retries(successful_retry_keys).                              *)
Cleared == [i \in Items |-> IF i \in ok THEN NoRetry ELSE retry[i]]

ClearRetries ==
  /\ phase = "clear"
  /\ retry' = Cleared
  /\ phase' = "complete"
  /\ UNCHANGED <<world, faults, out, rows, scan, plan, mem, todo, lane, results>>

(* The mutant: item_errors no longer fail the library.                     *)
SucceedsAnyway == plan.kind # "targeted"

(* process_library raises for item_errors and returns otherwise; a         *)
(* targeted job does not touch the scan state.                             *)
LibrarySucceeds == errors = {} /\ plan.kind # "targeted"

(* mark_library_scan_complete.                                             *)
CompleteLibrary ==
  /\ phase = "complete"
  /\ scan' = IF LibrarySucceeds
             THEN [done |-> IF plan.kind = "full" THEN now ELSE scan.done,
                   conf |-> plan.conf]
             ELSE scan
  /\ phase' = "flush" /\ LeaveLibrary
  /\ UNCHANGED <<world, faults, out, rows, retry, mem>>

(* flush_cache in the finally block of run_metafusion_job.                 *)
FlushCache ==
  /\ phase = "flush"
  /\ rows' = mem
  /\ EndJob
  /\ UNCHANGED <<world, faults, out, retry, scan>>

FlushFails == phase = "flush" /\ Fault /\ EndJob /\ UNCHANGED <<world, durable>>

-----------------------------------------------------------------------------
(* A stop signal cancels the job's task.  What a cancelled step leaves     *)
(* behind depends on where it was: items being evaluated record a          *)
(* transient failure, items still queued stay running, the loop over the   *)
(* markers has done a part of its work.  The cache is flushed either way.  *)
CancelJob ==
  /\ phase \notin {"idle", "flush"} /\ Fault
  /\ phase' = "flush" /\ LeaveLibrary
  /\ retry' = [i \in Items |-> IF i \in busy
                               THEN Failed(retry[i], plan.seen[i], "transient", now)
                               ELSE retry[i]]
  /\ IF phase = "record" THEN \E S \in SUBSET ok : mem' = Recorded(S)
                         ELSE mem' = mem
  /\ UNCHANGED <<world, out, rows, scan>>

(* The process is killed, by the shutdown watchdog or from outside.        *)
Crash == phase # "idle" /\ Fault /\ EndJob /\ UNCHANGED <<world, durable>>

-----------------------------------------------------------------------------
(* The world around the job.                                               *)

(* A user or the Plex scanner changes an item.                             *)
PlexEdit(i) ==
  /\ marker[i] < MaxMarker[i]
  /\ marker' = [marker EXCEPT ![i] = @ + 1]
  /\ ver' = [ver EXCEPT ![i] = @ + 1]
  /\ UNCHANGED <<conf, now, faults, durable, phase, plan, mem, todo, lane, results>>

(* A new configuration fingerprint, never an earlier one again.            *)
ChangeConf ==
  /\ conf < MaxConf /\ conf' = conf + 1
  /\ UNCHANGED <<marker, ver, now, faults, durable, phase, plan, mem, todo, lane,
                 results>>

(* Time does not end at MaxNow: the clock stays there, and what is on      *)
(* record becomes older instead.  What is older than MaxNow - 1 ticks      *)
(* stays so.                                                               *)
Older(t) == IF t > 1 THEN t - 1 ELSE t

Tick ==
  /\ \/ now < MaxNow /\ now' = now + 1 /\ UNCHANGED <<retry, scan>>
     \/ /\ now >= MaxNow /\ now' = now
        /\ retry' = [i \in Items |-> [retry[i] EXCEPT !.next = Older(@)]]
        /\ scan' = [scan EXCEPT !.done = Older(@)]
  /\ UNCHANGED <<marker, ver, conf, faults, out, rows, phase, plan, mem, todo, lane,
                 results>>

-----------------------------------------------------------------------------
(* Steps a running job takes by itself.                                    *)
JobStep ==
  \/ PlanLibrary \/ PreloadRefused \/ PreloadDone
  \/ \E i \in Items : StartItem(i) \/ RejectItem(i) \/ ProcessOk(i)
  \/ WriteOutput \/ RecordMarkers \/ ClearRetries \/ CompleteLibrary \/ FlushCache

(* Steps nothing obliges the job to take.                                  *)
JobChance ==
  \/ \E i \in Items : \/ PreloadFails(i) \/ PlexWrites(i)
                      \/ ProcessDefers(i) \/ ProcessRaises(i)
  \/ PreloadRaises \/ OutputFails \/ FlushFails \/ CancelJob \/ Crash

Environment ==
  \/ BeginForced \/ BeginTargeted
  \/ \E i \in Items : PlexEdit(i)
  \/ ChangeConf \/ Tick

Next == BeginScheduled \/ JobStep \/ JobChance \/ Environment

Spec == Init /\ [][Next]_vars

(* A job that is running goes on, time passes, and the schedule comes      *)
(* round again no matter how many jobs the operator starts in between.     *)
FairSpec == Spec /\ WF_vars(JobStep) /\ WF_vars(Tick) /\ SF_vars(BeginScheduled)

-----------------------------------------------------------------------------
(* Properties                                                              *)

(* Every variable has its type; an item is queued, in flight or done, at   *)
(* most one of them, and only an item in flight has been written.          *)
TypeOK ==
  /\ marker \in [Items -> Nat] /\ ver \in [Items -> Nat]
  /\ conf \in Nat /\ now \in Nat /\ faults \in 0 .. MaxFaults
  /\ out \in [Items -> Output] /\ rows \in [Items -> Row]
  /\ retry \in [Items -> RetryRow] /\ scan \in [done : Nat, conf : Nat]
  /\ phase \in Phases /\ plan \in Plan /\ mem \in [Items -> Row]
  /\ todo \subseteq Items /\ busy \subseteq Items /\ written \subseteq busy
  /\ streak \in 0 .. Threshold
  /\ ok \subseteq Items /\ errors \subseteq Items /\ recMark \in [Items -> Nat]
  /\ todo \cap busy = {} /\ (todo \cup busy) \cap (ok \cup errors) = {}
  /\ ok \cap errors = {}

(* RUN_MODE=kometa: the media-state row of an item, in SQLite or pending   *)
(* in the running job's cache, never claims an update marker or a          *)
(* configuration that the written YAML is behind of, whatever fails        *)
(* between process_item, write_kometa_metadata and flush_cache.            *)
RecordedIsOutput ==
  \A i \in Items : \A row \in {rows[i], mem[i]} :
    row.mark <= out[i].ver /\ row.conf <= out[i].conf

(* docs/operations.md, "Incremental and full scans": between jobs an item  *)
(* whose output does not show its latest edit under the latest             *)
(* configuration is one the next scheduled job selects.                    *)
AppliedOrSelectable ==
  phase = "idle" =>
    \A i \in Items : out[i] = [ver |-> ver[i], conf |-> conf] \/ WouldSelect(i)

(* clear_item_retries: a row of the retry queue disappears only when the   *)
(* output of the evaluation that succeeded is already written, so that no  *)
(* kill between the two can lose the item.                                 *)
RetryClearedWhenOutput ==
  [][\A i \in Items :
       retry[i].status # "none" /\ retry'[i].status = "none"
         => out[i] = Evaluated(i)]_vars

(* mark_library_scan_complete: a full scan is marked complete only when    *)
(* every item of the inventory was output as the scan saw it or waits in   *)
(* the retry queue with a recorded failure.                                *)
CertifiedFullScan ==
  [][scan' # scan /\ phase' # phase /\ plan.kind = "full" =>
       \A i \in Items :
         \/ out[i] = Evaluated(i)
         \/ /\ retry[i].status \in {"pending", "parked"}
            /\ retry[i].mark = plan.seen[i]]_vars

(* process_item's reload: when the marker about to be recorded is not the  *)
(* one Plex has, somebody else edited the item since the inventory; the    *)
(* job's own writes never cause another selection.                         *)
OwnWriteRecorded ==
  phase \in {"record", "clear"} =>
    \A i \in ok : recMark[i] = marker[i] \/ ver[i] # plan.ver[i]

(* Once failures stop, an item that can be processed shows its latest edit *)
(* under the latest configuration in the end, whatever jobs the operator   *)
(* adds and whichever item fails every time.  An edit that the job's own   *)
(* write has hidden in direct Plex mode waits for the next full scan.      *)
Converges ==
  \A i \in Items \ Stubborn :
    out[i] # [ver |-> ver[i], conf |-> conf]
      ~> out[i] = [ver |-> ver[i], conf |-> conf]
=============================================================================
