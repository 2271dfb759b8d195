----------------------- MODULE IncrementalJob_proofs -----------------------
(***************************************************************************)
(* Proofs about IncrementalJob for every library, worker count, threshold, *)
(* back-off and interval.                                                  *)
(***************************************************************************)
EXTENDS IncrementalJob, TLAPS

(* Before planning and after process_library has left, there are no        *)
(* results; this makes TypeOK inductive.                                   *)
Quiet ==
  phase \in {"idle", "listed", "flush"} =>
    todo = {} /\ busy = {} /\ ok = {} /\ errors = {}

TypeInv == TypeOK /\ Quiet

-----------------------------------------------------------------------------
(* The rows of the retry queue                                             *)

LEMMA NoRetryType == NoRetry \in RetryRow
BY DelaysAssumption DEF NoRetry, RetryRow, Statuses, AttemptCap

LEMMA StartedType ==
  ASSUME NEW row \in RetryRow, NEW mark \in Nat
  PROVE  Started(row, mark) \in RetryRow
BY DelaysAssumption DEF Started, RetryRow, Statuses, AttemptCap

LEMMA FailedType ==
  ASSUME NEW row \in RetryRow, NEW mark \in Nat, NEW class \in FailureClasses,
         NEW t \in Nat
  PROVE  Failed(row, mark, class, t) \in RetryRow
<1>. DEFINE n == AttemptsAfter(row, mark)
<1>1. Len(Delays) \in Nat /\ Len(Delays) > 0
  BY DelaysAssumption
<1>2. n \in 1 .. AttemptCap
  BY <1>1 DEF AttemptsAfter, RetryRow, AttemptCap
<1>3. CASE class = "permanent" \/ n > Len(Delays)
  BY <1>1, <1>2, <1>3 DEF Failed, RetryRow, Statuses, AttemptCap
<1>4. CASE ~(class = "permanent" \/ n > Len(Delays))
  <2>1. n \in 1 .. Len(Delays)
    BY <1>1, <1>2, <1>4 DEF AttemptCap
  <2>2. Delays[n] \in Nat
    BY <2>1, DelaysAssumption
  <2>. QED
    BY <1>1, <1>2, <1>4, <2>2 DEF Failed, RetryRow, Statuses, AttemptCap
<1>. QED
  BY <1>3, <1>4

(* record_item_failure leaves a row behind.                                *)
LEMMA FailedStatus ==
  ASSUME NEW row, NEW mark, NEW class, NEW t
  PROVE  Failed(row, mark, class, t).status # "none"
BY DEF Failed

LEMMA RecordFailureType ==
  ASSUME TypeOK, NEW i \in Items, NEW class \in FailureClasses,
         RecordFailure(i, class)
  PROVE  retry' \in [Items -> RetryRow]
BY FailedType DEF TypeOK, Plan, RecordFailure

LEMMA LeaveLibraryType ==
  ASSUME LeaveLibrary
  PROVE  /\ plan' \in Plan /\ todo' = {} /\ busy' = {} /\ written' = {}
         /\ streak' = 0 /\ ok' = {} /\ errors' = {} /\ recMark' \in [Items -> Nat]
BY DEF LeaveLibrary, NoPlan, Plan, Kinds

-----------------------------------------------------------------------------
(* Type correctness                                                        *)

LEMMA TypeInit == Init => TypeInv
BY JobAssumption, NoRetryType
DEF Init, TypeInv, TypeOK, Quiet, Output, NoOutput, Row, NoRow, Phases, Plan,
    NoPlan, Kinds

LEMMA BeginType ==
  ASSUME TypeInv, NEW k \in Kinds, NEW S \in SUBSET Items, Begin(k, S)
  PROVE  TypeInv'
BY DEF Begin, TypeInv, TypeOK, Quiet, Plan, Phases, world, durable, lane

LEMMA PlanType ==
  ASSUME TypeInv, PlanLibrary
  PROVE  TypeInv'
<1>1. todo' \subseteq Items
  BY DEF PlanLibrary, Planned, TypeInv, TypeOK, Plan
<1>2. retry' \in [Items -> RetryRow]
  BY <1>1, StartedType DEF PlanLibrary, TypeInv, TypeOK, Plan
<1>. QED
  BY <1>1, <1>2 DEF PlanLibrary, TypeInv, TypeOK, Quiet, Phases, world, lane,
                    results

LEMMA PreloadType ==
  ASSUME TypeInv,
         \/ \E i \in Items : PreloadFails(i)
         \/ PreloadRefused \/ PreloadRaises \/ PreloadDone
  PROVE  TypeInv'
<1>1. ASSUME NEW i \in Items, PreloadFails(i) PROVE TypeInv'
  <2>1. retry' \in [Items -> RetryRow]
    BY <1>1, RecordFailureType DEF PreloadFails, TypeInv
  <2>2. faults' \in 0 .. MaxFaults
    BY <1>1, JobAssumption DEF PreloadFails, ItemFault, Fault, TypeInv, TypeOK
  <2>. QED
    BY <1>1, <2>1, <2>2 DEF PreloadFails, TypeInv, TypeOK, Quiet, world, lane
<1>2. ASSUME AbortLibrary, faults' \in 0 .. MaxFaults PROVE TypeInv'
  <2>1. LeaveLibrary
    BY <1>2 DEF AbortLibrary
  <2>2. /\ plan' \in Plan /\ todo' = {} /\ busy' = {} /\ written' = {}
        /\ streak' = 0 /\ ok' = {} /\ errors' = {} /\ recMark' \in [Items -> Nat]
    BY <2>1, LeaveLibraryType
  <2>. QED
    BY <1>2, <2>2, JobAssumption
    DEF AbortLibrary, TypeInv, TypeOK, Quiet, Phases, world, durable
<1>3. CASE PreloadRefused
  BY <1>2, <1>3 DEF PreloadRefused, TypeInv, TypeOK
<1>4. CASE PreloadRaises
  BY <1>2, <1>4, JobAssumption DEF PreloadRaises, Fault, TypeInv, TypeOK
<1>5. CASE PreloadDone
  BY <1>5 DEF PreloadDone, TypeInv, TypeOK, Quiet, Phases, world, durable, lane,
              results
<1>. QED
  BY <1>1, <1>3, <1>4, <1>5

LEMMA WorkType ==
  ASSUME TypeInv, NEW i \in Items,
         \/ StartItem(i) \/ RejectItem(i) \/ PlexWrites(i)
         \/ ProcessOk(i) \/ ProcessDefers(i) \/ ProcessRaises(i)
  PROVE  TypeInv'
<1>1. CASE StartItem(i)
  BY <1>1 DEF StartItem, TypeInv, TypeOK, Quiet, world, durable, results
<1>2. CASE RejectItem(i)
  BY <1>2 DEF RejectItem, TypeInv, TypeOK, Quiet, world, durable, lane
<1>3. CASE PlexWrites(i)
  BY <1>3 DEF PlexWrites, TypeInv, TypeOK, Quiet, durable, results
<1>4. CASE ProcessOk(i)
  <2>1. streak' \in 0 .. Threshold
    BY <1>4, JobAssumption DEF ProcessOk, LaneSucceeds
  <2>2. out' \in [Items -> Output]
    BY <1>4 DEF ProcessOk, Evaluated, Output, TypeInv, TypeOK, Plan
  <2>3. recMark' \in [Items -> Nat]
    BY <1>4 DEF ProcessOk, Reload, TypeInv, TypeOK
  <2>. QED
    BY <1>4, <2>1, <2>2, <2>3
    DEF ProcessOk, LeaveLane, TypeInv, TypeOK, Quiet, world
<1>5. CASE ProcessDefers(i)
  <2>1. streak' \in 0 .. Threshold
    BY <1>5, JobAssumption DEF ProcessDefers, LaneSucceeds
  <2>2. retry' \in [Items -> RetryRow]
    BY <1>5, RecordFailureType DEF ProcessDefers, TypeInv
  <2>3. recMark' \in [Items -> Nat]
    BY <1>5 DEF ProcessDefers, Reload, TypeInv, TypeOK
  <2>4. faults' \in 0 .. MaxFaults
    BY <1>5, JobAssumption DEF ProcessDefers, ItemFault, Fault, TypeInv, TypeOK
  <2>. QED
    BY <1>5, <2>1, <2>2, <2>3, <2>4
    DEF ProcessDefers, LeaveLane, TypeInv, TypeOK, Quiet, world
<1>6. CASE ProcessRaises(i)
  <2>1. streak' \in 0 .. Threshold
    BY <1>6, JobAssumption DEF ProcessRaises, LaneFails, TypeInv, TypeOK
  <2>2. retry' \in [Items -> RetryRow]
    BY <1>6, RecordFailureType DEF ProcessRaises, TypeInv
  <2>3. faults' \in 0 .. MaxFaults
    BY <1>6, JobAssumption DEF ProcessRaises, ItemFault, Fault, TypeInv, TypeOK
  <2>. QED
    BY <1>6, <2>1, <2>2, <2>3
    DEF ProcessRaises, LeaveLane, TypeInv, TypeOK, Quiet, world
<1>. QED
  BY <1>1, <1>2, <1>3, <1>4, <1>5, <1>6

LEMMA LeaveType ==
  ASSUME TypeInv, LeaveLibrary, phase' \in Phases,
         UNCHANGED world, faults' \in 0 .. MaxFaults,
         out' = out, rows' \in [Items -> Row], retry' \in [Items -> RetryRow],
         scan' \in [done : Nat, conf : Nat], mem' \in [Items -> Row]
  PROVE  TypeInv'
<1>1. /\ plan' \in Plan /\ todo' = {} /\ busy' = {} /\ written' = {}
      /\ streak' = 0 /\ ok' = {} /\ errors' = {} /\ recMark' \in [Items -> Nat]
  BY LeaveLibraryType
<1>. QED
  BY <1>1, JobAssumption DEF TypeInv, TypeOK, Quiet, world

LEMMA RecordedType ==
  ASSUME TypeOK, NEW S
  PROVE  Recorded(S) \in [Items -> Row]
BY DEF Recorded, Row, TypeOK, Plan

LEMMA FinishType ==
  ASSUME TypeInv,
         \/ WriteOutput \/ OutputFails \/ RecordMarkers \/ ClearRetries
         \/ CompleteLibrary \/ FlushCache \/ FlushFails \/ CancelJob \/ Crash
  PROVE  TypeInv'
<1>. USE DEF TypeInv
<1>1. Fault => faults' \in 0 .. MaxFaults
  BY JobAssumption DEF Fault, TypeOK
<1>2. {"idle", "flush"} \subseteq Phases /\ NoRow \in Row
  BY DEF Phases, NoRow, Row
<1>3. CASE WriteOutput
  <2>1. out' \in [Items -> Output]
    BY <1>3 DEF WriteOutput, Evaluated, Output, TypeOK, Plan
  <2>. QED
    BY <1>3, <2>1 DEF WriteOutput, TypeOK, Quiet, Phases, world, lane, results
<1>4. CASE OutputFails
  BY <1>1, <1>2, <1>4, LeaveType DEF OutputFails, AbortLibrary, TypeOK, durable
<1>5. CASE RecordMarkers
  BY <1>5, RecordedType
  DEF RecordMarkers, TypeOK, Quiet, Phases, world, durable, lane, results
<1>6. CASE ClearRetries
  <2>1. retry' \in [Items -> RetryRow]
    BY <1>6, NoRetryType DEF ClearRetries, Cleared, TypeOK
  <2>. QED
    BY <1>6, <2>1 DEF ClearRetries, TypeOK, Quiet, Phases, world, lane, results
<1>7. CASE CompleteLibrary
  <2>1. scan' \in [done : Nat, conf : Nat]
    BY <1>7 DEF CompleteLibrary, TypeOK, Plan
  <2>. QED
    BY <1>2, <1>7, <2>1, LeaveType DEF CompleteLibrary, TypeOK
<1>8. CASE FlushCache
  BY <1>2, <1>8, LeaveType DEF FlushCache, EndJob, TypeOK
<1>9. CASE FlushFails
  BY <1>1, <1>2, <1>9, LeaveType DEF FlushFails, EndJob, TypeOK, durable
<1>10. CASE CancelJob
  <2>1. retry' \in [Items -> RetryRow]
    BY <1>10, FailedType DEF CancelJob, FailureClasses, TypeOK, Plan
  <2>2. mem' \in [Items -> Row]
    BY <1>10, RecordedType DEF CancelJob, TypeOK
  <2>. QED
    BY <1>1, <1>2, <1>10, <2>1, <2>2, LeaveType DEF CancelJob, TypeOK
<1>11. CASE Crash
  BY <1>1, <1>2, <1>11, LeaveType DEF Crash, EndJob, TypeOK, durable
<1>. QED
  BY <1>3, <1>4, <1>5, <1>6, <1>7, <1>8, <1>9, <1>10, <1>11

(* Time passing makes what is on record older and changes nothing else.    *)
LEMMA TickKeeps ==
  ASSUME TypeOK, Tick
  PROVE  /\ now' \in Nat /\ retry' \in [Items -> RetryRow]
         /\ scan' \in [done : Nat, conf : Nat]
         /\ \A i \in Items : /\ retry'[i].status = retry[i].status
                            /\ retry'[i].mark = retry[i].mark
         /\ UNCHANGED <<marker, ver, conf, faults, out, rows, phase, plan, mem, todo,
                        lane, results>>
<1>1. \A t \in Nat : Older(t) \in Nat
  BY DEF Older
<1>2. CASE now' = now + 1 /\ UNCHANGED <<retry, scan>>
  BY <1>2 DEF Tick, TypeOK
<1>3. CASE /\ now' = now
           /\ retry' = [i \in Items |-> [retry[i] EXCEPT !.next = Older(@)]]
           /\ scan' = [scan EXCEPT !.done = Older(@)]
  <2>1. ASSUME NEW i \in Items
        PROVE  /\ retry'[i] \in RetryRow
               /\ retry'[i].status = retry[i].status
               /\ retry'[i].mark = retry[i].mark
    <3>1. retry[i] \in RetryRow
      BY DEF TypeOK
    <3>2. retry'[i] = [retry[i] EXCEPT !.next = Older(retry[i].next)]
      BY <1>3, <3>1 DEF RetryRow
    <3>. QED
      BY <1>1, <3>1, <3>2 DEF RetryRow
  <2>2. retry' \in [Items -> RetryRow]
    BY <1>3, <2>1
  <2>3. scan' \in [done : Nat, conf : Nat]
    BY <1>1, <1>3 DEF TypeOK
  <2>. QED
    BY <1>3, <2>1, <2>2, <2>3 DEF Tick, TypeOK
<1>. QED
  BY <1>2, <1>3 DEF Tick

LEMMA WorldType ==
  ASSUME TypeInv, ChangeConf \/ Tick \/ \E i \in Items : PlexEdit(i)
  PROVE  TypeInv'
<1>1. CASE Tick
  BY <1>1, TickKeeps DEF TypeInv, TypeOK, Quiet, lane, results
<1>2. CASE ChangeConf \/ \E i \in Items : PlexEdit(i)
  BY <1>2 DEF TypeInv, TypeOK, Quiet, ChangeConf, PlexEdit, durable, lane, results
<1>. QED
  BY <1>1, <1>2

(* Next split into the groups of actions the lemmas are about.             *)
LEMMA NextCases ==
  ASSUME Next
  PROVE  \/ \E k \in Kinds, S \in SUBSET Items : Begin(k, S)
         \/ PlanLibrary
         \/ \E i \in Items : PreloadFails(i)
         \/ PreloadRefused \/ PreloadRaises \/ PreloadDone
         \/ \E i \in Items : \/ StartItem(i) \/ RejectItem(i) \/ PlexWrites(i)
                             \/ ProcessOk(i) \/ ProcessDefers(i)
                             \/ ProcessRaises(i)
         \/ WriteOutput \/ OutputFails \/ RecordMarkers \/ ClearRetries
         \/ CompleteLibrary \/ FlushCache \/ FlushFails \/ CancelJob \/ Crash
         \/ ChangeConf \/ Tick \/ \E i \in Items : PlexEdit(i)
<1>1. BeginScheduled \/ BeginForced \/ BeginTargeted
        => \E k \in Kinds, S \in SUBSET Items : Begin(k, S)
  BY DEF BeginScheduled, BeginForced, BeginTargeted, Kinds
<1>. QED
  BY <1>1 DEF Next, JobStep, JobChance, Environment

LEMMA TypeStep == TypeInv /\ [Next]_vars => TypeInv'
<1>. SUFFICES ASSUME TypeInv, [Next]_vars PROVE TypeInv'
  OBVIOUS
<1>1. CASE Next
  BY <1>1, NextCases, BeginType, PlanType, PreloadType, WorkType, FinishType,
     WorldType
<1>2. CASE UNCHANGED vars
  BY <1>2 DEF vars, world, durable, lane, results, TypeInv, TypeOK, Quiet
<1>. QED
  BY <1>1, <1>2

LEMMA TypeAlways == Spec => []TypeInv
BY TypeInit, TypeStep, PTL DEF Spec

(* Every reachable state is typed, and an item is never in two places at   *)
(* once: queued, in flight, successful or failed.                          *)
THEOREM TypeCorrect == Spec => []TypeOK
<1>1. TypeInv => TypeOK
  BY DEF TypeInv
<1>. QED
  BY <1>1, TypeAlways, PTL

-----------------------------------------------------------------------------
(* The retry queue gives up an item only when its output exists            *)

(* What an item in ok stands for: the YAML has been written, or Plex has   *)
(* taken the values as each item finished.                                 *)
OkIsOutput ==
  /\ phase = "preload" => ok = {}
  /\ phase \in {"record", "clear", "complete"} \/ (PlexMode /\ phase = "work")
       => \A i \in ok : out[i] = Evaluated(i)

LEMMA OkInit == Init => OkIsOutput
BY DEF Init, OkIsOutput

LEMMA OkLeave ==
  ASSUME LeaveLibrary, phase' \in {"idle", "flush"}
  PROVE  OkIsOutput'
BY DEF LeaveLibrary, OkIsOutput

LEMMA OkStep == TypeInv /\ OkIsOutput /\ [Next]_vars => OkIsOutput'
<1>. SUFFICES ASSUME TypeInv, OkIsOutput, [Next]_vars PROVE OkIsOutput'
  OBVIOUS
<1>. USE DEF OkIsOutput, Evaluated
<1>1. ASSUME NEW k \in Kinds, NEW S \in SUBSET Items, Begin(k, S)
      PROVE  OkIsOutput'
  BY <1>1 DEF Begin
<1>2. CASE PlanLibrary
  BY <1>2 DEF PlanLibrary, TypeInv, Quiet, results
<1>3. ASSUME NEW i \in Items, PreloadFails(i) PROVE OkIsOutput'
  BY <1>3 DEF PreloadFails
<1>4. CASE PreloadRefused \/ PreloadRaises \/ OutputFails
  BY <1>4, OkLeave DEF PreloadRefused, PreloadRaises, OutputFails, AbortLibrary
<1>5. CASE PreloadDone
  BY <1>5 DEF PreloadDone, results
<1>6. ASSUME NEW i \in Items, StartItem(i) \/ RejectItem(i) \/ PlexWrites(i)
      PROVE  OkIsOutput'
  BY <1>6 DEF StartItem, RejectItem, PlexWrites, durable, results
<1>7. ASSUME NEW i \in Items, ProcessOk(i) PROVE OkIsOutput'
  <2>1. phase' = "work" /\ ok' = ok \cup {i} /\ plan' = plan
    BY <1>7 DEF ProcessOk
  <2>2. CASE PlexMode
    BY <1>7, <2>1, <2>2 DEF ProcessOk, TypeInv, TypeOK
  <2>3. CASE ~PlexMode
    BY <2>1, <2>3
  <2>. QED
    BY <2>2, <2>3
<1>8. ASSUME NEW i \in Items, ProcessDefers(i) \/ ProcessRaises(i)
      PROVE  OkIsOutput'
  BY <1>8 DEF ProcessDefers, ProcessRaises
<1>9. CASE WriteOutput
  BY <1>9 DEF WriteOutput, TypeInv, TypeOK, results
<1>10. CASE RecordMarkers \/ ClearRetries
  BY <1>10 DEF RecordMarkers, ClearRetries, durable, results
<1>11. CASE CompleteLibrary \/ FlushCache \/ FlushFails \/ CancelJob \/ Crash
  BY <1>11, OkLeave
  DEF CompleteLibrary, FlushCache, FlushFails, CancelJob, Crash, EndJob
<1>12. CASE ChangeConf \/ Tick \/ \E i \in Items : PlexEdit(i)
  BY <1>12, TickKeeps DEF ChangeConf, PlexEdit, durable, results, TypeInv
<1>13. CASE UNCHANGED vars
  BY <1>13 DEF vars, durable, results
<1>. QED
  BY <1>1, <1>2, <1>3, <1>4, <1>5, <1>6, <1>7, <1>8, <1>9, <1>10, <1>11, <1>12,
     <1>13, NextCases

LEMMA OkAlways == Spec => [](TypeInv /\ OkIsOutput)
BY TypeInit, TypeStep, OkInit, OkStep, PTL DEF Spec

(* Every step that removes a retry row belongs to clear_item_retries.      *)
LEMMA ClearStep ==
  ASSUME TypeInv, OkIsOutput, [Next]_vars, NEW i \in Items,
         retry[i].status # "none", retry'[i].status = "none"
  PROVE  out[i] = Evaluated(i)
<1>1. \A row, mark : Started(row, mark).status # "none"
  BY DEF Started
<1>2. ASSUME NEW j \in Items, NEW class, RecordFailure(j, class) PROVE FALSE
  BY <1>2, FailedStatus DEF RecordFailure, TypeInv, TypeOK
<1>3. CASE PlanLibrary
  BY <1>1, <1>3 DEF PlanLibrary
<1>4. CASE CancelJob
  BY <1>4, FailedStatus DEF CancelJob
<1>5. CASE ClearRetries
  <2>1. i \in ok
    BY <1>5 DEF ClearRetries, Cleared
  <2>. QED
    BY <1>5, <2>1 DEF ClearRetries, OkIsOutput
<1>6. CASE \E j \in Items : PreloadFails(j) \/ ProcessDefers(j) \/ ProcessRaises(j)
  BY <1>2, <1>6 DEF PreloadFails, ProcessDefers, ProcessRaises
<1>7. CASE UNCHANGED retry \/ Tick
  BY <1>7, TickKeeps DEF TypeInv
<1>8. \/ PlanLibrary \/ CancelJob \/ ClearRetries \/ UNCHANGED retry \/ Tick
      \/ \E j \in Items : PreloadFails(j) \/ ProcessDefers(j) \/ ProcessRaises(j)
  <2>. DEFINE Touches == \E j \in Items :
                PreloadFails(j) \/ ProcessDefers(j) \/ ProcessRaises(j)
  <2>1. ASSUME Next
        PROVE  \/ PlanLibrary \/ CancelJob \/ ClearRetries \/ UNCHANGED retry
               \/ Tick \/ Touches
    BY <2>1, NextCases
    DEF Begin, PreloadRefused, PreloadRaises, PreloadDone, StartItem, RejectItem,
        PlexWrites, ProcessOk, WriteOutput, OutputFails, AbortLibrary,
        RecordMarkers, CompleteLibrary, FlushCache, FlushFails, Crash, ChangeConf,
        PlexEdit, durable
  <2>. QED
    BY <2>1 DEF vars, durable
<1>. QED
  BY <1>3, <1>4, <1>5, <1>6, <1>7, <1>8

(* In both modes, for every interleaving of edits, failures, cancellations *)
(* and kills: an item leaves the retry queue only when its evaluation has  *)
(* been output.                                                            *)
THEOREM RetryCleared == Spec => RetryClearedWhenOutput
<1>1. TypeInv /\ OkIsOutput /\ [Next]_vars
        => [\A i \in Items :
              retry[i].status # "none" /\ retry'[i].status = "none"
                => out[i] = Evaluated(i)]_vars
  BY ClearStep
<1>. QED
  BY <1>1, OkAlways, PTL DEF Spec, RetryClearedWhenOutput

-----------------------------------------------------------------------------
(* What a completed full scan says of every item                           *)

(* The item failed or was put off, and its row in the retry queue is of    *)
(* the marker the scan saw.                                                *)
Deferred(i) ==
  retry[i].status \in {"pending", "parked"} /\ retry[i].mark = plan.seen[i]

(* A full scan loses no item: it is queued, in a worker, evaluated, failed *)
(* or put off.                                                             *)
FullInv ==
  plan.kind = "full" =>
    /\ phase = "listed" => plan.wanted = Items
    /\ phase \in {"preload", "work", "record", "clear", "complete"}
         => \A i \in Items : i \in todo \cup busy \cup ok \cup errors \/ Deferred(i)
    /\ phase \in {"record", "clear", "complete"} => todo = {} /\ busy = {}

LEMMA FailedDefers ==
  ASSUME TypeOK, NEW i \in Items, NEW class \in FailureClasses, RecordFailure(i, class),
         plan' = plan
  PROVE  Deferred(i)' /\ \A j \in Items : Deferred(j) => Deferred(j)'
BY DEF RecordFailure, Failed, Deferred, TypeOK

LEMMA FullLeave ==
  ASSUME LeaveLibrary
  PROVE  FullInv'
BY DEF LeaveLibrary, NoPlan, FullInv

(* A full scan is planned over the whole library.                          *)
LEMMA FullBegin ==
  ASSUME BeginScheduled \/ BeginForced \/ BeginTargeted
  PROVE  FullInv'
<1>1. PICK k, S : Begin(k, S) /\ (k = "full" => S = Items)
  BY DEF BeginScheduled, BeginForced, BeginTargeted
<1>. QED
  BY <1>1 DEF Begin, FullInv

LEMMA FullStep == TypeInv /\ FullInv /\ [Next]_vars => FullInv'
<1>. SUFFICES ASSUME TypeInv, FullInv, [Next]_vars PROVE FullInv'
  OBVIOUS
<1>1. CASE BeginScheduled \/ BeginForced \/ BeginTargeted
  BY <1>1, FullBegin
<1>2. CASE PlanLibrary
  BY <1>2 DEF PlanLibrary, Planned, FullInv, world, lane, results
<1>3. ASSUME NEW i \in Items, PreloadFails(i) \/ ProcessDefers(i) \/ ProcessRaises(i)
      PROVE  FullInv'
  <2>1. \E class \in FailureClasses : RecordFailure(i, class)
    BY <1>3 DEF PreloadFails, ProcessDefers, ProcessRaises
  <2>2. plan' = plan
    BY <1>3 DEF PreloadFails, ProcessDefers, ProcessRaises
  <2>3. Deferred(i)' /\ \A j \in Items : Deferred(j) => Deferred(j)'
    BY <2>1, <2>2, FailedDefers DEF TypeInv
  <2>4. /\ todo \cup busy \cup ok \cup errors
             \subseteq (todo \cup busy \cup ok \cup errors \cup {i})'
        /\ todo' \subseteq todo /\ busy' \subseteq busy /\ phase' = phase
        /\ phase \in {"preload", "work"}
    BY <1>3 DEF PreloadFails, ProcessDefers, ProcessRaises, LeaveLane, lane
  <2>5. ASSUME plan.kind = "full", NEW j \in Items
        PROVE  j \in todo' \cup busy' \cup ok' \cup errors' \/ Deferred(j)'
    BY <2>3, <2>4, <2>5 DEF FullInv
  <2>. QED
    BY <2>2, <2>4, <2>5 DEF FullInv
<1>4. CASE PreloadRefused \/ PreloadRaises \/ OutputFails \/ CompleteLibrary
           \/ FlushCache \/ FlushFails \/ CancelJob \/ Crash
  BY <1>4, FullLeave
  DEF PreloadRefused, PreloadRaises, OutputFails, AbortLibrary, CompleteLibrary,
      FlushCache, FlushFails, CancelJob, Crash, EndJob
<1>5. ASSUME NEW i \in Items,
             StartItem(i) \/ RejectItem(i) \/ PlexWrites(i) \/ ProcessOk(i)
      PROVE  FullInv'
  BY <1>5 DEF StartItem, RejectItem, PlexWrites, ProcessOk, LeaveLane, durable, lane,
              results, FullInv, Deferred
<1>6. CASE PreloadDone \/ WriteOutput \/ RecordMarkers
  BY <1>6 DEF PreloadDone, WriteOutput, RecordMarkers, durable, lane, results, FullInv,
              Deferred
<1>7. CASE ClearRetries
  <2>1. \A i \in Items : Deferred(i) => i \in ok \/ Deferred(i)'
    BY <1>7 DEF ClearRetries, Cleared, Deferred
  <2>. QED
    BY <1>7, <2>1 DEF ClearRetries, lane, results, FullInv
<1>8. CASE ChangeConf \/ (\E i \in Items : PlexEdit(i)) \/ UNCHANGED vars
  BY <1>8 DEF ChangeConf, PlexEdit, durable, lane, results, vars, FullInv, Deferred
<1>9. CASE Tick
  BY <1>9, TickKeeps DEF TypeInv, lane, results, FullInv, Deferred
<1>. QED
  BY <1>1, <1>2, <1>3, <1>4, <1>5, <1>6, <1>7, <1>8, <1>9
  DEF Next, JobStep, JobChance, Environment

(* In both modes, for every library, lane and failure: a full scan that is *)
(* marked complete has output every item or left its failure in the queue. *)
THEOREM FullScansCertify == Spec => CertifiedFullScan
<1>1. Init => FullInv
  BY DEF Init, NoPlan, FullInv
<1>2. TypeInv /\ OkIsOutput /\ FullInv /\ [Next]_vars
        => [scan' # scan /\ phase' # phase /\ plan.kind = "full" =>
              \A i \in Items :
                \/ out[i] = Evaluated(i)
                \/ /\ retry[i].status \in {"pending", "parked"}
                   /\ retry[i].mark = plan.seen[i]]_vars
  <2>. SUFFICES ASSUME TypeInv, OkIsOutput, FullInv, Next, scan' # scan,
                       phase' # phase, plan.kind = "full", NEW i \in Items
                PROVE  out[i] = Evaluated(i) \/ Deferred(i)
    BY DEF Deferred
  <2>1. CompleteLibrary
    BY NextCases
    DEF Begin, PlanLibrary, PreloadFails, PreloadRefused, PreloadRaises, PreloadDone,
        StartItem, RejectItem, PlexWrites, ProcessOk, ProcessDefers, ProcessRaises,
        WriteOutput, OutputFails, AbortLibrary, RecordMarkers, ClearRetries, FlushCache,
        FlushFails, CancelJob, Crash, ChangeConf, Tick, PlexEdit, durable
  <2>2. phase = "complete" /\ errors = {}
    BY <2>1 DEF CompleteLibrary, LibrarySucceeds
  <2>3. i \in ok \/ Deferred(i)
    BY <2>2 DEF FullInv
  <2>. QED
    BY <2>2, <2>3 DEF OkIsOutput
<1>. QED
  BY <1>1, <1>2, FullStep, OkAlways, PTL DEF Spec, CertifiedFullScan

-----------------------------------------------------------------------------
(* Kometa mode: an item that is out of date is never forgotten             *)

(* A job runs with what Plex and the configuration were when it began, so  *)
(* what it records is at least as old as the world and at least as new as  *)
(* what earlier jobs wrote.                                                *)
OutputPast ==
  \A i \in Items : out[i].ver <= ver[i] /\ out[i].conf <= conf

JobPast ==
  phase \notin {"idle", "flush"} =>
    /\ plan.conf <= conf
    /\ \A i \in Items :
         /\ plan.seen[i] = plan.ver[i] /\ recMark[i] = plan.seen[i]
         /\ plan.ver[i] <= ver[i]
         /\ out[i].ver <= plan.ver[i] /\ out[i].conf <= plan.conf

KometaInv ==
  /\ marker = ver /\ written = {}
  /\ OutputPast /\ JobPast /\ RecordedIsOutput

LEMMA KometaInit == Init => KometaInv
BY DEF Init, KometaInv, OutputPast, JobPast, RecordedIsOutput, NoOutput, NoRow

(* process_library's end, with the cache it leaves: the rows it holds are  *)
(* covered by the output.                                                  *)
LEMMA KometaLeave ==
  ASSUME TypeInv, KometaInv, LeaveLibrary, phase' \in {"idle", "flush"},
         UNCHANGED <<world, out>>,
         \A i \in Items : \A row \in {rows'[i], mem'[i]} :
           row.mark <= out[i].ver /\ row.conf <= out[i].conf
  PROVE  KometaInv'
BY DEF LeaveLibrary, KometaInv, OutputPast, JobPast, RecordedIsOutput, world

(* The rows a job records are the ones its output was made from.           *)
LEMMA RecordedCovered ==
  ASSUME TypeInv, OkIsOutput, KometaInv, phase = "record", NEW S \in SUBSET ok,
         NEW i \in Items
  PROVE  Recorded(S)[i].mark <= out[i].ver /\ Recorded(S)[i].conf <= out[i].conf
<1>1. CASE i \in S
  <2>1. Recorded(S)[i] = [mark |-> plan.ver[i], conf |-> plan.conf]
    BY <1>1 DEF Recorded, KometaInv, JobPast
  <2>2. out[i] = [ver |-> plan.ver[i], conf |-> plan.conf]
    BY <1>1 DEF OkIsOutput, Evaluated
  <2>3. plan.ver[i] \in Nat /\ plan.conf \in Nat
    BY DEF TypeInv, TypeOK, Plan
  <2>. QED
    BY <2>1, <2>2, <2>3
<1>2. CASE i \notin S
  BY <1>2 DEF Recorded, KometaInv, RecordedIsOutput
<1>. QED
  BY <1>1, <1>2

LEMMA KometaStep ==
  ASSUME ~PlexMode
  PROVE  TypeInv /\ OkIsOutput /\ KometaInv /\ [Next]_vars => KometaInv'
<1>. SUFFICES ASSUME TypeInv, OkIsOutput, KometaInv, [Next]_vars PROVE KometaInv'
  OBVIOUS
<1>. DEFINE Covered(row, i) == row.mark <= out[i].ver /\ row.conf <= out[i].conf
<1>0. \A i \in Items : Covered(rows[i], i) /\ Covered(mem[i], i)
  BY DEF KometaInv, RecordedIsOutput
<1>1. \A i \in Items : Covered(NoRow, i)
  BY DEF NoRow, TypeInv, TypeOK, Output
<1>2. ASSUME NEW k \in Kinds, NEW S \in SUBSET Items, Begin(k, S)
      PROVE  KometaInv'
  BY <1>2 DEF Begin, KometaInv, OutputPast, JobPast, RecordedIsOutput, world,
              durable, lane, TypeInv, TypeOK
<1>3. CASE PlanLibrary \/ PreloadDone \/ ClearRetries
  BY <1>3 DEF PlanLibrary, PreloadDone, ClearRetries, KometaInv, OutputPast,
              JobPast, RecordedIsOutput, world, durable, lane, results
<1>4. ASSUME NEW i \in Items,
             PreloadFails(i) \/ StartItem(i) \/ RejectItem(i)
      PROVE  KometaInv'
  BY <1>4 DEF PreloadFails, StartItem, RejectItem, KometaInv, OutputPast, JobPast,
              RecordedIsOutput, world, durable, lane, results
<1>5. CASE PreloadRefused \/ PreloadRaises \/ OutputFails
  BY <1>0, <1>5, KometaLeave
  DEF PreloadRefused, PreloadRaises, OutputFails, AbortLibrary, durable, world
<1>6. ASSUME NEW i \in Items,
             \/ PlexWrites(i) \/ ProcessOk(i) \/ ProcessDefers(i)
             \/ ProcessRaises(i)
      PROVE  KometaInv'
  BY <1>6 DEF PlexWrites, ProcessOk, ProcessDefers, ProcessRaises, Reload,
              LeaveLane, KometaInv, OutputPast, JobPast, RecordedIsOutput, world
<1>7. CASE WriteOutput
  <2>1. \A i \in Items : /\ out'[i] \in {out[i], Evaluated(i)}
                         /\ out[i].ver <= plan.ver[i] /\ plan.ver[i] <= ver[i]
                         /\ out[i].conf <= plan.conf /\ plan.conf <= conf
    BY <1>7 DEF WriteOutput, KometaInv, JobPast, TypeInv, TypeOK
  <2>2. \A i \in Items : /\ out[i].ver \in Nat /\ out[i].conf \in Nat
                         /\ plan.ver[i] \in Nat /\ ver[i] \in Nat
                         /\ rows[i].mark \in Nat /\ rows[i].conf \in Nat
                         /\ mem[i].mark \in Nat /\ mem[i].conf \in Nat
    BY DEF TypeInv, TypeOK, Output, Row, Plan
  <2>3. \A i \in Items : /\ out[i].ver <= out'[i].ver /\ out[i].conf <= out'[i].conf
                         /\ out'[i].ver <= plan.ver[i] /\ out'[i].conf <= plan.conf
                         /\ out'[i].ver \in Nat /\ out'[i].conf \in Nat
    BY <2>1, <2>2 DEF Evaluated, TypeInv, TypeOK, Plan
  <2>4. OutputPast' /\ JobPast'
    BY <1>7, <2>1, <2>2, <2>3
    DEF WriteOutput, OutputPast, JobPast, KometaInv, world, lane, results, TypeInv,
        TypeOK, Plan
  <2>5. RecordedIsOutput'
    BY <1>0, <1>7, <2>2, <2>3 DEF WriteOutput, RecordedIsOutput
  <2>. QED
    BY <1>7, <2>4, <2>5 DEF WriteOutput, KometaInv, world, lane
<1>8. CASE RecordMarkers
  <2>1. RecordedIsOutput'
    BY <1>0, <1>8, RecordedCovered DEF RecordMarkers, RecordedIsOutput, durable
  <2>. QED
    BY <1>8, <2>1
    DEF RecordMarkers, KometaInv, OutputPast, JobPast, world, durable, lane, results
<1>9. CASE CompleteLibrary
  BY <1>0, <1>9, KometaLeave DEF CompleteLibrary, world
<1>10. CASE FlushCache \/ FlushFails \/ Crash
  <2>1. \A i \in Items : Covered(rows'[i], i) /\ Covered(mem'[i], i)
    BY <1>0, <1>1, <1>10 DEF FlushCache, FlushFails, Crash, EndJob, durable
  <2>. QED
    BY <1>10, <2>1, KometaLeave
    DEF FlushCache, FlushFails, Crash, EndJob, durable, world
<1>11. CASE CancelJob
  <2>1. \A i \in Items : Covered(rows'[i], i) /\ Covered(mem'[i], i)
    <3>1. CASE phase = "record"
      <4>1. PICK S \in SUBSET ok : mem' = Recorded(S)
        BY <1>11, <3>1 DEF CancelJob
      <4>. QED
        BY <1>0, <1>11, <3>1, <4>1, RecordedCovered DEF CancelJob
    <3>2. CASE phase # "record"
      BY <1>0, <1>11, <3>2 DEF CancelJob
    <3>. QED
      BY <3>1, <3>2
  <2>. QED
    BY <1>11, <2>1, KometaLeave DEF CancelJob, world
<1>12. ASSUME NEW i \in Items, PlexEdit(i) PROVE KometaInv'
  BY <1>12 DEF PlexEdit, KometaInv, OutputPast, JobPast, RecordedIsOutput, durable,
               lane, results, TypeInv, TypeOK, Output, Plan
<1>13. CASE ChangeConf \/ Tick
  BY <1>13, TickKeeps
  DEF ChangeConf, KometaInv, OutputPast, JobPast, RecordedIsOutput, durable, lane,
      results, TypeInv, TypeOK, Output, Plan
<1>14. CASE UNCHANGED vars
  BY <1>14 DEF vars, KometaInv, OutputPast, JobPast, RecordedIsOutput, world,
               durable, lane, results
<1>. QED
  BY <1>2, <1>3, <1>4, <1>5, <1>6, <1>7, <1>8, <1>9, <1>10, <1>11, <1>12, <1>13,
     <1>14, NextCases

LEMMA KometaAlways ==
  ASSUME ~PlexMode
  PROVE  Spec => [](TypeInv /\ OkIsOutput /\ KometaInv)
<1>1. Init => TypeInv /\ OkIsOutput /\ KometaInv
  BY TypeInit, OkInit, KometaInit
<1>2. TypeInv /\ OkIsOutput /\ KometaInv /\ [Next]_vars
        => (TypeInv /\ OkIsOutput /\ KometaInv)'
  BY TypeStep, OkStep, KometaStep
<1>. QED
  BY <1>1, <1>2, PTL DEF Spec

(* RUN_MODE=kometa: no row of media_state, durable or pending, is ahead of *)
(* the written YAML.                                                       *)
THEOREM KometaRecords ==
  ASSUME ~PlexMode
  PROVE  Spec => []RecordedIsOutput
<1>1. KometaInv => RecordedIsOutput
  BY DEF KometaInv
<1>. QED
  BY <1>1, KometaAlways, PTL

(* RUN_MODE=kometa: whatever fails, is cancelled or is killed, and whoever *)
(* edits Plex while a job runs, between jobs an out-of-date item is one    *)
(* the next scheduled job selects.                                         *)
THEOREM KometaSelects ==
  ASSUME ~PlexMode
  PROVE  Spec => []AppliedOrSelectable
<1>1. TypeInv /\ KometaInv => AppliedOrSelectable
  <2>. SUFFICES ASSUME TypeInv, KometaInv, NEW i \in Items, ~WouldSelect(i)
                PROVE  out[i] = [ver |-> ver[i], conf |-> conf]
    BY DEF AppliedOrSelectable
  <2>1. rows[i].mark = ver[i] /\ rows[i].conf = conf
    BY DEF WouldSelect, RowCurrent, KometaInv
  <2>2. /\ rows[i].mark <= out[i].ver /\ rows[i].conf <= out[i].conf
        /\ out[i].ver <= ver[i] /\ out[i].conf <= conf
    BY DEF KometaInv, RecordedIsOutput, OutputPast
  <2>3. out[i] \in Output /\ ver[i] \in Nat /\ conf \in Nat
    BY DEF TypeInv, TypeOK
  <2>4. out[i].ver = ver[i] /\ out[i].conf = conf
    BY <2>1, <2>2, <2>3 DEF Output
  <2>. QED
    BY <2>3, <2>4 DEF Output
<1>. QED
  BY <1>1, KometaAlways, PTL

-----------------------------------------------------------------------------
(* Plex mode: a job does not select an item again for its own write        *)

(* An item whose write has not been followed by a reload yet, or failed    *)
(* afterwards, is in written or in errors.                                 *)
OwnWriteInv ==
  phase \notin {"idle", "flush"} =>
    \A i \in Items :
      /\ plan.ver[i] <= ver[i]
      /\ i \notin written \cup errors /\ ver[i] = plan.ver[i]
           => recMark[i] = marker[i]

LEMMA OwnWriteStep == TypeInv /\ OwnWriteInv /\ [Next]_vars => OwnWriteInv'
<1>. SUFFICES ASSUME TypeInv, OwnWriteInv, [Next]_vars PROVE OwnWriteInv'
  OBVIOUS
<1>. USE DEF OwnWriteInv
<1>1. ASSUME NEW k \in Kinds, NEW S \in SUBSET Items, Begin(k, S)
      PROVE  OwnWriteInv'
  BY <1>1 DEF Begin, world, TypeInv, TypeOK
<1>2. CASE PlanLibrary \/ PreloadDone \/ WriteOutput \/ RecordMarkers \/ ClearRetries
  BY <1>2 DEF PlanLibrary, PreloadDone, WriteOutput, RecordMarkers, ClearRetries,
              world, lane, results
<1>3. ASSUME NEW i \in Items, PreloadFails(i) \/ StartItem(i) \/ RejectItem(i)
      PROVE  OwnWriteInv'
  BY <1>3 DEF PreloadFails, StartItem, RejectItem, world, lane, results
<1>4. ASSUME NEW i \in Items, PlexWrites(i) PROVE OwnWriteInv'
  BY <1>4 DEF PlexWrites, results, TypeInv, TypeOK
<1>5. ASSUME NEW i \in Items, ProcessOk(i) \/ ProcessDefers(i) PROVE OwnWriteInv'
  BY <1>5 DEF ProcessOk, ProcessDefers, Reload, LeaveLane, world, TypeInv, TypeOK
<1>6. ASSUME NEW i \in Items, ProcessRaises(i) PROVE OwnWriteInv'
  BY <1>6 DEF ProcessRaises, LeaveLane, world
<1>7. CASE \/ PreloadRefused \/ PreloadRaises \/ OutputFails \/ CompleteLibrary
           \/ FlushCache \/ FlushFails \/ CancelJob \/ Crash
  BY <1>7 DEF PreloadRefused, PreloadRaises, OutputFails, AbortLibrary,
              CompleteLibrary, FlushCache, FlushFails, CancelJob, Crash, EndJob
<1>8. ASSUME NEW i \in Items, PlexEdit(i) PROVE OwnWriteInv'
  BY <1>8 DEF PlexEdit, lane, results, TypeInv, TypeOK, Plan
<1>9. CASE ChangeConf \/ Tick \/ UNCHANGED vars
  BY <1>9 DEF ChangeConf, Tick, vars, world, lane, results
<1>. QED
  BY <1>1, <1>2, <1>3, <1>4, <1>5, <1>6, <1>7, <1>8, <1>9, NextCases

(* In Plex mode the marker recorded for a successful item is the one Plex  *)
(* has unless somebody else edited the item since the inventory.           *)
THEOREM OwnWritesSettle == Spec => []OwnWriteRecorded
<1>1. Init => OwnWriteInv
  BY DEF Init, OwnWriteInv
<1>2. TypeInv /\ OwnWriteInv => OwnWriteRecorded
  BY DEF TypeInv, TypeOK, OwnWriteInv, OwnWriteRecorded
<1>. QED
  BY <1>1, <1>2, OwnWriteStep, TypeAlways, PTL DEF Spec
=============================================================================
