------------------------- MODULE PlexMetadata_proofs -------------------------
(***************************************************************************)
(* Proofs about PlexMetadata for any objects, values, tags, policies and   *)
(* limits, and any number of jobs, failures and edits.                     *)
(***************************************************************************)
EXTENDS PlexMetadata, TLAPS

(* What is decided and what is to be recorded belong to the operation that  *)
(* is under way, and to objects it has come to.                             *)
PlanInv ==
  /\ plan.at = None => plan = NoPlan
  /\ plan.at # None =>
       /\ job.at = "apply" /\ plan.at \in job.left
       /\ plan.scalar = None <=> plan.rec.scalar = None
       /\ plan.scalar # None => plan.rec.scalar.applied = plan.scalar /\ ~plan.rec.drop
       /\ plan.add \cup plan.remove # {} => plan.rec.tag # None

PendInv(o) ==
  /\ job.at = "idle" => pend[o] = Nothing
  /\ job.at # "rollback" /\ o \in job.left => pend[o] = Nothing
  /\ job.at \in {"apply", "rollback"} /\ pend[o].scalar # None => pend[o].wrote
  /\ pend[o].scalar # None => ~pend[o].drop

(* A scalar of the user's is not what MetaFusion applied or is about to.    *)
MineInv(o) ==
  mine[o] =>
    /\ val[o] # Empty
    /\ Owner(scalarRec[o]) => val[o] # scalarRec[o].applied
    /\ pend[o].scalar = None
    /\ plan.at = o /\ job.policy # "overwrite" => plan.scalar = None

(* The user's tags are there and owned by no record, nor will they be.      *)
GivenInv(o) ==
  /\ given[o] \subseteq tags[o]
  /\ Owner(tagRec[o]) => tagRec[o].owned \cap given[o] = {}
  /\ pend[o].tag # None => pend[o].tag.owned \cap given[o] = {}
  /\ plan.at = o /\ job.policy # "overwrite" =>
       /\ plan.remove \cap given[o] = {}
       /\ plan.rec.tag # None => plan.rec.tag.owned \cap given[o] = {}

(* A field the user locked has no record that claims the lock and no change *)
(* under way.                                                               *)
ShutInv(o) ==
  /\ "scalar" \in shut[o] =>
       /\ vlock[o] /\ ~Ours(scalarRec[o]) /\ pend[o].scalar = None
       /\ plan.at = o /\ job.policy # "overwrite" => plan.scalar = None
  /\ "tags" \in shut[o] =>
       /\ tlock[o] /\ ~Ours(tagRec[o]) /\ pend[o].tag = None
       /\ plan.at = o /\ job.policy # "overwrite" =>
            plan.rec.tag = None /\ plan.add = {} /\ plan.remove = {}

(* What MetaFusion wrote is on record, or will be.                          *)
Recording(o) == job.at \in {"apply", "rollback"} /\ pend[o].scalar # None
TrackInv(o) ==
  /\ author[o] /\ ~loose[o] =>
       /\ Recording(o) => /\ pend[o].scalar.applied = val[o]
                          /\ job.at = "rollback" => o \in job.left
       /\ ~Recording(o) => Owner(scalarRec[o]) /\ scalarRec[o].applied = val[o]
       /\ ~pend[o].drop /\ ~(plan.at = o /\ plan.rec.drop)
       /\ job.at = "restore" => pend[o].scalar = None
  /\ job.at \in {"restore", "unlock"} /\ pend[o].scalar # None =>
       pend[o].scalar = scalarRec[o]

Sound(o) == PendInv(o) /\ MineInv(o) /\ GivenInv(o) /\ ShutInv(o) /\ TrackInv(o)
ObjectInv == \A o \in Objects : Sound(o)
Inv == TypeOK /\ PlanInv /\ ObjectInv
-----------------------------------------------------------------------------
(* Types.                                                                  *)

Places == {"idle", "apply", "rollback", "restore", "unlock"}
JobType == [at : Places, policy : Policies \cup {"none"}, left : SUBSET Objects,
            failed : BOOLEAN, attempt : 0..Retries, writes : 0..Limit]
PlanType == [at : Objects \cup {None}, scalar : Scalars \cup {None},
             add : SUBSET Tags, remove : SUBSET Tags, rec : Pendings]

ValueTypes ==
  /\ val \in [Objects -> Scalars] /\ vlock \in [Objects -> BOOLEAN]
  /\ tags \in [Objects -> SUBSET Tags] /\ tlock \in [Objects -> BOOLEAN]
HistoryTypes ==
  /\ mine \in [Objects -> BOOLEAN] /\ given \in [Objects -> SUBSET Tags]
  /\ shut \in [Objects -> SUBSET {"scalar", "tags"}]
  /\ author \in [Objects -> BOOLEAN] /\ loose \in [Objects -> BOOLEAN]
OfferTypes ==
  /\ \A o \in Objects : offer[o] \in Offered[o]
  /\ offer \in [Objects -> [val : Scalars, tags : SUBSET Tags]]
LedgerTypes ==
  /\ scalarRec \in [Objects -> ScalarRecs \cup {None}]
  /\ tagRec \in [Objects -> TagRecs \cup {None}]
JobTypes ==
  /\ job \in JobType /\ plan \in PlanType /\ pend \in [Objects -> Pendings]
BoundTypes == changes \in 0..MaxChanges /\ faults \in 0..MaxFaults

LEMMA Typed ==
  /\ TypeOK <=> /\ ValueTypes /\ HistoryTypes /\ OfferTypes /\ LedgerTypes
                /\ JobTypes /\ BoundTypes
  /\ TypeOK' <=> /\ ValueTypes' /\ HistoryTypes' /\ OfferTypes' /\ LedgerTypes'
                 /\ JobTypes' /\ BoundTypes'
BY DEF TypeOK, ValueTypes, HistoryTypes, OfferTypes, LedgerTypes, JobTypes, BoundTypes,
       JobType, PlanType, Places

(* What the constructors make. *)
LEMMA Jobs ==
  ASSUME NEW at \in Places, NEW policy \in Policies \cup {"none"},
         NEW left \in SUBSET Objects, NEW failed \in BOOLEAN,
         NEW attempt \in 0..Retries, NEW writes \in 0..Limit
  PROVE  Job(at, policy, left, failed, attempt, writes) \in JobType
BY DEF Job, JobType

LEMMA RestIsJob == Rest \in JobType
<1>1. /\ "idle" \in Places /\ "none" \in Policies \cup {"none"}
      /\ {} \in SUBSET Objects /\ FALSE \in BOOLEAN
      /\ 0 \in 0..Retries /\ 0 \in 0..Limit
  BY BoundAssumption DEF Places
<1>. QED
  BY <1>1, Jobs DEF Rest

LEMMA PendingsMade ==
  ASSUME NEW drop \in BOOLEAN, NEW scalar \in ScalarRecs \cup {None},
         NEW tag \in TagRecs \cup {None}, NEW wrote \in BOOLEAN,
         NEW seen \in SUBSET Tags
  PROVE  Pending(drop, scalar, tag, wrote, seen) \in Pendings
BY DEF Pending, Pendings

LEMMA NothingIsPending == Nothing \in Pendings
<1>1. /\ FALSE \in BOOLEAN /\ None \in ScalarRecs \cup {None}
      /\ None \in TagRecs \cup {None} /\ {} \in SUBSET Tags
  OBVIOUS
<1>. QED
  BY <1>1, PendingsMade DEF Nothing

LEMMA PlansMade ==
  ASSUME NEW at \in Objects \cup {None}, NEW scalar \in Scalars \cup {None},
         NEW add \in SUBSET Tags, NEW remove \in SUBSET Tags, NEW rec \in Pendings
  PROVE  Plan(at, scalar, add, remove, rec) \in PlanType
BY DEF Plan, PlanType

LEMMA NoPlanIsPlan == NoPlan \in PlanType
<1>1. /\ None \in Objects \cup {None} /\ None \in Scalars \cup {None}
      /\ {} \in SUBSET Tags
  OBVIOUS
<1>. QED
  BY <1>1, NothingIsPending, PlansMade DEF NoPlan

LEMMA ScalarsMade ==
  ASSUME NEW orig \in Scalars, NEW applied \in Scalars, NEW lock0 \in BOOLEAN,
         NEW lock \in BOOLEAN
  PROVE  Scalar(orig, applied, lock0, lock) \in ScalarRecs
BY DEF Scalar, ScalarRecs

LEMMA TagSetsMade ==
  ASSUME NEW orig \in SUBSET Tags, NEW applied \in SUBSET Tags,
         NEW owned \in SUBSET Tags, NEW relinquished \in SUBSET Tags,
         NEW lock0 \in BOOLEAN, NEW lock \in BOOLEAN
  PROVE  TagSet(orig, applied, owned, relinquished, lock0, lock) \in TagRecs
BY DEF TagSet, TagRecs

-----------------------------------------------------------------------------
(* What _apply_object decides.                                             *)

LEMMA ScalarDecision ==
  ASSUME TypeOK, NEW o \in Objects
  PROVE  /\ Target(o) \in Scalars /\ ScalarRecord(o) \in ScalarRecs
         /\ ScalarRecord(o).applied = Target(o)
         /\ WritesScalar(o) \in BOOLEAN /\ DropsScalar(o) \in BOOLEAN
<1>1. /\ scalarRec[o] \in ScalarRecs \cup {None} /\ val[o] \in Scalars
      /\ vlock[o] \in BOOLEAN /\ offer[o] \in [val : Scalars, tags : SUBSET Tags]
  BY Typed DEF ValueTypes, LedgerTypes, OfferTypes
<1>2. Owner(scalarRec[o]) => scalarRec[o] \in ScalarRecs
  BY <1>1 DEF Owner
<1>3. Target(o) \in Scalars
  BY <1>1, <1>2 DEF Target, ScalarRecs
<1>4. CASE Owner(scalarRec[o])
  <2>1. /\ scalarRec[o].orig \in Scalars /\ scalarRec[o].lock0 \in BOOLEAN
        /\ LockWrites \/ scalarRec[o].lock \in BOOLEAN
        /\ (LockWrites \/ scalarRec[o].lock) \in BOOLEAN
    BY <1>2, <1>4, BoundAssumption DEF ScalarRecs
  <2>. QED
    BY <1>3, <1>4, <2>1, ScalarsMade DEF ScalarRecord, Scalar, WritesScalar, DropsScalar, Looks
<1>5. CASE ~Owner(scalarRec[o])
  BY <1>1, <1>3, <1>5, ScalarsMade, BoundAssumption
     DEF ScalarRecord, Scalar, WritesScalar, DropsScalar, Looks
<1>. QED
  BY <1>4, <1>5

LEMMA TagDecision ==
  ASSUME TypeOK, NEW o \in Objects
  PROVE  /\ Adds(o) \in SUBSET Tags /\ Removes(o) \in SUBSET Tags
         /\ TagRecord(o) \in TagRecs \cup {None}
         /\ WritesTags(o) => TagRecord(o) \in TagRecs
         /\ WritesTags(o) \in BOOLEAN
<1>1. /\ tagRec[o] \in TagRecs \cup {None} /\ tags[o] \in SUBSET Tags
      /\ tlock[o] \in BOOLEAN /\ offer[o] \in [val : Scalars, tags : SUBSET Tags]
  BY Typed DEF ValueTypes, LedgerTypes, OfferTypes
<1>2. Owner(tagRec[o]) => tagRec[o] \in TagRecs
  BY <1>1 DEF Owner
<1>3. /\ Adds(o) \in SUBSET Tags /\ Removes(o) \in SUBSET Tags
      /\ TakenOut(o) \in SUBSET Tags /\ Relinquished(o) \in SUBSET Tags
  BY <1>1, <1>2 DEF Adds, Removes, TakenOut, Relinquished, Managed, TagRecs
<1>4. offer[o].tags \in SUBSET Tags
  BY <1>1
<1>5. CASE Owner(tagRec[o])
  <2>1. /\ tagRec[o].orig \in SUBSET Tags /\ tagRec[o].owned \in SUBSET Tags
        /\ tagRec[o].lock0 \in BOOLEAN /\ tagRec[o].lock \in BOOLEAN
    BY <1>2, <1>5 DEF TagRecs
  <2>. QED
    BY <1>1, <1>3, <1>4, <1>5, <2>1, TagSetsMade, BoundAssumption DEF TagRecord, WritesTags
<1>6. CASE ~Owner(tagRec[o])
  <2>1. {} \in SUBSET Tags
    OBVIOUS
  <2>. QED
    BY <1>1, <1>3, <1>4, <1>6, <2>1, TagSetsMade, BoundAssumption
       DEF TagRecord, WritesTags, Managed
<1>. QED
  BY <1>3, <1>5, <1>6
-----------------------------------------------------------------------------
(* Type correctness.                                                       *)

LEMMA InitType == Init => TypeOK
<1>. SUFFICES ASSUME Init PROVE TypeOK
  OBVIOUS
<1>1. ValueTypes /\ HistoryTypes
  BY DEF Init, ValueTypes, HistoryTypes
<1>2. OfferTypes
  <2>1. \A o \in Objects : Offered[o] \subseteq [val : Scalars, tags : SUBSET Tags]
    BY OfferedAssumption
  <2>2. offer \in [Objects -> UNION {Offered[o] : o \in Objects}]
    BY DEF Init
  <2>3. \A o \in Objects : offer[o] \in Offered[o]
    BY DEF Init
  <2>. QED
    BY <2>1, <2>2, <2>3 DEF OfferTypes
<1>3. LedgerTypes /\ BoundTypes
  BY BoundAssumption DEF Init, LedgerTypes, BoundTypes
<1>4. JobTypes
  BY RestIsJob, NoPlanIsPlan, NothingIsPending DEF Init, JobTypes
<1>. QED
  BY <1>1, <1>2, <1>3, <1>4, Typed

(* Which variables the steps leave alone. *)
LEMMA Outside ==
  ASSUME TypeOK
  PROVE  /\ PlexUnchanged => ValueTypes' /\ OfferTypes'
         /\ PlexUnchanged /\ UNCHANGED loose => HistoryTypes'
         /\ UNCHANGED offer => OfferTypes'
         /\ UNCHANGED ledger => LedgerTypes'
         /\ Fault /\ UNCHANGED changes => BoundTypes'
         /\ Change /\ UNCHANGED faults => BoundTypes'
         /\ UNCHANGED bounds => BoundTypes'
         /\ UNCHANGED <<job, plan, pend>> => JobTypes'
BY Typed, BoundAssumption
   DEF ValueTypes, OfferTypes, HistoryTypes, LedgerTypes, BoundTypes, JobTypes,
       PlexUnchanged, plex, ledger, bounds, Fault, Change

(* The parts of a job. *)
LEMMA JobParts ==
  ASSUME TypeOK
  PROVE  /\ job.at \in Places /\ job.policy \in Policies \cup {"none"}
         /\ job.left \in SUBSET Objects /\ job.failed \in BOOLEAN
         /\ job.attempt \in 0..Retries /\ job.writes \in 0..Limit
         /\ \A o : job.left \ {o} \in SUBSET Objects
         /\ plan \in PlanType /\ pend \in [Objects -> Pendings]
BY Typed DEF JobTypes, JobType

LEMMA DoneType ==
  ASSUME TypeOK, NEW o \in Objects, NEW failed \in BOOLEAN, Done(o, failed)
  PROVE  job' \in JobType
BY JobParts, Jobs DEF Done

LEMMA EndAttemptType ==
  ASSUME TypeOK, NEW failed \in BOOLEAN, EndAttempt(failed)
  PROVE  job' \in JobType /\ pend' \in [Objects -> Pendings]
<1>1. pend' \in [Objects -> Pendings]
  BY NothingIsPending DEF EndAttempt
<1>2. CASE failed /\ job.attempt < Retries
  <2>1. job.attempt + 1 \in 0..Retries /\ Objects \in SUBSET Objects
    BY <1>2, JobParts, BoundAssumption
  <2>2. "apply" \in Places /\ FALSE \in BOOLEAN
    BY DEF Places
  <2>. QED
    BY <1>1, <1>2, <2>1, <2>2, JobParts, Jobs DEF EndAttempt
<1>3. CASE ~(failed /\ job.attempt < Retries)
  BY <1>1, <1>3, RestIsJob DEF EndAttempt
<1>. QED
  BY <1>2, <1>3

(* A write of the plan: what goes to Plex is typed. *)
LEMMA SaveType ==
  ASSUME TypeOK, PlanInv, NEW o \in Objects, plan.at = o, Save(o)
  PROVE  ValueTypes' /\ (UNCHANGED loose => HistoryTypes')
         /\ (loose' = [loose EXCEPT ![o] = TRUE] => HistoryTypes')
<1>0. o # None
  BY NoneAssumption
<1>1. /\ plan.scalar \in Scalars \cup {None} /\ plan.add \in SUBSET Tags
      /\ plan.remove \in SUBSET Tags
      /\ plan.rec.scalar \in ScalarRecs \cup {None}
      /\ plan.rec.tag \in TagRecs \cup {None}
  BY JobParts DEF PlanType, Pendings
<1>2. plan.scalar # None => plan.rec.scalar.lock \in BOOLEAN
  BY <1>0, <1>1 DEF PlanInv, ScalarRecs
<1>3. plan.add \cup plan.remove # {} => plan.rec.tag.lock \in BOOLEAN
  BY <1>0, <1>1 DEF PlanInv, TagRecs
<1>4. ValueTypes'
  BY <1>1, <1>2, <1>3, Typed DEF Save, ValueTypes
<1>5. /\ mine' \in [Objects -> BOOLEAN] /\ author' \in [Objects -> BOOLEAN]
      /\ shut' \in [Objects -> SUBSET {"scalar", "tags"}]
  <2>1. /\ mine \in [Objects -> BOOLEAN] /\ author \in [Objects -> BOOLEAN]
        /\ shut \in [Objects -> SUBSET {"scalar", "tags"}]
    BY Typed DEF HistoryTypes
  <2>2. (mine[o] /\ plan.scalar = None) \in BOOLEAN
        /\ (author[o] \/ plan.scalar # None) \in BOOLEAN
    OBVIOUS
  <2>. QED
    BY <2>1, <2>2 DEF Save
<1>6. given' \in [Objects -> SUBSET Tags]
  BY Typed DEF HistoryTypes, Save
<1>. QED
  BY <1>4, <1>5, <1>6, Typed DEF HistoryTypes

LEMMA RollbackType ==
  ASSUME TypeOK, NEW o \in Objects, Rollback(o)
  PROVE  ValueTypes' /\ HistoryTypes'
<1>1. /\ pend[o].scalar \in ScalarRecs \cup {None} /\ pend[o].seen \in SUBSET Tags
      /\ pend[o].tag \in TagRecs \cup {None}
  BY JobParts DEF Pendings
<1>2. pend[o].scalar # None =>
        pend[o].scalar.orig \in Scalars /\ pend[o].scalar.lock0 \in BOOLEAN
  BY <1>1 DEF ScalarRecs
<1>3. pend[o].tag # None =>
        pend[o].tag.orig \in SUBSET Tags /\ pend[o].tag.lock0 \in BOOLEAN
  BY <1>1 DEF TagRecs
<1>4. ValueTypes'
  BY <1>1, <1>2, <1>3, Typed DEF Rollback, ValueTypes
<1>5. (author[o] /\ pend[o].scalar = None) \in BOOLEAN
      /\ (mine[o] /\ pend[o].scalar = None) \in BOOLEAN
  OBVIOUS
<1>6. HistoryTypes'
  BY <1>5, Typed DEF Rollback, HistoryTypes
<1>. QED
  BY <1>4, <1>6

LEMMA RecoveredType ==
  ASSUME TypeOK, NEW o \in Objects, Recovered(o), UNCHANGED loose
  PROVE  ValueTypes' /\ HistoryTypes'
<1>1. /\ scalarRec[o] \in ScalarRecs \cup {None}
      /\ tagRec[o] \in TagRecs \cup {None}
  BY Typed DEF LedgerTypes
<1>2. RecoversScalar(o) =>
        scalarRec[o].orig \in Scalars /\ scalarRec[o].lock0 \in BOOLEAN
  BY <1>1 DEF RecoversScalar, Recovers, Owner, ScalarRecs
<1>3. RecoversTags(o) =>
        tagRec[o].orig \in SUBSET Tags /\ tagRec[o].lock0 \in BOOLEAN
  BY <1>1 DEF RecoversTags, Recovers, Owner, TagRecs
<1>4. ValueTypes'
  BY <1>2, <1>3, Typed DEF Recovered, ValueTypes
<1>5. (author[o] /\ ~(RecoversScalar(o) /\ job.at = "restore")) \in BOOLEAN
  OBVIOUS
<1>6. HistoryTypes'
  BY <1>5, Typed DEF Recovered, HistoryTypes
<1>. QED
  BY <1>4, <1>6

LEMMA RecoverType ==
  ASSUME TypeOK, NEW o \in Objects, Recover(o) \/ RecoverFails(o)
  PROVE  TypeOK'
<1>1. ValueTypes' /\ HistoryTypes'
  BY RecoveredType, Typed
     DEF Recover, RecoverFails, ValueTypes, HistoryTypes, plex
<1>2. OfferTypes' /\ LedgerTypes' /\ BoundTypes'
  BY Outside DEF Recover, RecoverFails, bounds
<1>3. plan' \in PlanType
  BY JobParts DEF Recover, RecoverFails
<1>4. pend' \in [Objects -> Pendings]
  <2>1. /\ scalarRec[o] \in ScalarRecs \cup {None}
        /\ tagRec[o] \in TagRecs \cup {None}
    BY Typed DEF LedgerTypes
  <2>2. /\ FALSE \in BOOLEAN /\ TRUE \in BOOLEAN /\ {} \in SUBSET Tags
        /\ None \in ScalarRecs \cup {None} /\ None \in TagRecs \cup {None}
    OBVIOUS
  <2>3. Pending(FALSE, IF RecoversScalar(o) THEN scalarRec[o] ELSE None,
                IF RecoversTags(o) THEN tagRec[o] ELSE None, TRUE, {}) \in Pendings
    BY <2>1, <2>2, PendingsMade
  <2>. QED
    BY <2>3, JobParts DEF Recover, RecoverFails
<1>5. job' \in JobType
  <2>1. Room => job.writes + 1 \in 0..Limit
    BY JobParts, BoundAssumption DEF Room
  <2>2. FALSE \in BOOLEAN /\ TRUE \in BOOLEAN
    OBVIOUS
  <2>3. Room => \A failed \in BOOLEAN :
          Job(job.at, job.policy, job.left \ {o}, failed, job.attempt, job.writes + 1)
          \in JobType
    BY <2>1, JobParts, Jobs
  <2>4. CASE Done(o, FALSE)
    BY <2>2, <2>4, DoneType
  <2>5. CASE ~Done(o, FALSE)
    BY <2>2, <2>3, <2>5, JobParts DEF Recover, RecoverFails
  <2>. QED
    BY <2>4, <2>5
<1>. QED
  BY <1>1, <1>2, <1>3, <1>4, <1>5, Typed DEF JobTypes

LEMMA LedgerStepType ==
  ASSUME TypeOK, Commit \/ EndRecovery
  PROVE  LedgerTypes'
<1>1. pend \in [Objects -> Pendings]
  BY JobParts
<1>2. \A o \in Objects : /\ pend[o].scalar \in ScalarRecs \cup {None}
                         /\ pend[o].tag \in TagRecs \cup {None}
  BY <1>1 DEF Pendings
<1>3. \A r \in ScalarRecs : [r EXCEPT !.lock = FALSE] \in ScalarRecs
  BY DEF ScalarRecs
<1>4. \A r \in TagRecs : [r EXCEPT !.lock = FALSE] \in TagRecs
  BY DEF TagRecs
<1>5. CASE Commit
  BY <1>2, <1>5, Typed DEF Commit, LedgerTypes
<1>6. CASE EndRecovery
  <2>1. scalarRec' \in [Objects -> ScalarRecs \cup {None}]
    BY <1>2, <1>3, <1>6, Typed DEF EndRecovery, LedgerTypes
  <2>2. tagRec' \in [Objects -> TagRecs \cup {None}]
    BY <1>2, <1>4, <1>6, Typed DEF EndRecovery, LedgerTypes
  <2>. QED
    BY <2>1, <2>2 DEF LedgerTypes
<1>. QED
  BY <1>5, <1>6

LEMMA JobStepType ==
  ASSUME TypeOK, PlanInv, JobStep
  PROVE  TypeOK'
<1>. USE Typed
<1>1. ASSUME NEW o \in Objects, Skip(o) PROVE TypeOK'
  <2>1. /\ FALSE \in BOOLEAN /\ None \in ScalarRecs \cup {None}
        /\ {} \in SUBSET Tags
    OBVIOUS
  <2>2. Pending(DropsScalar(o), None, TagRecord(o), FALSE, {}) \in Pendings
    BY <2>1, ScalarDecision, TagDecision, PendingsMade
  <2>3. JobTypes'
    BY <1>1, <2>1, <2>2, JobParts, DoneType DEF Skip, JobTypes
  <2>. QED
    BY <1>1, <2>3, Outside DEF Skip, PlexUnchanged, BoundTypes
<1>2. ASSUME NEW o \in Objects, LimitReached(o) PROVE TypeOK'
  <2>1. JobTypes'
    BY <1>2, JobParts, DoneType DEF LimitReached, JobTypes
  <2>. QED
    BY <1>2, <2>1, Outside DEF LimitReached, PlexUnchanged, BoundTypes
<1>3. ASSUME NEW o \in Objects, Decide(o) PROVE TypeOK'
  <2>1. /\ {} \in SUBSET Tags /\ TRUE \in BOOLEAN /\ o \in Objects \cup {None}
    OBVIOUS
  <2>2. /\ (IF WritesScalar(o) THEN ScalarRecord(o) ELSE None) \in ScalarRecs \cup {None}
        /\ (IF WritesScalar(o) THEN Target(o) ELSE None) \in Scalars \cup {None}
        /\ (IF WritesTags(o) THEN Adds(o) ELSE {}) \in SUBSET Tags
        /\ (IF WritesTags(o) THEN Removes(o) ELSE {}) \in SUBSET Tags
    BY ScalarDecision, TagDecision
  <2>3. plan' \in PlanType
    BY <1>3, <2>1, <2>2, ScalarDecision, TagDecision, PendingsMade, PlansMade DEF Decide
  <2>4. job' \in JobType
    <3>1. job.writes + 1 \in 0..Limit
      BY <1>3, JobParts, BoundAssumption DEF Decide, Room
    <3>. QED
      BY <1>3, <3>1, JobParts, Jobs DEF Decide
  <2>5. JobTypes'
    BY <1>3, <2>3, <2>4, JobParts DEF Decide, JobTypes
  <2>. QED
    BY <1>3, <2>5, Outside DEF Decide, PlexUnchanged, BoundTypes
<1>4. ASSUME NEW o \in Objects, Write(o) PROVE TypeOK'
  <2>1. ValueTypes' /\ HistoryTypes'
    BY <1>4, SaveType DEF Write
  <2>2. pend' \in [Objects -> Pendings]
    <3>1. tags'[o] \in SUBSET Tags /\ TRUE \in BOOLEAN
      BY <2>1 DEF ValueTypes
    <3>2. /\ plan.rec.drop \in BOOLEAN /\ plan.rec.scalar \in ScalarRecs \cup {None}
          /\ plan.rec.tag \in TagRecs \cup {None}
      BY JobParts DEF PlanType, Pendings
    <3>3. Pending(plan.rec.drop, plan.rec.scalar, plan.rec.tag, TRUE, tags'[o]) \in Pendings
      BY <3>1, <3>2, PendingsMade
    <3>. QED
      BY <1>4, <3>3, JobParts DEF Write
  <2>3. JobTypes'
    BY <1>4, <2>2, NoPlanIsPlan, DoneType DEF Write, JobTypes
  <2>. QED
    BY <1>4, <2>1, <2>3, Outside DEF Write
<1>5. ASSUME NEW o \in Objects, Rollback(o) PROVE TypeOK'
  <2>1. JobTypes'
    BY <1>5, JobParts, DoneType DEF Rollback, JobTypes
  <2>. QED
    BY <1>5, <2>1, RollbackType, Outside DEF Rollback
<1>6. ASSUME NEW o \in Objects, Recover(o) PROVE TypeOK'
  BY <1>6, RecoverType
<1>7. CASE Commit
  <2>1. JobTypes'
    BY <1>7, JobParts, EndAttemptType DEF Commit, JobTypes
  <2>. QED
    BY <1>7, <2>1, LedgerStepType, Outside DEF Commit, PlexUnchanged, BoundTypes
<1>8. CASE RolledBack
  <2>1. JobTypes'
    BY <1>8, JobParts, EndAttemptType DEF RolledBack, JobTypes
  <2>. QED
    BY <1>8, <2>1, Outside DEF RolledBack, PlexUnchanged, BoundTypes
<1>9. CASE EndRecovery
  <2>1. job' \in JobType
    <3>1. CASE job.failed /\ job.attempt < Retries
      <4>1. job.attempt + 1 \in 0..Retries /\ Objects \in SUBSET Objects
        BY <3>1, JobParts, BoundAssumption
      <4>2. FALSE \in BOOLEAN /\ "none" \in Policies \cup {"none"}
        OBVIOUS
      <4>. QED
        BY <1>9, <3>1, <4>1, <4>2, JobParts, Jobs DEF EndRecovery
    <3>2. CASE ~(job.failed /\ job.attempt < Retries)
      BY <1>9, <3>2, RestIsJob DEF EndRecovery
    <3>. QED
      BY <3>1, <3>2
  <2>2. JobTypes'
    BY <1>9, <2>1, JobParts, NothingIsPending DEF EndRecovery, JobTypes
  <2>. QED
    BY <1>9, <2>2, LedgerStepType, Outside DEF EndRecovery, PlexUnchanged, BoundTypes
<1>. QED
  BY <1>1, <1>2, <1>3, <1>4, <1>5, <1>6, <1>7, <1>8, <1>9 DEF JobStep

LEMMA FailureType ==
  ASSUME TypeOK, PlanInv, Failure
  PROVE  TypeOK'
<1>. USE Typed
<1>1. ASSUME NEW o \in Objects, WriteUnverified(o) PROVE TypeOK'
  <2>1. ValueTypes' /\ HistoryTypes'
    BY <1>1, SaveType DEF WriteUnverified
  <2>2. JobTypes'
    BY <1>1, NoPlanIsPlan, JobParts, DoneType DEF WriteUnverified, JobTypes
  <2>. QED
    BY <1>1, <2>1, <2>2, Outside DEF WriteUnverified
<1>2. ASSUME NEW o \in Objects, ObjectFails(o) PROVE TypeOK'
  <2>1. JobTypes'
    BY <1>2, NoPlanIsPlan, JobParts, DoneType DEF ObjectFails, JobTypes
  <2>. QED
    BY <1>2, <2>1, Outside DEF ObjectFails, PlexUnchanged
<1>3. ASSUME NEW o \in Objects, RollbackFails(o) PROVE TypeOK'
  <2>1. JobTypes'
    BY <1>3, JobParts, DoneType DEF RollbackFails, JobTypes
  <2>2. HistoryTypes'
    BY <1>3 DEF RollbackFails, PlexUnchanged, HistoryTypes
  <2>. QED
    BY <1>3, <2>1, <2>2, Outside DEF RollbackFails, PlexUnchanged, BoundTypes
<1>4. ASSUME NEW o \in Objects, RecoverFails(o) PROVE TypeOK'
  BY <1>4, RecoverType
<1>5. CASE ChildrenFail
  <2>1. JobTypes'
    BY <1>5, JobParts, EndAttemptType DEF ChildrenFail, JobTypes
  <2>. QED
    BY <1>5, <2>1, Outside DEF ChildrenFail, PlexUnchanged
<1>6. CASE CommitFails
  <2>1. RollbackBatches \in SUBSET Objects /\ "rollback" \in Places
    BY DEF RollbackBatches, Places
  <2>2. JobTypes'
    BY <1>6, <2>1, JobParts, Jobs DEF CommitFails, JobTypes
  <2>. QED
    BY <1>6, <2>2, Outside DEF CommitFails, PlexUnchanged
<1>7. CASE EndRecoveryFails
  <2>1. JobTypes'
    BY <1>7, JobParts, RestIsJob, NothingIsPending DEF EndRecoveryFails, JobTypes
  <2>. QED
    BY <1>7, <2>1, Outside DEF EndRecoveryFails, PlexUnchanged
<1>8. CASE Kill
  <2>1. JobTypes'
    BY <1>8, JobParts, RestIsJob, NoPlanIsPlan, NothingIsPending DEF Kill, JobTypes
  <2>2. HistoryTypes'
    <3>1. \A o \in Objects : (loose[o] \/ pend[o].wrote) \in BOOLEAN
      OBVIOUS
    <3>. QED
      BY <1>8, <3>1 DEF Kill, PlexUnchanged, HistoryTypes
  <2>. QED
    BY <1>8, <2>1, <2>2, Outside DEF Kill, PlexUnchanged
<1>. QED
  BY <1>1, <1>2, <1>3, <1>4, <1>5, <1>6, <1>7, <1>8 DEF Failure

LEMMA UserType ==
  ASSUME TypeOK, User
  PROVE  TypeOK'
<1>. USE Typed
<1>0. OutsideJob => LedgerTypes' /\ JobTypes' /\ UNCHANGED <<faults, loose>>
  BY Outside DEF OutsideJob
<1>1. ASSUME NEW o \in Objects, NEW x \in Scalars, NEW locked \in BOOLEAN,
             UserSets(o, x, locked)
      PROVE  TypeOK'
  <2>1. ValueTypes'
    BY <1>1 DEF UserSets, ValueTypes
  <2>2. /\ (author[o] /\ x = val[o]) \in BOOLEAN
        /\ (job.at = "idle" /\ x # Empty
             /\ ~(Owner(scalarRec[o]) /\ x = scalarRec[o].applied)) \in BOOLEAN
    OBVIOUS
  <2>3. HistoryTypes'
    BY <1>0, <1>1, <2>2 DEF UserSets, Locks, HistoryTypes
  <2>. QED
    BY <1>0, <1>1, <2>1, <2>3, Outside DEF UserSets
<1>2. ASSUME NEW o \in Tagged, NEW t \in Tags, NEW locked \in BOOLEAN,
             UserTags(o, t, locked)
      PROVE  TypeOK'
  <2>1. o \in Objects
    BY DEF Tagged
  <2>2. ValueTypes'
    BY <1>2, <2>1 DEF UserTags, ValueTypes
  <2>3. HistoryTypes'
    BY <1>0, <1>2, <2>1 DEF UserTags, Locks, HistoryTypes
  <2>. QED
    BY <1>0, <1>2, <2>2, <2>3, Outside DEF UserTags
<1>3. ASSUME NEW o \in Objects, NEW c \in Offered[o], Offers(o, c)
      PROVE  TypeOK'
  <2>1. c \in [val : Scalars, tags : SUBSET Tags]
    BY OfferedAssumption
  <2>2. OfferTypes'
    BY <1>3, <2>1 DEF Offers, OfferTypes
  <2>3. ValueTypes' /\ HistoryTypes'
    BY <1>0, <1>3 DEF Offers, ValueTypes, HistoryTypes, plex
  <2>. QED
    BY <1>0, <1>3, <2>2, <2>3, Outside DEF Offers
<1>. QED
  BY <1>1, <1>2, <1>3 DEF User

LEMMA BeginType ==
  ASSUME TypeOK, (\E p \in Policies : BeginApply(p))
                 \/ \E at \in {"restore", "unlock"} : BeginRecovery(at)
  PROVE  TypeOK'
<1>1. PICK at \in Places, policy \in Policies \cup {"none"} :
        /\ Begin(at, policy)
        /\ UNCHANGED <<plex, offer, mine, given, shut, author>>
        /\ UNCHANGED changes \/ Change
  BY DEF BeginApply, BeginRecovery, Places, PlexUnchanged, plex
<1>2. job' \in JobType
  <2>1. /\ Objects \in SUBSET Objects /\ FALSE \in BOOLEAN
        /\ 1 \in 0..Retries /\ 0 \in 0..Limit
    BY BoundAssumption
  <2>. QED
    BY <1>1, <2>1, Jobs DEF Begin
<1>3. JobTypes'
  BY <1>1, <1>2, JobParts DEF Begin, JobTypes
<1>4. ValueTypes' /\ OfferTypes' /\ HistoryTypes' /\ LedgerTypes'
  BY <1>1, Typed DEF Begin, ValueTypes, OfferTypes, HistoryTypes, LedgerTypes, plex, ledger
<1>5. BoundTypes'
  BY <1>1, Typed, Outside DEF Begin, BoundTypes
<1>. QED
  BY <1>3, <1>4, <1>5, Typed

LEMMA TypeStep == TypeOK /\ PlanInv /\ [Next]_vars => TypeOK'
<1>. SUFFICES ASSUME TypeOK, PlanInv, [Next]_vars PROVE TypeOK'
  OBVIOUS
<1>1. CASE Next
  BY <1>1, BeginType, JobStepType, FailureType, UserType DEF Next
<1>2. CASE UNCHANGED vars
  BY <1>2 DEF vars, TypeOK, plex, ledger, bounds, history
<1>. QED
  BY <1>1, <1>2
-----------------------------------------------------------------------------
(* The plan.                                                               *)

LEMMA PlanStep == Inv /\ [Next]_vars => PlanInv'
<1>. SUFFICES ASSUME Inv, [Next]_vars PROVE PlanInv'
  OBVIOUS
<1>. USE NoneAssumption
<1>0. /\ plan.at = None => plan = NoPlan
      /\ plan.at # None => job.at = "apply" /\ plan.at \in job.left
      /\ plan' = NoPlan => PlanInv'
  BY DEF Inv, PlanInv, NoPlan, Plan
<1>1. plan = NoPlan /\ plan' = plan => PlanInv'
  BY <1>0
<1>2. plan' = plan /\ job' = job => PlanInv'
  BY DEF Inv, PlanInv
<1>3. ASSUME NEW o \in Objects, Decide(o) PROVE PlanInv'
  <2>1. /\ plan'.at = o /\ o # None
        /\ plan'.scalar = IF WritesScalar(o) THEN Target(o) ELSE None
        /\ plan'.add = IF WritesTags(o) THEN Adds(o) ELSE {}
        /\ plan'.remove = IF WritesTags(o) THEN Removes(o) ELSE {}
        /\ plan'.rec.scalar = IF WritesScalar(o) THEN ScalarRecord(o) ELSE None
        /\ plan'.rec.drop = DropsScalar(o) /\ plan'.rec.tag = TagRecord(o)
    BY <1>3 DEF Decide, Plan, Pending
  <2>2. job'.at = "apply" /\ o \in job'.left
    BY <1>3 DEF Decide, Deciding, Job
  <2>3. /\ Target(o) # None /\ ScalarRecord(o) # None
        /\ ScalarRecord(o).applied = Target(o)
    BY ScalarDecision DEF Inv
  <2>4. ~(WritesScalar(o) /\ DropsScalar(o))
    BY DEF WritesScalar, DropsScalar, Conflict
  <2>5. WritesTags(o) => TagRecord(o) # None
    BY TagDecision DEF Inv
  <2>. QED
    BY <2>1, <2>2, <2>3, <2>4, <2>5 DEF PlanInv
<1>4. CASE (\E p \in Policies : BeginApply(p))
           \/ \E at \in {"restore", "unlock"} : BeginRecovery(at)
  BY <1>0, <1>1, <1>4 DEF BeginApply, BeginRecovery, Begin
<1>5. CASE JobStep
  <2>1. ASSUME NEW o \in Objects,
               Skip(o) \/ LimitReached(o) \/ Write(o) \/ Rollback(o) \/ Recover(o)
        PROVE  PlanInv'
    BY <1>0, <1>1, <2>1
       DEF Skip, LimitReached, Write, Rollback, Recover, Recovering, Deciding
  <2>2. ASSUME Commit \/ RolledBack \/ EndRecovery PROVE PlanInv'
    BY <1>0, <1>1, <2>2 DEF Commit, RolledBack, EndRecovery, Recovering
  <2>. QED
    BY <1>3, <1>5, <2>1, <2>2 DEF JobStep
<1>6. CASE Failure
  <2>1. ASSUME NEW o \in Objects,
               WriteUnverified(o) \/ ObjectFails(o) \/ RollbackFails(o) \/ RecoverFails(o)
        PROVE  PlanInv'
    BY <1>0, <1>1, <2>1
       DEF WriteUnverified, ObjectFails, RollbackFails, RecoverFails, Recovering
  <2>2. ASSUME ChildrenFail \/ CommitFails \/ EndRecoveryFails \/ Kill PROVE PlanInv'
    BY <1>0, <1>1, <2>2 DEF ChildrenFail, CommitFails, EndRecoveryFails, Kill, Recovering
  <2>. QED
    BY <1>6, <2>1, <2>2 DEF Failure
<1>7. CASE User
  BY <1>2, <1>7 DEF User, UserSets, UserTags, Offers, OutsideJob
<1>8. CASE UNCHANGED vars
  BY <1>2, <1>8 DEF vars
<1>. QED
  BY <1>4, <1>5, <1>6, <1>7, <1>8 DEF Next

-----------------------------------------------------------------------------
(* Objects a step leaves as they are.                                      *)

(* The step does nothing to the fields and records of an object. *)
SameRecords(p) ==
  /\ scalarRec'[p] = scalarRec[p] /\ tagRec'[p] = tagRec[p]
SameFields(p) ==
  /\ val'[p] = val[p] /\ vlock'[p] = vlock[p]
  /\ tags'[p] = tags[p] /\ tlock'[p] = tlock[p]
  /\ mine'[p] = mine[p] /\ given'[p] = given[p] /\ shut'[p] = shut[p]
  /\ author'[p] = author[p] /\ (loose[p] => loose'[p])

Quiet(p) ==
  /\ SameFields(p) /\ SameRecords(p) /\ pend'[p] = pend[p]
  /\ job'.at = job.at /\ job'.policy = job.policy
  /\ p \in job'.left => p \in job.left
  /\ job.at = "rollback" /\ ~loose'[p] /\ p \in job.left => p \in job'.left
  /\ plan' = plan \/ plan'.at # p

LEMMA QuietStep ==
  ASSUME NEW p \in Objects, Sound(p), Quiet(p)
  PROVE  Sound(p)'
<1>. USE DEF Quiet, SameFields, SameRecords, Sound
<1>1. PendInv(p)'
  BY DEF PendInv
<1>2. MineInv(p)'
  BY DEF MineInv
<1>3. GivenInv(p)'
  BY DEF GivenInv
<1>4. ShutInv(p)'
  BY DEF ShutInv
<1>5. TrackInv(p)'
  BY DEF TrackInv, Recording
<1>. QED
  BY <1>1, <1>2, <1>3, <1>4, <1>5

(* An attempt or an operation ends, or another begins. *)
Reset(p) ==
  /\ SameFields(p) /\ SameRecords(p) /\ pend'[p] = Nothing
  /\ job'.at # "rollback"
  /\ author[p] /\ ~loose'[p] => ~Recording(p)
  /\ plan' = NoPlan

LEMMA ResetStep ==
  ASSUME NEW p \in Objects, Sound(p), Reset(p)
  PROVE  Sound(p)'
<1>. USE DEF Reset, SameFields, SameRecords, Sound
<1>0. /\ Nothing.scalar = None /\ Nothing.tag = None /\ ~Nothing.drop
      /\ NoPlan.at # p
  BY NoneAssumption DEF Nothing, Pending, NoPlan, Plan
<1>1. PendInv(p)'
  BY <1>0 DEF PendInv
<1>2. MineInv(p)'
  BY <1>0 DEF MineInv
<1>3. GivenInv(p)'
  BY <1>0 DEF GivenInv
<1>4. ShutInv(p)'
  BY <1>0 DEF ShutInv
<1>5. TrackInv(p)'
  BY <1>0 DEF TrackInv, Recording
<1>. QED
  BY <1>1, <1>2, <1>3, <1>4, <1>5
-----------------------------------------------------------------------------
(* The decision respects what is the user's.                               *)

LEMMA ScalarIsFree ==
  ASSUME TypeOK, NEW o \in Objects, Sound(o), job.policy # "overwrite", WritesScalar(o)
  PROVE  ~mine[o] /\ "scalar" \notin shut[o]
<1>1. Looks(o) /\ ~LockedOut(scalarRec[o], vlock[o])
  BY DEF WritesScalar, Looks
<1>2. "scalar" \notin shut[o]
  BY <1>1 DEF LockedOut, Sound, ShutInv
<1>3. ~mine[o]
  BY DEF WritesScalar, Conflict, Sound, MineInv
<1>. QED
  BY <1>2, <1>3

LEMMA TagsAreFree ==
  ASSUME TypeOK, NEW o \in Objects, Sound(o)
  PROVE  /\ job.policy # "overwrite" => /\ Removes(o) \cap given[o] = {}
                                       /\ Adds(o) \cap given[o] = {}
         /\ TagRecord(o) # None /\ (job.policy # "overwrite" \/ ~WritesTags(o)) =>
              TagRecord(o).owned \cap given[o] = {}
         /\ job.policy # "overwrite" /\ "tags" \in shut[o] =>
              TagRecord(o) = None /\ ~WritesTags(o)
         /\ ~WritesTags(o) /\ "tags" \in shut[o] => TagRecord(o) = None
<1>1. given[o] \subseteq tags[o]
  BY DEF Sound, GivenInv
<1>2. Owner(tagRec[o]) => tagRec[o].owned \cap given[o] = {}
  BY DEF Sound, GivenInv
<1>3. Adds(o) \cap tags[o] = {}
  BY DEF Adds
<1>4. job.policy # "overwrite" => Removes(o) \cap given[o] = {}
  BY <1>2 DEF Removes, Managed
<1>5. TagRecord(o) # None =>
        /\ ~LockedOut(tagRec[o], tlock[o])
        /\ Adds(o) \cup Removes(o) # {} \/ TakenOut(o) # {}
        /\ TagRecord(o).owned =
             IF job.policy = "overwrite" THEN offer[o].tags
             ELSE IF ~Managed(o) THEN Adds(o)
             ELSE IF Adds(o) \cup Removes(o) # {}
                  THEN (tagRec[o].owned \ Removes(o)) \cup Adds(o)
             ELSE tagRec[o].owned \cap tags[o]
  BY DEF TagRecord, TagSet
<1>6. job.policy = "overwrite" /\ ~WritesTags(o) => TagRecord(o) = None
  <2>1. job.policy = "overwrite" => TakenOut(o) = {}
    BY DEF TakenOut, Managed
  <2>. QED
    BY <1>5, <2>1 DEF WritesTags
<1>7. TagRecord(o) # None /\ job.policy # "overwrite" =>
        TagRecord(o).owned \cap given[o] = {}
  BY <1>1, <1>2, <1>3, <1>5 DEF Managed
<1>8. "tags" \in shut[o] /\ job.policy # "overwrite" =>
        LockedOut(tagRec[o], tlock[o])
  BY DEF LockedOut, Sound, ShutInv
<1>. QED
  BY <1>1, <1>3, <1>4, <1>5, <1>6, <1>7, <1>8 DEF WritesTags

(* A conflict is not about a value MetaFusion wrote last. *)
LEMMA DropIsNotOurs ==
  ASSUME NEW o \in Objects, Sound(o), job.at = "apply", pend[o] = Nothing, DropsScalar(o)
  PROVE  ~author[o] \/ loose[o]
<1>1. pend[o].scalar = None
  BY DEF Nothing, Pending
<1>. QED
  BY <1>1 DEF DropsScalar, Conflict, Sound, TrackInv, Recording

LEMMA SkipStep ==
  ASSUME Inv, NEW o \in Objects, Skip(o)
  PROVE  Sound(o)'
<1>. USE NoneAssumption
<1>1. /\ job.at = "apply" /\ o \in job.left /\ Sound(o) /\ TypeOK
      /\ pend[o] = Nothing /\ plan = NoPlan
  BY DEF Skip, Deciding, Inv, ObjectInv, Sound, PendInv
<1>2. /\ pend'[o].drop = DropsScalar(o) /\ pend'[o].scalar = None
      /\ pend'[o].tag = TagRecord(o) /\ ~pend'[o].wrote
  BY <1>1, Typed DEF Skip, Pending, JobTypes
<1>3. /\ job'.at = "apply" /\ job'.policy = job.policy /\ o \notin job'.left
      /\ plan' = NoPlan /\ plan'.at # o
  BY <1>1 DEF Skip, Done, Job, NoPlan, Plan
<1>4. SameFields(o) /\ SameRecords(o) /\ loose' = loose
  BY DEF Skip, PlexUnchanged, SameFields, SameRecords, plex, ledger
<1>5. ~WritesTags(o)
  BY DEF Skip
<1>6. pend[o].scalar = None /\ ~pend[o].drop /\ plan.at # o
  BY <1>1 DEF Nothing, Pending, NoPlan, Plan
<1>. USE DEF SameFields, SameRecords
<1>7. PendInv(o)'
  BY <1>2, <1>3 DEF PendInv
<1>8. MineInv(o)'
  BY <1>1, <1>2, <1>3, <1>4 DEF MineInv, Sound
<1>9. GivenInv(o)'
  BY <1>1, <1>2, <1>3, <1>4, <1>5, TagsAreFree DEF GivenInv, Sound
<1>10. ShutInv(o)'
  BY <1>1, <1>2, <1>3, <1>4, <1>5, TagsAreFree DEF ShutInv, Sound
<1>11. TrackInv(o)'
  BY <1>1, <1>2, <1>3, <1>4, <1>6, DropIsNotOurs DEF TrackInv, Recording, Sound
<1>. QED
  BY <1>7, <1>8, <1>9, <1>10, <1>11 DEF Sound

LEMMA DecideStep ==
  ASSUME Inv, NEW o \in Objects, Decide(o)
  PROVE  Sound(o)'
<1>. USE NoneAssumption
<1>1. /\ job.at = "apply" /\ o \in job.left /\ Sound(o) /\ TypeOK
      /\ pend[o] = Nothing /\ plan = NoPlan
  BY DEF Decide, Deciding, Inv, ObjectInv, Sound, PendInv
<1>2. /\ plan'.at = o /\ plan'.scalar = IF WritesScalar(o) THEN Target(o) ELSE None
      /\ plan'.add = IF WritesTags(o) THEN Adds(o) ELSE {}
      /\ plan'.remove = IF WritesTags(o) THEN Removes(o) ELSE {}
      /\ plan'.rec.drop = DropsScalar(o) /\ plan'.rec.tag = TagRecord(o)
  BY DEF Decide, Plan, Pending
<1>3. job'.at = "apply" /\ job'.policy = job.policy /\ job'.left = job.left
  BY <1>1 DEF Decide, Job
<1>4. SameFields(o) /\ SameRecords(o) /\ pend' = pend /\ loose' = loose
  BY DEF Decide, PlexUnchanged, SameFields, SameRecords, plex, ledger
<1>5. /\ pend[o].scalar = None /\ pend[o].tag = None /\ ~pend[o].drop
  BY <1>1 DEF Nothing, Pending
<1>. USE DEF SameFields, SameRecords
<1>7. PendInv(o)'
  BY <1>1, <1>3, <1>4 DEF PendInv, Sound
<1>8. MineInv(o)'
  BY <1>1, <1>2, <1>3, <1>4, ScalarIsFree DEF MineInv, Sound
<1>9. GivenInv(o)'
  BY <1>1, <1>2, <1>3, <1>4, TagsAreFree DEF GivenInv, Sound
<1>10. ShutInv(o)'
  BY <1>1, <1>2, <1>3, <1>4, ScalarIsFree, TagsAreFree DEF ShutInv, Sound
<1>11. TrackInv(o)'
  BY <1>1, <1>2, <1>3, <1>4, <1>5, DropIsNotOurs DEF TrackInv, Recording, Sound
<1>. QED
  BY <1>7, <1>8, <1>9, <1>10, <1>11 DEF Sound
-----------------------------------------------------------------------------
(* Writes, verified or not.                                                *)

LEMMA SaveFacts ==
  ASSUME Inv, NEW o \in Objects, job.at = "apply", plan.at = o, Save(o)
  PROVE  /\ val'[o] = IF plan.scalar # None THEN plan.scalar ELSE val[o]
         /\ plan.scalar = None => vlock'[o] = vlock[o]
         /\ tags'[o] = (tags[o] \cup plan.add) \ plan.remove
         /\ plan.add = {} /\ plan.remove = {} => tags'[o] = tags[o] /\ tlock'[o] = tlock[o]
         /\ author'[o] = (author[o] \/ plan.scalar # None)
         /\ mine'[o] => mine[o] /\ plan.scalar = None
         /\ given'[o] = IF job.policy = "overwrite" THEN {} ELSE given[o] \ plan.remove
         /\ shut'[o] = IF job.policy = "overwrite" THEN {} ELSE shut[o]
         /\ Sound(o) /\ pend[o] = Nothing /\ pend[o].scalar = None /\ pend[o].tag = None
         /\ ~pend[o].drop
         /\ plan.scalar # None <=> plan.rec.scalar # None
         /\ plan.scalar # None =>
              plan.rec.scalar.applied = plan.scalar /\ ~plan.rec.drop
<1>1. /\ val \in [Objects -> Scalars] /\ vlock \in [Objects -> BOOLEAN]
      /\ tags \in [Objects -> SUBSET Tags] /\ tlock \in [Objects -> BOOLEAN]
  BY Typed DEF Inv, ValueTypes
<1>2. /\ mine \in [Objects -> BOOLEAN] /\ given \in [Objects -> SUBSET Tags]
      /\ shut \in [Objects -> SUBSET {"scalar", "tags"}]
      /\ author \in [Objects -> BOOLEAN]
  BY Typed DEF Inv, HistoryTypes
<1>3. /\ val'[o] = IF plan.scalar # None THEN plan.scalar ELSE val[o]
      /\ plan.scalar = None => vlock'[o] = vlock[o]
      /\ tags'[o] = (tags[o] \cup plan.add) \ plan.remove
      /\ plan.add = {} /\ plan.remove = {} => tags'[o] = tags[o] /\ tlock'[o] = tlock[o]
  BY <1>1 DEF Save
<1>4. /\ author'[o] = (author[o] \/ plan.scalar # None)
      /\ mine'[o] => mine[o] /\ plan.scalar = None
      /\ given'[o] = IF job.policy = "overwrite" THEN {} ELSE given[o] \ plan.remove
      /\ shut'[o] = IF job.policy = "overwrite" THEN {} ELSE shut[o]
  BY <1>2 DEF Save
<1>5. /\ Sound(o) /\ pend[o] = Nothing
      /\ plan.scalar # None <=> plan.rec.scalar # None
      /\ plan.scalar # None =>
           plan.rec.scalar.applied = plan.scalar /\ ~plan.rec.drop
  BY NoneAssumption DEF Inv, ObjectInv, PlanInv, Sound, PendInv
<1>6. pend[o].scalar = None /\ pend[o].tag = None /\ ~pend[o].drop
  BY <1>5 DEF Nothing, Pending
<1>. QED
  BY <1>3, <1>4, <1>5, <1>6

LEMMA WriteStep ==
  ASSUME Inv, NEW o \in Objects, Write(o)
  PROVE  Sound(o)'
<1>. USE NoneAssumption
<1>1. job.at = "apply" /\ plan.at = o /\ Save(o) /\ SameRecords(o) /\ loose' = loose
  BY DEF Write, SameRecords, ledger
<1>2. /\ pend'[o].drop = plan.rec.drop /\ pend'[o].scalar = plan.rec.scalar
      /\ pend'[o].tag = plan.rec.tag /\ pend'[o].wrote
  BY Typed DEF Write, Pending, JobTypes, Inv
<1>3. /\ job'.at = "apply" /\ job'.policy = job.policy /\ o \notin job'.left
      /\ plan'.at # o
  BY <1>1 DEF Write, Done, Job, NoPlan, Plan
<1>. USE SaveFacts, <1>1, <1>2, <1>3 DEF SameRecords
<1>4. PendInv(o)'
  BY DEF PendInv
<1>5. MineInv(o)'
  <2>1. mine'[o] => mine[o] /\ plan.scalar = None /\ val'[o] = val[o]
    BY DEF Sound
  <2>2. mine'[o] => pend'[o].scalar = None
    BY <2>1
  <2>3. mine[o] => /\ val[o] # Empty
                   /\ Owner(scalarRec[o]) => val[o] # scalarRec[o].applied
    BY DEF MineInv, Sound
  <2>4. mine'[o] => /\ val'[o] # Empty
                    /\ Owner(scalarRec'[o]) => val'[o] # scalarRec'[o].applied
    BY <2>1, <2>3
  <2>. QED
    BY <1>3, <2>2, <2>4 DEF MineInv
<1>6. GivenInv(o)'
  BY ZenonT(60) DEF GivenInv, Sound
<1>7. ShutInv(o)'
  BY DEF ShutInv, Sound
<1>8. TrackInv(o)'
  BY ZenonT(60) DEF TrackInv, Recording, Sound
<1>. QED
  BY <1>4, <1>5, <1>6, <1>7, <1>8 DEF Sound

LEMMA WriteUnverifiedStep ==
  ASSUME Inv, NEW o \in Objects, WriteUnverified(o)
  PROVE  Sound(o)'
<1>. USE NoneAssumption
<1>1. /\ job.at = "apply" /\ plan.at = o /\ Save(o) /\ SameRecords(o) /\ pend' = pend
      /\ loose'[o]
  BY Typed DEF WriteUnverified, SameRecords, ledger, Inv, HistoryTypes
<1>2. /\ job'.at = "apply" /\ job'.policy = job.policy /\ o \notin job'.left
      /\ plan'.at # o
  BY <1>1 DEF WriteUnverified, Done, Job, NoPlan, Plan
<1>. USE SaveFacts, <1>1, <1>2 DEF SameRecords
<1>4. PendInv(o)'
  BY DEF PendInv
<1>5. MineInv(o)'
  <2>1. mine'[o] => mine[o] /\ plan.scalar = None /\ val'[o] = val[o]
    BY DEF Sound
  <2>2. mine'[o] => pend'[o].scalar = None
    BY <2>1
  <2>3. mine[o] => /\ val[o] # Empty
                   /\ Owner(scalarRec[o]) => val[o] # scalarRec[o].applied
    BY DEF MineInv, Sound
  <2>4. mine'[o] => /\ val'[o] # Empty
                    /\ Owner(scalarRec'[o]) => val'[o] # scalarRec'[o].applied
    BY <2>1, <2>3
  <2>. QED
    BY <2>2, <2>4 DEF MineInv
<1>6. GivenInv(o)'
  BY ZenonT(60) DEF GivenInv, Sound
<1>7. ShutInv(o)'
  BY DEF ShutInv, Sound
<1>8. TrackInv(o)'
  BY DEF TrackInv, Recording, Sound
<1>. QED
  BY <1>4, <1>5, <1>6, <1>7, <1>8 DEF Sound

-----------------------------------------------------------------------------
(* The ledger, and its failures.                                           *)

LEMMA CommitStep ==
  ASSUME Inv, NEW o \in Objects, Commit
  PROVE  Sound(o)'
<1>. USE NoneAssumption
<1>1. /\ job.at = "apply" /\ job.left = {} /\ Sound(o) /\ SameFields(o) /\ loose' = loose
  BY DEF Commit, PlexUnchanged, SameFields, plex, Inv, ObjectInv
<1>2. /\ scalarRec'[o] = IF pend[o].scalar # None THEN pend[o].scalar
                         ELSE IF pend[o].drop THEN None ELSE scalarRec[o]
      /\ tagRec'[o] = IF pend[o].tag # None THEN pend[o].tag ELSE tagRec[o]
  BY DEF Commit
<1>3. pend'[o] = Nothing /\ job'.at \in {"idle", "apply"} /\ plan' = NoPlan
  BY <1>1 DEF Commit, EndAttempt, Job, Rest, Inv, PlanInv
<1>4. /\ pend'[o].scalar = None /\ pend'[o].tag = None /\ ~pend'[o].drop
      /\ plan'.at # o
  BY <1>3 DEF Nothing, Pending, NoPlan, Plan
<1>. USE <1>1, <1>2, <1>3, <1>4 DEF SameFields, Sound, Owner, Ours
<1>5. PendInv(o)'
  BY DEF PendInv
<1>6. MineInv(o)'
  BY DEF MineInv
<1>7. GivenInv(o)'
  BY DEF GivenInv
<1>8. ShutInv(o)'
  BY DEF ShutInv
<1>9. TrackInv(o)'
  BY DEF TrackInv, Recording
<1>. QED
  BY <1>5, <1>6, <1>7, <1>8, <1>9

LEMMA CommitFailsStep ==
  ASSUME Inv, NEW o \in Objects, CommitFails
  PROVE  Sound(o)'
<1>. USE NoneAssumption
<1>1. /\ job.at = "apply" /\ job.left = {} /\ Sound(o) /\ SameFields(o) /\ loose' = loose
      /\ SameRecords(o) /\ pend' = pend /\ plan' = plan
  BY DEF CommitFails, PlexUnchanged, SameFields, SameRecords, plex, ledger, Inv, ObjectInv
<1>2. /\ job'.at = "rollback" /\ job'.policy = job.policy
      /\ o \in job'.left <=> pend[o].wrote
  BY DEF CommitFails, Job, RollbackBatches
<1>3. plan.at # o
  BY <1>1 DEF Inv, PlanInv
<1>. USE <1>1, <1>2, <1>3 DEF SameFields, SameRecords, Sound
<1>5. PendInv(o)'
  BY DEF PendInv
<1>6. MineInv(o)'
  BY DEF MineInv
<1>7. GivenInv(o)'
  BY DEF GivenInv
<1>8. ShutInv(o)'
  BY DEF ShutInv
<1>9. TrackInv(o)'
  BY DEF TrackInv, Recording, PendInv
<1>. QED
  BY <1>5, <1>6, <1>7, <1>8, <1>9

LEMMA RollbackFacts ==
  ASSUME Inv, NEW o \in Objects, Rollback(o)
  PROVE  /\ pend[o].scalar = None => val'[o] = val[o] /\ vlock'[o] = vlock[o]
         /\ pend[o].tag = None => tags'[o] = tags[o] /\ tlock'[o] = tlock[o]
         /\ author'[o] = (author[o] /\ pend[o].scalar = None)
         /\ mine'[o] = (mine[o] /\ pend[o].scalar = None)
         /\ given'[o] = given[o] \cap tags'[o] /\ shut'[o] = shut[o]
<1>1. /\ val \in [Objects -> Scalars] /\ vlock \in [Objects -> BOOLEAN]
      /\ tags \in [Objects -> SUBSET Tags] /\ tlock \in [Objects -> BOOLEAN]
  BY Typed DEF Inv, ValueTypes
<1>2. /\ mine \in [Objects -> BOOLEAN] /\ given \in [Objects -> SUBSET Tags]
      /\ author \in [Objects -> BOOLEAN]
  BY Typed DEF Inv, HistoryTypes
<1>3. /\ pend[o].scalar = None => val'[o] = val[o] /\ vlock'[o] = vlock[o]
      /\ pend[o].tag = None => tags'[o] = tags[o] /\ tlock'[o] = tlock[o]
  BY <1>1 DEF Rollback
<1>4. /\ author'[o] = (author[o] /\ pend[o].scalar = None)
      /\ mine'[o] = (mine[o] /\ pend[o].scalar = None)
      /\ given'[o] = given[o] \cap tags'[o] /\ shut'[o] = shut[o]
  BY <1>2 DEF Rollback
<1>. QED
  BY <1>3, <1>4

LEMMA RollbackStep ==
  ASSUME Inv, NEW o \in Objects, Rollback(o)
  PROVE  Sound(o)'
<1>. USE NoneAssumption
<1>1. /\ job.at = "rollback" /\ o \in job.left /\ Sound(o) /\ SameRecords(o)
      /\ pend' = pend /\ plan' = plan /\ loose' = loose
  BY DEF Rollback, SameRecords, ledger, Inv, ObjectInv
<1>2. /\ job'.at = "rollback" /\ job'.policy = job.policy /\ o \notin job'.left
  BY <1>1 DEF Rollback, Done, Job
<1>3. plan.at # o
  BY <1>1 DEF Inv, PlanInv
<1>. USE RollbackFacts, <1>1, <1>2, <1>3 DEF SameRecords, Sound
<1>5. PendInv(o)'
  BY DEF PendInv
<1>6. MineInv(o)'
  BY DEF MineInv
<1>7. GivenInv(o)'
  BY DEF GivenInv
<1>8. ShutInv(o)'
  BY DEF ShutInv
<1>9. TrackInv(o)'
  BY DEF TrackInv, Recording
<1>. QED
  BY <1>5, <1>6, <1>7, <1>8, <1>9
-----------------------------------------------------------------------------
(* The operator's restore and unlock.                                      *)

LEMMA RecoveredFacts ==
  ASSUME Inv, NEW o \in Objects, Recovered(o)
  PROVE  /\ mine[o] => ~RecoversScalar(o)
         /\ mine'[o] = mine[o]
         /\ ~(RecoversScalar(o) /\ job.at = "restore") => val'[o] = val[o]
         /\ author'[o] => author[o] /\ ~(RecoversScalar(o) /\ job.at = "restore")
         /\ given'[o] = given[o] \cap tags'[o] /\ shut'[o] = {}
<1>1. mine[o] => ~RecoversScalar(o)
  BY DEF Inv, ObjectInv, Sound, MineInv, RecoversScalar, Recovers
<1>2. val \in [Objects -> Scalars]
  BY Typed DEF Inv, ValueTypes
<1>3. /\ given \in [Objects -> SUBSET Tags] /\ author \in [Objects -> BOOLEAN]
      /\ shut \in [Objects -> SUBSET {"scalar", "tags"}]
  BY Typed DEF Inv, HistoryTypes
<1>. QED
  BY <1>1, <1>2, <1>3 DEF Recovered

LEMMA RecoveryStep ==
  ASSUME Inv, NEW o \in Objects, Recovering, o \in job.left, UNCHANGED loose,
         SameRecords(o), plan' = plan, Recovered(o),
         job'.at = job.at, job'.policy = job.policy, o \notin job'.left,
         \/ pend' = pend
         \/ pend'[o] = Pending(FALSE, IF RecoversScalar(o) THEN scalarRec[o] ELSE None,
                               IF RecoversTags(o) THEN tagRec[o] ELSE None, TRUE, {})
  PROVE  Sound(o)'
<1>. USE NoneAssumption
<1>1. /\ job.at \in {"restore", "unlock"} /\ Sound(o) /\ pend[o] = Nothing
      /\ plan.at # o
  BY DEF Recovering, Inv, ObjectInv, PlanInv, Sound, PendInv
<1>2. /\ pend'[o].scalar \in {None, scalarRec[o]} /\ ~pend'[o].drop
      /\ pend'[o].scalar # None => RecoversScalar(o)
      /\ pend'[o].tag # None => Owner(tagRec[o]) /\ pend'[o].tag = tagRec[o]
  BY <1>1 DEF Pending, Nothing, RecoversTags, Recovers
<1>. USE RecoveredFacts, <1>1, <1>2 DEF SameRecords, Sound
<1>3. PendInv(o)'
  BY DEF PendInv
<1>4. MineInv(o)'
  <2>1. mine'[o] => mine[o] /\ val'[o] = val[o] /\ pend'[o].scalar = None
    OBVIOUS
  <2>. QED
    BY <2>1 DEF MineInv
<1>5. GivenInv(o)'
  BY DEF GivenInv
<1>6. ShutInv(o)'
  BY DEF ShutInv
<1>7. TrackInv(o)'
  BY DEF TrackInv, Recording
<1>. QED
  BY <1>3, <1>4, <1>5, <1>6, <1>7

LEMMA RecoverStep ==
  ASSUME Inv, NEW o \in Objects, Recover(o) \/ RecoverFails(o)
  PROVE  Sound(o)'
<1>1. /\ Recovering /\ o \in job.left /\ UNCHANGED loose /\ SameRecords(o)
      /\ plan' = plan /\ job'.at = job.at /\ job'.policy = job.policy
      /\ o \notin job'.left
  <2>1. /\ Recovering /\ o \in job.left /\ UNCHANGED loose /\ SameRecords(o)
        /\ plan' = plan
    BY DEF Recover, RecoverFails, SameRecords, ledger
  <2>2. \E failed, writes :
          job' = Job(job.at, job.policy, job.left \ {o}, failed, job.attempt, writes)
    BY DEF Recover, RecoverFails, Done
  <2>. QED
    BY <2>1, <2>2 DEF Job
<1>2. CASE SameFields(o) /\ pend' = pend
  <2>1. job.at # "rollback" /\ Sound(o)
    BY <1>1 DEF Recovering, Inv, ObjectInv
  <2>2. Quiet(o)
    BY <1>1, <1>2, <2>1 DEF Quiet
  <2>. QED
    BY <2>1, <2>2, QuietStep
<1>3. CASE ~(SameFields(o) /\ pend' = pend)
  <2>1. Recovered(o)
    BY <1>3 DEF Recover, RecoverFails, SameFields, plex
  <2>2. \/ pend' = pend
        \/ pend'[o] = Pending(FALSE, IF RecoversScalar(o) THEN scalarRec[o] ELSE None,
                              IF RecoversTags(o) THEN tagRec[o] ELSE None, TRUE, {})
    BY Typed DEF Recover, RecoverFails, Inv, JobTypes
  <2>. QED
    BY <1>1, <2>1, <2>2, RecoveryStep
<1>. QED
  BY <1>2, <1>3

LEMMA EndRecoveryStep ==
  ASSUME Inv, NEW o \in Objects, EndRecovery
  PROVE  Sound(o)'
<1>. USE NoneAssumption
<1>1. /\ job.at \in {"restore", "unlock"} /\ Sound(o) /\ SameFields(o)
      /\ loose' = loose /\ plan' = NoPlan
  BY DEF EndRecovery, Recovering, PlexUnchanged, SameFields, plex, Inv, ObjectInv, PlanInv
<1>2. /\ pend'[o] = Nothing /\ job'.at \in {"idle", job.at}
      /\ job'.policy = "none"
  BY DEF EndRecovery, Job, Rest
<1>3. /\ pend'[o].scalar = None /\ pend'[o].tag = None /\ ~pend'[o].drop
      /\ plan'.at # o
  BY <1>1, <1>2 DEF Nothing, Pending, NoPlan, Plan
<1>4. pend[o] \in Pendings
  BY Typed DEF Inv, JobTypes
<1>5. /\ pend[o].scalar = None => scalarRec'[o] = scalarRec[o]
      /\ Owner(scalarRec'[o]) /\ pend[o].scalar # None =>
           /\ job.at = "unlock"
           /\ scalarRec'[o].applied = pend[o].scalar.applied /\ ~scalarRec'[o].lock
      /\ job.at = "unlock" /\ pend[o].scalar # None => Owner(scalarRec'[o])
  <2>1. \A r \in ScalarRecs : LET q == [r EXCEPT !.lock = FALSE]
         IN q \in ScalarRecs /\ q # None /\ q.applied = r.applied /\ ~q.lock
    BY DEF ScalarRecs
  <2>2. pend[o].scalar \in ScalarRecs \cup {None}
    BY <1>4 DEF Pendings
  <2>. QED
    BY <1>1, <2>1, <2>2 DEF EndRecovery, Owner
<1>6. /\ pend[o].tag = None => tagRec'[o] = tagRec[o]
      /\ Owner(tagRec'[o]) /\ pend[o].tag # None =>
           tagRec'[o].owned = pend[o].tag.owned /\ ~tagRec'[o].lock
  <2>1. \A r \in TagRecs : LET q == [r EXCEPT !.lock = FALSE]
         IN q.owned = r.owned /\ ~q.lock
    BY DEF TagRecs
  <2>2. pend[o].tag \in TagRecs \cup {None}
    BY <1>4 DEF Pendings
  <2>. QED
    BY <1>1, <2>1, <2>2 DEF EndRecovery, Owner
<1>. USE <1>1, <1>2, <1>3, <1>5, <1>6 DEF SameFields, Sound
<1>7. PendInv(o)'
  BY DEF PendInv
<1>8. MineInv(o)'
  BY DEF MineInv
<1>9. GivenInv(o)'
  BY DEF GivenInv
<1>10. ShutInv(o)'
  BY DEF ShutInv, Ours
<1>11. TrackInv(o)'
  BY DEF TrackInv, Recording
<1>. QED
  BY <1>7, <1>8, <1>9, <1>10, <1>11

-----------------------------------------------------------------------------
(* The user.                                                               *)

LEMMA UserSetsStep ==
  ASSUME Inv, NEW o \in Objects, NEW x \in Scalars, NEW locked \in BOOLEAN,
         UserSets(o, x, locked)
  PROVE  Sound(o)'
<1>. USE NoneAssumption
<1>1. /\ Sound(o) /\ SameRecords(o) /\ pend' = pend /\ plan' = plan /\ job' = job
      /\ loose' = loose /\ tags' = tags /\ tlock' = tlock /\ given' = given
  BY DEF UserSets, OutsideJob, SameRecords, ledger, Inv, ObjectInv
<1>2. /\ val'[o] = x /\ vlock'[o] = locked
      /\ mine'[o] => \/ x = val[o] /\ mine[o]
                     \/ /\ job.at = "idle" /\ x # Empty
                        /\ Owner(scalarRec[o]) => x # scalarRec[o].applied
      /\ author'[o] => author[o] /\ x = val[o]
  BY ZenonT(60), Typed DEF UserSets, Inv, ValueTypes, HistoryTypes
<1>3. /\ shut'[o] \subseteq shut[o] \cup {"scalar"}
      /\ "scalar" \in shut'[o] => job.at = "idle" /\ locked /\ ~Ours(scalarRec[o])
  BY Typed DEF UserSets, Locks, Inv, HistoryTypes
<1>4. job.at = "idle" => pend[o].scalar = None /\ plan.at # o
  BY <1>1 DEF Sound, PendInv, Nothing, Pending, Inv, PlanInv
<1>. USE <1>1, <1>2, <1>3, <1>4 DEF SameRecords, Sound
<1>5. PendInv(o)'
  BY DEF PendInv
<1>6. MineInv(o)'
  BY DEF MineInv
<1>7. GivenInv(o)'
  BY DEF GivenInv
<1>8. ShutInv(o)'
  BY DEF ShutInv
<1>9. TrackInv(o)'
  BY DEF TrackInv, Recording
<1>. QED
  BY <1>5, <1>6, <1>7, <1>8, <1>9

LEMMA UserTagsStep ==
  ASSUME Inv, NEW o \in Objects, NEW t \in Tags, NEW locked \in BOOLEAN,
         UserTags(o, t, locked)
  PROVE  Sound(o)'
<1>. USE NoneAssumption
<1>1. /\ Sound(o) /\ SameRecords(o) /\ pend' = pend /\ plan' = plan /\ job' = job
      /\ loose' = loose /\ val' = val /\ vlock' = vlock /\ mine' = mine
      /\ author' = author
  BY DEF UserTags, OutsideJob, SameRecords, ledger, Inv, ObjectInv
<1>2. /\ tags'[o] = IF t \in tags[o] THEN tags[o] \ {t} ELSE tags[o] \cup {t}
      /\ tlock'[o] = locked
      /\ given'[o] \subseteq tags'[o]
      /\ \/ given'[o] \subseteq given[o]
         \/ /\ given'[o] \subseteq given[o] \cup {t} /\ job.at = "idle"
            /\ Owner(tagRec[o]) => t \notin tagRec[o].owned
  <2>1. given[o] \subseteq tags[o]
    BY <1>1 DEF Sound, GivenInv
  <2>. QED
    BY <2>1, Typed DEF UserTags, Inv, ValueTypes, HistoryTypes
<1>3. /\ shut'[o] \subseteq shut[o] \cup {"tags"}
      /\ "tags" \in shut'[o] => job.at = "idle" /\ locked /\ ~Ours(tagRec[o])
  BY Typed DEF UserTags, Locks, Inv, HistoryTypes
<1>4. job.at = "idle" => pend[o].tag = None /\ plan.at # o
  BY <1>1 DEF Sound, PendInv, Nothing, Pending, Inv, PlanInv
<1>. USE <1>1, <1>2, <1>3, <1>4 DEF SameRecords, Sound
<1>5. PendInv(o)'
  BY DEF PendInv
<1>6. MineInv(o)'
  BY DEF MineInv
<1>7. GivenInv(o)'
  BY DEF GivenInv
<1>8. ShutInv(o)'
  BY DEF ShutInv
<1>9. TrackInv(o)'
  BY DEF TrackInv, Recording
<1>. QED
  BY <1>5, <1>6, <1>7, <1>8, <1>9
-----------------------------------------------------------------------------
(* All steps, for all objects.                                             *)

LEMMA Elsewhere ==
  ASSUME Inv, NEW o \in Objects, NEW p \in Objects, p # o,
         \/ Skip(o) \/ LimitReached(o) \/ Decide(o) \/ Write(o) \/ Rollback(o)
         \/ Recover(o) \/ WriteUnverified(o) \/ ObjectFails(o) \/ RollbackFails(o)
         \/ RecoverFails(o)
  PROVE  Quiet(p)
<1>. USE NoneAssumption
<1>1. /\ val \in [Objects -> Scalars] /\ vlock \in [Objects -> BOOLEAN]
      /\ tags \in [Objects -> SUBSET Tags] /\ tlock \in [Objects -> BOOLEAN]
      /\ mine \in [Objects -> BOOLEAN] /\ given \in [Objects -> SUBSET Tags]
      /\ shut \in [Objects -> SUBSET {"scalar", "tags"}]
      /\ author \in [Objects -> BOOLEAN] /\ loose \in [Objects -> BOOLEAN]
      /\ pend \in [Objects -> Pendings]
  BY Typed DEF Inv, ValueTypes, HistoryTypes, JobTypes
<1>2. Save(o) \/ Recovered(o) => UNCHANGED <<val[p], vlock[p], tags[p], tlock[p], mine[p],
                                            given[p], shut[p], author[p]>>
  BY <1>1 DEF Save, Recovered
<1>3. PlexUnchanged => UNCHANGED <<val[p], vlock[p], tags[p], tlock[p], mine[p],
                                  given[p], shut[p], author[p]>>
  BY DEF PlexUnchanged, plex
<1>4. Rollback(o) => UNCHANGED <<val[p], vlock[p], tags[p], tlock[p], mine[p],
                                given[p], shut[p], author[p]>>
  BY <1>1 DEF Rollback
<1>5. SameFields(p)
  <2>1. UNCHANGED <<val[p], vlock[p], tags[p], tlock[p], mine[p],
                    given[p], shut[p], author[p]>>
    BY <1>2, <1>3, <1>4
       DEF Skip, LimitReached, Decide, Write, Recover, WriteUnverified, ObjectFails,
           RollbackFails, RecoverFails, plex
  <2>2. loose[p] => loose'[p]
    BY <1>1
       DEF Skip, LimitReached, Decide, Write, Rollback, Recover, WriteUnverified,
           ObjectFails, RollbackFails, RecoverFails
  <2>. QED
    BY <2>1, <2>2 DEF SameFields
<1>6. SameRecords(p) /\ pend'[p] = pend[p]
  BY <1>1
     DEF SameRecords, ledger, Skip, LimitReached, Decide, Write, Rollback, Recover,
         WriteUnverified, ObjectFails, RollbackFails, RecoverFails
<1>7. plan' = plan \/ plan'.at # p
  <2>1. NoPlan.at # p
    BY DEF NoPlan, Plan
  <2>2. CASE Decide(o)
    BY <2>2 DEF Decide, Plan
  <2>3. CASE ~Decide(o)
    <3>1. plan' = plan \/ plan' = NoPlan
      BY <2>3 DEF Skip, LimitReached, Write, Rollback, Recover, WriteUnverified,
                  ObjectFails, RollbackFails, RecoverFails
    <3>. QED
      BY <2>1, <3>1
  <2>. QED
    BY <2>2, <2>3
<1>8. /\ job'.at = job.at /\ job'.policy = job.policy
      /\ p \in job'.left <=> p \in job.left
  <2>1. \E failed, writes : \E left \in {job.left, job.left \ {o}} :
          job' = Job(job.at, job.policy, left, failed, job.attempt, writes)
    BY DEF Skip, LimitReached, Decide, Write, Rollback, Recover, WriteUnverified,
           ObjectFails, RollbackFails, RecoverFails, Done
  <2>. QED
    BY <2>1 DEF Job
<1>. QED
  BY <1>5, <1>6, <1>7, <1>8 DEF Quiet

LEMMA LeftAlone ==
  ASSUME Inv, NEW o \in Objects, LimitReached(o) \/ ObjectFails(o) \/ RollbackFails(o)
  PROVE  Sound(o)'
<1>. USE NoneAssumption
<1>1. SameRecords(o) /\ pend' = pend /\ plan' \in {plan, NoPlan} /\ NoPlan.at # o
  BY DEF LimitReached, ObjectFails, RollbackFails, SameRecords, ledger, NoPlan, Plan
<1>2. SameFields(o) /\ (RollbackFails(o) => loose'[o])
  BY Typed DEF LimitReached, ObjectFails, RollbackFails, PlexUnchanged, plex, SameFields,
               Inv, HistoryTypes
<1>3. /\ job'.at = job.at /\ job'.policy = job.policy /\ o \notin job'.left
      /\ job.at = "rollback" => RollbackFails(o)
  BY DEF LimitReached, ObjectFails, RollbackFails, Deciding, Done, Job
<1>4. Quiet(o)
  BY <1>1, <1>2, <1>3 DEF Quiet
<1>. QED
  BY <1>4, QuietStep DEF Inv, ObjectInv

LEMMA ObjectStep ==
  ASSUME Inv, [Next]_vars, NEW p \in Objects
  PROVE  Sound(p)'
<1>. USE NoneAssumption
<1>0. /\ Sound(p) /\ pend \in [Objects -> Pendings] /\ loose \in [Objects -> BOOLEAN]
      /\ job.at = "idle" => pend[p] = Nothing /\ ~Recording(p) /\ plan = NoPlan
  BY Typed DEF Inv, ObjectInv, Sound, PendInv, JobTypes, HistoryTypes, Recording, PlanInv
<1>1. ASSUME NEW o \in Objects,
             \/ Skip(o) \/ LimitReached(o) \/ Decide(o) \/ Write(o) \/ Rollback(o)
             \/ Recover(o) \/ WriteUnverified(o) \/ ObjectFails(o) \/ RollbackFails(o)
             \/ RecoverFails(o)
      PROVE  Sound(p)'
  <2>1. CASE p # o
    BY <1>0, <1>1, <2>1, Elsewhere, QuietStep
  <2>2. CASE p = o
    BY <1>1, <2>2, SkipStep, DecideStep, WriteStep, RollbackStep, RecoverStep,
       WriteUnverifiedStep, LeftAlone
  <2>. QED
    BY <2>1, <2>2
<1>2. CASE (\E policy \in Policies : BeginApply(policy))
           \/ \E at \in {"restore", "unlock"} : BeginRecovery(at)
  <2>1. job.at = "idle" /\ SameFields(p) /\ SameRecords(p) /\ pend' = pend /\ plan' = plan
    BY <1>2 DEF BeginApply, BeginRecovery, Begin, PlexUnchanged, plex, ledger, SameFields,
                SameRecords
  <2>2. job'.at # "rollback"
    BY <1>2 DEF BeginApply, BeginRecovery, Begin, Job
  <2>. QED
    BY <1>0, <2>1, <2>2, ResetStep DEF Reset
<1>3. CASE JobStep
  <2>1. CASE Commit
    BY <2>1, CommitStep
  <2>2. CASE EndRecovery
    BY <2>2, EndRecoveryStep
  <2>3. CASE RolledBack
    <3>1. /\ SameFields(p) /\ SameRecords(p) /\ job.at = "rollback" /\ job.left = {}
          /\ pend'[p] = Nothing /\ job'.at # "rollback" /\ plan' = plan /\ loose' = loose
      BY <2>3 DEF RolledBack, EndAttempt, PlexUnchanged, plex, ledger, SameFields,
                  SameRecords, Job, Rest
    <3>2. author[p] /\ ~loose[p] => ~Recording(p)
      BY <1>0, <3>1 DEF Sound, TrackInv
    <3>3. plan = NoPlan
      BY <3>1 DEF Inv, PlanInv
    <3>. QED
      BY <1>0, <3>1, <3>2, <3>3, ResetStep DEF Reset
  <2>. QED
    BY <1>1, <1>3, <2>1, <2>2, <2>3 DEF JobStep
<1>4. CASE Failure
  <2>1. CASE CommitFails
    BY <2>1, CommitFailsStep
  <2>2. CASE ChildrenFail
    <3>1. /\ SameFields(p) /\ SameRecords(p) /\ pend'[p] = Nothing /\ plan' = NoPlan
          /\ job'.at # "rollback" /\ pend[p] = Nothing
      BY <1>0, <2>2 DEF ChildrenFail, EndAttempt, PlexUnchanged, plex, ledger, SameFields,
                        SameRecords, Job, Rest, Sound, PendInv
    <3>2. ~Recording(p)
      BY <3>1 DEF Recording, Nothing, Pending
    <3>. QED
      BY <1>0, <3>1, <3>2, ResetStep DEF Reset
  <2>3. CASE EndRecoveryFails
    <3>1. /\ SameFields(p) /\ SameRecords(p) /\ pend'[p] = Nothing /\ plan' = plan
          /\ job'.at # "rollback" /\ job.at \in {"restore", "unlock"}
      BY <2>3 DEF EndRecoveryFails, PlexUnchanged, plex, ledger, SameFields, SameRecords,
                  Rest, Job, Recovering
    <3>2. plan = NoPlan
      BY <3>1 DEF Inv, PlanInv
    <3>. QED
      BY <1>0, <3>1, <3>2, ResetStep DEF Reset, Recording
  <2>4. CASE Kill
    <3>1. /\ SameFields(p) /\ SameRecords(p) /\ pend'[p] = Nothing /\ plan' = NoPlan
          /\ job'.at # "rollback" /\ loose'[p] = (loose[p] \/ pend[p].wrote)
      BY <2>4 DEF Kill, PlexUnchanged, plex, ledger, SameFields, SameRecords, Rest, Job
    <3>2. author[p] /\ ~loose'[p] => ~Recording(p)
      BY <1>0, <3>1 DEF Recording, Sound, PendInv
    <3>. QED
      BY <1>0, <3>1, <3>2, ResetStep DEF Reset
  <2>. QED
    BY <1>1, <1>4, <2>1, <2>2, <2>3, <2>4 DEF Failure
<1>5. CASE User
  <2>1. ASSUME NEW o \in Objects, NEW x \in Scalars, NEW locked \in BOOLEAN,
               UserSets(o, x, locked)
        PROVE  Sound(p)'
    <3>1. CASE p # o
      <4>1. SameFields(p)
        BY <2>1, <3>1, Typed
           DEF UserSets, Locks, OutsideJob, SameFields, Inv, ValueTypes, HistoryTypes
      <4>2. SameRecords(p) /\ UNCHANGED <<job, pend, plan>>
        BY <2>1 DEF UserSets, OutsideJob, SameRecords, ledger
      <4>. QED
        BY <1>0, <4>1, <4>2, QuietStep DEF Quiet
    <3>. QED
      BY <2>1, <3>1, UserSetsStep
  <2>2. ASSUME NEW o \in Tagged, NEW t \in Tags, NEW locked \in BOOLEAN,
               UserTags(o, t, locked)
        PROVE  Sound(p)'
    <3>0. o \in Objects
      BY DEF Tagged
    <3>1. CASE p # o
      <4>1. SameFields(p)
        BY <2>2, <3>0, <3>1, Typed
           DEF UserTags, Locks, OutsideJob, SameFields, Inv, ValueTypes, HistoryTypes
      <4>2. SameRecords(p) /\ UNCHANGED <<job, pend, plan>>
        BY <2>2 DEF UserTags, OutsideJob, SameRecords, ledger
      <4>. QED
        BY <1>0, <4>1, <4>2, QuietStep DEF Quiet
    <3>. QED
      BY <2>2, <3>0, <3>1, UserTagsStep
  <2>3. ASSUME NEW o \in Objects, NEW c \in Offered[o], Offers(o, c)
        PROVE  Sound(p)'
    <3>1. Quiet(p)
      BY <2>3 DEF Offers, OutsideJob, Quiet, SameFields, SameRecords, plex, ledger
    <3>. QED
      BY <1>0, <3>1, QuietStep
  <2>. QED
    BY <1>5, <2>1, <2>2, <2>3 DEF User
<1>6. CASE UNCHANGED vars
  <2>1. Quiet(p)
    BY <1>6 DEF vars, Quiet, SameFields, SameRecords, plex, ledger, history
  <2>. QED
    BY <1>0, <2>1, QuietStep
<1>. QED
  BY <1>2, <1>3, <1>4, <1>5, <1>6 DEF Next

LEMMA InitInv == Init => Inv
<1>. SUFFICES ASSUME Init PROVE Inv
  OBVIOUS
<1>1. PlanInv
  BY NoneAssumption DEF Init, PlanInv, NoPlan, Plan
<1>2. ASSUME NEW o \in Objects PROVE Sound(o)
  <2>1. /\ pend[o] = Nothing /\ Nothing.scalar = None /\ Nothing.tag = None
        /\ ~Nothing.drop /\ job.at = "idle" /\ plan.at # o
    BY NoneAssumption DEF Init, Nothing, Pending, Rest, Job, NoPlan, Plan
  <2>2. /\ scalarRec[o] = None /\ tagRec[o] = None /\ mine[o] = (val[o] # Empty)
        /\ given[o] = {} /\ shut[o] = {} /\ ~author[o] /\ tags[o] = {}
    BY DEF Init
  <2>3. PendInv(o)
    BY <2>1 DEF PendInv
  <2>4. MineInv(o) /\ GivenInv(o)
    BY <2>1, <2>2 DEF MineInv, GivenInv, Owner
  <2>5. ShutInv(o) /\ TrackInv(o)
    BY <2>1, <2>2 DEF ShutInv, TrackInv, Recording
  <2>. QED
    BY <2>3, <2>4, <2>5 DEF Sound
<1>. QED
  BY <1>1, <1>2, InitType DEF Inv, ObjectInv

LEMMA InvStep == Inv /\ [Next]_vars => Inv'
<1>. SUFFICES ASSUME Inv, [Next]_vars PROVE Inv'
  OBVIOUS
<1>1. TypeOK' /\ PlanInv'
  BY TypeStep, PlanStep DEF Inv
<1>2. ObjectInv'
  BY ObjectStep DEF ObjectInv
<1>. QED
  BY <1>1, <1>2 DEF Inv

(* What is planned, pending and recorded agrees with what is the user's, what *)
(* MetaFusion wrote and what it will record, in every state.                 *)
THEOREM Invariance == Spec => []Inv
BY InitInv, InvStep, PTL DEF Spec
-----------------------------------------------------------------------------
(* The theorems.                                                           *)

(* What MetaFusion, the operator aside, can do to the fields of an object. *)
LEMMA Kinds ==
  ASSUME Inv, [Next]_vars, changes' = changes, NEW p \in Objects
  PROVE  \/ SameFields(p)
         \/ job.at = "apply" /\ plan.at = p /\ Save(p)
         \/ Rollback(p)
         \/ Recovering /\ Recovered(p)
<1>1. ~Change
  BY Typed, BoundAssumption DEF Change, Inv, BoundTypes
<1>2. loose \in [Objects -> BOOLEAN]
  BY Typed DEF Inv, HistoryTypes
<1>3. ASSUME NEW o \in Objects,
             \/ Skip(o) \/ LimitReached(o) \/ Decide(o) \/ Write(o) \/ Rollback(o)
             \/ Recover(o) \/ WriteUnverified(o) \/ ObjectFails(o) \/ RollbackFails(o)
             \/ RecoverFails(o),
             p # o
      PROVE  SameFields(p)
  BY <1>3, Elsewhere DEF Quiet
<1>4. Skip(p) \/ LimitReached(p) \/ Decide(p) \/ ObjectFails(p) \/ RollbackFails(p)
      => SameFields(p)
  BY <1>2 DEF Skip, LimitReached, Decide, ObjectFails, RollbackFails, PlexUnchanged, plex,
              SameFields
<1>5. Write(p) \/ WriteUnverified(p) => job.at = "apply" /\ plan.at = p /\ Save(p)
  BY DEF Write, WriteUnverified
<1>6. Recover(p) \/ RecoverFails(p) => SameFields(p) \/ (Recovering /\ Recovered(p))
  BY DEF Recover, RecoverFails, SameFields, plex
<1>7. Commit \/ RolledBack \/ EndRecovery \/ ChildrenFail \/ CommitFails \/ EndRecoveryFails
      \/ Kill => SameFields(p)
  BY <1>2 DEF Commit, RolledBack, EndRecovery, ChildrenFail, CommitFails, EndRecoveryFails,
              Kill, PlexUnchanged, plex, SameFields
<1>8. ASSUME NEW policy \in Policies, BeginApply(policy) PROVE SameFields(p)
  BY <1>8 DEF BeginApply, Begin, PlexUnchanged, plex, SameFields
<1>9. ~User /\ ~\E at \in {"restore", "unlock"} : BeginRecovery(at)
  BY <1>1 DEF User, UserSets, UserTags, Offers, BeginRecovery
<1>10. UNCHANGED vars => SameFields(p)
  BY DEF vars, plex, history, SameFields
<1>. QED
  BY <1>3, <1>4, <1>5, <1>6, <1>7, <1>8, <1>9, <1>10 DEF Next, JobStep, Failure

(* Every variable always has its type.                                     *)
THEOREM TypeCorrect == Spec => []TypeOK
<1>1. Inv => TypeOK
  BY DEF Inv
<1>. QED
  BY <1>1, Invariance, PTL

(* Between operations, what MetaFusion wrote last is on record, however many *)
(* attempts, rollbacks and restores there were (_apply_candidate).           *)
THEOREM WritesAreTracked == Spec => []WritesTracked
<1>1. Inv => WritesTracked
  BY DEF Inv, ObjectInv, Sound, TrackInv, Recording, WritesTracked
<1>. QED
  BY <1>1, Invariance, PTL

(* A scalar of the user's is written under overwrite only (_apply_object,   *)
(* _rollback_untracked_write, _restore_candidate).                          *)
THEOREM UserValueIsKept == Spec => UserValueKept
<1>1. ASSUME Inv, [Next]_vars
      PROVE  \A o \in Objects :
               (mine[o] /\ changes' = changes /\ job.policy # "overwrite") =>
                 val'[o] = val[o]
  <2>. SUFFICES ASSUME NEW o \in Objects, mine[o], changes' = changes,
                       job.policy # "overwrite"
                PROVE  val'[o] = val[o]
    OBVIOUS
  <2>1. /\ pend[o].scalar = None
        /\ plan.at = o => plan.scalar = None
    BY <1>1 DEF Inv, ObjectInv, Sound, MineInv
  <2>2. CASE SameFields(o)
    BY <2>2 DEF SameFields
  <2>3. CASE job.at = "apply" /\ plan.at = o /\ Save(o)
    BY <1>1, <2>1, <2>3, SaveFacts
  <2>4. CASE Rollback(o)
    BY <1>1, <2>1, <2>4, RollbackFacts
  <2>5. CASE Recovered(o)
    BY <1>1, <2>5, RecoveredFacts
  <2>. QED
    BY <1>1, <2>2, <2>3, <2>4, <2>5, Kinds
<1>2. ASSUME Inv, [Next]_vars
      PROVE  [\A o \in Objects :
               (mine[o] /\ changes' = changes /\ job.policy # "overwrite") =>
                 val'[o] = val[o]]_vars
  BY <1>1, <1>2
<1>. QED
  BY <1>2, Invariance, PTL DEF Spec, UserValueKept

(* A tag of the user's is removed under overwrite only (_apply_object).     *)
THEOREM UserTagsAreKept == Spec => UserTagsKept
<1>1. ASSUME Inv, [Next]_vars
      PROVE  \A o \in Objects :
               (changes' = changes /\ job.at = "apply" /\ job.policy # "overwrite")
               => given[o] \subseteq tags'[o]
  <2>. SUFFICES ASSUME NEW o \in Objects, changes' = changes, job.at = "apply",
                       job.policy # "overwrite"
                PROVE  given[o] \subseteq tags'[o]
    OBVIOUS
  <2>1. /\ given[o] \subseteq tags[o]
        /\ plan.at = o => plan.remove \cap given[o] = {}
    BY <1>1 DEF Inv, ObjectInv, Sound, GivenInv
  <2>2. CASE SameFields(o)
    BY <2>1, <2>2 DEF SameFields
  <2>3. CASE plan.at = o /\ Save(o)
    BY <1>1, <2>1, <2>3, SaveFacts
  <2>. QED
    BY <1>1, <2>2, <2>3, Kinds DEF Rollback, Recovering
<1>2. ASSUME Inv, [Next]_vars
      PROVE  [\A o \in Objects :
               (changes' = changes /\ job.at = "apply" /\ job.policy # "overwrite")
               => given[o] \subseteq tags'[o]]_vars
  BY <1>1, <1>2
<1>. QED
  BY <1>2, Invariance, PTL DEF Spec, UserTagsKept

(* A field the user locked is written under overwrite only (_apply_object,  *)
(* _rollback_untracked_write).                                              *)
THEOREM UserLocksAreKept == Spec => UserLockKept
<1>1. ASSUME Inv, [Next]_vars
      PROVE  \A o \in Objects :
               (changes' = changes /\ job.at \in {"apply", "rollback"}
                /\ job.policy # "overwrite")
               => /\ "scalar" \in shut[o] => val'[o] = val[o] /\ vlock'[o] = vlock[o]
                  /\ "tags" \in shut[o] => tags'[o] = tags[o] /\ tlock'[o] = tlock[o]
  <2>. SUFFICES ASSUME NEW o \in Objects, changes' = changes,
                       job.at \in {"apply", "rollback"}, job.policy # "overwrite"
                PROVE  /\ "scalar" \in shut[o] => val'[o] = val[o] /\ vlock'[o] = vlock[o]
                       /\ "tags" \in shut[o] => tags'[o] = tags[o] /\ tlock'[o] = tlock[o]
    OBVIOUS
  <2>1. /\ "scalar" \in shut[o] => /\ pend[o].scalar = None
                                   /\ plan.at = o => plan.scalar = None
        /\ "tags" \in shut[o] => /\ pend[o].tag = None
                                 /\ plan.at = o => plan.add = {} /\ plan.remove = {}
    BY <1>1 DEF Inv, ObjectInv, Sound, ShutInv
  <2>2. CASE SameFields(o)
    BY <2>2 DEF SameFields
  <2>3. CASE job.at = "apply" /\ plan.at = o /\ Save(o)
    BY <1>1, <2>1, <2>3, SaveFacts
  <2>4. CASE Rollback(o)
    BY <1>1, <2>1, <2>4, RollbackFacts
  <2>. QED
    BY <1>1, <2>2, <2>3, <2>4, Kinds DEF Recovering
<1>2. ASSUME Inv, [Next]_vars
      PROVE  [\A o \in Objects :
               (changes' = changes /\ job.at \in {"apply", "rollback"}
                /\ job.policy # "overwrite")
               => /\ "scalar" \in shut[o] => val'[o] = val[o] /\ vlock'[o] = vlock[o]
                  /\ "tags" \in shut[o] => tags'[o] = tags[o] /\ tlock'[o] = tlock[o]]_vars
  BY <1>1, <1>2
<1>. QED
  BY <1>2, Invariance, PTL DEF Spec, UserLockKept
=============================================================================
