---------------------------- MODULE PlexMetadata ----------------------------
(***************************************************************************)
(* Direct Plex metadata of one item and its children: the writes of        *)
(* helper/plex_metadata.py, the ledger that remembers what MetaFusion      *)
(* wrote and what was there before, retries, rollback, and the operator's  *)
(* restore and unlock, with a user who edits in Plex at any time.          *)
(*                                                                         *)
(* Each object (the item, a season, an episode) has one scalar field and   *)
(* one tag field.                                                          *)
(***************************************************************************)
EXTENDS Integers, FiniteSets

CONSTANTS
  Objects,     \* the item and its seasons and episodes
  Values,      \* scalar values that are not empty
  Tags,        \* tags
  Empty,       \* the empty scalar
  None,        \* no record, nothing to write
  Offered,     \* for each object, what TMDb may have
  Policies,    \* the policies the operator applies
  LockWrites,  \* lock_writes and lock_merged_tags
  Limit,       \* max_writes_per_run
  Retries,     \* plex_retries
  MaxChanges,  \* bound on changes by the user, the operator and at TMDb
  MaxFaults    \* bound on failures and kills

Scalars == Values \cup {Empty}
Tagged == {o \in Objects : \E c \in Offered[o] : c.tags # {}}  \* seasons are not
ScalarRecs == [orig : Scalars, applied : Scalars, lock0 : BOOLEAN, lock : BOOLEAN]
TagRecs == [orig : SUBSET Tags, owned : SUBSET Tags, applied : SUBSET Tags,
            relinquished : SUBSET Tags, lock0 : BOOLEAN, lock : BOOLEAN]

ASSUME NoneAssumption ==
  /\ Empty \notin Values
  /\ None \notin Scalars \cup ScalarRecs \cup TagRecs \cup Objects
ASSUME OfferedAssumption ==
  Offered \in [Objects -> SUBSET [val : Scalars, tags : SUBSET Tags]]
ASSUME PolicyAssumption == Policies \subseteq {"fill_missing", "managed", "overwrite"}
ASSUME BoundAssumption ==
  /\ LockWrites \in BOOLEAN
  /\ Limit \in Nat \ {0} /\ Retries \in Nat \ {0}
  /\ MaxChanges \in Nat /\ MaxFaults \in Nat

VARIABLES
  val, vlock,  \* the scalar of each object in Plex, and its lock
  tags, tlock, \* the tags of each object in Plex, and their lock
  offer,       \* what TMDb has for each object
  scalarRec,   \* the ledger's record of each scalar
  tagRec,      \* the ledger's record of each tag field
  job,         \* the operation under way
  plan,        \* decided and unwritten changes of the object it is at
  pend,        \* the records of an attempt that are not yet in the ledger
  changes, faults,
  mine,        \* history: scalars that are the user's
  given,       \* history: tags that are the user's
  shut,        \* history: the fields of each object the user locked
  author,      \* history: scalars MetaFusion was the last to write
  loose        \* history: objects an operation failed at in the middle

plex == <<val, vlock, tags, tlock>>
ledger == <<scalarRec, tagRec>>
bounds == <<changes, faults>>
history == <<mine, given, shut, author, loose>>
vars == <<plex, offer, ledger, job, plan, pend, bounds, history>>

-----------------------------------------------------------------------------
\* A record keeps the value and the lock that were there before MetaFusion's
\* first write, what it applied last and the lock it set; that of a tag field
\* also the tags MetaFusion owns and those it gave up after the user took them
\* out.
Scalar(orig, applied, lock0, lock) ==
  [orig |-> orig, applied |-> applied, lock0 |-> lock0, lock |-> lock]
TagSet(orig, applied, owned, relinquished, lock0, lock) ==
  [orig |-> orig, applied |-> applied, owned |-> owned,
   relinquished |-> relinquished, lock0 |-> lock0, lock |-> lock]

\* What an attempt is to do to the ledger for an object: drop the record of the
\* scalar, store records; and, if it wrote, the tags it saw after the write.
Pending(drop, scalar, tag, wrote, seen) ==
  [drop |-> drop, scalar |-> scalar, tag |-> tag, wrote |-> wrote, seen |-> seen]
Nothing == Pending(FALSE, None, None, FALSE, {})

\* The batch of edits of one object and the records that go with it.
Plan(at, scalar, add, remove, rec) ==
  [at |-> at, scalar |-> scalar, add |-> add, remove |-> remove, rec |-> rec]
NoPlan == Plan(None, None, {}, {}, Nothing)

Job(at, policy, left, failed, attempt, writes) ==
  [at |-> at, policy |-> policy, left |-> left, failed |-> failed,
   attempt |-> attempt, writes |-> writes]
Rest == Job("idle", "none", {}, FALSE, 0, 0)

Pendings == [drop : BOOLEAN, scalar : ScalarRecs \cup {None},
             tag : TagRecs \cup {None}, wrote : BOOLEAN, seen : SUBSET Tags]

TypeOK ==
  /\ val \in [Objects -> Scalars] /\ vlock \in [Objects -> BOOLEAN]
  /\ tags \in [Objects -> SUBSET Tags] /\ tlock \in [Objects -> BOOLEAN]
  /\ \A o \in Objects : offer[o] \in Offered[o]
  /\ offer \in [Objects -> [val : Scalars, tags : SUBSET Tags]]
  /\ scalarRec \in [Objects -> ScalarRecs \cup {None}]
  /\ tagRec \in [Objects -> TagRecs \cup {None}]
  /\ job \in [at : {"idle", "apply", "rollback", "restore", "unlock"},
              policy : Policies \cup {"none"}, left : SUBSET Objects,
              failed : BOOLEAN, attempt : 0..Retries, writes : 0..Limit]
  /\ plan \in [at : Objects \cup {None}, scalar : Scalars \cup {None},
               add : SUBSET Tags, remove : SUBSET Tags, rec : Pendings]
  /\ pend \in [Objects -> Pendings]
  /\ changes \in 0..MaxChanges /\ faults \in 0..MaxFaults
  /\ mine \in [Objects -> BOOLEAN] /\ given \in [Objects -> SUBSET Tags]
  /\ shut \in [Objects -> SUBSET {"scalar", "tags"}]
  /\ author \in [Objects -> BOOLEAN] /\ loose \in [Objects -> BOOLEAN]

Init ==
  /\ val \in [Objects -> Scalars] /\ tags = [o \in Objects |-> {}]
  /\ vlock = [o \in Objects |-> FALSE] /\ tlock = vlock
  /\ offer \in {f \in [Objects -> UNION {Offered[o] : o \in Objects}] :
                 \A o \in Objects : f[o] \in Offered[o]}
  /\ scalarRec = [o \in Objects |-> None] /\ tagRec = scalarRec
  /\ job = Rest /\ plan = NoPlan /\ pend = [o \in Objects |-> Nothing]
  /\ changes = 0 /\ faults = 0
  /\ mine = [o \in Objects |-> val[o] # Empty]
  /\ given = [o \in Objects |-> {}] /\ shut = given
  /\ author = vlock /\ loose = vlock

-----------------------------------------------------------------------------
\* _apply_object: what it does about the scalar of an object.

Owner(rec) == rec # None
Ours(rec) == Owner(rec) /\ rec.lock

\* One mutant does not look at the lock, the other not at who set it.
LockedNever(rec, locked) == FALSE
LockedByAnybody(rec, locked) == locked /\ job.policy # "overwrite"
LockedOut(rec, locked) ==
  locked /\ ~Ours(rec) /\ job.policy # "overwrite"

Conflict(o) == Owner(scalarRec[o]) /\ val[o] # scalarRec[o].applied

Looks(o) == val[o] # offer[o].val /\ ~LockedOut(scalarRec[o], vlock[o])

\* The mutant writes over whatever is there once MetaFusion has a record.
WritesOwned(o) ==
  Looks(o) /\ (IF Owner(scalarRec[o]) THEN job.policy # "fill_missing"
               ELSE job.policy = "overwrite" \/ val[o] = Empty)

WritesScalar(o) ==
  Looks(o) /\ \/ job.policy = "overwrite"
              \/ job.policy = "managed" /\ Owner(scalarRec[o]) /\ ~Conflict(o)
              \/ ~Owner(scalarRec[o]) /\ val[o] = Empty

\* A value that is not the one applied is the user's, and its record dropped.
DropsScalar(o) == Looks(o) /\ job.policy # "overwrite" /\ Conflict(o)

Target(o) ==
  IF job.policy = "managed" /\ Owner(scalarRec[o]) /\ offer[o].val = Empty
  THEN scalarRec[o].orig ELSE offer[o].val

ScalarRecord(o) ==
  IF Owner(scalarRec[o])
  THEN Scalar(scalarRec[o].orig, Target(o), scalarRec[o].lock0,
              LockWrites \/ scalarRec[o].lock)
  ELSE Scalar(val[o], Target(o), vlock[o], LockWrites)

-----------------------------------------------------------------------------
\* _apply_object: what it does about the tags.

Managed(o) == job.policy = "managed" /\ Owner(tagRec[o])
Relinquished(o) == IF Owner(tagRec[o]) THEN tagRec[o].relinquished ELSE {}
TakenOut(o) == IF Managed(o) THEN tagRec[o].owned \ tags[o] ELSE {}

Adds(o) == offer[o].tags \ (tags[o] \cup Relinquished(o) \cup TakenOut(o))

\* The mutant removes what TMDb does not have, whoever put it there.
RemovesAny(o) == IF job.policy = "fill_missing" THEN {} ELSE tags[o] \ offer[o].tags
Removes(o) ==
  IF job.policy = "overwrite" THEN tags[o] \ offer[o].tags
  ELSE IF Managed(o) THEN (tagRec[o].owned \cap tags[o]) \ offer[o].tags
  ELSE {}

\* A managed record remembers what the user took out, although nothing is to
\* be written.
TagRecord(o) ==
  LET writes == Adds(o) \cup Removes(o) # {}
      final == (tags[o] \ Removes(o)) \cup Adds(o)
      owned == IF job.policy = "overwrite" THEN offer[o].tags
               ELSE IF ~Managed(o) THEN Adds(o)
               ELSE IF writes THEN (tagRec[o].owned \ Removes(o)) \cup Adds(o)
               ELSE tagRec[o].owned \cap tags[o]
      lock == IF Owner(tagRec[o]) /\ (tagRec[o].lock \/ ~writes)
              THEN tagRec[o].lock ELSE LockWrites
  IN IF LockedOut(tagRec[o], tlock[o]) \/ (~writes /\ TakenOut(o) = {}) THEN None
     ELSE IF Owner(tagRec[o])
     THEN TagSet(tagRec[o].orig, final, owned, Relinquished(o) \cup TakenOut(o),
                 tagRec[o].lock0, lock)
     ELSE TagSet(tags[o], final, owned, {}, tlock[o], lock)

WritesTags(o) ==
  Adds(o) \cup Removes(o) # {} /\ ~LockedOut(tagRec[o], tlock[o])

-----------------------------------------------------------------------------
\* _apply_candidate and apply_plex_metadata.

Fault == faults < MaxFaults /\ faults' = faults + 1
Done(o, failed) ==
  job' = Job(job.at, job.policy, job.left \ {o}, job.failed \/ failed, job.attempt,
             job.writes)
PlexUnchanged == UNCHANGED <<plex, offer, changes, mine, given, shut, author>>

Change == changes < MaxChanges /\ changes' = changes + 1

\* An operation of a job, on every object.
Begin(at, policy) ==
  /\ job.at = "idle"
  /\ job' = Job(at, policy, Objects, FALSE, 1, 0)
  /\ UNCHANGED <<ledger, plan, pend, faults, loose>>
BeginApply(policy) == Begin("apply", policy) /\ PlexUnchanged
BeginRecovery(at) ==
  /\ Begin(at, "none")
  /\ Change
  /\ UNCHANGED <<plex, offer, mine, given, shut, author>>

Deciding(o) == job.at = "apply" /\ o \in job.left /\ plan = NoPlan

\* Nothing to write: the records, if any, go to the ledger all the same.
Skip(o) ==
  /\ Deciding(o) /\ ~WritesScalar(o) /\ ~WritesTags(o)
  /\ pend' = [pend EXCEPT ![o] =
       Pending(DropsScalar(o), None, TagRecord(o), FALSE, {})]
  /\ Done(o, FALSE)
  /\ UNCHANGED <<ledger, plan, faults, loose>> /\ PlexUnchanged

\* claim_write.
Room == job.writes < Limit

\* Without room nothing is written and nothing recorded.
LimitReached(o) ==
  /\ Deciding(o) /\ (WritesScalar(o) \/ WritesTags(o)) /\ ~Room
  /\ Done(o, FALSE)
  /\ UNCHANGED <<ledger, plan, pend, faults, loose>> /\ PlexUnchanged

Decide(o) ==
  /\ Deciding(o) /\ (WritesScalar(o) \/ WritesTags(o)) /\ Room
  /\ plan' = Plan(o, IF WritesScalar(o) THEN Target(o) ELSE None,
                  IF WritesTags(o) THEN Adds(o) ELSE {},
                  IF WritesTags(o) THEN Removes(o) ELSE {},
                  Pending(DropsScalar(o),
                          IF WritesScalar(o) THEN ScalarRecord(o) ELSE None,
                          TagRecord(o), TRUE, {}))
  /\ job' = Job(job.at, job.policy, job.left, job.failed, job.attempt, job.writes + 1)
  /\ UNCHANGED <<ledger, pend, faults, loose>> /\ PlexUnchanged

\* saveEdits: a scalar is replaced, tags are added to and removed from those
\* Plex has by then.
Save(o) ==
  /\ val' = [val EXCEPT ![o] = IF plan.scalar # None THEN plan.scalar ELSE @]
  /\ vlock' = [vlock EXCEPT ![o] =
       IF plan.scalar # None THEN plan.rec.scalar.lock ELSE @]
  /\ tags' = [tags EXCEPT ![o] = (@ \cup plan.add) \ plan.remove]
  /\ tlock' = [tlock EXCEPT ![o] =
       IF plan.add \cup plan.remove # {} THEN plan.rec.tag.lock ELSE @]
  /\ author' = [author EXCEPT ![o] = @ \/ plan.scalar # None]
  /\ mine' = [mine EXCEPT ![o] = @ /\ plan.scalar = None]
  /\ given' = [given EXCEPT ![o] =
       IF job.policy = "overwrite" THEN {} ELSE @ \ plan.remove]
  /\ shut' = [shut EXCEPT ![o] = IF job.policy = "overwrite" THEN {} ELSE @]

\* The write, and the reload that finds it.
Write(o) ==
  /\ job.at = "apply" /\ plan.at = o
  /\ Save(o)
  /\ pend' = [pend EXCEPT ![o] =
       Pending(plan.rec.drop, plan.rec.scalar, plan.rec.tag, TRUE, tags'[o])]
  /\ plan' = NoPlan
  /\ Done(o, FALSE)
  /\ UNCHANGED <<offer, ledger, bounds, loose>>

\* The write, and a reload that fails or does not find it: the records of the
\* object are lost with the exception, and nothing takes the write back.
WriteUnverified(o) ==
  /\ job.at = "apply" /\ plan.at = o
  /\ Fault
  /\ Save(o)
  /\ plan' = NoPlan
  /\ Done(o, TRUE)
  /\ loose' = [loose EXCEPT ![o] = TRUE]
  /\ UNCHANGED <<offer, ledger, pend, changes>>

\* The object cannot be read or written.
ObjectFails(o) ==
  /\ job.at = "apply" /\ o \in job.left /\ plan.at \in {None, o}
  /\ Fault
  /\ plan' = NoPlan
  /\ Done(o, TRUE)
  /\ UNCHANGED <<ledger, pend, loose>> /\ PlexUnchanged

\* After a failure the whole candidate is tried again, in the same job.
EndAttempt(failed) ==
  /\ pend' = [o \in Objects |-> Nothing]
  /\ job' = IF failed /\ job.attempt < Retries
            THEN Job("apply", job.policy, Objects, FALSE, job.attempt + 1, job.writes)
            ELSE Rest

\* The seasons and episodes cannot be listed.
ChildrenFail ==
  /\ job.at = "apply" /\ job.left = Objects /\ plan = NoPlan
  /\ Fault
  /\ EndAttempt(TRUE)
  /\ UNCHANGED <<ledger, plan, loose>> /\ PlexUnchanged

\* One transaction for all objects.
Commit ==
  /\ job.at = "apply" /\ job.left = {}
  /\ scalarRec' = [o \in Objects |->
       IF pend[o].scalar # None THEN pend[o].scalar
       ELSE IF pend[o].drop THEN None ELSE scalarRec[o]]
  /\ tagRec' = [o \in Objects |->
       IF pend[o].tag # None THEN pend[o].tag ELSE tagRec[o]]
  /\ EndAttempt(job.failed)
  /\ UNCHANGED <<plan, faults, loose>> /\ PlexUnchanged

\* The mutant takes nothing back.
NoBatches == {}
RollbackBatches == {o \in Objects : pend[o].wrote}

CommitFails ==
  /\ job.at = "apply" /\ job.left = {}
  /\ Fault
  /\ job' = Job("rollback", job.policy, RollbackBatches, job.failed, job.attempt,
                job.writes)
  /\ UNCHANGED <<ledger, plan, pend, loose>> /\ PlexUnchanged

\* _rollback_untracked_write: every field the attempt has a record of goes
\* back to what was there before MetaFusion's first write.
Rollback(o) ==
  LET s == pend[o].scalar
      t == pend[o].tag
  IN /\ job.at = "rollback" /\ o \in job.left
     /\ Done(o, FALSE)
     /\ val' = [val EXCEPT ![o] = IF s # None THEN s.orig ELSE @]
     /\ vlock' = [vlock EXCEPT ![o] = IF s # None THEN s.lock0 ELSE @]
     /\ tags' = [tags EXCEPT ![o] =
          IF t # None THEN (@ \ (pend[o].seen \ t.orig)) \cup (t.orig \ pend[o].seen)
          ELSE @]
     /\ tlock' = [tlock EXCEPT ![o] = IF t # None THEN t.lock0 ELSE @]
     /\ author' = [author EXCEPT ![o] = @ /\ s = None]
     /\ mine' = [mine EXCEPT ![o] = @ /\ s = None]
     /\ given' = [given EXCEPT ![o] = @ \cap tags'[o]]
     /\ UNCHANGED <<offer, ledger, plan, pend, bounds, shut, loose>>

\* Not counted: it follows a failure that is.
RollbackFails(o) ==
  /\ job.at = "rollback" /\ o \in job.left
  /\ Done(o, FALSE)
  /\ loose' = [loose EXCEPT ![o] = TRUE]
  /\ UNCHANGED <<ledger, plan, pend, faults>> /\ PlexUnchanged

RolledBack ==
  /\ job.at = "rollback" /\ job.left = {}
  /\ EndAttempt(TRUE)
  /\ UNCHANGED <<ledger, plan, faults, loose>> /\ PlexUnchanged

Kill ==
  /\ job.at # "idle"
  /\ Fault
  /\ job' = Rest /\ plan' = NoPlan /\ pend' = [o \in Objects |-> Nothing]
  /\ loose' = [o \in Objects |-> loose[o] \/ pend[o].wrote]
  /\ UNCHANGED ledger /\ PlexUnchanged
-----------------------------------------------------------------------------
\* restore_plex_metadata: the operator restores what was there before
\* MetaFusion, or removes the locks MetaFusion set; only where Plex still shows
\* what MetaFusion applied.

Recovering == job.at \in {"restore", "unlock"}
Recovers(rec, now) ==
  Owner(rec) /\ now = rec.applied /\ (job.at = "restore" \/ rec.lock)
RecoversScalar(o) == Recovers(scalarRec[o], val[o])
RecoversTags(o) == Recovers(tagRec[o], tags[o])

Recoverable(o) ==
  \/ RecoversScalar(o)
  \/ RecoversTags(o) /\ \/ job.at = "unlock"
                        \/ tags[o] # tagRec[o].orig \/ tlock[o] # tagRec[o].lock0

Recovered(o) ==
  /\ val' = [val EXCEPT ![o] =
       IF RecoversScalar(o) /\ job.at = "restore" THEN scalarRec[o].orig ELSE @]
  /\ vlock' = [vlock EXCEPT ![o] = IF RecoversScalar(o) THEN scalarRec[o].lock0 ELSE @]
  /\ tags' = [tags EXCEPT ![o] =
       IF RecoversTags(o) /\ job.at = "restore" THEN tagRec[o].orig ELSE @]
  /\ tlock' = [tlock EXCEPT ![o] = IF RecoversTags(o) THEN tagRec[o].lock0 ELSE @]
  /\ author' = [author EXCEPT ![o] = @ /\ ~(RecoversScalar(o) /\ job.at = "restore")]
  /\ given' = [given EXCEPT ![o] = @ \cap tags'[o]]
  /\ shut' = [shut EXCEPT ![o] = {}]
  /\ UNCHANGED mine

Recover(o) ==
  /\ Recovering /\ o \in job.left
  /\ IF Recoverable(o) /\ Room
     THEN /\ Recovered(o)
          /\ pend' = [pend EXCEPT ![o] =
               Pending(FALSE, IF RecoversScalar(o) THEN scalarRec[o] ELSE None,
                       IF RecoversTags(o) THEN tagRec[o] ELSE None, TRUE, {})]
          /\ job' = Job(job.at, job.policy, job.left \ {o}, job.failed, job.attempt,
                        job.writes + 1)
     ELSE /\ Done(o, FALSE)
          /\ UNCHANGED <<plex, mine, given, shut, author, pend>>
  /\ UNCHANGED <<offer, ledger, plan, bounds, loose>>

\* The write fails, or is not found afterwards.
RecoverFails(o) ==
  /\ Recovering /\ o \in job.left /\ Recoverable(o) /\ Room
  /\ Fault
  /\ \/ Recovered(o)
     \/ UNCHANGED <<plex, mine, given, shut, author>>
  /\ job' = Job(job.at, job.policy, job.left \ {o}, TRUE, job.attempt, job.writes + 1)
  /\ UNCHANGED <<offer, ledger, plan, pend, changes, loose>>

\* Restored fields are forgotten, those unlocked stay MetaFusion's.
EndRecovery ==
  /\ Recovering /\ job.left = {}
  /\ scalarRec' = [o \in Objects |->
       IF pend[o].scalar = None THEN scalarRec[o]
       ELSE IF job.at = "restore" THEN None ELSE [pend[o].scalar EXCEPT !.lock = FALSE]]
  /\ tagRec' = [o \in Objects |->
       IF pend[o].tag = None THEN tagRec[o]
       ELSE IF job.at = "restore" THEN None ELSE [pend[o].tag EXCEPT !.lock = FALSE]]
  /\ pend' = [o \in Objects |-> Nothing]
  /\ job' = IF job.failed /\ job.attempt < Retries
            THEN Job(job.at, "none", Objects, FALSE, job.attempt + 1, job.writes)
            ELSE Rest
  /\ UNCHANGED <<plan, faults, loose>> /\ PlexUnchanged

\* The exception ends the operation.
EndRecoveryFails ==
  /\ Recovering /\ job.left = {}
  /\ Fault
  /\ job' = Rest /\ pend' = [o \in Objects |-> Nothing]
  /\ UNCHANGED <<ledger, plan, loose>> /\ PlexUnchanged

-----------------------------------------------------------------------------
\* The user, and TMDb.

OutsideJob == UNCHANGED <<ledger, job, plan, pend, faults, loose>>

\* A value is the user's unless it is the one the ledger says MetaFusion
\* applied, or an operation is under way; so is a lock.
Locks(o, field, rec, locked) ==
  shut' = [shut EXCEPT ![o] =
    IF job.at = "idle" /\ locked /\ ~Ours(rec)
    THEN @ \cup {field} ELSE @ \ {field}]

UserSets(o, x, locked) ==
  /\ Change
  /\ val' = [val EXCEPT ![o] = x] /\ vlock' = [vlock EXCEPT ![o] = locked]
  /\ mine' = [mine EXCEPT ![o] =
       IF x = val[o] THEN @
       ELSE /\ job.at = "idle" /\ x # Empty
            /\ ~(Owner(scalarRec[o]) /\ x = scalarRec[o].applied)]
  /\ author' = [author EXCEPT ![o] = @ /\ x = val[o]]
  /\ Locks(o, "scalar", scalarRec[o], locked)
  /\ OutsideJob
  /\ UNCHANGED <<tags, tlock, offer, given>>

UserTags(o, t, locked) ==
  /\ Change
  /\ tags' = [tags EXCEPT ![o] = IF t \in @ THEN @ \ {t} ELSE @ \cup {t}]
  /\ tlock' = [tlock EXCEPT ![o] = locked]
  /\ given' = [given EXCEPT ![o] =
       IF t \notin tags[o] /\ job.at = "idle" /\ ~(Owner(tagRec[o]) /\ t \in tagRec[o].owned)
       THEN @ \cup {t} ELSE @ \ {t}]
  /\ Locks(o, "tags", tagRec[o], locked)
  /\ OutsideJob
  /\ UNCHANGED <<val, vlock, offer, mine, author>>

Offers(o, c) ==
  /\ Change
  /\ offer' = [offer EXCEPT ![o] = c]
  /\ OutsideJob
  /\ UNCHANGED <<plex, mine, given, shut, author>>

JobStep ==
  \/ \E o \in Objects :
       \/ Skip(o) \/ LimitReached(o) \/ Decide(o) \/ Write(o)
       \/ Rollback(o) \/ Recover(o)
  \/ Commit \/ RolledBack \/ EndRecovery

Failure ==
  \/ \E o \in Objects : WriteUnverified(o) \/ ObjectFails(o) \/ RollbackFails(o)
                        \/ RecoverFails(o)
  \/ ChildrenFail \/ CommitFails \/ EndRecoveryFails \/ Kill

User ==
  \/ \E o \in Objects, x \in Scalars, locked \in BOOLEAN : UserSets(o, x, locked)
  \/ \E o \in Tagged, t \in Tags, locked \in BOOLEAN : UserTags(o, t, locked)
  \/ \E o \in Objects : \E c \in Offered[o] : Offers(o, c)

Next ==
  \/ \E p \in Policies : BeginApply(p)
  \/ \E at \in {"restore", "unlock"} : BeginRecovery(at)
  \/ JobStep \/ Failure \/ User

Spec == Init /\ [][Next]_vars

\* An operation that is under way goes on; jobs keep coming, under managed.
FairSpec == Spec /\ WF_vars(JobStep) /\ SF_vars(BeginApply("managed"))

-----------------------------------------------------------------------------
\* A scalar the user gave a value that is not MetaFusion's last write is changed
\* by the user only, or under overwrite: not by fill_missing or managed after
\* any history of writes, failures and retries, not by rollback, restore or
\* unlock (_apply_object, _restore_candidate).
UserValueKept ==
  [][\A o \in Objects :
       (mine[o] /\ changes' = changes /\ job.policy # "overwrite") => val'[o] = val[o]]_vars

\* A tag the user added that MetaFusion does not own is not removed by
\* fill_missing or managed (_apply_object).
UserTagsKept ==
  [][\A o \in Objects :
       (changes' = changes /\ job.at = "apply" /\ job.policy # "overwrite")
       => given[o] \subseteq tags'[o]]_vars

\* A field the user locked is not written, until the operator restores or
\* unlocks it or the user unlocks it (_apply_object).
UserLockKept ==
  [][\A o \in Objects :
       (changes' = changes /\ job.at \in {"apply", "rollback"} /\ job.policy # "overwrite")
       => /\ "scalar" \in shut[o] => val'[o] = val[o] /\ vlock'[o] = vlock[o]
          /\ "tags" \in shut[o] => tags'[o] = tags[o] /\ tlock'[o] = tlock[o]]_vars

\* Between operations a scalar MetaFusion wrote last is on record as its last
\* write, unless a write could not be verified, a rollback failed or the process
\* was killed before the record: a failure of the ledger alone leaves nothing
\* in Plex that restore does not know of (_apply_candidate).
WritesTracked ==
  \A o \in Objects :
    (job.at = "idle" /\ author[o] /\ ~loose[o])
    => Owner(scalarRec[o]) /\ scalarRec[o].applied = val[o]

\* When the user and TMDb leave an item alone, managed jobs end up with every
\* field filled from TMDb that has no lock but MetaFusion's: no scalar TMDb has
\* stays empty and no tag is missing that the user did not take out, whatever
\* failed before and however few writes a job may make (claim_write).
Served ==
  <>[](\A o \in Objects :
         /\ \/ val[o] # Empty \/ offer[o].val = Empty
            \/ vlock[o] /\ ~Ours(scalarRec[o])
         /\ \/ offer[o].tags \subseteq tags[o] \cup Relinquished(o)
            \/ tlock[o] /\ ~Ours(tagRec[o]))
=============================================================================
