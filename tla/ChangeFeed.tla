----------------------------- MODULE ChangeFeed -----------------------------
(***************************************************************************)
(* The TMDb change feed (helper/tmdb_changes.py), the checkpoint that says *)
(* where its next window starts, and the response cache (helper/tmdb.py,   *)
(* helper/tmdb_cache.py) that stands between a selected title and TMDb.    *)
(*                                                                         *)
(* Time is relative.  A day has Hours ticks; the feed knows changes by     *)
(* calendar day, so a change is its age in days, a checkpoint is the age   *)
(* of its date, and a cached response has the ticks left to live.          *)
(***************************************************************************)
EXTENDS Naturals, FiniteSets

CONSTANTS
  Titles, Libraries,
  Home,       \* the library of a title
  Hours,      \* ticks in a day
  Window,     \* the largest difference of dates TMDb accepts: 13 days
  TTL,        \* ticks a cached response lives; 0 when the cache is disabled
  Interval,   \* full_scan_interval_hours, in ticks
  JobDays,    \* bound: midnights that may pass during a job
  MaxChanges, MaxKills  \* bounds: changes made at TMDb, jobs killed

ASSUME FeedAssumption ==
  /\ IsFiniteSet(Titles) /\ Libraries # {} /\ Home \in [Titles -> Libraries]
  /\ Hours \in Nat \ {0} /\ Window \in Nat \ {0} /\ TTL \in Nat
  /\ Interval \in Nat \ {0} /\ JobDays \in Nat
  /\ MaxChanges \in Nat /\ MaxKills \in Nat

Horizon == Window + JobDays     \* the oldest day a window can reach
Days == 0 .. Horizon + 1        \* Horizon + 1: any older day
Stale == Window + 1             \* a checkpoint that is too old, or missing

Response == [left : 0 .. TTL, lacks : SUBSET Days]
NoResponse == [left |-> 0, lacks |-> {}]

VARIABLES
  hour,       \* the tick within the day
  log,        \* TMDb: days on which a title changed
  edits,      \* changes still to come
  kills,      \* jobs that may still be killed
  missing,    \* durable: changes the output of a title does not show
  owed,       \* durable: titles with a row in item_retry_queue
  disk,       \* durable: the response cache as last committed
  checkpoint, \* durable: application state, tmdb_change_feed_v1
  fullAge,    \* durable: ticks since the last full scan of a library
  phase, job, \* the running job and its change plan
  todo, open, \* selected titles, libraries still to be processed
  cache,      \* the response cache as the job sees it
  shadowed    \* history: titles last evaluated from an outdated response

tmdb == <<log, edits>>
output == <<missing, owed, shadowed>>
run == <<phase, job, todo, open>>
vars == <<hour, kills, tmdb, output, disk, checkpoint, fullAge, run, cache>>

NoJob == [status |-> "none", age |-> 0, start |-> 0, refresh |-> {},
          full |-> {}, failed |-> FALSE]
Statuses == {"none", "targeted_run", "baseline", "ready", "feed_unavailable"}
Of(libs) == {t \in Titles : Home[t] \in libs}

Init ==
  /\ hour = 0 /\ kills = MaxKills /\ log = [t \in Titles |-> {}] /\ edits = MaxChanges
  /\ missing = [t \in Titles |-> {}] /\ owed = {} /\ shadowed = {}
  /\ disk = [t \in Titles |-> NoResponse] /\ cache = disk
  /\ checkpoint = Stale /\ fullAge = [l \in Libraries |-> Interval]
  /\ phase = "idle" /\ job = NoJob /\ todo = {} /\ open = {}

-----------------------------------------------------------------------------
(* TMDb and the clock                                                      *)

Change(t) ==
  /\ edits > 0 /\ edits' = edits - 1
  /\ log' = [log EXCEPT ![t] = @ \cup {0}]
  /\ missing' = [missing EXCEPT ![t] = @ \cup {0}]
  /\ cache' = [cache EXCEPT ![t].lacks = IF cache[t].left > 0 THEN @ \cup {0} ELSE {}]
  /\ disk' = [disk EXCEPT ![t].lacks = IF disk[t].left > 0 THEN @ \cup {0} ELSE {}]
  /\ UNCHANGED <<hour, kills, owed, shadowed, checkpoint, fullAge, run>>

Midnight == hour = Hours - 1
Capped(n, cap) == IF n > cap THEN cap ELSE n
NextDay(d) == IF Midnight THEN d + 1 ELSE d
Older(days) == {Capped(NextDay(d), Horizon + 1) : d \in days}

(* PersistentTTLCache._fetch: a response is a miss once it has expired.    *)
(* The mutant never lets one expire.                                       *)
AgedForever(r) == [left |-> r.left, lacks |-> Older(r.lacks)]
Aged(r) == IF r.left <= 1 THEN NoResponse
           ELSE [left |-> r.left - 1, lacks |-> Older(r.lacks)]

Tick ==
  /\ Midnight /\ phase # "idle" => job.age < JobDays
  /\ hour' = IF Midnight THEN 0 ELSE hour + 1
  /\ log' = [t \in Titles |-> Older(log[t]) \ {Horizon + 1}]
  /\ missing' = [t \in Titles |-> Older(missing[t])]
  /\ cache' = [t \in Titles |-> Aged(cache[t])]
  /\ disk' = [t \in Titles |-> Aged(disk[t])]
  /\ checkpoint' = Capped(NextDay(checkpoint), Stale)
  /\ fullAge' = [l \in Libraries |-> Capped(fullAge[l] + 1, Interval)]
  /\ job' = IF phase = "idle" THEN job
            ELSE [job EXCEPT !.age = NextDay(@),
                             !.start = IF job.status = "ready" THEN NextDay(@) ELSE @]
  /\ UNCHANGED <<kills, edits, owed, shadowed, phase, todo, open>>

-----------------------------------------------------------------------------
(* Planning                                                                *)

(* prepare_tmdb_change_plan: a job that scans every library is a baseline; *)
(* so is one that finds no usable checkpoint, and it then scans them all.  *)
ChangePlan(decided, readable) ==
  IF decided # Libraries /\ readable /\ checkpoint # Stale
  THEN [NoJob EXCEPT !.status = "ready", !.start = checkpoint, !.full = decided]
  ELSE [NoJob EXCEPT !.status = "baseline", !.full = Libraries]

Begin(plan) ==
  /\ phase = "idle" /\ phase' = "planned" /\ job' = plan
  /\ open' = Libraries /\ todo' = {}
  /\ UNCHANGED <<hour, kills, tmdb, output, disk, checkpoint, fullAge, cache>>

FullScanDue == {l \in Libraries : fullAge[l] = Interval}

(* The scheduler's job.  A state database that cannot be read just now     *)
(* looks like a missing checkpoint.                                        *)
BeginScheduled == Begin(ChangePlan(FullScanDue, TRUE))
BeginUnreadable == Begin(ChangePlan(FullScanDue, FALSE))
BeginForced == Begin(ChangePlan(Libraries, TRUE))
BeginTargeted == Begin([NoJob EXCEPT !.status = "targeted_run"])

-----------------------------------------------------------------------------
(* The feed                                                                *)

(* The feed of the days start .. plan, both included.  The mutant starts   *)
(* on the day after the checkpoint.                                        *)
WindowAfterCheckpoint == {d \in Days : d < job.start /\ d >= job.age}
FeedWindow == {d \in Days : d <= job.start /\ d >= job.age}
Listed == {t \in Titles : log[t] \cap FeedWindow # {}}

(* collect_tmdb_change_rechecks, then the selection of every library: all  *)
(* of one that is scanned in full, what the feed lists, and whatever else  *)
(* is due.                                                                 *)
Select(status, refresh) ==
  /\ phase = "planned" /\ phase' = "work"
  /\ job' = [job EXCEPT !.status = status, !.refresh = refresh]
  /\ \E due \in SUBSET Titles : todo' = Of(job.full) \cup refresh \cup due
  /\ UNCHANGED <<hour, kills, tmdb, output, disk, checkpoint, fullAge, open, cache>>

CollectChanges == job.status = "ready" /\ Select("ready", Listed)
FeedUnavailable == job.status = "ready" /\ Select("feed_unavailable", {})
NothingToCollect == job.status # "ready" /\ Select(job.status, {})

-----------------------------------------------------------------------------
(* Evaluation: tmdb_api_request for the details of a title                 *)

Working(t) == phase = "work" /\ t \in todo /\ todo' = todo \ {t}

(* The mutant serves a changed title from the cache.                       *)
CacheServesAll(t) == cache[t].left > 0
CacheServes(t) == cache[t].left > 0 /\ t \notin job.refresh

Fetched == [left |-> TTL, lacks |-> {}]

(* HTTP 200: cached, and evaluated as of now.                              *)
FetchOk(t) ==
  /\ Working(t) /\ ~CacheServes(t)
  /\ cache' = [cache EXCEPT ![t] = Fetched]
  /\ missing' = [missing EXCEPT ![t] = {}]
  /\ owed' = owed \ {t} /\ shadowed' = shadowed \ {t}
  /\ UNCHANGED <<hour, kills, tmdb, disk, checkpoint, fullAge, phase, job, open>>

(* No attempt succeeded, or the circuit is open: the request returns None, *)
(* the title fails and its retry row stays; the library goes on.           *)
FetchFails(t) ==
  /\ Working(t) /\ ~CacheServes(t)
  /\ owed' = owed \cup {t}
  /\ UNCHANGED <<hour, kills, tmdb, missing, shadowed, disk, checkpoint, fullAge,
                 phase, job, open, cache>>

UseCached(t) ==
  /\ Working(t) /\ CacheServes(t)
  /\ missing' = [missing EXCEPT ![t] = cache[t].lacks]
  /\ owed' = owed \ {t}
  /\ shadowed' = IF cache[t].lacks = {} THEN shadowed \ {t} ELSE shadowed \cup {t}
  /\ UNCHANGED <<hour, kills, tmdb, disk, checkpoint, fullAge, phase, job, open, cache>>

CloseLibrary(l) ==
  /\ phase = "work" /\ l \in open /\ open' = open \ {l}
  /\ UNCHANGED <<hour, kills, tmdb, output, disk, checkpoint, phase, cache>>

(* mark_library_scan_complete                                              *)
LibraryDone(l) ==
  /\ CloseLibrary(l) /\ todo \cap Of({l}) = {}
  /\ fullAge' = IF l \in job.full THEN [fullAge EXCEPT ![l] = 0] ELSE fullAge
  /\ UNCHANGED <<job, todo>>

(* Anything that raises out of process_library, a cancellation included.   *)
LibraryFails(l) ==
  /\ CloseLibrary(l)
  /\ todo' = todo \ Of({l}) /\ job' = [job EXCEPT !.failed = TRUE]
  /\ UNCHANGED fullAge

-----------------------------------------------------------------------------
(* The end of a job                                                        *)

EndWork ==
  /\ phase = "work" /\ open = {} /\ phase' = "flushed"
  /\ UNCHANGED <<hour, kills, tmdb, output, checkpoint, fullAge, job, todo, open>>

(* flush_tmdb_cache commits the job's responses, or rolls them back and    *)
(* the job goes on.                                                        *)
FlushResponses == EndWork /\ disk' = cache /\ UNCHANGED cache
LoseResponses == EndWork /\ cache' = disk /\ UNCHANGED disk

(* The mutants commit the date on which the job ended, and whatever the    *)
(* job did.                                                                *)
CandidateAtEnd ==
  IF job.status \in {"ready", "baseline"} /\ ~job.failed THEN 0 ELSE checkpoint
CandidateAlways ==
  IF job.status \in {"ready", "baseline"} THEN Capped(job.age, Stale) ELSE checkpoint

(* commit_tmdb_change_checkpoint: the date the job was planned, if the job *)
(* succeeded and either was a baseline or read the whole feed.             *)
Candidate ==
  IF job.status \in {"ready", "baseline"} /\ ~job.failed
  THEN Capped(job.age, Stale) ELSE checkpoint

Leave == phase' = "idle" /\ job' = NoJob /\ todo' = {} /\ open' = {}

EndJob ==
  /\ phase = "flushed" /\ Leave /\ checkpoint' = Candidate
  /\ UNCHANGED <<hour, kills, tmdb, output, disk, fullAge, cache>>

(* save_application_record raises.                                         *)
CommitFails ==
  /\ phase = "flushed" /\ Leave
  /\ UNCHANGED <<hour, kills, tmdb, output, disk, checkpoint, fullAge, cache>>

Kill ==
  /\ phase # "idle" /\ Leave /\ cache' = disk
  /\ kills > 0 /\ kills' = kills - 1
  /\ UNCHANGED <<hour, tmdb, output, disk, checkpoint, fullAge>>

-----------------------------------------------------------------------------
(* The cache during a job: it is disposable, and gives responses up        *)

Without(responses, gone) ==
  [t \in Titles |-> IF t \in gone THEN NoResponse ELSE responses[t]]

CacheStep ==
  /\ phase # "idle"
  /\ UNCHANGED <<hour, kills, tmdb, output, checkpoint, fullAge, run>>

(* The limits of entries and bytes evict the oldest row, and a row that    *)
(* cannot be decoded is deleted; both in the job's transaction.            *)
Evict(t) == CacheStep /\ cache' = Without(cache, {t}) /\ UNCHANGED disk

(* relieve_space, when a file of the job needs the room on the disk: it    *)
(* commits what it deleted, and with it the responses of the job so far.   *)
RelieveSpace(gone) ==
  CacheStep /\ cache' = Without(cache, gone) /\ disk' = cache'

(* _recover_database: a corrupt file is put aside and an empty one opened. *)
RecoverDatabase ==
  CacheStep /\ cache' = Without(cache, Titles) /\ disk' = cache'

CacheGivesUp ==
  \/ \E t \in Titles : Evict(t)
  \/ \E gone \in SUBSET Titles : RelieveSpace(gone)
  \/ RecoverDatabase

Evaluate(t) == FetchOk(t) \/ FetchFails(t) \/ UseCached(t)

JobStep ==
  \/ CollectChanges \/ FeedUnavailable \/ NothingToCollect
  \/ \E t \in Titles : Evaluate(t)
  \/ \E l \in Libraries : LibraryDone(l)
  \/ FlushResponses \/ EndJob

Next ==
  \/ \E t \in Titles : Change(t)
  \/ Tick
  \/ BeginScheduled \/ BeginUnreadable \/ BeginForced \/ BeginTargeted
  \/ JobStep
  \/ \E l \in Libraries : LibraryFails(l)
  \/ LoseResponses \/ CommitFails \/ Kill
  \/ CacheGivesUp

Spec == Init /\ [][Next]_vars

(* Time passes and a running job goes on; the scheduler gets its turn; and *)
(* requests for a title that are made again and again are answered at last.*)
FairSpec ==
  /\ Spec /\ SF_vars(Tick) /\ WF_vars(JobStep) /\ SF_vars(BeginScheduled)
  /\ \A t \in Titles : SF_vars(FetchOk(t))

-----------------------------------------------------------------------------
(* Properties                                                              *)

(* Every variable has its type; ages stay within their bounds.             *)
TypeOK ==
  /\ hour \in 0 .. Hours - 1
  /\ log \in [Titles -> SUBSET (0 .. Horizon)] /\ edits \in 0 .. MaxChanges
  /\ kills \in 0 .. MaxKills
  /\ missing \in [Titles -> SUBSET Days]
  /\ owed \subseteq Titles /\ shadowed \subseteq Titles
  /\ disk \in [Titles -> Response] /\ cache \in [Titles -> Response]
  /\ checkpoint \in 0 .. Stale /\ fullAge \in [Libraries -> 0 .. Interval]
  /\ phase \in {"idle", "planned", "work", "flushed"}
  /\ job \in [status : Statuses, age : 0 .. JobDays, start : 0 .. Horizon,
              refresh : SUBSET Titles, full : SUBSET Libraries, failed : BOOLEAN]
  /\ todo \subseteq Titles /\ open \subseteq Libraries

(* The next scheduled job sees every change the output of t lacks: its     *)
(* window reaches back to them, or it scans everything.                    *)
NextJobSees(t) == checkpoint = Stale \/ \A d \in missing[t] : d <= checkpoint

(* No change falls between two windows: whatever the output of a title     *)
(* lacks is in the next window, or waits in the retry queue, or was hidden *)
(* from the last evaluation by a cached response.  Windows overlap by a    *)
(* day, jobs fail, the feed is unavailable, midnight passes during a job,  *)
(* and still the checkpoint never runs ahead of what was looked at.        *)
NoGapBetweenWindows ==
  \A t \in Titles : t \in owed \cup shadowed \/ NextJobSees(t)

(* When a job that read the feed is about to commit, each title the feed   *)
(* listed shows every change made up to the day of the plan, unless its    *)
(* request failed and a retry is queued: the response cache never stands   *)
(* between a listed change and the output.                                 *)
ListedIsApplied ==
  phase = "flushed" /\ ~job.failed =>
    \A t \in job.refresh \ owed : \A d \in missing[t] : d <= job.age

(* The documentation calls a full scan an authoritative baseline           *)
(* (docs/runtime-safeguards.md:43): a change it does not show is still to  *)
(* come in a window, or its title is queued for a retry.  The code keeps   *)
(* this only without the response cache (TTL = 0, theorem                  *)
(* NothingLostUncached; see the README).                                   *)
NoChangeLost == \A t \in Titles : t \in owed \/ NextJobSees(t)

(* After the last change at TMDb the outputs become, and remain, complete: *)
(* an outdated response expires, and the full scans that follow fetch the  *)
(* title anew, whatever jobs are killed or operators run in between.       *)
OutputConverges == <>[](\A t \in Titles : missing[t] = {})
=============================================================================
