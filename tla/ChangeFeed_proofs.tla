------------------------- MODULE ChangeFeed_proofs -------------------------
(***************************************************************************)
(* Proofs about ChangeFeed for any titles, libraries, window, lifetime of  *)
(* a cached response and length of a day.                                  *)
(***************************************************************************)
EXTENDS ChangeFeed, TLAPS

(* No plan outlives its job, and its window can be asked for.              *)
PlanInv ==
  /\ phase = "idle" => job = NoJob
  /\ job.start <= Window + job.age

(* What a title or a response lacks is on TMDb's log while it is recent.   *)
Logged(days, t) == \A d \in days : d <= Horizon => d \in log[t]
LacksAreLogged ==
  \A t \in Titles :
    Logged(missing[t], t) /\ Logged(cache[t].lacks, t) /\ Logged(disk[t].lacks, t)

(* Everything t lacks is at most n days old, unless a retry is queued or a *)
(* cached response hid it.                                                 *)
Within(days, n) == \A d \in days : d <= n
Covered(t, n) == t \in owed \cup shadowed \/ Within(missing[t], n)

(* The window of a ready job reaches back to all that is missing.          *)
WindowReaches == job.status = "ready" => \A t \in Titles : Covered(t, job.start)

Certifies == job.status \in {"ready", "baseline"} /\ ~job.failed
InWork == phase \in {"work", "flushed"}

(* A title that the job has dealt with lacks nothing from before the plan. *)
DealtWith ==
  InWork /\ Certifies => \A t \in Titles \ todo : Covered(t, job.age)
RefreshDone ==
  InWork /\ ~job.failed =>
    \A t \in job.refresh \ (todo \cup owed) : Within(missing[t], job.age)
NothingLeft == todo \subseteq Of(open) /\ (phase = "flushed" => todo = {})

(* A planned job has every library before it, and a baseline scans all.    *)
PlannedWhole ==
  /\ phase = "planned" => open = Libraries
  /\ job.status = "baseline" => job.full = Libraries

Safe ==
  /\ PlannedWhole /\ PlanInv /\ LacksAreLogged /\ WindowReaches
  /\ DealtWith /\ RefreshDone /\ NothingLeft /\ NoGapBetweenWindows
IInv == TypeOK /\ Safe

-----------------------------------------------------------------------------
(* Time                                                                    *)

LEMMA ConstantTypes ==
  /\ Horizon \in Nat /\ Stale \in Nat /\ Horizon >= Window /\ Stale >= 2
  /\ Days = 0 .. Horizon + 1 /\ 0 \in Days
  /\ NoResponse \in Response
BY FeedAssumption DEF Horizon, Stale, Days, Response, NoResponse

LEMMA NextDayType ==
  ASSUME NEW n \in Nat
  PROVE  NextDay(n) \in Nat /\ NextDay(n) >= n /\ NextDay(n) <= n + 1
BY DEF NextDay

LEMMA NextDayKeepsOrder ==
  ASSUME NEW m \in Nat, NEW n \in Nat, m <= n
  PROVE  NextDay(m) <= NextDay(n)
BY DEF NextDay

LEMMA CappedType ==
  ASSUME NEW n \in Nat, NEW cap \in Nat
  PROVE  Capped(n, cap) \in 0 .. cap /\ Capped(n, cap) <= n
BY DEF Capped

LEMMA OlderType ==
  ASSUME NEW days \in SUBSET Days
  PROVE  Older(days) \in SUBSET Days
<1>. SUFFICES ASSUME NEW d \in days
              PROVE  Capped(NextDay(d), Horizon + 1) \in Days
  BY DEF Older
<1>1. d \in Nat /\ Horizon + 1 \in Nat
  BY ConstantTypes
<1>2. NextDay(d) \in Nat
  BY <1>1, NextDayType
<1>3. Capped(NextDay(d), Horizon + 1) \in 0 .. Horizon + 1
  BY <1>1, <1>2, CappedType
<1>. QED
  BY <1>3, ConstantTypes

(* Days that are within a bound stay within it as both grow older.         *)
LEMMA OlderWithin ==
  ASSUME NEW days \in SUBSET Days, NEW n \in Nat, Within(days, n)
  PROVE  Within(Older(days), NextDay(n))
<1>. SUFFICES ASSUME NEW d \in days
              PROVE  Capped(NextDay(d), Horizon + 1) <= NextDay(n)
  BY DEF Older, Within
<1>1. d \in Nat /\ d <= n
  BY ConstantTypes DEF Within
<1>2. Capped(NextDay(d), Horizon + 1) <= NextDay(d) /\ NextDay(d) \in Nat
      /\ Capped(NextDay(d), Horizon + 1) \in Nat
  <2>1. NextDay(d) \in Nat /\ Horizon + 1 \in Nat
    BY <1>1, ConstantTypes, NextDayType
  <2>. QED
    BY <2>1, CappedType
<1>3. NextDay(d) <= NextDay(n) /\ NextDay(n) \in Nat
  BY <1>1, NextDayType, NextDayKeepsOrder
<1>. QED
  BY <1>2, <1>3

LEMMA AgedType ==
  ASSUME NEW r \in Response
  PROVE  Aged(r) \in Response /\ Aged(r).lacks \subseteq Older(r.lacks)
<1>1. r.left \in 0 .. TTL /\ r.lacks \in SUBSET Days
  BY DEF Response
<1>2. CASE r.left <= 1
  BY <1>2, ConstantTypes DEF Aged, NoResponse
<1>3. CASE ~(r.left <= 1)
  <2>1. Aged(r) = [left |-> r.left - 1, lacks |-> Older(r.lacks)]
    BY <1>3 DEF Aged
  <2>2. r.left - 1 \in 0 .. TTL
    BY <1>1, <1>3, FeedAssumption
  <2>. QED
    BY <1>1, <2>1, <2>2, OlderType DEF Response
<1>. QED
  BY <1>2, <1>3

LEMMA OlderLogged ==
  ASSUME NEW days \in SUBSET Days, NEW logged \in SUBSET Days,
         \A d \in days : d <= Horizon => d \in logged,
         NEW e \in Older(days), e <= Horizon
  PROVE  e \in Older(logged) \ {Horizon + 1}
<1>1. PICK d \in days : e = Capped(NextDay(d), Horizon + 1)
  BY DEF Older
<1>2. d \in Nat /\ NextDay(d) \in Nat /\ NextDay(d) >= d /\ Horizon \in Nat
  BY ConstantTypes, NextDayType
<1>3. d <= Horizon /\ e # Horizon + 1
  BY <1>1, <1>2 DEF Capped
<1>. QED
  BY <1>1, <1>3 DEF Older

-----------------------------------------------------------------------------
(* Type correctness                                                        *)

Jobs == [status : Statuses, age : 0 .. JobDays, start : 0 .. Horizon,
         refresh : SUBSET Titles, full : SUBSET Libraries, failed : BOOLEAN]

LEMMA NoJobType == NoJob \in Jobs
BY ConstantTypes, FeedAssumption DEF NoJob, Jobs, Statuses

LEMMA PlanType ==
  ASSUME TypeOK, NEW decided \in SUBSET Libraries, NEW readable \in BOOLEAN
  PROVE  LET plan == ChangePlan(decided, readable) IN
           /\ plan \in Jobs /\ plan.age = 0 /\ ~plan.failed
           /\ plan.start <= Window
           /\ plan.status \in {"ready", "baseline"}
           /\ plan.status = "ready" => plan.start = checkpoint
           /\ plan.status = "baseline" => plan.full = Libraries
<1>1. CASE decided # Libraries /\ readable /\ checkpoint # Stale
  <2>1. checkpoint \in 0 .. Window /\ checkpoint \in 0 .. Horizon
    BY <1>1, ConstantTypes, FeedAssumption DEF TypeOK, Stale
  <2>2. ChangePlan(decided, readable) =
          [NoJob EXCEPT !.status = "ready", !.start = checkpoint, !.full = decided]
    BY <1>1 DEF ChangePlan
  <2>3. ChangePlan(decided, readable) =
          [status |-> "ready", age |-> 0, start |-> checkpoint, refresh |-> {},
           full |-> decided, failed |-> FALSE]
    BY <2>2 DEF NoJob
  <2>. QED
    BY <2>1, <2>3, FeedAssumption DEF Jobs, Statuses
<1>2. CASE ~(decided # Libraries /\ readable /\ checkpoint # Stale)
  <2>1. ChangePlan(decided, readable) =
          [NoJob EXCEPT !.status = "baseline", !.full = Libraries]
    BY <1>2 DEF ChangePlan
  <2>2. ChangePlan(decided, readable) =
          [status |-> "baseline", age |-> 0, start |-> 0, refresh |-> {},
           full |-> Libraries, failed |-> FALSE]
    BY <2>1 DEF NoJob
  <2>. QED
    BY <2>2, ConstantTypes, FeedAssumption DEF Jobs, Statuses
<1>. QED
  BY <1>1, <1>2

LEMMA BeginType ==
  ASSUME TypeOK, NEW plan \in Jobs, Begin(plan)
  PROVE  TypeOK'
BY DEF TypeOK, Begin, Jobs, tmdb, output

LEMMA BeginsPlan ==
  ASSUME TypeOK, BeginScheduled \/ BeginUnreadable \/ BeginForced \/ BeginTargeted
  PROVE  \E plan \in Jobs :
           /\ Begin(plan) /\ plan.age = 0 /\ ~plan.failed
           /\ plan.start <= Window
           /\ plan.status = "ready" => plan.start = checkpoint
           /\ plan.status = "baseline" => plan.full = Libraries
<1>1. FullScanDue \in SUBSET Libraries
  BY DEF FullScanDue
<1>2. CASE BeginTargeted
  <2>1. PICK plan : plan = [NoJob EXCEPT !.status = "targeted_run"]
    OBVIOUS
  <2>2. plan = [status |-> "targeted_run", age |-> 0, start |-> 0, refresh |-> {},
                full |-> {}, failed |-> FALSE]
    BY <2>1 DEF NoJob
  <2>3. plan \in Jobs /\ plan.age = 0 /\ ~plan.failed /\ plan.start <= Window
        /\ plan.status \notin {"ready", "baseline"}
    BY <2>2, ConstantTypes, FeedAssumption DEF Jobs, Statuses
  <2>. QED
    BY <1>2, <2>1, <2>3 DEF BeginTargeted
<1>3. CASE BeginScheduled
  BY <1>1, <1>3, PlanType DEF BeginScheduled
<1>4. CASE BeginUnreadable
  BY <1>1, <1>4, PlanType DEF BeginUnreadable
<1>5. CASE BeginForced
  BY <1>5, PlanType DEF BeginForced
<1>. QED
  BY <1>2, <1>3, <1>4, <1>5

LEMMA ChangeType ==
  ASSUME TypeOK, NEW t \in Titles, Change(t)
  PROVE  TypeOK'
<1>1. ASSUME NEW r \in Response
      PROVE  [r EXCEPT !.lacks = IF r.left > 0 THEN @ \cup {0} ELSE {}] \in Response
  BY ConstantTypes DEF Response
<1>2. cache' \in [Titles -> Response] /\ disk' \in [Titles -> Response]
  BY <1>1 DEF TypeOK, Change
<1>3. log' \in [Titles -> SUBSET (0 .. Horizon)] /\ missing' \in [Titles -> SUBSET Days]
  BY ConstantTypes DEF TypeOK, Change
<1>4. edits' \in 0 .. MaxChanges
  BY FeedAssumption DEF TypeOK, Change
<1>. QED
  BY <1>2, <1>3, <1>4 DEF TypeOK, Change, run

LEMMA TickType ==
  ASSUME TypeOK, PlanInv, Tick
  PROVE  TypeOK'
<1>1. hour' \in 0 .. Hours - 1
  BY FeedAssumption DEF TypeOK, Tick, Midnight
<1>2. log' \in [Titles -> SUBSET (0 .. Horizon)]
  <2>1. ASSUME NEW t \in Titles PROVE Older(log[t]) \ {Horizon + 1} \in SUBSET (0 .. Horizon)
    <3>1. log[t] \in SUBSET Days
      BY ConstantTypes DEF TypeOK
    <3>. QED
      BY <3>1, OlderType, ConstantTypes
  <2>. QED
    BY <2>1 DEF Tick
<1>3. missing' \in [Titles -> SUBSET Days]
  <2>1. ASSUME NEW t \in Titles PROVE Older(missing[t]) \in SUBSET Days
    BY OlderType DEF TypeOK
  <2>. QED
    BY <2>1 DEF Tick
<1>4. cache' \in [Titles -> Response] /\ disk' \in [Titles -> Response]
  <2>1. ASSUME NEW t \in Titles PROVE Aged(cache[t]) \in Response /\ Aged(disk[t]) \in Response
    BY AgedType DEF TypeOK
  <2>. QED
    BY <2>1 DEF Tick
<1>5. checkpoint' \in 0 .. Stale
  <2>1. checkpoint \in Nat
    BY ConstantTypes DEF TypeOK
  <2>2. NextDay(checkpoint) \in Nat
    BY <2>1, NextDayType
  <2>. QED
    BY <2>2, ConstantTypes, CappedType DEF Tick
<1>6. fullAge' \in [Libraries -> 0 .. Interval]
  <2>1. ASSUME NEW l \in Libraries PROVE Capped(fullAge[l] + 1, Interval) \in 0 .. Interval
    <3>1. fullAge[l] + 1 \in Nat /\ Interval \in Nat
      BY FeedAssumption DEF TypeOK
    <3>. QED
      BY <3>1, CappedType
  <2>. QED
    BY <2>1 DEF Tick
<1>7. job' \in Jobs
  <2>1. CASE phase = "idle"
    BY <2>1 DEF Tick, TypeOK, Jobs
  <2>2. CASE phase # "idle"
    <3>1. job \in Jobs /\ job.age \in Nat /\ job.start \in Nat
      BY ConstantTypes DEF TypeOK, Jobs
    <3>2. NextDay(job.age) \in 0 .. JobDays
      BY <2>2, <3>1, FeedAssumption DEF Tick, NextDay, TypeOK
    <3>3. NextDay(job.start) \in 0 .. Horizon
      <4>1. job.start <= Window + job.age
        BY DEF PlanInv
      <4>2. CASE Midnight
        BY <2>2, <3>1, <4>1, <4>2, FeedAssumption DEF Tick, NextDay, Horizon, TypeOK
      <4>3. CASE ~Midnight
        BY <3>1, <4>3 DEF NextDay, TypeOK
      <4>. QED
        BY <4>2, <4>3
    <3>4. job' = [job EXCEPT !.age = NextDay(@),
                             !.start = IF job.status = "ready" THEN NextDay(@) ELSE @]
      BY <2>2 DEF Tick
    <3>. QED
      BY <3>1, <3>2, <3>3, <3>4 DEF Jobs
  <2>. QED
    BY <2>1, <2>2
<1>. QED
  BY <1>1, <1>2, <1>3, <1>4, <1>5, <1>6, <1>7 DEF TypeOK, Tick, Jobs

LEMMA WorkType ==
  ASSUME TypeOK, NEW t \in Titles, FetchOk(t) \/ FetchFails(t) \/ UseCached(t)
  PROVE  TypeOK'
<1>1. Fetched \in Response
  BY FeedAssumption DEF Fetched, Response
<1>2. CASE FetchOk(t)
  BY <1>1, <1>2 DEF FetchOk, Working, TypeOK, tmdb
<1>3. CASE FetchFails(t)
  BY <1>3 DEF FetchFails, Working, TypeOK, tmdb
<1>4. CASE UseCached(t)
  <2>1. cache[t].lacks \in SUBSET Days
    BY DEF TypeOK, Response
  <2>. QED
    BY <1>4, <2>1 DEF UseCached, Working, TypeOK, tmdb
<1>. QED
  BY <1>2, <1>3, <1>4

LEMMA SelectType ==
  ASSUME TypeOK, NEW status \in Statuses, NEW refresh \in SUBSET Titles,
         Select(status, refresh)
  PROVE  TypeOK'
<1>1. job' \in Jobs
  BY DEF Select, TypeOK, Jobs
<1>2. todo' \in SUBSET Titles
  BY DEF Select, Of
<1>. QED
  BY <1>1, <1>2 DEF Select, TypeOK, Jobs, tmdb, output

LEMMA SelectsSome ==
  ASSUME TypeOK, CollectChanges \/ FeedUnavailable \/ NothingToCollect
  PROVE  \E status \in Statuses, refresh \in SUBSET Titles :
           /\ Select(status, refresh)
           /\ status = "ready" => job.status = "ready" /\ refresh = Listed
           /\ status = "baseline" => job.status = "baseline"
<1>1. Listed \in SUBSET Titles /\ job.status \in Statuses
  BY DEF Listed, TypeOK
<1>2. CASE CollectChanges
  BY <1>1, <1>2 DEF CollectChanges, Statuses
<1>3. CASE FeedUnavailable
  BY <1>3 DEF FeedUnavailable, Statuses
<1>4. CASE NothingToCollect
  BY <1>1, <1>4 DEF NothingToCollect
<1>. QED
  BY <1>2, <1>3, <1>4

LEMMA CloseType ==
  ASSUME TypeOK, NEW l \in Libraries, LibraryDone(l) \/ LibraryFails(l)
  PROVE  TypeOK'
<1>1. CASE LibraryDone(l)
  BY <1>1, FeedAssumption DEF LibraryDone, CloseLibrary, TypeOK, tmdb, output
<1>2. CASE LibraryFails(l)
  <2>1. job' \in Jobs
    BY <1>2 DEF LibraryFails, TypeOK, Jobs
  <2>. QED
    BY <1>2, <2>1 DEF LibraryFails, CloseLibrary, TypeOK, Jobs, tmdb, output
<1>. QED
  BY <1>1, <1>2

LEMMA EndType ==
  ASSUME TypeOK,
         FlushResponses \/ LoseResponses \/ EndJob \/ CommitFails \/ Kill
  PROVE  TypeOK'
<1>1. CASE FlushResponses \/ LoseResponses
  BY <1>1 DEF FlushResponses, LoseResponses, EndWork, TypeOK, tmdb, output
<1>2. CASE EndJob
  <2>1. Candidate \in 0 .. Stale
    <3>1. job.age \in Nat /\ Stale \in Nat
      BY FeedAssumption, ConstantTypes DEF TypeOK
    <3>2. Capped(job.age, Stale) \in 0 .. Stale
      BY <3>1, CappedType
    <3>. QED
      BY <3>2 DEF Candidate, TypeOK
  <2>. QED
    BY <1>2, <2>1, NoJobType DEF EndJob, Leave, TypeOK, Jobs, tmdb, output
<1>3. CASE CommitFails
  BY <1>3, NoJobType DEF CommitFails, Leave, TypeOK, Jobs, tmdb, output
<1>4. CASE Kill
  <2>1. kills' \in 0 .. MaxKills
    BY <1>4, FeedAssumption DEF Kill, TypeOK
  <2>. QED
    BY <1>4, <2>1, NoJobType DEF Kill, Leave, TypeOK, Jobs, tmdb, output
<1>. QED
  BY <1>1, <1>2, <1>3, <1>4

(* Whatever the cache gives up, what it keeps is what it had, and what was *)
(* lost lacks nothing.                                                     *)
LEMMA GivesUp ==
  ASSUME TypeOK, CacheGivesUp
  PROVE  /\ UNCHANGED <<hour, kills, tmdb, output, checkpoint, fullAge, run>>
         /\ phase # "idle"
         /\ cache' \in [Titles -> Response] /\ disk' \in [Titles -> Response]
         /\ \A t \in Titles :
              /\ cache'[t] = cache[t] \/ cache'[t].lacks = {}
              /\ disk'[t] = disk[t] \/ disk'[t] = cache[t] \/ disk'[t].lacks = {}
<1>1. ASSUME NEW gone \in SUBSET Titles
      PROVE  /\ Without(cache, gone) \in [Titles -> Response]
             /\ \A t \in Titles :
                  Without(cache, gone)[t] = cache[t] \/ Without(cache, gone)[t].lacks = {}
  <2>1. NoResponse \in Response /\ NoResponse.lacks = {}
    BY ConstantTypes DEF NoResponse
  <2>. QED
    BY <2>1 DEF Without, TypeOK
<1>2. CASE \E t \in Titles : Evict(t)
  <2>1. PICK t \in Titles : Evict(t)
    BY <1>2
  <2>2. /\ cache' = Without(cache, {t}) /\ disk' = disk /\ CacheStep
        /\ {t} \in SUBSET Titles
    BY <2>1 DEF Evict
  <2>. QED
    BY <1>1, <2>2 DEF CacheStep, TypeOK
<1>3. CASE \E gone \in SUBSET Titles : RelieveSpace(gone)
  <2>1. PICK gone \in SUBSET Titles : RelieveSpace(gone)
    BY <1>3
  <2>2. cache' = Without(cache, gone) /\ disk' = Without(cache, gone) /\ CacheStep
    BY <2>1 DEF RelieveSpace
  <2>. QED
    BY <1>1, <2>2 DEF CacheStep
<1>4. CASE RecoverDatabase
  <2>1. /\ cache' = Without(cache, Titles) /\ disk' = Without(cache, Titles)
        /\ CacheStep /\ Titles \in SUBSET Titles
    BY <1>4 DEF RecoverDatabase
  <2>. QED
    BY <1>1, <2>1 DEF CacheStep
<1>. QED
  BY <1>2, <1>3, <1>4 DEF CacheGivesUp

(* Every step of the specification, in the groups the proofs deal with.    *)
LEMMA NextCases ==
  ASSUME Next
  PROVE  \/ \E t \in Titles : Change(t)
         \/ Tick
         \/ BeginScheduled \/ BeginUnreadable \/ BeginForced \/ BeginTargeted
         \/ CollectChanges \/ FeedUnavailable \/ NothingToCollect
         \/ \E t \in Titles : FetchOk(t) \/ FetchFails(t) \/ UseCached(t)
         \/ \E l \in Libraries : LibraryDone(l) \/ LibraryFails(l)
         \/ FlushResponses \/ LoseResponses \/ EndJob \/ CommitFails \/ Kill
         \/ CacheGivesUp
BY DEF Next, JobStep, Evaluate

LEMMA TypeStep ==
  ASSUME TypeOK, PlanInv, [Next]_vars
  PROVE  TypeOK'
<1>1. CASE \E t \in Titles : Change(t)
  BY <1>1, ChangeType
<1>2. CASE Tick
  BY <1>2, TickType
<1>3. CASE BeginScheduled \/ BeginUnreadable \/ BeginForced \/ BeginTargeted
  BY <1>3, BeginsPlan, BeginType
<1>4. CASE CollectChanges \/ FeedUnavailable \/ NothingToCollect
  BY <1>4, SelectsSome, SelectType
<1>5. CASE \E t \in Titles : FetchOk(t) \/ FetchFails(t) \/ UseCached(t)
  BY <1>5, WorkType
<1>6. CASE \E l \in Libraries : LibraryDone(l) \/ LibraryFails(l)
  BY <1>6, CloseType
<1>7. CASE FlushResponses \/ LoseResponses \/ EndJob \/ CommitFails \/ Kill
  BY <1>7, EndType
<1>8. CASE CacheGivesUp
  BY <1>8, GivesUp DEF tmdb, output, run, TypeOK
<1>9. CASE UNCHANGED vars
  BY <1>9 DEF vars, tmdb, output, run, TypeOK
<1>. QED
  BY <1>1, <1>2, <1>3, <1>4, <1>5, <1>6, <1>7, <1>8, <1>9, NextCases

-----------------------------------------------------------------------------
(* The invariant                                                           *)

LEMMA GapIsCovered ==
  NoGapBetweenWindows <=>
    checkpoint = Stale \/ \A t \in Titles : Covered(t, checkpoint)
BY DEF NoGapBetweenWindows, NextJobSees, Covered, Within

(* A change is of today, and so within any bound.                          *)
LEMMA ChangeCovers ==
  ASSUME TypeOK, NEW t \in Titles, Change(t), NEW u \in Titles, NEW n \in Nat
  PROVE  /\ Within(missing[u], n) => Within(missing'[u], n)
         /\ Covered(u, n) => Covered(u, n)'
<1>1. missing'[u] \subseteq missing[u] \cup {0}
  BY DEF Change, TypeOK
<1>. QED
  BY <1>1 DEF Change, Within, Covered

LEMMA ChangeSafe ==
  ASSUME IInv, NEW t \in Titles, Change(t)
  PROVE  Safe'
<1>. USE DEF IInv, Safe
<1>. /\ UNCHANGED <<hour, kills, owed, shadowed, checkpoint, fullAge>>
     /\ UNCHANGED <<phase, job, todo, open>>
  BY DEF Change, run
<1>. job.age \in Nat /\ job.start \in Nat /\ checkpoint \in Nat
  BY ConstantTypes, FeedAssumption DEF TypeOK
<1>1. PlannedWhole' /\ PlanInv' /\ NothingLeft'
  BY DEF PlannedWhole, PlanInv, NothingLeft, Of
<1>2. LacksAreLogged'
  <2>. SUFFICES ASSUME NEW u \in Titles
                PROVE  /\ Logged(missing[u], u)' /\ Logged(cache[u].lacks, u)'
                       /\ Logged(disk[u].lacks, u)'
    BY DEF LacksAreLogged
  <2>1. Logged(missing[u], u) /\ Logged(cache[u].lacks, u) /\ Logged(disk[u].lacks, u)
    BY DEF LacksAreLogged
  <2>2. CASE u # t
    BY <2>1, <2>2 DEF Change, TypeOK, Logged
  <2>3. CASE u = t
    <3>1. /\ log'[u] = log[u] \cup {0} /\ missing'[u] = missing[u] \cup {0}
          /\ cache'[u].lacks \subseteq cache[u].lacks \cup {0}
          /\ disk'[u].lacks \subseteq disk[u].lacks \cup {0}
      BY <2>3 DEF Change, TypeOK, Response
    <3>. QED
      BY <2>1, <3>1 DEF Logged
  <2>. QED
    BY <2>2, <2>3
<1>3. WindowReaches'
  BY ChangeCovers DEF WindowReaches
<1>4. DealtWith'
  BY ChangeCovers DEF DealtWith, InWork, Certifies
<1>5. RefreshDone'
  <2>1. \A u \in Titles : Within(missing[u], job.age) => Within(missing'[u], job.age)
    BY ChangeCovers
  <2>2. job.refresh \subseteq Titles
    BY DEF TypeOK
  <2>. QED
    BY <2>1, <2>2 DEF RefreshDone, InWork
<1>6. NoGapBetweenWindows'
  <2>1. checkpoint = Stale \/ \A u \in Titles : Covered(u, checkpoint)
    BY GapIsCovered
  <2>2. \A u \in Titles : Covered(u, checkpoint) => Covered(u, checkpoint)'
    BY ChangeCovers
  <2>3. checkpoint' = Stale \/ \A u \in Titles : Covered(u, checkpoint)'
    BY <2>1, <2>2
  <2>. QED
    BY <2>3 DEF NoGapBetweenWindows, NextJobSees, Covered, Within
<1>. QED
  BY <1>1, <1>2, <1>3, <1>4, <1>5, <1>6

(* Ages and bounds grow together.                                          *)
LEMMA TickCovers ==
  ASSUME TypeOK, Tick, NEW t \in Titles, NEW n \in Nat
  PROVE  /\ Within(missing[t], n) => Within(missing'[t], NextDay(n))
         /\ Covered(t, n) => t \in owed' \cup shadowed' \/ Within(missing'[t], NextDay(n))
<1>1. missing[t] \in SUBSET Days
  BY DEF TypeOK
<1>2. missing'[t] = Older(missing[t]) /\ owed' = owed /\ shadowed' = shadowed
  BY DEF Tick
<1>3. Within(missing[t], n) => Within(missing'[t], NextDay(n))
  BY <1>1, <1>2, OlderWithin
<1>. QED
  BY <1>2, <1>3 DEF Covered

LEMMA TickSafe ==
  ASSUME IInv, Tick
  PROVE  Safe'
<1>. USE DEF IInv, Safe
<1>. UNCHANGED <<kills, edits, owed, shadowed, phase, todo, open>>
  BY DEF Tick
<1>0. job.age \in Nat /\ job.start \in Nat /\ checkpoint \in Nat
  BY ConstantTypes, FeedAssumption DEF TypeOK
<1>1. /\ phase = "idle" => job' = NoJob
      /\ job'.status = job.status /\ job'.failed = job.failed
      /\ job'.refresh = job.refresh /\ job'.full = job.full
      /\ phase # "idle" => job'.age = NextDay(job.age)
      /\ phase # "idle" /\ job.status = "ready" => job'.start = NextDay(job.start)
      /\ phase # "idle" /\ job.status # "ready" => job'.start = job.start
  BY DEF Tick, TypeOK, PlanInv
<1>2. PlannedWhole' /\ PlanInv' /\ NothingLeft'
  <2>1. CASE phase = "idle"
    BY <1>1, <2>1, FeedAssumption DEF PlannedWhole, PlanInv, NothingLeft, Of, NoJob
  <2>2. CASE phase # "idle"
    <3>1. job.start <= Window + job.age /\ Window \in Nat
      BY FeedAssumption DEF PlanInv
    <3>2. job'.start <= Window + job'.age
      BY <1>0, <1>1, <2>2, <3>1 DEF NextDay
    <3>. QED
      BY <1>1, <2>2, <3>2 DEF PlannedWhole, PlanInv, NothingLeft, Of
  <2>. QED
    BY <2>1, <2>2
<1>3. LacksAreLogged'
  <2>. SUFFICES ASSUME NEW u \in Titles
                PROVE  /\ Logged(missing[u], u)' /\ Logged(cache[u].lacks, u)'
                       /\ Logged(disk[u].lacks, u)'
    BY DEF LacksAreLogged
  <2>1. Logged(missing[u], u) /\ Logged(cache[u].lacks, u) /\ Logged(disk[u].lacks, u)
    BY DEF LacksAreLogged
  <2>2. /\ log[u] \in SUBSET Days /\ missing[u] \in SUBSET Days
        /\ cache[u] \in Response /\ disk[u] \in Response
        /\ cache[u].lacks \in SUBSET Days /\ disk[u].lacks \in SUBSET Days
    BY ConstantTypes DEF TypeOK, Response
  <2>3. /\ log'[u] = Older(log[u]) \ {Horizon + 1} /\ missing'[u] = Older(missing[u])
        /\ cache'[u].lacks \subseteq Older(cache[u].lacks)
        /\ disk'[u].lacks \subseteq Older(disk[u].lacks)
    BY <2>2, AgedType DEF Tick
  <2>4. ASSUME NEW days \in SUBSET Days, Logged(days, u), NEW e \in Older(days), e <= Horizon
        PROVE  e \in log'[u]
    BY <2>2, <2>3, <2>4, OlderLogged DEF Logged
  <2>. QED
    BY <2>1, <2>2, <2>3, <2>4 DEF Logged
<1>4. WindowReaches'
  <2>. SUFFICES ASSUME job.status = "ready", NEW t \in Titles
                PROVE  Covered(t, job.start)'
    BY <1>1 DEF WindowReaches
  <2>1. phase # "idle"
    BY DEF PlanInv, NoJob
  <2>2. Covered(t, job.start)
    BY DEF WindowReaches
  <2>. QED
    BY <1>0, <1>1, <2>1, <2>2, TickCovers DEF Covered
<1>5. DealtWith'
  <2>. SUFFICES ASSUME InWork, Certifies, NEW t \in Titles \ todo
                PROVE  Covered(t, job.age)'
    BY <1>1 DEF DealtWith, InWork, Certifies
  <2>1. phase # "idle" /\ Covered(t, job.age)
    BY DEF DealtWith, InWork
  <2>. QED
    BY <1>0, <1>1, <2>1, TickCovers DEF Covered
<1>6. RefreshDone'
  <2>. SUFFICES ASSUME InWork, ~job.failed, NEW t \in job.refresh \ (todo \cup owed)
                PROVE  Within(missing[t], job.age)'
    BY <1>1 DEF RefreshDone, InWork
  <2>1. phase # "idle" /\ Within(missing[t], job.age) /\ t \in Titles
    BY DEF RefreshDone, InWork, TypeOK
  <2>. QED
    BY <1>0, <1>1, <2>1, TickCovers
<1>7. NoGapBetweenWindows'
  <2>1. checkpoint = Stale \/ \A t \in Titles : Covered(t, checkpoint)
    BY GapIsCovered
  <2>2. checkpoint' = Stale \/ checkpoint' = NextDay(checkpoint)
    BY DEF Tick, Capped
  <2>3. checkpoint = Stale => checkpoint' = Stale
    BY <1>0, ConstantTypes DEF Tick, Capped, NextDay
  <2>4. checkpoint' = Stale \/ \A t \in Titles : Covered(t, checkpoint)'
    BY <1>0, <2>1, <2>2, <2>3, TickCovers DEF Covered
  <2>. QED
    BY <2>4 DEF NoGapBetweenWindows, NextJobSees, Covered, Within
<1>. QED
  BY <1>2, <1>3, <1>4, <1>5, <1>6, <1>7

(* Steps that leave TMDb, the clock and the outputs alone keep what is     *)
(* known of them.                                                          *)
SameWorld == UNCHANGED <<hour, log, missing, owed, shadowed>>

LEMMA SameWorldCovers ==
  ASSUME SameWorld
  PROVE  /\ \A t, n : Covered(t, n)' <=> (t \in owed \cup shadowed \/ Within(missing[t], n'))
         /\ Safe /\ checkpoint' = checkpoint => NoGapBetweenWindows'
         /\ Safe /\ (cache' = cache \/ cache' = disk) /\ (disk' = disk \/ disk' = cache)
              => LacksAreLogged'
BY DEF SameWorld, Covered, Within, Safe, NoGapBetweenWindows, NextJobSees,
       LacksAreLogged, Logged

LEMMA BeginSafe ==
  ASSUME IInv, BeginScheduled \/ BeginUnreadable \/ BeginForced \/ BeginTargeted
  PROVE  Safe'
<1>. USE DEF IInv, Safe
<1>1. PICK plan \in Jobs : /\ Begin(plan) /\ plan.age = 0 /\ ~plan.failed
                           /\ plan.start <= Window
                           /\ plan.status = "ready" => plan.start = checkpoint
                           /\ plan.status = "baseline" => plan.full = Libraries
  BY BeginsPlan
<1>2. SameWorld /\ phase' = "planned" /\ job' = plan /\ todo' = {}
      /\ open' = Libraries
      /\ checkpoint' = checkpoint /\ cache' = cache /\ disk' = disk
  BY <1>1 DEF Begin, SameWorld, tmdb, output
<1>3. PlannedWhole' /\ PlanInv' /\ NothingLeft' /\ DealtWith' /\ RefreshDone'
  BY <1>1, <1>2, FeedAssumption DEF PlannedWhole, PlanInv, NothingLeft, DealtWith, RefreshDone, InWork
<1>4. WindowReaches'
  <2>. SUFFICES ASSUME plan.status = "ready", NEW t \in Titles
                PROVE  Covered(t, checkpoint)
    BY <1>1, <1>2, SameWorldCovers DEF WindowReaches, Covered, SameWorld
  <2>1. checkpoint # Stale
    BY <1>1, ConstantTypes, FeedAssumption DEF Stale
  <2>. QED
    BY <2>1, GapIsCovered
<1>. QED
  BY <1>2, <1>3, <1>4, SameWorldCovers

(* A title that a ready job does not select lacks nothing from before the  *)
(* plan: the window reaches back to all that is missing, and lists it.     *)
LEMMA UnlistedIsRecent ==
  ASSUME IInv, job.status = "ready", NEW t \in Titles, t \notin Listed
  PROVE  Covered(t, job.age)
<1>. USE DEF IInv, Safe
<1>. SUFFICES ASSUME t \notin owed \cup shadowed, NEW d \in missing[t]
              PROVE  d <= job.age
  BY DEF Covered, Within
<1>1. d \in Days /\ d \in Nat /\ job.age \in Nat /\ job.start \in 0 .. Horizon
  BY ConstantTypes, FeedAssumption DEF TypeOK
<1>2. d <= job.start
  BY DEF WindowReaches, Covered, Within
<1>3. d \in log[t]
  BY <1>1, <1>2, ConstantTypes DEF LacksAreLogged, Logged
<1>4. d \notin FeedWindow
  BY <1>3 DEF Listed
<1>. QED
  BY <1>1, <1>2, <1>4 DEF FeedWindow

LEMMA SelectSafe ==
  ASSUME IInv, CollectChanges \/ FeedUnavailable \/ NothingToCollect
  PROVE  Safe'
<1>. USE DEF IInv, Safe
<1>1. PICK status \in Statuses, refresh \in SUBSET Titles :
        /\ Select(status, refresh)
        /\ status = "ready" => job.status = "ready" /\ refresh = Listed
        /\ status = "baseline" => job.status = "baseline"
  BY SelectsSome
<1>2. SameWorld /\ phase' = "work" /\ open' = open /\ checkpoint' = checkpoint
      /\ cache' = cache /\ disk' = disk /\ phase = "planned"
  BY <1>1 DEF Select, SameWorld, tmdb, output
<1>3. job' = [job EXCEPT !.status = status, !.refresh = refresh]
  BY <1>1 DEF Select
<1>4. /\ job'.status = status /\ job'.refresh = refresh /\ job'.age = job.age
      /\ job'.start = job.start /\ job'.failed = job.failed /\ job'.full = job.full
  BY <1>3 DEF TypeOK
<1>5. /\ todo' \subseteq Titles
      /\ Of(job.full) \cup refresh \subseteq todo'
  BY <1>1 DEF Select, Of
<1>6. PlannedWhole' /\ PlanInv' /\ WindowReaches' /\ RefreshDone'
  <2>1. PlannedWhole' /\ PlanInv'
    BY <1>1, <1>2, <1>4 DEF PlannedWhole, PlanInv
  <2>2. WindowReaches'
    BY <1>1, <1>2, <1>4, SameWorldCovers DEF WindowReaches, Covered, SameWorld
  <2>3. RefreshDone'
    BY <1>4, <1>5 DEF RefreshDone
  <2>. QED
    BY <2>1, <2>2, <2>3
<1>7. NothingLeft'
  BY <1>2, <1>5, FeedAssumption DEF NothingLeft, PlannedWhole, Of
<1>8. DealtWith'
  <2>. SUFFICES ASSUME status \in {"ready", "baseline"}, NEW t \in Titles, t \notin todo'
                PROVE  Covered(t, job.age)
    BY <1>2, <1>4, SameWorldCovers DEF DealtWith, Certifies, InWork, Covered, SameWorld
  <2>1. CASE status = "ready"
    BY <1>1, <1>5, <2>1, UnlistedIsRecent
  <2>2. CASE status = "baseline"
    BY <1>1, <1>5, <2>2, FeedAssumption DEF PlannedWhole, Of
  <2>. QED
    BY <2>1, <2>2
<1>. QED
  BY <1>2, <1>6, <1>7, <1>8, SameWorldCovers

(* What is known of the other titles after t was evaluated.                *)
LEMMA WorkSafe ==
  ASSUME IInv, NEW t \in Titles, FetchOk(t) \/ FetchFails(t) \/ UseCached(t)
  PROVE  Safe'
<1>. USE DEF IInv, Safe
<1>1. /\ UNCHANGED <<hour, log, disk, checkpoint, phase, job, open>>
      /\ phase = "work" /\ todo' = todo \ {t} /\ t \in todo
  BY DEF FetchOk, FetchFails, UseCached, Working, tmdb
<1>2. /\ \A u \in Titles \ {t} : missing'[u] = missing[u]
      /\ \A u \in Titles \ {t} : u \in owed \cup shadowed => u \in owed' \cup shadowed'
      /\ \A u \in Titles \ {t} : u \in owed => u \in owed'
  BY DEF FetchOk, FetchFails, UseCached, TypeOK
<1>3. \/ missing'[t] = {}
      \/ t \in owed'
      \/ (t \in shadowed' /\ t \notin job.refresh)
  <2>1. CASE FetchOk(t)
    BY <2>1 DEF FetchOk, TypeOK
  <2>2. CASE FetchFails(t)
    BY <2>2 DEF FetchFails
  <2>3. CASE UseCached(t)
    <3>1. t \notin job.refresh /\ missing'[t] = cache[t].lacks
      BY <2>3 DEF UseCached, CacheServes, TypeOK
    <3>2. cache[t].lacks = {} \/ t \in shadowed'
      BY <2>3 DEF UseCached
    <3>. QED
      BY <3>1, <3>2
  <2>. QED
    BY <2>1, <2>2, <2>3
<1>4. \A u \in Titles : \A n : u # t /\ Covered(u, n) => Covered(u, n)'
  BY <1>2 DEF Covered, Within
<1>5. \A n : Covered(t, n)'
  BY <1>3 DEF Covered, Within
<1>6. PlannedWhole' /\ PlanInv' /\ NothingLeft' /\ WindowReaches' /\ DealtWith'
  BY <1>1, <1>4, <1>5 DEF PlannedWhole, PlanInv, NothingLeft, Of, WindowReaches,
                          DealtWith, InWork, Certifies
<1>7. RefreshDone'
  <2>. SUFFICES ASSUME ~job.failed, NEW u \in job.refresh, u \notin todo', u \notin owed'
                PROVE  Within(missing'[u], job.age)
    BY <1>1 DEF RefreshDone
  <2>1. CASE u = t
    BY <1>3, <2>1 DEF Within
  <2>2. CASE u # t
    BY <1>1, <1>2, <2>2 DEF RefreshDone, InWork, TypeOK
  <2>. QED
    BY <2>1, <2>2
<1>8. LacksAreLogged'
  <2>1. \A u \in Titles : cache'[u] = cache[u] \/ cache'[u].lacks = {}
    BY DEF FetchOk, FetchFails, UseCached, Fetched, TypeOK
  <2>2. \A u \in Titles : missing'[u] \in {missing[u], {}, cache[u].lacks}
    BY DEF FetchOk, FetchFails, UseCached, TypeOK
  <2>. QED
    BY <1>1, <2>1, <2>2 DEF LacksAreLogged, Logged
<1>9. NoGapBetweenWindows'
  <2>1. checkpoint' = Stale \/ \A u \in Titles : Covered(u, checkpoint)'
    BY <1>1, <1>4, <1>5, GapIsCovered
  <2>. QED
    BY <2>1 DEF NoGapBetweenWindows, NextJobSees, Covered, Within
<1>. QED
  BY <1>6, <1>7, <1>8, <1>9

LEMMA CloseSafe ==
  ASSUME IInv, NEW l \in Libraries, LibraryDone(l) \/ LibraryFails(l)
  PROVE  Safe'
<1>. USE DEF IInv, Safe
<1>1. SameWorld /\ UNCHANGED <<phase, checkpoint, cache, disk>>
      /\ phase = "work" /\ open' = open \ {l} /\ todo' \subseteq todo
  BY DEF LibraryDone, LibraryFails, CloseLibrary, SameWorld, tmdb, output
<1>2. todo' \cap Of({l}) = {}
  BY DEF LibraryDone, LibraryFails
<1>3. /\ job'.status = job.status /\ job'.start = job.start /\ job'.age = job.age
      /\ job'.full = job.full
      /\ job'.failed \/ (job' = job /\ todo' = todo)
  <2>1. CASE LibraryDone(l)
    BY <2>1 DEF LibraryDone
  <2>2. CASE LibraryFails(l)
    <3>1. job' = [job EXCEPT !.failed = TRUE]
      BY <2>2 DEF LibraryFails
    <3>. QED
      BY <3>1 DEF TypeOK
  <2>. QED
    BY <2>1, <2>2
<1>4. NothingLeft'
  BY <1>1, <1>2 DEF NothingLeft, Of
<1>5. PlannedWhole' /\ PlanInv'
  BY <1>1, <1>3 DEF PlannedWhole, PlanInv
<1>6. WindowReaches' /\ DealtWith' /\ RefreshDone'
  BY <1>1, <1>3 DEF WindowReaches, DealtWith, RefreshDone, InWork, Certifies, Covered,
                    Within, SameWorld
<1>. QED
  BY <1>1, <1>4, <1>5, <1>6, SameWorldCovers

LEMMA FlushSafe ==
  ASSUME IInv, FlushResponses \/ LoseResponses
  PROVE  Safe'
<1>. USE DEF IInv, Safe
<1>1. SameWorld /\ UNCHANGED <<checkpoint, job, todo, open>>
      /\ phase = "work" /\ phase' = "flushed" /\ open = {}
      /\ (cache' = cache \/ cache' = disk) /\ (disk' = disk \/ disk' = cache)
  BY DEF FlushResponses, LoseResponses, EndWork, SameWorld, tmdb, output
<1>2. NothingLeft' /\ PlannedWhole' /\ PlanInv'
  BY <1>1 DEF NothingLeft, Of, PlannedWhole, PlanInv
<1>3. WindowReaches' /\ DealtWith' /\ RefreshDone'
  BY <1>1 DEF WindowReaches, DealtWith, RefreshDone, InWork, Certifies, Covered,
              Within, SameWorld
<1>. QED
  BY <1>1, <1>2, <1>3, SameWorldCovers

LEMMA GivesUpSafe ==
  ASSUME IInv, CacheGivesUp
  PROVE  Safe'
<1>. USE DEF IInv, Safe
<1>1. SameWorld /\ UNCHANGED <<checkpoint, phase, job, todo, open>>
  BY GivesUp DEF SameWorld, tmdb, output, run
<1>2. NothingLeft' /\ PlannedWhole' /\ PlanInv'
  BY <1>1 DEF NothingLeft, Of, PlannedWhole, PlanInv
<1>3. WindowReaches' /\ DealtWith' /\ RefreshDone'
  BY <1>1 DEF WindowReaches, DealtWith, RefreshDone, InWork, Certifies, Covered,
              Within, SameWorld
<1>4. LacksAreLogged'
  <2>1. \A t \in Titles :
          /\ cache'[t] = cache[t] \/ cache'[t].lacks = {}
          /\ disk'[t] = disk[t] \/ disk'[t] = cache[t] \/ disk'[t].lacks = {}
    BY GivesUp
  <2>. QED
    BY <1>1, <2>1 DEF LacksAreLogged, Logged, SameWorld
<1>. QED
  BY <1>1, <1>2, <1>3, <1>4, SameWorldCovers

LEMMA NoJobSafe ==
  ASSUME Leave
  PROVE  PlannedWhole' /\ PlanInv' /\ WindowReaches' /\ DealtWith' /\ RefreshDone'
         /\ NothingLeft'
BY FeedAssumption DEF Leave, NoJob, PlannedWhole, PlanInv, WindowReaches, DealtWith,
                      RefreshDone, InWork, NothingLeft, Of

LEMMA EndSafe ==
  ASSUME IInv, EndJob \/ CommitFails \/ Kill
  PROVE  Safe'
<1>. USE DEF IInv, Safe
<1>1. SameWorld /\ Leave /\ disk' = disk /\ (cache' = cache \/ cache' = disk)
  BY DEF EndJob, CommitFails, Kill, SameWorld, tmdb, output
<1>2. CASE checkpoint' = checkpoint
  BY <1>1, <1>2, NoJobSafe, SameWorldCovers
<1>3. CASE checkpoint' # checkpoint
  <2>1. /\ phase = "flushed" /\ Certifies /\ checkpoint' = Capped(job.age, Stale)
        /\ todo = {}
    BY <1>3 DEF EndJob, CommitFails, Kill, Candidate, Certifies, NothingLeft
  <2>2. \A t \in Titles : Covered(t, job.age)
    BY <2>1 DEF DealtWith, InWork
  <2>3. checkpoint' = Stale \/ checkpoint' = job.age
    BY <2>1 DEF Capped
  <2>4. NoGapBetweenWindows'
    BY <1>1, <2>2, <2>3 DEF NoGapBetweenWindows, NextJobSees, Covered, Within, SameWorld
  <2>. QED
    BY <1>1, <2>4, NoJobSafe, SameWorldCovers
<1>. QED
  BY <1>2, <1>3

-----------------------------------------------------------------------------
LEMMA InitInv == Init => IInv
<1>. SUFFICES ASSUME Init PROVE IInv
  OBVIOUS
<1>1. TypeOK
  <2>1. NoJob \in Jobs
    BY NoJobType
  <2>. QED
    BY <2>1, ConstantTypes, FeedAssumption DEF Init, TypeOK, Jobs
<1>2. PlannedWhole /\ PlanInv /\ NothingLeft
  BY FeedAssumption DEF Init, PlannedWhole, PlanInv, NothingLeft, NoJob, Of
<1>3. LacksAreLogged /\ NoGapBetweenWindows
  BY DEF Init, LacksAreLogged, Logged, NoResponse, NoGapBetweenWindows, NextJobSees
<1>4. WindowReaches /\ DealtWith /\ RefreshDone
  BY DEF Init, WindowReaches, DealtWith, RefreshDone, InWork, NoJob
<1>. QED
  BY <1>1, <1>2, <1>3, <1>4 DEF IInv, Safe

LEMMA StepInv == IInv /\ [Next]_vars => IInv'
<1>. SUFFICES ASSUME IInv, [Next]_vars PROVE IInv'
  OBVIOUS
<1>1. TypeOK'
  BY TypeStep DEF IInv, Safe
<1>2. Safe'
  <2>1. CASE \E t \in Titles : Change(t)
    BY <2>1, ChangeSafe
  <2>2. CASE Tick
    BY <2>2, TickSafe
  <2>3. CASE BeginScheduled \/ BeginUnreadable \/ BeginForced \/ BeginTargeted
    BY <2>3, BeginSafe
  <2>4. CASE CollectChanges \/ FeedUnavailable \/ NothingToCollect
    BY <2>4, SelectSafe
  <2>5. CASE \E t \in Titles : FetchOk(t) \/ FetchFails(t) \/ UseCached(t)
    BY <2>5, WorkSafe
  <2>6. CASE \E l \in Libraries : LibraryDone(l) \/ LibraryFails(l)
    BY <2>6, CloseSafe
  <2>7. CASE FlushResponses \/ LoseResponses
    BY <2>7, FlushSafe
  <2>8. CASE EndJob \/ CommitFails \/ Kill
    BY <2>8, EndSafe
  <2>9. CASE CacheGivesUp
    BY <2>9, GivesUpSafe
  <2>10. CASE UNCHANGED vars
    BY <2>10 DEF vars, tmdb, output, run, IInv, Safe, PlannedWhole, PlanInv, LacksAreLogged,
                Logged, WindowReaches, Covered, Within, DealtWith, RefreshDone, InWork,
                Certifies, NothingLeft, NoGapBetweenWindows, NextJobSees
  <2>. QED
    BY <2>1, <2>2, <2>3, <2>4, <2>5, <2>6, <2>7, <2>8, <2>9, <2>10, NextCases
<1>. QED
  BY <1>1, <1>2 DEF IInv

(* Every state is well typed: no age leaves its bounds, however long a job *)
(* takes and whenever midnight falls.                                      *)
THEOREM TypeCorrect == Spec => []TypeOK
<1>1. IInv => TypeOK
  BY DEF IInv
<1>. QED
  BY <1>1, InitInv, StepInv, PTL DEF Spec

(* prepare_tmdb_change_plan and commit_tmdb_change_checkpoint: no change   *)
(* falls between two windows, for any window, lifetime of a response and   *)
(* number of libraries.                                                    *)
THEOREM WindowsMeet == Spec => []NoGapBetweenWindows
<1>1. IInv => NoGapBetweenWindows
  BY DEF IInv, Safe
<1>. QED
  BY <1>1, InitInv, StepInv, PTL DEF Spec

(* _change_refresh_requested: what the feed listed is shown when the job   *)
(* commits, or a retry is queued.                                          *)
THEOREM ListedShown == Spec => []ListedIsApplied
<1>1. IInv => ListedIsApplied
  BY DEF IInv, Safe, ListedIsApplied, RefreshDone, NothingLeft, InWork, Within
<1>. QED
  BY <1>1, InitInv, StepInv, PTL DEF Spec

(* With tmdb_cache.enabled off no change is ever lost: the response cache  *)
(* is the only thing that can keep a change from both the baseline and     *)
(* every window after it.                                                  *)
THEOREM NothingLostUncached == TTL = 0 => (Spec => []NoChangeLost)
<1>. SUFFICES ASSUME TTL = 0 PROVE Spec => []NoChangeLost
  OBVIOUS
<1>. DEFINE Unshadowed == shadowed = {}
<1>1. Init => Unshadowed
  BY DEF Init
<1>2. IInv /\ Unshadowed /\ [Next]_vars => Unshadowed'
  <2>. SUFFICES ASSUME TypeOK, Unshadowed, [Next]_vars PROVE Unshadowed'
    BY DEF IInv
  <2>1. ASSUME NEW t \in Titles PROVE ~UseCached(t)
    BY FeedAssumption DEF UseCached, CacheServes, TypeOK, Response
  <2>2. CASE \E t \in Titles : FetchOk(t) \/ FetchFails(t) \/ UseCached(t)
    BY <2>1, <2>2 DEF FetchOk, FetchFails
  <2>3. CASE ~(\E t \in Titles : FetchOk(t) \/ FetchFails(t) \/ UseCached(t))
    BY <2>3, NextCases
    DEF Change, Tick, BeginScheduled, BeginUnreadable, BeginForced, BeginTargeted, Begin,
        CollectChanges, FeedUnavailable, NothingToCollect, Select, LibraryDone,
        LibraryFails, CloseLibrary, FlushResponses, LoseResponses, EndWork, EndJob,
        CommitFails, Kill, CacheGivesUp, Evict, RelieveSpace, RecoverDatabase, CacheStep,
        vars, output
  <2>. QED
    BY <2>2, <2>3
<1>3. IInv /\ Unshadowed => NoChangeLost
  BY DEF IInv, Safe, NoGapBetweenWindows, NoChangeLost
<1>. QED
  BY <1>1, <1>2, <1>3, InitInv, StepInv, PTL DEF Spec
=============================================================================
