--------------------------- MODULE Service_proofs ---------------------------
(***************************************************************************)
(* Proofs about what runs the work on an item: the long-running scheduler  *)
(* (Scheduler), a job over the libraries (LibraryRun) and the lanes that   *)
(* its operations pass (AdaptiveLane), for any configurations, starts,     *)
(* edits and other processes, any libraries, items, page sizes and builds, *)
(* and any finite set of callers, kind of lane, limit and cooldown.        *)
(***************************************************************************)
EXTENDS Scheduler, LibraryRun, AdaptiveLane, WellFoundedInduction,
        FiniteSetTheorems, TLAPS

-----------------------------------------------------------------------------
\* Times of the day.

\* What n \div D and n % D are to n.
LEMMA Division ==
  ASSUME NEW D \in Nat \ {0}, NEW n \in Int
  PROVE  \E q \in Int : \E r \in 0..(D - 1) : n = D * q + r /\ n % D = r
<1>1. n % D \in 0..(D - 1)
  BY SMT
<1>2. n \div D \in Int /\ n = D * (n \div D) + (n % D)
  BY SMT
<1>. QED
  BY <1>1, <1>2, Zenon

\* The remainder of a sum of a multiple and something small.
LEMMA Residue ==
  ASSUME NEW D \in Nat \ {0}, NEW q \in Int, NEW r \in 0..(D - 1)
  PROVE  (D * q + r) % D = r
<1>1. D * q + r \in Int
  OBVIOUS
<1>2. PICK p \in Int, k \in 0..(D - 1) : D * q + r = D * p + k /\ (D * q + r) % D = k
  BY <1>1, Division
<1>3. k = r
  <2>1. D * q + r = D * p + k
    BY <1>2
  <2>. QED
    BY <2>1
<1>. QED
  BY <1>2, <1>3

\* Less than a day apart at the same time of the day is at the same time.
LEMMA SameResidue ==
  ASSUME NEW D \in Nat \ {0}, NEW a \in Int, NEW b \in Int,
         a % D = b % D, a <= b, b < a + D
  PROVE  a = b
<1>1. PICK p \in Int, r \in 0..(D - 1) : a = D * p + r /\ a % D = r
  BY Division
<1>2. PICK q \in Int, k \in 0..(D - 1) : b = D * q + k /\ b % D = k
  BY Division
<1>3. k = r
  BY <1>1, <1>2
<1>4. a = D * p + r /\ b = D * q + r
  BY <1>1, <1>2, <1>3
<1>5. D * p <= D * q /\ D * q < D * p + D
  BY <1>4
<1>6. p = q
  BY <1>5
<1>. QED
  BY <1>4, <1>6

\* Every time of the day comes within a day.
LEMMA ComesWithinADay ==
  ASSUME NEW D \in Nat \ {0}, NEW s \in 0..(D - 1), NEW t \in Int
  PROVE  \E u \in (t + 1)..(t + D) : u % D = s
<1>1. PICK q \in Int, r \in 0..(D - 1) : t = D * q + r
  BY Division
<1>2. CASE r < s
  <2>1. (D * q + s) % D = s
    BY Residue
  <2>2. D * q + s \in (t + 1)..(t + D)
    BY <1>1, <1>2
  <2>. QED
    BY <2>1, <2>2
<1>3. CASE s <= r
  <2>1. (D * (q + 1) + s) % D = s
    <3>1. q + 1 \in Int
      OBVIOUS
    <3>. QED
      BY <3>1, Residue
  <2>2. D * (q + 1) + s \in (t + 1)..(t + D)
    BY <1>1, <1>3
  <2>. QED
    BY <2>1, <2>2
<1>. QED
  BY <1>2, <1>3

LEMMA SlotsInDay == Slots \subseteq 0..(Day - 1)
BY SchedulerAssumption DEF Slots, Times

\* The library finds the next time of a daily job.
LEMMA NextTimeIs ==
  ASSUME NEW s \in 0..(Day - 1), NEW t \in Int
  PROVE  /\ NextTime(s, t) \in Int /\ t < NextTime(s, t) /\ NextTime(s, t) <= t + Day
         /\ NextTime(s, t) % Day = s
<1>1. Day \in Nat \ {0}
  BY SchedulerAssumption
<1>2. \E u \in (t + 1)..(t + Day) : u % Day = s
  BY <1>1, ComesWithinADay
<1>3. NextTime(s, t) \in (t + 1)..(t + Day) /\ NextTime(s, t) % Day = s
  BY <1>2, Zenon DEF NextTime
<1>. QED
  BY <1>1, <1>3

\* It is the next one.
LEMMA NoneBefore ==
  ASSUME NEW s \in 0..(Day - 1), NEW t \in Int,
         NEW u \in Int, u % Day = s, u < NextTime(s, t)
  PROVE  u <= t
<1>1. Day \in Nat \ {0}
  BY SchedulerAssumption
<1>2. /\ NextTime(s, t) \in Int /\ NextTime(s, t) <= t + Day
      /\ NextTime(s, t) % Day = s
  BY NextTimeIs
<1>. SUFFICES ASSUME u > t PROVE FALSE
  OBVIOUS
<1>3. u = NextTime(s, t)
  <2>1. u <= NextTime(s, t) /\ NextTime(s, t) < u + Day
    BY <1>1, <1>2
  <2>2. u % Day = NextTime(s, t) % Day
    BY <1>2
  <2>. QED
    BY <1>1, <1>2, <2>1, <2>2, SameResidue
<1>. QED
  BY <1>3

\* Times that are bounded have a latest one.
LEMMA LatestIs ==
  ASSUME NEW S, NEW t \in Nat, Passed(S, t) # {}
  PROVE  Latest(S, t) \in Passed(S, t) /\ Latest(S, t) \in 0..t
<1> DEFINE ago == {k \in Nat : t - k \in Passed(S, t)}
<1>1. Passed(S, t) \subseteq 0..t
  BY DEF Passed
<1>2. PICK w \in Passed(S, t) : TRUE
  OBVIOUS
<1>3. t - w \in ago
  BY <1>1, <1>2
<1>4. ago \subseteq Nat /\ ago # {}
  BY <1>3
<1>5. PICK k \in ago : \A l \in ago : ~(<<l, k>> \in OpToRel(<, Nat))
  <2> HIDE DEF ago
  <2>. QED
    BY <1>4, NatLessThanWellFounded, WFMin
<1>6. ASSUME NEW v \in Passed(S, t)
      PROVE  v <= t - k
  <2>1. t - v \in ago /\ v \in 0..t
    BY <1>1
  <2>2. ~(<<t - v, k>> \in OpToRel(<, Nat))
    BY <1>5, <2>1
  <2>3. ~(t - v < k)
    BY <2>1, <2>2 DEF OpToRel
  <2>. QED
    BY <2>1, <2>3
<1>7. t - k \in Passed(S, t)
  OBVIOUS
<1>8. Latest(S, t) \in Passed(S, t)
  BY <1>6, <1>7, Zenon DEF Latest
<1>. QED
  BY <1>1, <1>8

-----------------------------------------------------------------------------
\* Scheduler.

\* Main has a configuration while there is a process.
ConfInv == at # "down" => conf \in Configs

\* What the history says of the past, and the rows of job_runs of successes.
PastInv ==
  /\ tried <= now /\ won <= now
  /\ \A i \in DOMAIN runs : runs[i].ok => runs[i].at <= won

\* A registered job is scheduled at its time of the day, and at none of those
\* before was there no job under way then or later.
SlotInv ==
  at \in Looping => \A s \in conf.times :
    /\ next[s] \in Nat
    /\ \A t \in Nat : since < t /\ t < next[s] /\ t % Day = s => tried >= t

StartupInv == at = "registering" /\ owed # Never => won >= owed \/ tried >= owed

\* Except while a changed file is being read, what runs is what the file says, if
\* that is the version the reloader has seen.
FollowInv ==
  /\ sig <= version
  /\ at = "loaded" /\ sig = version => conf = file
  /\ at \notin {"down", "loaded", "reading"} /\ sig = version /\ file # Invalid /\ ~stale
     => conf = file

SchedulerInv == TypeOK /\ ConfInv /\ PastInv /\ SlotInv /\ StartupInv /\ FollowInv

JobRows == [ok : BOOLEAN, at : 0..MaxTime]

LEMMA TimesInSlots ==
  ASSUME NEW c \in Configs
  PROVE  c.times \subseteq Slots /\ c.times \subseteq 0..(Day - 1)
BY SchedulerAssumption DEF Slots, Times

\* What a row does to the rows and to the last success.
LEMMA RowAdded ==
  ASSUME TypeOK, PastInv, NEW ok \in BOOLEAN, Row(ok)
  PROVE  /\ runs' \in Seq(JobRows) /\ Len(runs') <= History
         /\ won' \in Never..MaxTime /\ won' >= won /\ won' <= now
         /\ \A i \in DOMAIN runs' : runs'[i].ok => runs'[i].at <= won'
<1> DEFINE row == [ok |-> ok, at |-> now]
           all == Append(runs, row)
<1>1. /\ runs \in Seq(JobRows) /\ row \in JobRows /\ now \in 0..MaxTime
      /\ won \in Never..MaxTime /\ Len(runs) <= History /\ MaxTime \in Nat
      /\ History \in Nat \ {0} /\ runs' = IF Len(all) > History THEN Tail(all) ELSE all
      /\ won' = IF ok THEN now ELSE won
  BY SchedulerAssumption DEF TypeOK, JobRows, Row
<1>2. won' \in Never..MaxTime /\ won' >= won /\ won' <= now
  BY <1>1 DEF PastInv, Never
<1>3. /\ all \in Seq(JobRows) /\ Len(all) = Len(runs) + 1
      /\ \A i \in 1..Len(runs) : all[i] = runs[i]
      /\ all[Len(runs) + 1] = row
  BY <1>1
<1>4. \A i \in 1..Len(all) : all[i].ok => all[i].at <= won'
  <2>1. row.ok => row.at <= won'
    BY <1>1
  <2>2. \A i \in 1..Len(runs) : runs[i].ok => runs[i].at <= won'
    <3>1. \A i \in 1..Len(runs) : runs[i].at \in Int
      <4>1. \A i \in 1..Len(runs) : runs[i] \in JobRows
        BY <1>1
      <4>2. \A r \in JobRows : r.at \in Int
        BY <1>1 DEF JobRows
      <4>. QED
        BY <4>1, <4>2
    <3>2. DOMAIN runs = 1..Len(runs)
      BY <1>1
    <3>3. won \in Int /\ won' \in Int
      BY <1>1, <1>2 DEF Never
    <3>. QED
      BY <1>2, <3>1, <3>2, <3>3 DEF PastInv
  <2>. QED
    BY <1>1, <1>3, <2>1, <2>2
<1> HIDE DEF all, row
<1>5. CASE Len(all) > History
  <2>1. runs' = Tail(all)
    BY <1>1, <1>5
  <2>2. /\ runs' \in Seq(JobRows) /\ Len(runs') = Len(all) - 1
        /\ \A i \in 1..Len(runs') : runs'[i] = all[i + 1]
    BY <1>1, <1>3, <1>5, <2>1
  <2>3. DOMAIN runs' = 1..Len(runs')
    BY <2>2
  <2>. QED
    BY <1>1, <1>2, <1>3, <1>4, <2>2, <2>3
<1>6. CASE ~(Len(all) > History)
  <2>1. runs' = all
    BY <1>1, <1>6
  <2>2. DOMAIN runs' = 1..Len(all)
    BY <1>3, <2>1
  <2>. QED
    BY <1>1, <1>2, <1>3, <1>4, <1>6, <2>1, <2>2
<1>. QED
  BY <1>5, <1>6

LEMMA SchedulerInit == Init => SchedulerInv
<1>. SUFFICES ASSUME Init PROVE SchedulerInv
  OBVIOUS
<1>1. TypeOK
  <2>1. runs \in Seq(JobRows) /\ Len(runs) <= History
    BY SchedulerAssumption DEF Init
  <2>2. next \in [Slots -> Int] /\ due \subseteq Slots
    BY DEF Init, Never
  <2>3. {since, tried, owed, won} \subseteq Never..MaxTime
    BY SchedulerAssumption DEF Init, Never
  <2>4. /\ now \in 0..MaxTime /\ version \in 0..MaxEdits /\ sig \in 0..MaxEdits
        /\ starts \in 0..MaxStarts /\ others \in 0..MaxOthers
    BY SchedulerAssumption DEF Init
  <2>5. /\ file \in Configs \cup {Invalid} /\ conf \in Configs \cup {Invalid}
        /\ lock \in {"free", "main", "other"}
        /\ at \in {"down", "loaded", "deciding", "registering", "applying"} \cup Looping
        /\ job \in {"none", "opening", "active", "cancelled", "closing", "failing"}
        /\ other \in {"none", "job", "command", "rebuild", "rebuilt"}
        /\ stop \in BOOLEAN /\ stale \in BOOLEAN
    BY DEF Init
  <2>. QED
    BY <2>1, <2>2, <2>3, <2>4, <2>5 DEF TypeOK, JobRows
<1>2. ConfInv /\ PastInv /\ SlotInv /\ StartupInv /\ FollowInv
  BY DEF Init, ConfInv, PastInv, SlotInv, StartupInv, FollowInv, Looping, Never
<1>. QED
  BY <1>1, <1>2 DEF SchedulerInv

\* What the registration of all jobs leaves.
LEMMA Registered ==
  ASSUME SchedulerInv, conf \in Configs, RegisterAll(conf)
  PROVE  /\ next' \in [Slots -> Int] /\ since' \in Never..MaxTime /\ since' = now
         /\ \A s \in conf.times :
              /\ next'[s] \in Nat
              /\ \A t \in Nat : t < next'[s] /\ t % Day = s => t <= now
<1>1. now \in 0..MaxTime /\ MaxTime \in Nat /\ Day \in Nat
  BY SchedulerAssumption DEF SchedulerInv, TypeOK
<1>2. \A s \in Slots : NextTime(s, now) \in Int
  BY <1>1, SlotsInDay, NextTimeIs
<1>3. next' \in [Slots -> Int] /\ since' \in Never..MaxTime /\ since' = now
  BY <1>1, <1>2 DEF RegisterAll, Never
<1>4. ASSUME NEW s \in conf.times
      PROVE  /\ next'[s] \in Nat
             /\ \A t \in Nat : t < next'[s] /\ t % Day = s => t <= now
  <2>1. s \in Slots /\ s \in 0..(Day - 1) /\ next'[s] = NextTime(s, now)
    BY TimesInSlots DEF RegisterAll
  <2>2. NextTime(s, now) \in Nat
    <3>1. now \in Int
      BY <1>1
    <3>2. NextTime(s, now) \in Int /\ now < NextTime(s, now)
      BY <2>1, <3>1, NextTimeIs
    <3>. QED
      BY <1>1, <3>2
  <2>. QED
    BY <1>1, <2>1, <2>2, NoneBefore
<1>. QED
  BY <1>3, <1>4

\* What a run of a job leaves, whether it was refused or not.
LEMMA Ran ==
  ASSUME SchedulerInv, NEW s \in Slots, AfterRun(s)
  PROVE  /\ next' \in [Slots -> Int] /\ due' \subseteq Slots
         /\ next'[s] \in Nat
         /\ \A t \in Nat : t < next'[s] /\ t % Day = s => t <= now
         /\ \A r \in Slots : r # s => next'[r] = next[r]
<1>1. /\ now \in 0..MaxTime /\ MaxTime \in Nat /\ Day \in Nat
      /\ next \in [Slots -> Int] /\ due \subseteq Slots
  BY SchedulerAssumption DEF SchedulerInv, TypeOK
<1>2. s \in 0..(Day - 1) /\ NextTime(s, now) \in Nat
  <2>1. s \in 0..(Day - 1) /\ now \in Int
    BY <1>1, SlotsInDay
  <2>2. NextTime(s, now) \in Int /\ now < NextTime(s, now)
    BY <2>1, NextTimeIs
  <2>. QED
    BY <1>1, <2>1, <2>2
<1>3. /\ next' \in [Slots -> Int] /\ due' \subseteq Slots
      /\ next'[s] = NextTime(s, now)
      /\ \A r \in Slots : r # s => next'[r] = next[r]
  BY <1>1, <1>2 DEF AfterRun
<1>4. \A t \in Nat : t < next'[s] /\ t % Day = s => t <= now
  <2>1. now \in Int
    BY <1>1
  <2>. QED
    BY <1>2, <1>3, <2>1, NoneBefore
<1>. QED
  BY <1>2, <1>3, <1>4

\* Nothing is left of a process that is gone.
LEMMA GoneInv == ASSUME SchedulerInv, Gone PROVE SchedulerInv'
<1>1. TypeOK'
  <2>1. next' \in [Slots -> Int] /\ due' \subseteq Slots
    BY DEF Gone, Never
  <2>2. {since, tried, owed, won}' \subseteq Never..MaxTime
    BY SchedulerAssumption DEF Gone, SchedulerInv, TypeOK, Never
  <2>3. sig' \in 0..MaxEdits
    BY SchedulerAssumption DEF Gone
  <2>. QED
    BY <2>1, <2>2, <2>3 DEF Gone, SchedulerInv, TypeOK, clock, elsewhere
<1>2. PastInv'
  BY SchedulerAssumption DEF Gone, SchedulerInv, TypeOK, PastInv, Never, clock
<1>3. ConfInv' /\ SlotInv' /\ StartupInv' /\ FollowInv'
  BY SchedulerAssumption DEF Gone, SchedulerInv, TypeOK, ConfInv, SlotInv, StartupInv,
     FollowInv, Looping, clock
<1>. QED
  BY <1>1, <1>2, <1>3 DEF SchedulerInv

\* The job enters its turn, or is refused.
LEMMA LockTaken ==
  ASSUME SchedulerInv, TakeLock
  PROVE  /\ tried' = now
         /\ runs' \in Seq(JobRows) /\ Len(runs') <= History
         /\ won' \in Never..MaxTime /\ won' >= won /\ won' <= now
         /\ \A i \in DOMAIN runs' : runs'[i].ok => runs'[i].at <= won'
         /\ lock' \in {"free", "main", "other"}
         /\ job' \in {"none", "opening", "active", "cancelled", "closing", "failing"}
<1>1. CASE lock = "free"
  BY <1>1 DEF TakeLock, SchedulerInv, TypeOK, PastInv, JobRows, Never
<1>2. CASE lock # "free"
  BY <1>2, RowAdded DEF TakeLock, SchedulerInv, TypeOK
<1>. QED
  BY <1>1, <1>2

\* main up to the loop.
LEMMA StartingInv ==
  ASSUME SchedulerInv, Start \/ Watch \/ DecideStartup \/ Register
  PROVE  SchedulerInv'
<1>. USE DEF SchedulerInv, clock, process, elsewhere, history
<1>1. CASE Start
  <2>1. TypeOK'
    BY <1>1, SchedulerAssumption DEF Start, TypeOK
  <2>2. ConfInv' /\ PastInv' /\ SlotInv' /\ StartupInv' /\ FollowInv'
    BY <1>1, SchedulerAssumption DEF Start, ConfInv, PastInv, SlotInv, StartupInv, FollowInv,
       Looping, TypeOK
  <2>. QED
    BY <2>1, <2>2
<1>2. CASE Watch
  <2>1. TypeOK'
    BY <1>2 DEF Watch, TypeOK
  <2>2. ConfInv' /\ PastInv' /\ SlotInv' /\ StartupInv'
    BY <1>2 DEF Watch, ConfInv, PastInv, SlotInv, StartupInv, Looping
  <2>3. CASE sig = version
    BY <1>2, <2>1, <2>2, <2>3 DEF Watch, FollowInv, TypeOK
  <2>4. CASE sig # version
    <3>1. stale'
      BY <1>2, <2>4 DEF Watch
    <3>2. FollowInv'
      BY <1>2, <3>1 DEF Watch, FollowInv, TypeOK
    <3>. QED
      BY <2>1, <2>2, <3>2
  <2>. QED
    BY <2>3, <2>4
<1>3. CASE DecideStartup
  <2>1. conf \in Configs /\ now \in Nat
    BY <1>3, SchedulerAssumption DEF DecideStartup, ConfInv, TypeOK
  <2>2. Passed(conf.times, now) # {} => Latest(conf.times, now) \in 0..now
    BY <2>1, LatestIs
  <2>3. /\ owed' \in Never..MaxTime
        /\ owed' # Never => /\ conf.start = "catch_up" /\ ~stop
                            /\ Passed(conf.times, now) # {}
                            /\ now - Latest(conf.times, now) <= MaxAge
                            /\ owed' = Latest(conf.times, now) /\ owed' <= now
    BY <1>3, <2>1, <2>2, SchedulerAssumption DEF DecideStartup, TypeOK, Never
  <2>4. CASE StartupJob /\ ~stop
    <3>1. TakeLock
      BY <1>3, <2>4 DEF DecideStartup
    <3>2. /\ tried' = now
          /\ runs' \in Seq(JobRows) /\ Len(runs') <= History
          /\ won' \in Never..MaxTime /\ won' >= won /\ won' <= now
          /\ \A i \in DOMAIN runs' : runs'[i].ok => runs'[i].at <= won'
          /\ lock' \in {"free", "main", "other"}
          /\ job' \in {"none", "opening", "active", "cancelled", "closing", "failing"}
      BY <3>1, LockTaken
    <3>3. TypeOK'
      BY SMTT(30), <1>3, <2>3, <3>2, SchedulerAssumption DEF DecideStartup, TypeOK, JobRows, Never
    <3>4. ConfInv' /\ PastInv' /\ SlotInv' /\ StartupInv' /\ FollowInv'
      BY <1>3, <2>3, <3>2, SchedulerAssumption DEF DecideStartup, ConfInv, PastInv, SlotInv,
         StartupInv, FollowInv, Looping, TypeOK
    <3>. QED
      BY <3>3, <3>4
  <2>5. CASE ~(StartupJob /\ ~stop)
    <3>1. UNCHANGED <<lock, job, runs, tried, won>>
      BY <1>3, <2>5 DEF DecideStartup
    <3>2. owed' # Never => won >= owed'
      <4>. SUFFICES ASSUME owed' # Never PROVE won >= owed'
        OBVIOUS
      <4>1. PICK i \in DOMAIN runs : runs[i].ok /\ runs[i].at >= Latest(conf.times, now)
        BY <2>3, <2>5 DEF StartupJob, Missed
      <4>2. runs[i].at <= won
        BY <4>1 DEF PastInv
      <4>3. runs[i].at \in Int /\ won \in Int /\ Latest(conf.times, now) \in Int
        <5>1. runs \in Seq(JobRows) /\ won \in Never..MaxTime /\ MaxTime \in Nat
          BY SchedulerAssumption DEF TypeOK, JobRows
        <5>2. runs[i] \in JobRows
          BY <5>1
        <5>. QED
          BY <2>2, <2>3, <5>1, <5>2 DEF JobRows, Never
      <4>. QED
        BY <2>3, <4>1, <4>2, <4>3
    <3>3. TypeOK'
      BY <1>3, <2>3, <3>1 DEF DecideStartup, TypeOK
    <3>4. ConfInv' /\ PastInv' /\ SlotInv' /\ StartupInv' /\ FollowInv'
      BY <1>3, <2>3, <3>1, <3>2 DEF DecideStartup, ConfInv, PastInv, SlotInv, StartupInv,
         FollowInv, Looping
    <3>. QED
      BY <3>3, <3>4
  <2>. QED
    BY <2>4, <2>5
<1>4. CASE Register
  <2>1. conf \in Configs /\ RegisterAll(conf)
    BY <1>4 DEF Register, ConfInv
  <2>2. /\ next' \in [Slots -> Int] /\ since' \in Never..MaxTime /\ since' = now
        /\ \A s \in conf.times :
             /\ next'[s] \in Nat
             /\ \A t \in Nat : t < next'[s] /\ t % Day = s => t <= now
    BY <2>1, Registered
  <2>3. TypeOK'
    BY <1>4, <2>2, SchedulerAssumption DEF Register, TypeOK, Looping, Never
  <2>4. SlotInv'
    <3>1. now \in Int /\ since' = now /\ conf' = conf
      BY <1>4, <2>2 DEF Register, TypeOK
    <3>2. ASSUME NEW s \in conf.times, NEW t \in Nat, now < t, t < next'[s], t % Day = s
          PROVE  FALSE
      BY <2>2, <3>1, <3>2
    <3>. QED
      BY <2>2, <3>1, <3>2 DEF SlotInv
  <2>5. ConfInv' /\ PastInv' /\ StartupInv' /\ FollowInv'
    BY <1>4 DEF Register, ConfInv, PastInv, StartupInv, FollowInv
  <2>. QED
    BY <2>3, <2>4, <2>5
<1>. QED
  BY <1>1, <1>2, <1>3, <1>4

\* The loop, the jobs it runs aside.
LEMMA LoopInv ==
  ASSUME SchedulerInv,
         Exit \/ Unchanged \/ Changed \/ Read \/ Apply \/ Reject \/ PassDone \/ Wake
  PROVE  SchedulerInv'
<1>. USE DEF SchedulerInv, clock, process, elsewhere, history
<1>1. CASE Exit
  BY <1>1, GoneInv DEF Exit
<1>2. CASE Unchanged
  <2>1. TypeOK'
    BY <1>2 DEF Unchanged, Pass, Collected, TypeOK, Looping
  <2>2. ConfInv' /\ PastInv' /\ SlotInv' /\ StartupInv' /\ FollowInv'
    BY <1>2 DEF Unchanged, Pass, ConfInv, PastInv, SlotInv, StartupInv, FollowInv, Looping
  <2>. QED
    BY <2>1, <2>2
<1>3. CASE Changed
  <2>1. TypeOK'
    BY <1>3 DEF Changed, TypeOK, Looping
  <2>2. ConfInv' /\ PastInv' /\ SlotInv' /\ StartupInv' /\ FollowInv'
    BY <1>3, SchedulerAssumption DEF Changed, ConfInv, PastInv, SlotInv, StartupInv,
       FollowInv, Looping, TypeOK
  <2>. QED
    BY <2>1, <2>2
<1>4. CASE Read
  <2>1. TypeOK'
    BY <1>4 DEF Read, TypeOK
  <2>2. ConfInv' /\ PastInv' /\ SlotInv' /\ StartupInv' /\ FollowInv'
    BY <1>4 DEF Read, ConfInv, PastInv, SlotInv, StartupInv, FollowInv, Looping, TypeOK
  <2>. QED
    BY <2>1, <2>2
<1>5. CASE Apply
  <2>1. conf \in Configs /\ RegisterAll(conf)
    BY <1>5 DEF Apply, ConfInv
  <2>2. /\ next' \in [Slots -> Int] /\ since' \in Never..MaxTime /\ since' = now
        /\ \A s \in conf.times :
             /\ next'[s] \in Nat
             /\ \A t \in Nat : t < next'[s] /\ t % Day = s => t <= now
    BY <2>1, Registered
  <2>3. TypeOK'
    BY <1>5, <2>2, SchedulerAssumption DEF Apply, SignatureBefore, Pass, Collected, TypeOK,
       Looping, Never
  <2>4. SlotInv'
    <3>1. now \in Int /\ since' = now /\ conf' = conf
      BY <1>5, <2>2 DEF Apply, TypeOK
    <3>2. ASSUME NEW s \in conf.times, NEW t \in Nat, now < t, t < next'[s], t % Day = s
          PROVE  FALSE
      BY <2>2, <3>1, <3>2
    <3>. QED
      BY <2>2, <3>1, <3>2 DEF SlotInv
  <2>5. ConfInv' /\ PastInv' /\ StartupInv' /\ FollowInv'
    BY <1>5 DEF Apply, SignatureBefore, Pass, ConfInv, PastInv, StartupInv, FollowInv
  <2>. QED
    BY <2>3, <2>4, <2>5
<1>6. CASE Reject
  <2>1. TypeOK'
    BY <1>6 DEF Reject, Pass, Collected, TypeOK, Looping
  <2>2. ConfInv' /\ PastInv' /\ SlotInv' /\ StartupInv'
    BY <1>6 DEF Reject, Pass, ConfInv, PastInv, SlotInv, StartupInv, Looping
  <2>3. CASE file = Invalid
    BY <1>6, <2>1, <2>2, <2>3 DEF Reject, Pass, FollowInv
  <2>4. CASE file # Invalid
    <3>1. stale'
      BY <1>6, <2>4 DEF Reject
    <3>2. FollowInv'
      BY <1>6, <3>1 DEF Reject, Pass, FollowInv
    <3>. QED
      BY <2>1, <2>2, <3>2
  <2>. QED
    BY <2>3, <2>4
<1>7. CASE PassDone
  <2>1. TypeOK'
    BY <1>7 DEF PassDone, TypeOK, Looping
  <2>2. ConfInv' /\ PastInv' /\ SlotInv' /\ StartupInv' /\ FollowInv'
    BY <1>7 DEF PassDone, ConfInv, PastInv, SlotInv, StartupInv, FollowInv, Looping
  <2>. QED
    BY <2>1, <2>2
<1>8. CASE Wake
  <2>1. TypeOK'
    BY <1>8 DEF Wake, TypeOK, Looping
  <2>2. ConfInv' /\ PastInv' /\ SlotInv' /\ StartupInv' /\ FollowInv'
    BY <1>8 DEF Wake, ConfInv, PastInv, SlotInv, StartupInv, FollowInv, Looping
  <2>. QED
    BY <2>1, <2>2
<1>. QED
  BY <1>1, <1>2, <1>3, <1>4, <1>5, <1>6, <1>7, <1>8

\* A run of job s moves its next time past now, and one was under way now.
LEMMA RanSlotInv ==
  ASSUME SchedulerInv, NEW s \in Slots, AfterRun(s), tried' = now,
         UNCHANGED <<at, conf, since>>
  PROVE  SlotInv'
<1>. SUFFICES ASSUME at \in Looping, NEW r \in conf.times
              PROVE  /\ next'[r] \in Nat
                     /\ \A t \in Nat : since < t /\ t < next'[r] /\ t % Day = r => now >= t
  BY DEF SlotInv
<1>1. /\ next'[s] \in Nat
      /\ \A t \in Nat : t < next'[s] /\ t % Day = s => t <= now
      /\ \A q \in Slots : q # s => next'[q] = next[q]
  BY Ran
<1>2. r \in Slots
  BY TimesInSlots DEF SchedulerInv, ConfInv, Looping
<1>3. CASE r = s
  BY <1>1, <1>3, SchedulerAssumption DEF SchedulerInv, TypeOK
<1>4. CASE r # s
  <2>1. /\ next[r] \in Nat /\ next'[r] = next[r]
        /\ \A t \in Nat : since < t /\ t < next[r] /\ t % Day = r => tried >= t
    BY <1>1, <1>2, <1>4 DEF SchedulerInv, SlotInv
  <2>2. tried <= now /\ tried \in Int /\ now \in Int
    BY SchedulerAssumption DEF SchedulerInv, PastInv, TypeOK, Never
  <2>. QED
    BY <2>1, <2>2
<1>. QED
  BY <1>3, <1>4

\* A job was under way now, and the next times stay.
LEMMA TriedSlotInv ==
  ASSUME SchedulerInv, tried' = now, UNCHANGED <<at, conf, since, next>>
  PROVE  SlotInv'
<1>1. tried <= now /\ tried \in Int /\ now \in Int
  BY SchedulerAssumption DEF SchedulerInv, PastInv, TypeOK, Never
<1>. QED
  BY <1>1 DEF SchedulerInv, SlotInv

\* run_metafusion_job, for a job of the loop or the one at startup.
LEMMA JobInv ==
  ASSUME SchedulerInv,
         (\E s \in Slots : RunPending(s)) \/ Opened \/ OpenFails \/ Worked \/ Closed
  PROVE  SchedulerInv'
<1>. USE DEF SchedulerInv, clock, process, elsewhere, history
<1>1. ASSUME NEW s \in Slots, RunPending(s)
      PROVE  SchedulerInv'
  <2>1. TakeLock /\ UNCHANGED <<clock, at, conf, sig, stop, starts, elsewhere, since, owed, stale>>
    BY <1>1 DEF RunPending
  <2>2. /\ tried' = now
        /\ runs' \in Seq(JobRows) /\ Len(runs') <= History
        /\ won' \in Never..MaxTime /\ won' >= won /\ won' <= now
        /\ \A i \in DOMAIN runs' : runs'[i].ok => runs'[i].at <= won'
        /\ lock' \in {"free", "main", "other"}
        /\ job' \in {"none", "opening", "active", "cancelled", "closing", "failing"}
    BY <2>1, LockTaken
  <2>3. next' \in [Slots -> Int] /\ due' \subseteq Slots /\ SlotInv'
    <3>1. CASE lock = "free"
      BY <1>1, <2>1, <2>2, <3>1, TriedSlotInv DEF RunPending, TypeOK
    <3>2. CASE lock # "free"
      BY <1>1, <2>1, <2>2, <3>2, Ran, RanSlotInv DEF RunPending
    <3>. QED
      BY <3>1, <3>2
  <2>4. TypeOK'
    BY <2>1, <2>2, <2>3, SchedulerAssumption DEF TypeOK, JobRows, Never
  <2>5. ConfInv' /\ PastInv' /\ StartupInv' /\ FollowInv'
    BY <1>1, <2>1, <2>2, SchedulerAssumption DEF RunPending, ConfInv, PastInv, StartupInv,
       FollowInv, TypeOK
  <2>. QED
    BY <2>3, <2>4, <2>5
<1>2. CASE Opened \/ Worked
  <2>1. TypeOK'
    BY <1>2 DEF Opened, Worked, InJob, TypeOK
  <2>2. ConfInv' /\ PastInv' /\ SlotInv' /\ StartupInv' /\ FollowInv'
    BY <1>2 DEF Opened, Worked, InJob, ConfInv, PastInv, SlotInv, StartupInv, FollowInv
  <2>. QED
    BY <2>1, <2>2
<1>3. CASE OpenFails
  BY <1>3, GoneInv DEF OpenFails
<1>4. CASE Closed
  <2>1. PICK ok \in BOOLEAN : Row(ok)
    BY <1>4 DEF Closed
  <2>2. /\ runs' \in Seq(JobRows) /\ Len(runs') <= History
        /\ won' \in Never..MaxTime /\ won' >= won /\ won' <= now
        /\ \A i \in DOMAIN runs' : runs'[i].ok => runs'[i].at <= won'
    BY <2>1, RowAdded
  <2>3. /\ tried' = now /\ job' = "none" /\ lock' = "free"
        /\ UNCHANGED <<clock, at, conf, sig, stop, starts, elsewhere, since, owed, stale>>
    BY <1>4 DEF Closed, InJob
  <2>4. next' \in [Slots -> Int] /\ due' \subseteq Slots /\ SlotInv'
    <3>1. CASE at = "pending"
      <4>1. PICK s \in due : AfterRun(s)
        BY <1>4, <3>1 DEF Closed
      <4>2. s \in Slots
        BY <4>1 DEF TypeOK
      <4>. QED
        BY <2>3, <4>1, <4>2, Ran, RanSlotInv
    <3>2. CASE at # "pending"
      BY <1>4, <2>3, <3>2, TriedSlotInv DEF Closed, TypeOK
    <3>. QED
      BY <3>1, <3>2
  <2>5. TypeOK'
    BY <2>2, <2>3, <2>4, SchedulerAssumption DEF TypeOK, JobRows, Never
  <2>6. ConfInv' /\ PastInv' /\ StartupInv' /\ FollowInv'
    BY <2>2, <2>3, SchedulerAssumption DEF ConfInv, PastInv, StartupInv, FollowInv, TypeOK
  <2>. QED
    BY <2>4, <2>5, <2>6
<1>. QED
  BY <1>1, <1>2, <1>3, <1>4

\* Signals, other processes, the user and time.
LEMMA OutsideInv ==
  ASSUME SchedulerInv,
         \/ Signal \/ Watchdog \/ Kill
         \/ \E what \in {"job", "command", "rebuild"} : OtherStarts(what)
         \/ OtherEnds \/ Rebuild \/ Tick \/ UNCHANGED vars
         \/ \E c \in Configs \cup {Invalid} : Edit(c)
  PROVE  SchedulerInv'
<1>. USE DEF SchedulerInv, clock, process, elsewhere, history
<1>1. CASE Signal
  <2>1. TypeOK'
    BY <1>1 DEF Signal, TypeOK
  <2>2. ConfInv' /\ PastInv' /\ SlotInv' /\ StartupInv' /\ FollowInv'
    BY <1>1 DEF Signal, ConfInv, PastInv, SlotInv, StartupInv, FollowInv
  <2>. QED
    BY <2>1, <2>2
<1>2. CASE Watchdog \/ Kill
  BY <1>2, GoneInv DEF Watchdog, Kill
<1>3. CASE (\E what \in {"job", "command", "rebuild"} : OtherStarts(what)) \/ OtherEnds \/ Rebuild
  <2>1. /\ UNCHANGED <<clock, process, since, tried, owed, stale>>
        /\ (\E ok \in BOOLEAN : Row(ok)) \/ UNCHANGED <<runs, won>>
    BY <1>3 DEF OtherStarts, OtherEnds, Rebuild, Here
  <2>2. /\ runs' \in Seq(JobRows) /\ Len(runs') <= History
        /\ won' \in Never..MaxTime /\ won' >= won /\ won' <= now
        /\ \A i \in DOMAIN runs' : runs'[i].ok => runs'[i].at <= won'
    <3>1. CASE \E ok \in BOOLEAN : Row(ok)
      BY <3>1, RowAdded
    <3>2. CASE UNCHANGED <<runs, won>>
      BY <3>2, SchedulerAssumption DEF TypeOK, PastInv, JobRows, Never
    <3>. QED
      BY <2>1, <3>1, <3>2
  <2>3. /\ lock' \in {"free", "main", "other"} /\ others' \in 0..MaxOthers
        /\ other' \in {"none", "job", "command", "rebuild", "rebuilt"}
    <3>1. ASSUME NEW what \in {"job", "command", "rebuild"}, OtherStarts(what)
          PROVE  /\ lock' \in {lock, "other"} /\ other' \in {other, what}
                 /\ others' \in 0..MaxOthers
      <4>1. others' = others + 1 /\ others < MaxOthers
        BY <3>1 DEF OtherStarts
      <4>2. others' \in 0..MaxOthers
        BY <4>1, SchedulerAssumption DEF TypeOK
      <4>3. lock' \in {lock, "other"} /\ other' \in {other, what}
        BY <3>1, Zenon DEF OtherStarts, elsewhere
      <4>. QED
        BY <4>2, <4>3
    <3>2. CASE OtherEnds
      BY <3>2 DEF OtherEnds, TypeOK
    <3>3. CASE Rebuild
      BY <3>3 DEF Rebuild, TypeOK
    <3>. QED
      BY <1>3, <3>1, <3>2, <3>3 DEF TypeOK
  <2>4. TypeOK'
    BY <2>1, <2>2, <2>3, SchedulerAssumption DEF TypeOK, JobRows, Never
  <2>5. ConfInv' /\ PastInv' /\ SlotInv' /\ StartupInv' /\ FollowInv'
    BY <2>1, <2>2, SchedulerAssumption DEF ConfInv, PastInv, SlotInv, StartupInv, FollowInv,
       TypeOK, Never
  <2>. QED
    BY <2>4, <2>5
<1>4. CASE \E c \in Configs \cup {Invalid} : Edit(c)
  <2>1. TypeOK'
    BY <1>4, SchedulerAssumption DEF Edit, Here, TypeOK
  <2>2. ConfInv' /\ PastInv' /\ SlotInv' /\ StartupInv'
    BY <1>4 DEF Edit, Here, ConfInv, PastInv, SlotInv, StartupInv
  <2>3. FollowInv'
    BY <1>4, SchedulerAssumption DEF Edit, Here, FollowInv, TypeOK
  <2>. QED
    BY <2>1, <2>2, <2>3
<1>5. CASE Tick
  <2>1. now \in Int /\ now' = now + 1 /\ now' \in 0..MaxTime
    BY <1>5, SchedulerAssumption DEF Tick, TypeOK
  <2>2. TypeOK'
    BY <1>5, <2>1 DEF Tick, Here, TypeOK
  <2>3. PastInv'
    BY <1>5, <2>1, SchedulerAssumption DEF Tick, Here, PastInv, TypeOK, Never
  <2>4. ConfInv' /\ SlotInv' /\ StartupInv' /\ FollowInv'
    BY <1>5 DEF Tick, Here, ConfInv, SlotInv, StartupInv, FollowInv
  <2>. QED
    BY <2>2, <2>3, <2>4
<1>6. CASE UNCHANGED vars
  <2>1. TypeOK'
    BY <1>6 DEF vars, TypeOK
  <2>2. ConfInv' /\ PastInv' /\ SlotInv' /\ StartupInv' /\ FollowInv'
    BY <1>6 DEF vars, ConfInv, PastInv, SlotInv, StartupInv, FollowInv
  <2>. QED
    BY <2>1, <2>2
<1>. QED
  BY <1>1, <1>2, <1>3, <1>4, <1>5, <1>6

LEMMA SchedulerInvariance == Spec => []SchedulerInv
<1>1. SchedulerInv /\ [Next]_vars => SchedulerInv'
  BY StartingInv, LoopInv, JobInv, OutsideInv DEF Next, MainStep
<1>. QED
  BY <1>1, SchedulerInit, PTL DEF Spec

\* The scheduler and the processes beside it keep every variable in its type.
THEOREM SchedulerTypes == Spec => []TypeOK
BY SchedulerInvariance, PTL DEF SchedulerInv

\* However many daily jobs there are, however long they take and whoever holds the
\* lock: a time of the day at which a job is registered is followed by a job, or the
\* job is still to run.
THEOREM NoSlotUnnoticed == Spec => []SlotServed
<1>1. SchedulerInv => SlotServed
  <2>. SUFFICES ASSUME SchedulerInv, at \in Looping, NEW s \in conf.times,
                       NEW t \in (since + 1)..now, t % Day = s
                PROVE  next[s] \in 0..t \/ tried >= t
    BY DEF SlotServed
  <2>1. since \in Int /\ now \in Int /\ Never <= since
    BY SchedulerAssumption DEF SchedulerInv, TypeOK, Never
  <2>2. t \in Nat /\ since < t
    BY <2>1 DEF Never
  <2>3. /\ next[s] \in Nat
        /\ t < next[s] => tried >= t
    BY <2>2 DEF SchedulerInv, SlotInv
  <2>. QED
    BY <2>2, <2>3
<1>. QED
  BY <1>1, SchedulerInvariance, PTL

\* For every history of rows, restarts and catch-up age: a missed slot is made up for
\* before the loop starts.
THEOREM MissedSlotCovered == Spec => []StartupCovers
<1>1. SchedulerInv => StartupCovers
  BY DEF SchedulerInv, StartupInv, StartupCovers
<1>. QED
  BY <1>1, SchedulerInvariance, PTL

\* For any number of edits at any moment: between two looks at the file the scheduler
\* runs with what it says.
THEOREM RunsWithTheFile == Spec => []ConfigFollowed
<1>1. SchedulerInv => ConfigFollowed
  BY DEF SchedulerInv, FollowInv, ConfigFollowed
<1>. QED
  BY <1>1, SchedulerInvariance, PTL

-----------------------------------------------------------------------------
\* LibraryRun: a reading belongs to the library whose turn it is, and one that is
\* confirmed has found what the first found; what is known between two jobs.
ReadInv ==
  \/ read = NoRead
  \/ /\ read.lib \in Libraries /\ Turn(read.lib)
     /\ read.step \in {"pages", "check", "ready"}
     /\ read.step = "ready" => stage = "process" /\ found[read.lib] = read.keys
IdleInv ==
  stage = "idle" =>
    /\ plan = NoPlan /\ read = NoRead /\ found = [l \in Libraries |-> Unread]
    /\ failed = FALSE /\ done = {} /\ changes = 0

\* What a job knows of the libraries that are away: unless it has failed, a job that
\* will clean up has all libraries ever discovered.
GuardInv ==
  /\ ever = known
  /\ steady \subseteq Held(plan.all \cup plan.guarded)
  /\ plan.cleanup /\ failed = FALSE => plan.guarded = {}
  /\ stage = "cleanup" => plan.cleanup

\* The record of the canary names a build that had a successful job.
BuildInv ==
  /\ qualified \in proven \cup {None}
  /\ stage \in {"process", "cleanup"} => checked \/ build \in proven

\* A library of the job is still to be read, has been read or processed, or has
\* failed by itself.
OthersInv ==
  /\ stage = "discover" =>
       /\ checked = FALSE
       /\ plan.sections \subseteq todo \cup {l \in Libraries : found[l] # Unread} \cup hurt
  /\ stage = "process" =>
       plan.sections \subseteq todo \cup done \cup hurt
  /\ stage = "cleanup" => plan.sections \subseteq done \cup hurt
  /\ stage = "closing" =>
       plan.sections \subseteq done \cup hurt \/ (checked = FALSE /\ build # qualified)

LibraryInv == LTypeOK /\ ReadInv /\ IdleInv /\ GuardInv /\ BuildInv /\ OthersInv

\* An item is in a library of its type.
HoldsInv == \A l \in Libraries : \A i \in holds[l] : TypeOf[l] = KindOf[i]

\* As long as Plex has changed at most once in a job: the pages read so far are of the
\* present inventory, unless the total shows that they are not, and without a change
\* every inventory read is the present one.
PagesInv ==
  /\ read.lib # None /\ changes <= 1 /\ Cardinality(holds[read.lib]) = read.total
     => read.keys \subseteq holds[read.lib]
  /\ read.lib # None /\ changes = 0 => Cardinality(holds[read.lib]) = read.total
  /\ changes = 0 => \A l \in Libraries : found[l] # Unread => found[l] = holds[l]

\* Every library that is processed was read, and a full scan has put what was read
\* there among what the job has seen.
SeenInv ==
  /\ plan.cleanup => plan.full = plan.sections
  /\ stage = "discover" => todo \subseteq plan.sections /\ done = {}
  /\ stage = "process" => \A l \in todo : l \in plan.sections /\ found[l] # Unread
  /\ \A l \in done : l \in plan.sections /\ found[l] # Unread
  /\ \A l \in done : l \in plan.full => found[l] \subseteq seen

\* An item that was there during the whole job was read in the library it is in, or
\* in the one it has left since that library was read twice.
Confirmed(lib) == lib \in done \/ (read.lib = lib /\ read.step = "ready")
PresentInv ==
  changes <= 1 /\ failed = FALSE /\ plan.cleanup =>
    \A lib \in plan.all : \A i \in holds[lib] : i \in steady /\ Confirmed(lib) =>
      \/ i \in found[lib]
      \/ \E from \in plan.all :
           TypeOf[from] = KindOf[i] /\ (found[from] = Unread \/ i \in found[from])

StillInv == HoldsInv /\ PagesInv /\ SeenInv /\ PresentInv

\* Any set of items is finite, and is not the mark of an unread inventory.
LEMMA ItemSets ==
  ASSUME NEW S \in SUBSET Items
  PROVE  IsFiniteSet(S) /\ Cardinality(S) \in Nat /\ S # Unread
<1>1. IsFiniteSet(S)
  BY LibraryAssumption, FS_Subset
<1>2. S # Unread
  BY LibraryAssumption DEF Unread
<1>. QED
  BY <1>1, <1>2, FS_CardinalityType

LEMMA LibraryInit == LInit => LibraryInv
<1>. SUFFICES ASSUME LInit PROVE LibraryInv
  OBVIOUS
<1>1. LTypeOK
  <2>1. holds \in [Libraries -> SUBSET Items]
    BY DEF LInit
  <2>2. plan \in [all : SUBSET Libraries, sections : SUBSET Libraries, full : SUBSET Libraries,
                  cleanup : BOOLEAN, guarded : SUBSET Libraries]
    BY DEF LInit, NoPlan
  <2>3. read \in [lib : Libraries \cup {None}, total : Nat, offset : Nat, keys : SUBSET Items,
                  step : {"total", "pages", "check", "ready"}]
    BY DEF LInit, NoRead
  <2>4. found \in [Libraries -> (SUBSET Items) \cup {Unread}]
    BY DEF LInit
  <2>5. /\ online = Libraries /\ known = {} /\ qualified = None /\ build \in Builds
        /\ stage = "idle" /\ todo = {} /\ seen = {} /\ done = {} /\ failed = FALSE
        /\ checked = FALSE /\ changes = 0 /\ faults = 0
        /\ steady = {} /\ hurt = {} /\ ever = {} /\ proven = {}
    BY DEF LInit
  <2>6. 0 \in 0..MaxChanges /\ 0 \in 0..MaxFaults
    BY LibraryAssumption
  <2>. QED
    BY <2>1, <2>2, <2>3, <2>4, <2>5, <2>6 DEF LTypeOK
<1>2. ReadInv /\ IdleInv
  BY DEF LInit, ReadInv, IdleInv
<1>3. GuardInv
  BY DEF LInit, GuardInv, NoPlan
<1>4. BuildInv /\ OthersInv
  BY DEF LInit, BuildInv, OthersInv
<1>. QED
  BY <1>1, <1>2, <1>3, <1>4 DEF LibraryInv

\* The start of a job.
LEMMA BeginInv ==
  ASSUME LibraryInv, NEW select \in Selections, NEW targeted \in BOOLEAN, NEW fails \in BOOLEAN,
         NEW full \in SUBSET Libraries, Begin(select, targeted, full, fails)
  PROVE  LibraryInv'
<1>. DEFINE sections == Sections(select, online)
            guarded == IF select = {} THEN ever \ online ELSE select \ online
            missing == IF select = {} THEN known \ online ELSE {}
            unlisted == IF select = {} THEN {} ELSE select \ online
<1>. LTypeOK /\ ReadInv /\ IdleInv /\ GuardInv /\ BuildInv /\ OthersInv
  BY DEF LibraryInv
<1>1. /\ select \subseteq Libraries /\ sections \subseteq Libraries
      /\ guarded \subseteq Libraries /\ online \subseteq Libraries
  BY LibraryAssumption DEF LTypeOK, Sections
<1>2. /\ plan' = [all |-> online, sections |-> sections, full |-> full,
                  cleanup |-> ~targeted /\ missing = {} /\ full = sections,
                  guarded |-> guarded]
      /\ failed' = (fails \/ unlisted # {})
      /\ stage' = IF sections = {} THEN "closing" ELSE "discover"
      /\ todo' = sections
      /\ ever' = IF select = {} THEN ever \cup online ELSE ever
      /\ known' = IF select = {} THEN known \cup online ELSE known
      /\ steady' = Held(plan'.all \cup plan'.guarded)
  BY Zenon DEF Begin, Reconciled
<1>3. /\ read' = NoRead /\ found' = [l \in Libraries |-> Unread] /\ done' = {}
      /\ checked' = FALSE /\ seen' = {} /\ hurt' = {}
      /\ UNCHANGED <<holds, online, qualified, build, changes, proven>>
      /\ faults' \in 0..MaxFaults
  BY LibraryAssumption DEF Begin, RequestFails, LTypeOK, plex
<1>4. plan'.all = online /\ plan'.guarded = guarded /\ plan'.sections = sections
  BY <1>2
<1>5. steady' = Held(online \cup guarded)
  BY <1>2, <1>4
<1>6. LTypeOK'
  <2>1. plan' \in [all : SUBSET Libraries, sections : SUBSET Libraries, full : SUBSET Libraries,
                   cleanup : BOOLEAN, guarded : SUBSET Libraries]
    BY <1>1, <1>2
  <2>2. /\ read' \in [lib : Libraries \cup {None}, total : Nat, offset : Nat, keys : SUBSET Items,
                      step : {"total", "pages", "check", "ready"}]
        /\ found' \in [Libraries -> (SUBSET Items) \cup {Unread}]
    BY <1>3 DEF NoRead
  <2>3. steady' \subseteq Items
    BY <1>1, <1>5 DEF Held, LTypeOK
  <2>4. /\ ever' \subseteq Libraries /\ known' \subseteq Libraries /\ todo' \subseteq Libraries
        /\ failed' \in BOOLEAN
    BY <1>1, <1>2 DEF LTypeOK
  <2>. QED
    BY <1>2, <1>3, <2>1, <2>2, <2>3, <2>4 DEF LTypeOK
<1>7. ReadInv' /\ IdleInv'
  BY <1>2, <1>3 DEF ReadInv, IdleInv
<1>8. GuardInv'
  <2>1. ever' = known'
    BY <1>2 DEF GuardInv
  <2>2. steady' \subseteq Held(plan.all \cup plan.guarded)'
    BY <1>3, <1>4, <1>5 DEF Held
  <2>3. plan'.cleanup /\ failed' = FALSE => plan'.guarded = {}
    <3>1. plan'.cleanup = (~targeted /\ missing = {} /\ full = sections)
      BY <1>2
    <3>2. CASE select = {}
      BY <1>4, <3>1, <3>2 DEF GuardInv
    <3>3. CASE select # {}
      BY <1>2, <1>4, <3>3
    <3>. QED
      BY <3>2, <3>3
  <2>. QED
    BY <1>2, <2>1, <2>2, <2>3 DEF GuardInv
<1>9. BuildInv' /\ OthersInv'
  BY <1>2, <1>3, <1>4 DEF BuildInv, OthersInv
<1>. QED
  BY <1>6, <1>7, <1>8, <1>9 DEF LibraryInv

\* The readings.  None touches what GuardInv and BuildInv are about.
LEMMA ReadingKeeps ==
  ASSUME LibraryInv, InReading, (failed = TRUE) => (failed' = TRUE)
  PROVE  GuardInv' /\ BuildInv'
<1>1. GuardInv /\ BuildInv
  BY DEF LibraryInv
<1>2. /\ UNCHANGED <<holds, online, known, qualified, build, stage, plan, checked, steady, ever, proven>>
  BY DEF InReading, plex, records
<1>3. failed' = FALSE => failed = FALSE
  BY DEF LibraryInv, LTypeOK
<1>. QED
  BY <1>1, <1>2, <1>3 DEF GuardInv, BuildInv, Held

LEMMA ReadTotalInv ==
  ASSUME LibraryInv, NEW l \in Libraries, ReadTotal(l)
  PROVE  LibraryInv'
<1>. LTypeOK /\ ReadInv /\ IdleInv /\ OthersInv
  BY DEF LibraryInv
<1>1. /\ read' = [lib |-> l, total |-> Cardinality(holds[l]), offset |-> 0, keys |-> {},
                  step |-> "pages"]
      /\ UNCHANGED <<todo, found, failed, faults, hurt>> /\ InReading /\ Turn(l)
  BY DEF ReadTotal, NoRead
<1>2. UNCHANGED <<holds, online, known, qualified, build, stage, plan, seen, done, checked,
                  changes, steady, ever, proven>>
  BY <1>1 DEF InReading, plex, records
<1>3. Cardinality(holds[l]) \in Nat
  BY ItemSets DEF LTypeOK
<1>4. LTypeOK'
  BY <1>1, <1>2, <1>3 DEF LTypeOK
<1>5. ReadInv'
  BY <1>1, <1>2 DEF ReadInv, Turn
<1>6. IdleInv' /\ OthersInv'
  BY <1>1, <1>2 DEF IdleInv, OthersInv, Turn
<1>. QED
  BY <1>1, <1>4, <1>5, <1>6, ReadingKeeps DEF LibraryInv

LEMMA ReadPageInv ==
  ASSUME LibraryInv, ReadPage
  PROVE  LibraryInv'
<1>. LTypeOK /\ ReadInv /\ IdleInv /\ OthersInv
  BY DEF LibraryInv
<1>1. PICK step \in {"pages", "check"} :
        read' = [read EXCEPT !.keys = read.keys \cup NextPage,
                             !.offset = read.offset + Cardinality(NextPage), !.step = step]
  BY Zenon DEF ReadPage
<1>2. /\ read.step = "pages" /\ read.lib \in online
      /\ UNCHANGED <<todo, found, failed, faults, hurt>> /\ InReading
  BY DEF ReadPage
<1>3. UNCHANGED <<holds, online, known, qualified, build, stage, plan, seen, done, checked,
                  changes, steady, ever, proven>>
  BY <1>2 DEF InReading, plex, records
<1>4. NextPage \subseteq Items /\ Cardinality(NextPage) \in Nat
  <2>1. NextPage \subseteq Items
    BY <1>2 DEF NextPage, LTypeOK
  <2>. QED
    BY <2>1, ItemSets
<1>5. read' = [lib |-> read.lib, total |-> read.total,
               offset |-> read.offset + Cardinality(NextPage), keys |-> read.keys \cup NextPage,
               step |-> step]
  BY <1>1 DEF LTypeOK
<1>6. LTypeOK'
  BY <1>2, <1>3, <1>4, <1>5 DEF LTypeOK
<1>7. read # NoRead
  BY <1>2 DEF NoRead
<1>8. ReadInv'
  BY <1>2, <1>3, <1>5, <1>7 DEF ReadInv, Turn
<1>9. IdleInv' /\ OthersInv'
  BY <1>2, <1>3, <1>7 DEF IdleInv, OthersInv
<1>. QED
  BY <1>2, <1>6, <1>8, <1>9, ReadingKeeps DEF LibraryInv

\* A library that fails is one whose turn it is.
LEMMA FailsInv ==
  ASSUME LibraryInv, NEW l \in Libraries, Turn(l), Fails(l), UNCHANGED found, InReading,
         faults' \in 0..MaxFaults
  PROVE  LibraryInv'
<1>. LTypeOK /\ ReadInv /\ IdleInv /\ OthersInv
  BY DEF LibraryInv
<1>1. /\ failed' = TRUE /\ todo' = todo \ {l} /\ read' = NoRead /\ hurt' = hurt \cup {l}
  BY DEF Fails, Rest
<1>2. UNCHANGED <<holds, online, known, qualified, build, stage, plan, seen, done, checked,
                  changes, steady, ever, proven>>
  BY DEF InReading, plex, records
<1>3. LTypeOK'
  BY <1>1, <1>2 DEF LTypeOK, NoRead
<1>4. ReadInv' /\ IdleInv' /\ OthersInv'
  BY <1>1, <1>2 DEF ReadInv, IdleInv, OthersInv, Turn
<1>. QED
  BY <1>1, <1>3, <1>4, ReadingKeeps DEF LibraryInv

LEMMA ReadFailsInv ==
  ASSUME LibraryInv, NEW l \in Libraries, ReadFails(l)
  PROVE  LibraryInv'
<1>1. faults' \in 0..MaxFaults
  BY LibraryAssumption DEF ReadFails, RequestFails, LibraryInv, LTypeOK
<1>. QED
  BY <1>1, FailsInv DEF ReadFails

LEMMA DiscoveredInv ==
  ASSUME LibraryInv, Discovered
  PROVE  LibraryInv'
<1>. LTypeOK /\ ReadInv /\ IdleInv /\ OthersInv
  BY DEF LibraryInv
<1>1. /\ stage = "discover" /\ read.step = "check" /\ read.lib \in Libraries
      /\ found' = [found EXCEPT ![read.lib] = read.keys]
      /\ todo' = todo \ {read.lib} /\ read' = NoRead
      /\ UNCHANGED <<failed, faults, hurt>> /\ InReading
  BY DEF Discovered, Stable, LTypeOK
<1>2. UNCHANGED <<holds, online, known, qualified, build, stage, plan, seen, done, checked,
                  changes, steady, ever, proven>>
  BY <1>1 DEF InReading, plex, records
<1>3. read.keys \in SUBSET Items /\ read.keys # Unread
  BY ItemSets DEF LTypeOK
<1>4. LTypeOK'
  BY <1>1, <1>2, <1>3 DEF LTypeOK, NoRead
<1>5. ReadInv' /\ IdleInv'
  BY <1>1, <1>2 DEF ReadInv, IdleInv
<1>6. OthersInv'
  <2>1. \A l \in Libraries : found[l] # Unread => found'[l] # Unread
    BY <1>1, <1>3 DEF LTypeOK
  <2>2. found'[read.lib] # Unread
    BY <1>1, <1>3 DEF LTypeOK
  <2>. QED
    BY <1>1, <1>2, <2>1, <2>2 DEF OthersInv
<1>. QED
  BY <1>1, <1>4, <1>5, <1>6, ReadingKeeps DEF LibraryInv

LEMMA RereadInv ==
  ASSUME LibraryInv, Reread
  PROVE  LibraryInv'
<1>. LTypeOK /\ ReadInv /\ IdleInv /\ OthersInv
  BY DEF LibraryInv
<1>1. /\ stage = "process" /\ read.step = "check" /\ read.lib \in Libraries
      /\ UNCHANGED <<found, faults>> /\ InReading
  BY DEF Reread, Stable, LTypeOK
<1>2. UNCHANGED <<holds, online, known, qualified, build, stage, plan, seen, done, checked,
                  changes, steady, ever, proven>>
  BY <1>1 DEF InReading, plex, records
<1>3. Turn(read.lib) /\ read # NoRead
  BY <1>1 DEF ReadInv, NoRead
<1>4. CASE Same(found[read.lib], read.keys)
  <2>1. read' = [lib |-> read.lib, total |-> read.total, offset |-> read.offset,
                 keys |-> read.keys, step |-> "ready"]
    BY <1>4 DEF Reread, LTypeOK
  <2>2. UNCHANGED <<todo, failed, hurt>> /\ found[read.lib] = read.keys
    BY <1>4 DEF Reread, Same
  <2>3. LTypeOK'
    BY <1>1, <1>2, <2>1, <2>2 DEF LTypeOK
  <2>4. ReadInv'
    BY <1>1, <1>2, <1>3, <2>1, <2>2 DEF ReadInv, Turn
  <2>5. IdleInv' /\ OthersInv'
    BY <1>1, <1>2, <2>2 DEF IdleInv, OthersInv
  <2>. QED
    BY <1>1, <2>2, <2>3, <2>4, <2>5, ReadingKeeps DEF LibraryInv
<1>5. CASE ~Same(found[read.lib], read.keys)
  <2>1. Fails(read.lib)
    BY <1>5 DEF Reread
  <2>2. faults' \in 0..MaxFaults
    BY <1>1 DEF LTypeOK
  <2>. QED
    BY <1>1, <1>3, <2>1, <2>2, FailsInv
<1>. QED
  BY <1>4, <1>5

LEMMA CanaryInv ==
  ASSUME LibraryInv, Canary
  PROVE  LibraryInv'
<1>. LTypeOK /\ ReadInv /\ IdleInv /\ GuardInv /\ BuildInv /\ OthersInv
  BY DEF LibraryInv
<1>1. /\ stage = "discover" /\ todo = {} /\ read = NoRead
      /\ UNCHANGED <<holds, online, known, qualified, build, plan, read, found, seen, done,
                     changes, steady, hurt, ever, proven>>
  BY DEF Canary, plex, records, past
<1>2. checked = FALSE
  BY <1>1 DEF OthersInv
<1>. DEFINE listed == plan.sections \ {l \in Libraries : found[l] = Unread}
<1>3. CASE /\ build = qualified \/ checked' = TRUE
           /\ stage' = "process" /\ todo' = listed
           /\ UNCHANGED <<failed, faults>> /\ checked' \in BOOLEAN
  <2>1. LTypeOK'
    BY <1>1, <1>3 DEF LTypeOK
  <2>2. ReadInv' /\ IdleInv' /\ GuardInv'
    BY <1>1, <1>3 DEF ReadInv, IdleInv, GuardInv, Held
  <2>3. BuildInv'
    BY <1>1, <1>3, LibraryAssumption DEF BuildInv, LTypeOK
  <2>4. OthersInv'
    <3>1. plan.sections \subseteq listed \cup hurt
      BY <1>1 DEF OthersInv
    <3>. QED
      BY <1>1, <1>3, <3>1 DEF OthersInv
  <2>. QED
    BY <2>1, <2>2, <2>3, <2>4 DEF LibraryInv
<1>4. CASE /\ build # qualified /\ RequestFails
           /\ stage' = "closing" /\ failed' = TRUE
           /\ UNCHANGED <<todo, checked>>
  <2>1. LTypeOK'
    BY <1>1, <1>4, LibraryAssumption DEF LTypeOK, RequestFails
  <2>2. ReadInv' /\ IdleInv' /\ GuardInv' /\ BuildInv'
    BY <1>1, <1>4 DEF ReadInv, IdleInv, GuardInv, BuildInv, Held
  <2>3. OthersInv'
    BY <1>1, <1>2, <1>4 DEF OthersInv
  <2>. QED
    BY <2>1, <2>2, <2>3 DEF LibraryInv
<1>5. checked' = checked => checked' \in BOOLEAN
  BY DEF LTypeOK
<1>. QED
  BY <1>3, <1>4, <1>5 DEF Canary

LEMMA ProcessedInv ==
  ASSUME LibraryInv, Processed
  PROVE  LibraryInv'
<1>. LTypeOK /\ ReadInv /\ IdleInv /\ GuardInv /\ BuildInv /\ OthersInv
  BY DEF LibraryInv
<1>1. /\ read.step = "ready" /\ read' = NoRead
      /\ done' = done \cup {read.lib} /\ todo' = todo \ {read.lib}
      /\ seen' \in {seen, seen \cup read.keys}
      /\ UNCHANGED <<holds, online, known, qualified, build, stage, plan, found, failed,
                     checked, changes, faults, steady, hurt, ever, proven>>
  BY DEF Processed, plex, records, past
<1>2. read.lib \in Libraries /\ stage = "process"
  BY <1>1 DEF ReadInv, NoRead
<1>3. LTypeOK'
  BY <1>1, <1>2 DEF LTypeOK, NoRead
<1>4. ReadInv' /\ IdleInv' /\ GuardInv' /\ BuildInv' /\ OthersInv'
  BY <1>1, <1>2 DEF ReadInv, IdleInv, GuardInv, BuildInv, OthersInv, Held
<1>. QED
  BY <1>3, <1>4 DEF LibraryInv

LEMMA ProcessFailsInv ==
  ASSUME LibraryInv, ProcessFails
  PROVE  LibraryInv'
<1>. LTypeOK /\ ReadInv /\ IdleInv /\ GuardInv /\ BuildInv /\ OthersInv
  BY DEF LibraryInv
<1>1. /\ read.step = "ready" /\ read' = NoRead /\ failed' = TRUE
      /\ todo' = todo \ {read.lib} /\ hurt' = hurt \cup {read.lib}
      /\ faults' \in 0..MaxFaults
      /\ UNCHANGED <<holds, online, known, qualified, build, stage, plan, found, seen, done,
                     checked, changes, steady, ever, proven>>
  BY LibraryAssumption DEF ProcessFails, Fails, Rest, LTypeOK, plex, records
<1>2. read.lib \in Libraries /\ stage = "process"
  BY <1>1 DEF ReadInv, NoRead
<1>3. LTypeOK'
  BY <1>1, <1>2 DEF LTypeOK, NoRead
<1>4. ReadInv' /\ IdleInv' /\ GuardInv' /\ BuildInv' /\ OthersInv'
  BY <1>1, <1>2 DEF ReadInv, IdleInv, GuardInv, BuildInv, OthersInv, Held
<1>. QED
  BY <1>3, <1>4 DEF LibraryInv

LEMMA EndInv ==
  ASSUME LibraryInv, ProcessedAll \/ Cleanup
  PROVE  LibraryInv'
<1>. LTypeOK /\ ReadInv /\ IdleInv /\ GuardInv /\ BuildInv /\ OthersInv
  BY DEF LibraryInv
<1>1. CASE ProcessedAll
  <2>1. /\ stage = "process" /\ todo = {} /\ read = NoRead
        /\ stage' = IF plan.cleanup THEN "cleanup" ELSE "closing"
        /\ UNCHANGED <<holds, online, known, qualified, build, plan, todo, read, found, seen,
                       done, failed, checked, changes, faults, steady, hurt, ever, proven>>
    BY <1>1 DEF ProcessedAll, plex, records, past
  <2>2. LTypeOK'
    BY <2>1 DEF LTypeOK
  <2>3. ReadInv' /\ IdleInv' /\ GuardInv' /\ BuildInv' /\ OthersInv'
    BY <2>1 DEF ReadInv, IdleInv, GuardInv, BuildInv, OthersInv, Held
  <2>. QED
    BY <2>2, <2>3 DEF LibraryInv
<1>2. CASE Cleanup
  <2>1. /\ stage = "cleanup" /\ stage' = "closing" /\ failed' \in {failed, TRUE}
        /\ faults' \in 0..MaxFaults
        /\ UNCHANGED <<holds, online, known, qualified, build, plan, todo, read, found, seen,
                       done, checked, changes, steady, hurt, ever, proven>>
    <3>1. faults' \in 0..MaxFaults
      BY <1>2, LibraryAssumption DEF Cleanup, LTypeOK
    <3>. QED
      BY <1>2, <3>1 DEF Cleanup, plex, records, past
  <2>2. LTypeOK'
    BY <2>1 DEF LTypeOK
  <2>3. ReadInv' /\ IdleInv' /\ GuardInv' /\ BuildInv' /\ OthersInv'
    BY ZenonT(60), <2>1 DEF ReadInv, IdleInv, GuardInv, BuildInv, OthersInv, Held, Turn
  <2>. QED
    BY <2>2, <2>3 DEF LibraryInv
<1>. QED
  BY <1>1, <1>2

\* A job that ends or is killed leaves nothing but its records.
LEMMA NoJobInv ==
  ASSUME LibraryInv, NoJob, stage' = "idle", UNCHANGED <<plex, known, build, ever>>,
         faults' \in 0..MaxFaults, qualified' \in {qualified, build}, proven \subseteq proven',
         proven' \subseteq Builds, qualified' = build => qualified = build \/ build \in proven'
  PROVE  LibraryInv'
<1>. LTypeOK /\ GuardInv /\ BuildInv
  BY DEF LibraryInv
<1>1. /\ plan' = NoPlan /\ todo' = {} /\ read' = NoRead
      /\ found' = [l \in Libraries |-> Unread]
      /\ seen' = {} /\ done' = {} /\ failed' = FALSE /\ checked' = FALSE
      /\ changes' = 0 /\ steady' = {} /\ hurt' = {}
      /\ UNCHANGED <<holds, online>>
  BY DEF NoJob, plex
<1>2. LTypeOK'
  <2>1. plan' \in [all : SUBSET Libraries, sections : SUBSET Libraries, full : SUBSET Libraries,
                   cleanup : BOOLEAN, guarded : SUBSET Libraries]
    BY <1>1 DEF NoPlan
  <2>2. read' \in [lib : Libraries \cup {None}, total : Nat, offset : Nat, keys : SUBSET Items,
                   step : {"total", "pages", "check", "ready"}]
    BY <1>1 DEF NoRead
  <2>3. 0 \in 0..MaxChanges
    BY LibraryAssumption
  <2>. QED
    BY <1>1, <2>1, <2>2, <2>3 DEF LTypeOK
<1>3. ReadInv' /\ IdleInv'
  BY <1>1 DEF ReadInv, IdleInv
<1>4. GuardInv' /\ BuildInv' /\ OthersInv'
  BY <1>1 DEF GuardInv, BuildInv, OthersInv, NoPlan
<1>. QED
  BY <1>2, <1>3, <1>4 DEF LibraryInv

LEMMA CloseInv ==
  ASSUME LibraryInv, Close \/ KillJob
  PROVE  LibraryInv'
<1>1. LTypeOK
  BY DEF LibraryInv
<1>2. CASE Close
  <2>1. PICK success \in {~failed, FALSE} :
          /\ success = (~failed) \/ faults < MaxFaults
          /\ faults' = IF success = ~failed THEN faults ELSE faults + 1
          /\ qualified' = IF Commits(success) THEN build ELSE qualified
          /\ proven' = IF success THEN proven \cup {build} ELSE proven
    BY <1>2 DEF Close
  <2>2. faults' \in 0..MaxFaults
    BY <1>1, <2>1, LibraryAssumption DEF LTypeOK
  <2>3. proven \subseteq proven' /\ proven' \subseteq Builds
    BY <1>1, <2>1 DEF LTypeOK
  <2>4. /\ qualified' \in {qualified, build}
        /\ qualified' = build => qualified = build \/ build \in proven'
    BY <2>1 DEF Commits
  <2>5. NoJob /\ stage' = "idle" /\ UNCHANGED <<plex, known, build, ever>>
    BY <1>2 DEF Close
  <2>. QED
    BY <2>2, <2>3, <2>4, <2>5, NoJobInv
<1>3. CASE KillJob
  <2>1. faults' \in 0..MaxFaults
    BY <1>1, <1>3, LibraryAssumption DEF KillJob, LTypeOK
  <2>2. NoJob /\ stage' = "idle" /\ UNCHANGED <<plex, known, qualified, build, ever, proven>>
    BY <1>3 DEF KillJob, records
  <2>3. proven' \subseteq Builds
    BY <1>1, <2>2 DEF LTypeOK
  <2>. QED
    BY <2>1, <2>2, <2>3, NoJobInv
<1>. QED
  BY <1>2, <1>3

\* Plex changes.
LEMMA ChangesInv ==
  ASSUME LibraryInv, NEW new \in [Libraries -> SUBSET Items], NEW libraries \in SUBSET Libraries,
         Changes(new, libraries)
  PROVE  LibraryInv'
<1>. LTypeOK /\ ReadInv /\ IdleInv /\ GuardInv /\ BuildInv /\ OthersInv
  BY DEF LibraryInv
<1>1. /\ holds' = new /\ online' = libraries
      /\ steady' = steady \cap UNION {new[l] : l \in plan.all \cup plan.guarded}
      /\ UNCHANGED <<known, qualified, build, stage, plan, todo, read, found, seen, done, failed,
                     checked, faults, hurt, ever, proven>>
      /\ IF stage = "idle" THEN UNCHANGED changes ELSE changes < MaxChanges /\ changes' = changes + 1
  BY DEF Changes, records, working
<1>2. changes' \in 0..MaxChanges
  BY <1>1, LibraryAssumption DEF LTypeOK
<1>3. LTypeOK'
  BY <1>1, <1>2 DEF LTypeOK
<1>4. ReadInv' /\ IdleInv' /\ BuildInv' /\ OthersInv'
  BY <1>1 DEF ReadInv, IdleInv, BuildInv, OthersInv, Turn
<1>5. GuardInv'
  BY <1>1 DEF GuardInv, Held
<1>. QED
  BY <1>3, <1>4, <1>5 DEF LibraryInv

\* What Plex, the operator and time may do.
Around ==
  \/ \E i \in Items, l \in Libraries : Add(i, l) \/ Delete(i, l) \/ \E m \in Libraries : Move(i, l, m)
  \/ \E l \in Libraries : Switch(l)

LEMMA AroundInv ==
  ASSUME LibraryInv, Around
  PROVE  LibraryInv'
<1>1. holds \in [Libraries -> SUBSET Items] /\ online \in SUBSET Libraries
  BY DEF LibraryInv, LTypeOK
<1>2. ASSUME NEW i \in Items, NEW l \in Libraries, Add(i, l) PROVE LibraryInv'
  <2>1. [holds EXCEPT ![l] = @ \cup {i}] \in [Libraries -> SUBSET Items]
    BY <1>1
  <2>. QED
    BY <1>1, <1>2, <2>1, ChangesInv DEF Add
<1>3. ASSUME NEW i \in Items, NEW l \in Libraries, Delete(i, l) PROVE LibraryInv'
  <2>1. [holds EXCEPT ![l] = @ \ {i}] \in [Libraries -> SUBSET Items]
    BY <1>1
  <2>. QED
    BY <1>1, <1>3, <2>1, ChangesInv DEF Delete
<1>4. ASSUME NEW i \in Items, NEW l \in Libraries, NEW m \in Libraries, Move(i, l, m)
      PROVE  LibraryInv'
  <2>1. [holds EXCEPT ![l] = @ \ {i}, ![m] = @ \cup {i}] \in [Libraries -> SUBSET Items]
    BY <1>1
  <2>. QED
    BY <1>1, <1>4, <2>1, ChangesInv DEF Move
<1>5. ASSUME NEW l \in Libraries, Switch(l) PROVE LibraryInv'
  <2>1. (IF l \in online THEN online \ {l} ELSE online \cup {l}) \in SUBSET Libraries
    BY <1>1
  <2>. QED
    BY <1>1, <1>5, <2>1, ChangesInv DEF Switch
<1>. QED
  BY <1>2, <1>3, <1>4, <1>5 DEF Around

LEMMA UnmovedInv ==
  ASSUME LibraryInv, Unreachable \/ (\E b \in Builds : Upgrade(b)) \/ UNCHANGED lvars
  PROVE  LibraryInv'
<1>. LTypeOK /\ ReadInv /\ IdleInv /\ GuardInv /\ BuildInv /\ OthersInv
  BY DEF LibraryInv
<1>1. CASE Unreachable
  <2>1. UNCHANGED <<holds, online, known, qualified, build, stage, plan, todo, read, found, seen,
                    done, failed, checked, changes, steady, hurt, ever, proven>>
    BY <1>1 DEF Unreachable, plex, records, working, past
  <2>2. faults' \in 0..MaxFaults
    BY <1>1, LibraryAssumption DEF Unreachable, RequestFails, LTypeOK
  <2>3. LTypeOK'
    BY <2>1, <2>2 DEF LTypeOK
  <2>. QED
    BY <2>1, <2>3
    DEF LibraryInv, ReadInv, IdleInv, GuardInv, BuildInv, OthersInv, Held, Turn
<1>2. CASE \E b \in Builds : Upgrade(b)
  <2>1. /\ stage = "idle" /\ build' \in Builds
        /\ UNCHANGED <<holds, online, known, qualified, stage, plan, todo, read, found, seen,
                       done, failed, checked, changes, faults, steady, hurt, ever, proven>>
    BY <1>2 DEF Upgrade, plex, records, working, past
  <2>2. LTypeOK'
    BY <2>1 DEF LTypeOK
  <2>. QED
    BY <2>1, <2>2
    DEF LibraryInv, ReadInv, IdleInv, GuardInv, BuildInv, OthersInv, Held, Turn
<1>3. CASE UNCHANGED lvars
  <2>1. UNCHANGED <<holds, online, known, qualified, build, stage, plan, todo, read, found, seen,
                    done, failed, checked, changes, faults, steady, hurt, ever, proven>>
    BY <1>3 DEF lvars, plex, records, working, past
  <2>2. LTypeOK'
    BY <2>1 DEF LTypeOK
  <2>. QED
    BY <2>1, <2>2
    DEF LibraryInv, ReadInv, IdleInv, GuardInv, BuildInv, OthersInv, Held, Turn
<1>. QED
  BY <1>1, <1>2, <1>3

LEMMA LibraryStep == LibraryInv /\ [LNext]_lvars => LibraryInv'
<1>. SUFFICES ASSUME LibraryInv, [LNext]_lvars PROVE LibraryInv'
  OBVIOUS
<1>1. ASSUME NEW select \in Selections, NEW targeted \in BOOLEAN, NEW fails \in BOOLEAN,
             NEW full \in SUBSET Libraries, Begin(select, targeted, full, fails)
      PROVE  LibraryInv'
  BY <1>1, BeginInv
<1>2. CASE JobStep
  BY <1>2, ReadTotalInv, ReadFailsInv, ReadPageInv, DiscoveredInv, RereadInv, CanaryInv,
     ProcessedInv, ProcessFailsInv, EndInv, CloseInv
  DEF JobStep
<1>. QED
  BY <1>1, <1>2, CloseInv, AroundInv, UnmovedInv DEF LNext, Around

LEMMA LibraryInvariance == LSpec => []LibraryInv
BY LibraryInit, LibraryStep, PTL DEF LSpec

\* A job over any libraries keeps every variable in its type.
THEOREM LibraryTypes == LSpec => []LTypeOK
BY LibraryInvariance, PTL DEF LibraryInv

\* Whatever comes and goes in Plex: what is in a library that Plex does not list is
\* not taken for absent.
THEOREM MissingNotAbsent == LSpec => []MissingIsGuarded
<1>1. LibraryInv => MissingIsGuarded
  <2>. SUFFICES ASSUME LibraryInv, stage = "cleanup", NEW i \in Absent \cap steady
                PROVE  i \in Held(plan.all)
    BY DEF MissingIsGuarded
  <2>1. failed = FALSE
    <3>1. SafeTypes # {}
      BY DEF Absent
    <3>. QED
      BY <3>1 DEF SafeTypes, LibraryInv, LTypeOK
  <2>2. plan.guarded = {} /\ steady \subseteq Held(plan.all \cup plan.guarded)
    BY <2>1 DEF LibraryInv, GuardInv
  <2>3. plan.all \cup plan.guarded = plan.all
    BY <2>2
  <2>. QED
    BY <2>2, <2>3
<1>. QED
  BY <1>1, LibraryInvariance, PTL

\* For any sequence of builds, jobs and kills: no library is processed by a build that
\* is not known to work.
THEOREM UnprovenIsTried == LSpec => []BuildQualified
<1>1. LibraryInv => BuildQualified
  BY DEF LibraryInv, BuildInv, BuildQualified
<1>. QED
  BY <1>1, LibraryInvariance, PTL

\* However many libraries fail, in whatever phase: the others are processed.
THEOREM FailureStopsNoOther == LSpec => []OthersProcessed
<1>1. LibraryInv => OthersProcessed
  BY DEF LibraryInv, LTypeOK, OthersInv, OthersProcessed
<1>. QED
  BY <1>1, LibraryInvariance, PTL

-----------------------------------------------------------------------------
\* What a job has seen, as long as Plex has changed at most once in it.

\* A reading that ends well has the inventory.
LEMMA StableReads ==
  ASSUME LibraryInv, StillInv, Stable, changes <= 1
  PROVE  read.keys = holds[read.lib] /\ read.lib \in Libraries
<1>1. /\ read.lib \in Libraries /\ read.lib # None /\ holds[read.lib] \in SUBSET Items
      /\ Cardinality(holds[read.lib]) = read.total /\ Cardinality(read.keys) = read.total
  BY LibraryAssumption DEF Stable, LibraryInv, LTypeOK
<1>2. read.keys \subseteq holds[read.lib]
  BY <1>1 DEF StillInv, PagesInv
<1>3. IsFiniteSet(holds[read.lib])
  BY <1>1, ItemSets
<1>4. holds[read.lib] = read.keys
  BY <1>1, <1>2, <1>3, FS_Subset, Zenon
<1>. QED
  BY <1>1, <1>4

\* A step that leaves Plex and what was found alone.
LEMMA QuietStep ==
  ASSUME StillInv, UNCHANGED <<holds, steady, plan, found, changes>>,
         failed' = FALSE => failed = FALSE,
         \A lib \in Libraries : Confirmed(lib)' => Confirmed(lib),
         plan.all \subseteq Libraries, PagesInv', SeenInv'
  PROVE  StillInv'
<1>1. HoldsInv'
  BY DEF StillInv, HoldsInv
<1>2. PresentInv'
  <2>. SUFFICES ASSUME changes <= 1, failed = FALSE, plan.cleanup, NEW lib \in plan.all,
                       NEW i \in holds[lib], i \in steady, Confirmed(lib)
                PROVE  \/ i \in found[lib]
                       \/ \E from \in plan.all : /\ TypeOf[from] = KindOf[i]
                                                 /\ found[from] = Unread \/ i \in found[from]
    BY DEF PresentInv
  <2>. QED
    BY DEF StillInv, PresentInv
<1>. QED
  BY <1>1, <1>2 DEF StillInv

\* The readings.
LEMMA StillReading ==
  ASSUME LibraryInv, StillInv,
         (\E l \in Libraries : ReadTotal(l) \/ ReadFails(l)) \/ ReadPage \/ Discovered \/ Reread
  PROVE  StillInv'
<1>. LTypeOK /\ ReadInv /\ IdleInv /\ GuardInv /\ HoldsInv /\ PagesInv /\ SeenInv /\ PresentInv
  BY DEF LibraryInv, StillInv
<1>1. UNCHANGED <<holds, online, known, qualified, build, stage, plan, seen, done, checked,
                  changes, steady, ever, proven>>
  BY DEF ReadTotal, ReadFails, ReadPage, Discovered, Reread, InReading, plex, records
<1>2. plan.all \subseteq Libraries
  BY DEF LTypeOK
<1>3. ASSUME NEW l \in Libraries, ReadTotal(l) PROVE StillInv'
  <2>1. /\ read' = [lib |-> l, total |-> Cardinality(holds[l]), offset |-> 0, keys |-> {},
                    step |-> "pages"]
        /\ UNCHANGED <<todo, found, failed>>
    BY <1>3 DEF ReadTotal, NoRead
  <2>2. PagesInv' /\ SeenInv'
    BY <1>1, <2>1 DEF PagesInv, SeenInv
  <2>3. \A lib \in Libraries : Confirmed(lib)' => Confirmed(lib)
    BY <1>1, <2>1 DEF Confirmed
  <2>. QED
    BY <1>1, <1>2, <2>1, <2>2, <2>3, QuietStep
<1>4. CASE ReadPage
  <2>1. PICK step \in {"pages", "check"} :
          read' = [read EXCEPT !.keys = read.keys \cup NextPage,
                               !.offset = read.offset + Cardinality(NextPage), !.step = step]
    BY <1>4, Zenon DEF ReadPage
  <2>2. UNCHANGED <<todo, found, failed>>
    BY <1>4 DEF ReadPage
  <2>3. read' = [lib |-> read.lib, total |-> read.total,
                 offset |-> read.offset + Cardinality(NextPage),
                 keys |-> read.keys \cup NextPage, step |-> step]
    BY <2>1 DEF LTypeOK
  <2>4. NextPage \subseteq holds[read.lib]
    BY DEF NextPage
  <2>5. PagesInv' /\ SeenInv'
    BY <1>1, <2>2, <2>3, <2>4 DEF PagesInv, SeenInv
  <2>6. \A lib \in Libraries : Confirmed(lib)' => Confirmed(lib)
    BY <1>1, <2>3 DEF Confirmed
  <2>. QED
    BY <1>1, <1>2, <2>2, <2>5, <2>6, QuietStep
<1>5. ASSUME NEW l \in Libraries, Fails(l), UNCHANGED found PROVE StillInv'
  <2>1. failed' = TRUE /\ todo' = todo \ {l} /\ read' = NoRead
    BY <1>5 DEF Fails, Rest
  <2>2. PagesInv' /\ SeenInv'
    BY <1>1, <1>5, <2>1 DEF PagesInv, SeenInv, NoRead
  <2>3. HoldsInv' /\ PresentInv'
    BY <1>1, <2>1 DEF HoldsInv, PresentInv
  <2>. QED
    BY <2>2, <2>3 DEF StillInv
<1>6. CASE Discovered
  <2>1. /\ stage = "discover" /\ Stable /\ found' = [found EXCEPT ![read.lib] = read.keys]
        /\ todo' = todo \ {read.lib} /\ read' = NoRead /\ failed' = failed
    BY <1>6 DEF Discovered
  <2>2. done = {} /\ todo \subseteq plan.sections
    BY <2>1 DEF SeenInv
  <2>3. PagesInv'
    <3>1. ASSUME changes = 0, NEW l \in Libraries, found'[l] # Unread
          PROVE  found'[l] = holds[l]
      BY <2>1, <3>1, StableReads DEF LTypeOK, PagesInv
    <3>. QED
      BY <1>1, <2>1, <3>1 DEF PagesInv, NoRead
  <2>4. SeenInv'
    BY <1>1, <2>1, <2>2 DEF SeenInv
  <2>5. PresentInv'
    BY <1>1, <2>1, <2>2 DEF PresentInv, Confirmed, NoRead
  <2>. QED
    BY <1>1, <2>3, <2>4, <2>5 DEF StillInv, HoldsInv
<1>7. CASE Reread
  <2>1. /\ stage = "process" /\ Stable /\ UNCHANGED found
        /\ IF Same(found[read.lib], read.keys)
           THEN read' = [read EXCEPT !.step = "ready"] /\ UNCHANGED <<todo, failed>>
           ELSE Fails(read.lib)
    BY <1>7 DEF Reread
  <2>2. read.lib \in Libraries
    BY <2>1 DEF Stable, LTypeOK
  <2>3. CASE Same(found[read.lib], read.keys)
    <3>1. /\ read' = [lib |-> read.lib, total |-> read.total, offset |-> read.offset,
                      keys |-> read.keys, step |-> "ready"]
          /\ UNCHANGED <<todo, failed, found>> /\ found[read.lib] = read.keys
      BY <2>1, <2>3 DEF Same, LTypeOK
    <3>2. HoldsInv' /\ PagesInv' /\ SeenInv'
      BY <1>1, <2>1, <3>1 DEF HoldsInv, PagesInv, SeenInv
    <3>3. PresentInv'
      <4>. SUFFICES ASSUME changes <= 1, failed = FALSE, plan.cleanup, NEW lib \in plan.all,
                           NEW i \in holds[lib], i \in steady, Confirmed(lib)'
                    PROVE  \/ i \in found[lib]
                           \/ \E from \in plan.all :
                                /\ TypeOf[from] = KindOf[i]
                                /\ found[from] = Unread \/ i \in found[from]
        BY ZenonT(60), <1>1, <3>1 DEF PresentInv
      <4>1. CASE Confirmed(lib)
        BY <4>1 DEF PresentInv
      <4>2. CASE lib = read.lib
        BY <2>1, <3>1, <4>2, StableReads
      <4>. QED
        BY <1>1, <3>1, <4>1, <4>2 DEF Confirmed
    <3>. QED
      BY <3>2, <3>3 DEF StillInv
  <2>. QED
    BY <1>5, <2>1, <2>2, <2>3
<1>. QED
  BY <1>3, <1>4, <1>5, <1>6, <1>7 DEF ReadFails

\* The rest of the job.
LEMMA StillJob ==
  ASSUME LibraryInv, StillInv, Canary \/ Processed \/ ProcessFails \/ ProcessedAll \/ Cleanup
  PROVE  StillInv'
<1>. LTypeOK /\ ReadInv /\ IdleInv /\ GuardInv /\ HoldsInv /\ PagesInv /\ SeenInv /\ PresentInv
  BY DEF LibraryInv, StillInv
<1>1. UNCHANGED <<holds, online, known, qualified, build, plan, found, changes, steady, ever,
                  proven>>
  BY DEF Canary, Processed, ProcessFails, ProcessedAll, Cleanup, plex, records, past
<1>2. plan.all \subseteq Libraries
  BY DEF LTypeOK
<1>3. CASE Canary
  <2>1. /\ stage = "discover" /\ todo = {} /\ UNCHANGED <<read, seen, done>>
        /\ failed' = FALSE => failed = FALSE
        /\ \/ stage' = "process" /\ todo' = plan.sections \ {l \in Libraries : found[l] = Unread}
           \/ stage' = "closing"
    BY <1>3 DEF Canary, LTypeOK
  <2>2. plan.sections \subseteq Libraries
    BY DEF LTypeOK
  <2>3. PagesInv' /\ SeenInv'
    BY <1>1, <2>1, <2>2 DEF PagesInv, SeenInv
  <2>4. \A lib \in Libraries : Confirmed(lib)' => Confirmed(lib)
    BY <2>1 DEF Confirmed
  <2>. QED
    BY <1>1, <1>2, <2>1, <2>3, <2>4, QuietStep
<1>4. CASE Processed
  <2>1. /\ read.step = "ready" /\ read' = NoRead
        /\ done' = done \cup {read.lib} /\ todo' = todo \ {read.lib}
        /\ seen' = IF read.lib \in plan.full THEN seen \cup read.keys ELSE seen
        /\ UNCHANGED <<stage, failed>>
    BY <1>4 DEF Processed
  <2>2. /\ read.lib \in todo /\ stage = "process" /\ found[read.lib] = read.keys
    BY <2>1 DEF ReadInv, NoRead, Turn
  <2>3. read.lib \in plan.sections /\ found[read.lib] # Unread
    BY <2>2 DEF SeenInv
  <2>4. PagesInv' /\ SeenInv'
    BY <1>1, <2>1, <2>2, <2>3 DEF PagesInv, SeenInv, NoRead
  <2>5. \A lib \in Libraries : Confirmed(lib)' => Confirmed(lib)
    BY <2>1 DEF Confirmed, NoRead
  <2>. QED
    BY <1>1, <1>2, <2>1, <2>4, <2>5, QuietStep
<1>5. CASE ProcessFails
  <2>1. /\ failed' = TRUE /\ todo' = todo \ {read.lib} /\ read' = NoRead
        /\ UNCHANGED <<stage, seen, done>>
    BY <1>5 DEF ProcessFails, Fails, Rest
  <2>2. HoldsInv' /\ PagesInv' /\ SeenInv' /\ PresentInv'
    BY <1>1, <2>1 DEF HoldsInv, PagesInv, SeenInv, PresentInv, NoRead
  <2>. QED
    BY <2>2 DEF StillInv
<1>6. CASE ProcessedAll \/ Cleanup
  <2>1. /\ stage' \in {"cleanup", "closing"} /\ UNCHANGED <<todo, read, seen, done>>
        /\ failed' = FALSE => failed = FALSE
    BY <1>6 DEF ProcessedAll, Cleanup
  <2>2. PagesInv' /\ SeenInv'
    BY <1>1, <2>1 DEF PagesInv, SeenInv
  <2>3. \A lib \in Libraries : Confirmed(lib)' => Confirmed(lib)
    BY <2>1 DEF Confirmed
  <2>. QED
    BY <1>1, <1>2, <2>1, <2>2, <2>3, QuietStep
<1>. QED
  BY <1>3, <1>4, <1>5, <1>6

\* The start and the end of a job.
LEMMA StillEnds ==
  ASSUME LibraryInv, StillInv,
         \/ Close \/ KillJob \/ Unreachable \/ (\E b \in Builds : Upgrade(b)) \/ UNCHANGED lvars
         \/ \E select \in Selections, targeted, fails \in BOOLEAN, full \in SUBSET Libraries :
              Begin(select, targeted, full, fails)
  PROVE  StillInv'
<1>. LTypeOK /\ ReadInv /\ IdleInv /\ GuardInv /\ HoldsInv /\ PagesInv /\ SeenInv /\ PresentInv
  BY DEF LibraryInv, StillInv
<1>1. UNCHANGED holds
  BY DEF Close, KillJob, Unreachable, Upgrade, lvars, plex, Begin
<1>2. HoldsInv'
  BY <1>1 DEF HoldsInv
<1>3. ASSUME NEW select \in Selections, NEW targeted \in BOOLEAN, NEW fails \in BOOLEAN,
             NEW full \in SUBSET Libraries, Begin(select, targeted, full, fails)
      PROVE  StillInv'
  <2>. DEFINE missing == IF select = {} THEN known \ online ELSE {}
  <2>1. /\ plan'.sections = Sections(select, online) /\ plan'.full = full
        /\ plan'.cleanup = (~targeted /\ missing = {} /\ full = Sections(select, online))
    BY <1>3 DEF Begin
  <2>2. /\ todo' = plan'.sections /\ stage' \in {"closing", "discover"}
        /\ read' = NoRead /\ found' = [l \in Libraries |-> Unread] /\ done' = {}
    BY <1>3, <2>1 DEF Begin
  <2>3. PagesInv'
    BY <2>2 DEF PagesInv, NoRead
  <2>4. SeenInv'
    BY <2>1, <2>2 DEF SeenInv
  <2>5. PresentInv'
    BY <2>2 DEF PresentInv, Confirmed, NoRead
  <2>. QED
    BY <1>2, <2>3, <2>4, <2>5 DEF StillInv
<1>4. CASE Close \/ KillJob
  <2>1. /\ plan' = NoPlan /\ todo' = {} /\ read' = NoRead /\ stage' = "idle" /\ done' = {}
        /\ found' = [l \in Libraries |-> Unread]
    BY <1>4 DEF Close, KillJob, NoJob
  <2>2. PagesInv' /\ SeenInv' /\ PresentInv'
    BY <2>1 DEF PagesInv, SeenInv, PresentInv, NoPlan, NoRead
  <2>. QED
    BY <1>2, <2>2 DEF StillInv
<1>5. CASE Unreachable \/ (\E b \in Builds : Upgrade(b)) \/ UNCHANGED lvars
  <2>1. UNCHANGED <<holds, stage, plan, todo, read, found, seen, done, failed, changes, steady>>
    BY <1>5 DEF Unreachable, Upgrade, lvars, plex, working, past
  <2>2. PagesInv' /\ SeenInv'
    BY <2>1 DEF PagesInv, SeenInv
  <2>. QED
    BY <2>1, <2>2, QuietStep DEF Confirmed, LTypeOK
<1>. QED
  BY <1>3, <1>4, <1>5

\* Plex changes: what is new in a library fits it, and a library that changes changes
\* its number of items.
LEMMA StillChanges ==
  ASSUME LibraryInv, StillInv, NEW new \in [Libraries -> SUBSET Items],
         NEW libraries \in SUBSET Libraries, Changes(new, libraries),
         \A l \in Libraries : new[l] = holds[l] \/ Cardinality(new[l]) # Cardinality(holds[l]),
         \A l \in Libraries : \A i \in new[l] : i \in holds[l] \/ TypeOf[l] = KindOf[i]
  PROVE  StillInv'
<1>. LTypeOK /\ ReadInv /\ IdleInv /\ GuardInv /\ HoldsInv /\ PagesInv /\ SeenInv /\ PresentInv
  BY DEF LibraryInv, StillInv
<1>1. /\ holds' = new
      /\ steady' \subseteq steady
      /\ UNCHANGED <<stage, plan, todo, read, found, seen, done, failed>>
  BY DEF Changes, working
<1>2. stage # "idle" => changes' = changes + 1 /\ changes \in Nat /\ changes' # 0
  BY LibraryAssumption DEF Changes, LTypeOK
<1>3. HoldsInv'
  BY <1>1 DEF HoldsInv
<1>4. SeenInv'
  BY <1>1 DEF SeenInv
<1>5. PagesInv'
  <2>1. CASE stage = "idle"
    BY <1>1, <2>1, LibraryAssumption DEF PagesInv, IdleInv, NoRead
  <2>2. CASE stage # "idle" /\ read = NoRead
    BY <1>1, <1>2, <2>2 DEF PagesInv, NoRead
  <2>3. CASE stage # "idle" /\ read # NoRead
    <3>1. read.lib \in Libraries /\ read.lib # None
      BY <2>3, LibraryAssumption DEF ReadInv
    <3>2. ASSUME changes' <= 1, Cardinality(new[read.lib]) = read.total
          PROVE  read.keys \subseteq new[read.lib]
      <4>1. changes = 0
        BY <1>2, <2>3, <3>2
      <4>2. Cardinality(holds[read.lib]) = read.total /\ read.keys \subseteq holds[read.lib]
        BY <3>1, <4>1 DEF PagesInv
      <4>3. new[read.lib] = holds[read.lib]
        BY <3>1, <3>2, <4>2
      <4>. QED
        BY <4>2, <4>3
    <3>. QED
      BY <1>1, <1>2, <2>3, <3>1, <3>2 DEF PagesInv
  <2>. QED
    BY <2>1, <2>2, <2>3
<1>6. PresentInv'
  <2>. SUFFICES ASSUME (changes <= 1)', (failed = FALSE)', plan'.cleanup, NEW lib \in plan'.all,
                       NEW i \in holds'[lib], i \in steady', Confirmed(lib)'
                PROVE  (\/ i \in found[lib]
                        \/ \E from \in plan.all :
                             TypeOf[from] = KindOf[i] /\ (found[from] = Unread \/ i \in found[from]))'
    BY DEF PresentInv
  <2>. /\ plan' = plan /\ found' = found /\ failed = FALSE /\ plan.cleanup /\ lib \in plan.all
       /\ i \in new[lib] /\ i \in steady /\ changes' <= 1
    BY <1>1
  <2>. Confirmed(lib)
    BY <1>1 DEF Confirmed
  <2>. SUFFICES \/ i \in found[lib]
                \/ \E from \in plan.all : /\ TypeOf[from] = KindOf[i]
                                          /\ found[from] = Unread \/ i \in found[from]
    OBVIOUS
  <2>1. stage # "idle"
    BY DEF IdleInv, NoPlan
  <2>2. changes = 0
    BY <1>2, <2>1
  <2>3. CASE i \in holds[lib]
    BY <2>2, <2>3 DEF PresentInv
  <2>4. CASE i \notin holds[lib]
    <3>1. plan.all \cup plan.guarded = plan.all
      BY DEF GuardInv
    <3>2. i \in Held(plan.all)
      BY <3>1 DEF GuardInv
    <3>3. PICK from \in plan.all : i \in holds[from]
      BY <3>2 DEF Held
    <3>4. from \in Libraries
      BY DEF LTypeOK
    <3>5. TypeOf[from] = KindOf[i]
      BY <3>3, <3>4 DEF HoldsInv
    <3>6. found[from] # Unread => found[from] = holds[from]
      BY <2>2, <3>4 DEF PagesInv
    <3>. QED
      BY <3>3, <3>5, <3>6
  <2>. QED
    BY <2>3, <2>4
<1>. QED
  BY <1>3, <1>4, <1>5, <1>6 DEF StillInv

LEMMA StillAround ==
  ASSUME LibraryInv, StillInv, Around
  PROVE  StillInv'
<1>1. holds \in [Libraries -> SUBSET Items] /\ online \in SUBSET Libraries
  BY DEF LibraryInv, LTypeOK
<1>2. \A l \in Libraries : IsFiniteSet(holds[l]) /\ Cardinality(holds[l]) \in Nat
  BY <1>1, ItemSets
<1>3. ASSUME NEW i \in Items, NEW l \in Libraries, Add(i, l) PROVE StillInv'
  <2>. DEFINE new == [holds EXCEPT ![l] = @ \cup {i}]
  <2>1. new \in [Libraries -> SUBSET Items] /\ Changes(new, online) /\ TypeOf[l] = KindOf[i]
    BY <1>1, <1>3 DEF Add, Fits
  <2>2. i \notin holds[l]
    BY <1>3 DEF Add, Held
  <2>3. Cardinality(holds[l] \cup {i}) = Cardinality(holds[l]) + 1
    BY <1>2, <2>2, FS_AddElement
  <2>4. \A m \in Libraries : new[m] = IF m = l THEN holds[l] \cup {i} ELSE holds[m]
    BY <1>1
  <2>. HIDE DEF new
  <2>5. \A n \in Libraries : new[n] = holds[n] \/ Cardinality(new[n]) # Cardinality(holds[n])
    <3>. TAKE n \in Libraries
    <3>1. Cardinality(holds[n]) \in Nat /\ Cardinality(holds[l]) \in Nat
      BY <1>2
    <3>2. n = l => Cardinality(new[n]) # Cardinality(holds[n])
      BY <3>1, <2>3, <2>4
    <3>. QED
      BY <3>1, <3>2, <2>3, <2>4
  <2>6. \A n \in Libraries : \A j \in new[n] : j \in holds[n] \/ TypeOf[n] = KindOf[j]
    BY <2>1, <2>4
  <2>. QED
    BY <1>1, <2>1, <2>5, <2>6, StillChanges
<1>4. ASSUME NEW i \in Items, NEW l \in Libraries, Delete(i, l) PROVE StillInv'
  <2>. DEFINE new == [holds EXCEPT ![l] = @ \ {i}]
  <2>1. new \in [Libraries -> SUBSET Items] /\ Changes(new, online) /\ i \in holds[l]
    BY <1>1, <1>4 DEF Delete
  <2>2. Cardinality(holds[l] \ {i}) = Cardinality(holds[l]) - 1
    BY <1>2, <2>1, FS_RemoveElement
  <2>3. \A m \in Libraries : new[m] = IF m = l THEN holds[l] \ {i} ELSE holds[m]
    BY <1>1
  <2>. HIDE DEF new
  <2>4. \A n \in Libraries : new[n] = holds[n] \/ Cardinality(new[n]) # Cardinality(holds[n])
    <3>. TAKE n \in Libraries
    <3>1. Cardinality(holds[n]) \in Nat /\ Cardinality(holds[l]) \in Nat
      BY <1>2
    <3>2. n = l => Cardinality(new[n]) # Cardinality(holds[n])
      BY <3>1, <2>2, <2>3
    <3>. QED
      BY <3>1, <3>2, <2>2, <2>3
  <2>5. \A n \in Libraries : \A j \in new[n] : j \in holds[n] \/ TypeOf[n] = KindOf[j]
    BY <2>1, <2>3
  <2>. QED
    BY <1>1, <2>1, <2>4, <2>5, StillChanges
<1>5. ASSUME NEW i \in Items, NEW l \in Libraries, NEW m \in Libraries, Move(i, l, m)
      PROVE  StillInv'
  <2>. DEFINE new == [holds EXCEPT ![l] = @ \ {i}, ![m] = @ \cup {i}]
  <2>1. /\ new \in [Libraries -> SUBSET Items] /\ Changes(new, online)
        /\ i \in holds[l] /\ l # m /\ TypeOf[m] = KindOf[i]
    BY <1>1, <1>5 DEF Move, Fits
  <2>2. Cardinality(holds[l] \ {i}) = Cardinality(holds[l]) - 1
    BY <1>2, <2>1, FS_RemoveElement
  <2>3. holds[m] \cup {i} = holds[m] \/ Cardinality(holds[m] \cup {i}) = Cardinality(holds[m]) + 1
    BY ZenonT(60), <1>2, FS_AddElement
  <2>4. \A n \in Libraries : new[n] = IF n = m THEN holds[m] \cup {i}
                                      ELSE IF n = l THEN holds[l] \ {i} ELSE holds[n]
    BY <1>1, <2>1
  <2>. HIDE DEF new
  <2>5. \A n \in Libraries : new[n] = holds[n] \/ Cardinality(new[n]) # Cardinality(holds[n])
    <3>. TAKE n \in Libraries
    <3>1. Cardinality(holds[n]) \in Nat /\ Cardinality(holds[l]) \in Nat
      BY <1>2
    <3>2. new[l] = holds[l] \ {i} /\ new[m] = holds[m] \cup {i}
      BY <2>1, <2>4
    <3>3. Cardinality(new[l]) # Cardinality(holds[l])
      BY <3>1, <3>2, <2>2
    <3>4. CASE n = m /\ holds[m] \cup {i} # holds[m]
      <4>1. Cardinality(new[n]) = Cardinality(holds[n]) + 1
        BY <3>2, <3>4, <2>3
      <4>. QED
        BY <3>1, <4>1
    <3>. QED
      BY <3>2, <3>3, <3>4, <2>4
  <2>6. \A n \in Libraries : \A j \in new[n] : j \in holds[n] \/ TypeOf[n] = KindOf[j]
    BY <2>1, <2>4
  <2>. QED
    BY <1>1, <2>1, <2>5, <2>6, StillChanges
<1>6. ASSUME NEW l \in Libraries, Switch(l) PROVE StillInv'
  <2>1. (IF l \in online THEN online \ {l} ELSE online \cup {l}) \in SUBSET Libraries
    BY <1>1
  <2>. QED
    BY <1>1, <1>6, <2>1, StillChanges DEF Switch
<1>. QED
  BY <1>3, <1>4, <1>5, <1>6 DEF Around

LEMMA StillInvariance == LSpec => [](LibraryInv /\ StillInv)
<1>1. LInit => StillInv
  <2>. SUFFICES ASSUME LInit PROVE StillInv
    OBVIOUS
  <2>1. HoldsInv
    BY LibraryAssumption DEF LInit, HoldsInv
  <2>2. PagesInv /\ SeenInv /\ PresentInv
    BY DEF LInit, PagesInv, SeenInv, PresentInv, NoPlan, NoRead
  <2>. QED
    BY <2>1, <2>2 DEF StillInv
<1>2. LibraryInv /\ StillInv /\ [LNext]_lvars => StillInv'
  BY StillReading, StillJob, StillEnds, StillAround DEF LNext, JobStep, Around
<1>. QED
  BY <1>1, <1>2, LibraryInit, LibraryStep, PTL DEF LSpec

\* For any number of libraries, items and pages: as long as Plex has not changed twice
\* during the job, what was there all the time is not taken for absent.
THEOREM OneChangeIsSeen == LSpec => [](changes <= 1 => PresentIsSeen)
<1>1. LibraryInv /\ StillInv => (changes <= 1 => PresentIsSeen)
  <2>. SUFFICES ASSUME LibraryInv, StillInv, changes <= 1, stage = "cleanup",
                       NEW i \in Absent, i \in steady, i \in Held(plan.all)
                PROVE  FALSE
    BY DEF PresentIsSeen
  <2>. GuardInv /\ HoldsInv /\ SeenInv /\ PresentInv /\ LTypeOK
    BY DEF LibraryInv, StillInv
  <2>1. PICK type \in SafeTypes : i \in Of(type) /\ i \notin seen
    BY DEF Absent
  <2>2. failed = FALSE
    BY <2>1 DEF SafeTypes, LTypeOK
  <2>3. \A l \in plan.all : TypeOf[l] = KindOf[i] => l \in done
    BY <2>2, <2>1 DEF SafeTypes, Of
  <2>4. plan.cleanup /\ plan.full = plan.sections
    BY DEF GuardInv, SeenInv
  <2>5. \A l \in done : found[l] # Unread /\ found[l] \subseteq seen
    BY <2>4 DEF SeenInv
  <2>6. PICK lib \in plan.all : i \in holds[lib]
    BY DEF Held
  <2>7. lib \in Libraries
    BY DEF LTypeOK
  <2>8. lib \in done
    BY <2>3, <2>6, <2>7 DEF HoldsInv
  <2>9. \/ i \in found[lib]
        \/ \E from \in plan.all :
             TypeOf[from] = KindOf[i] /\ (found[from] = Unread \/ i \in found[from])
    BY <2>2, <2>4, <2>6, <2>8 DEF PresentInv, Confirmed
  <2>. QED
    BY <2>1, <2>3, <2>5, <2>8, <2>9
<1>. QED
  BY <1>1, StillInvariance, PTL

-----------------------------------------------------------------------------
(* AdaptiveLane                                                            *)

(* A caller that was already waiting when the circuit opened has been      *)
(* woken, and will find the circuit still cooling down.                    *)
StaleWaitersWoken ==
  openUntil # 0 => \A c \in Waiting \ probe : c \in woken /\ time < openUntil

-----------------------------------------------------------------------------
(* What the steps do to the sets of callers                                *)

LEMMA LessType == \A n \in 1 .. Ceiling : Less(n) \in 1 .. Ceiling /\ Less(n) <= n
BY LaneAssumption DEF Less, Greater

LEMMA PressedType ==
  ASSUME NEW n \in 1 .. Ceiling, NEW pressure
  PROVE  Pressed(n, pressure) \in 1 .. Ceiling
BY LessType DEF Pressed

LEMMA CallerSets ==
  ASSUME LaneTypeOK
  PROVE  /\ Running \subseteq Callers /\ IsFiniteSet(Running)
         /\ Waiting \cap Running = {}
<1>1. Running \subseteq Callers /\ Waiting \cap Running = {}
  BY DEF Running, Waiting
<1>. QED
  BY <1>1, LaneAssumption, FS_Subset

LEMMA AdmitMoves ==
  ASSUME LaneTypeOK, NEW c \in Callers, st[c] # "running", Admit(c)
  PROVE  /\ Running' = Running \cup {c} /\ Waiting' = Waiting \ {c}
         /\ active' = active + 1 /\ c \notin Running
         /\ st' \in [Callers -> {"idle", "waiting", "running"}]
BY DEF LaneTypeOK, Admit, Running, Waiting

LEMMA LeaveMoves ==
  ASSUME LaneTypeOK, NEW c \in Callers, st[c] = "running", LeaveSlot(c)
  PROVE  /\ Running' = Running \ {c} /\ Waiting' = Waiting
         /\ c \in Running /\ c \notin Waiting
         /\ active' = Greater(0, active - 1) /\ active' \in Nat
         /\ st' \in [Callers -> {"idle", "waiting", "running"}]
         /\ probe' = probe \ {c} /\ woken' = Waiting /\ dirty' = TRUE
BY DEF LaneTypeOK, LeaveSlot, NotifyAll, Running, Waiting, Greater

LEMMA FinishLeaves ==
  ASSUME NEW c \in Callers, Finish(c)
  PROVE  st[c] = "running" /\ LeaveSlot(c) /\ UNCHANGED <<up, blind, saved, time, left>>
BY DEF Finish, Fail, Succeed

LEMMA NoCallersMoves ==
  ASSUME NoCallers
  PROVE  Running' = {} /\ Waiting' = {} /\ active' = 0 /\ probe' = {} /\ woken' = {}
         /\ st' \in [Callers -> {"idle", "waiting", "running"}]
BY DEF NoCallers, Running, Waiting

-----------------------------------------------------------------------------
(* Type correctness                                                        *)

LEMMA FailType ==
  ASSUME LaneTypeOK, NEW c \in Callers,
         NEW reason, NEW cooldown \in Cooldowns, NEW immediate \in BOOLEAN,
         NEW pressure, Fail(c, reason, cooldown, immediate, pressure)
  PROVE  LaneTypeOK'
<1>. DEFINE count == streak + 1
            lowered == IF reason = "rate_limit" THEN Greater(1, (limit + 1) \div 2)
                       ELSE IF count >= 2 THEN Less(limit) ELSE limit
            wait == IF cooldown = 0 THEN Cooldown ELSE cooldown
<1>1. lowered \in 1 .. Ceiling
  <2>1. limit \in 1 .. Ceiling
    BY DEF LaneTypeOK
  <2>2. Greater(1, (limit + 1) \div 2) \in 1 .. Ceiling
    BY <2>1, LaneAssumption DEF Greater
  <2>. QED
    BY <2>1, <2>2, LessType
<1>2. limit' \in 1 .. Ceiling
  <2>1. limit' = Pressed(lowered, pressure)
    BY DEF Fail
  <2>. QED
    BY <1>1, <2>1, PressedType
<1>3. streak' \in 0 .. Threshold
  BY LaneAssumption DEF Fail, LaneTypeOK
<1>4. openUntil' \in Nat
  <2>1. wait \in Nat
    BY LaneAssumption
  <2>2. openUntil' \in {openUntil, Greater(openUntil, time + wait)}
    BY DEF Fail
  <2>. QED
    BY <2>1, <2>2 DEF LaneTypeOK, Greater
<1>5. LeaveSlot(c) /\ st[c] = "running"
  BY DEF Fail
<1>6. /\ Running' = Running \ {c} /\ Waiting' = Waiting
      /\ c \in Running /\ c \notin Waiting
      /\ active' = Greater(0, active - 1) /\ active' \in Nat
      /\ st' \in [Callers -> {"idle", "waiting", "running"}]
      /\ probe' = probe \ {c} /\ woken' = Waiting /\ dirty' = TRUE
  BY <1>5, LeaveMoves
<1>7. halfOpen' \in BOOLEAN /\ healthy' = 0 /\ UNCHANGED <<up, blind, saved, time, left>>
  BY DEF Fail
<1>. QED
  BY <1>2, <1>3, <1>4, <1>6, <1>7 DEF LaneTypeOK

LEMMA SucceedType ==
  ASSUME LaneTypeOK, NEW c \in Callers, NEW slow \in BOOLEAN, NEW pressure,
         Succeed(c, slow, pressure)
  PROVE  LaneTypeOK'
<1>. DEFINE counts == ~slow /\ pressure = "none" /\ limit < Ceiling
            grows == counts /\ healthy + 1 >= Window
            moved == IF slow THEN Less(limit) ELSE IF grows THEN limit + 1 ELSE limit
<1>1. moved \in 1 .. Ceiling
  <2>1. limit \in 1 .. Ceiling
    BY DEF LaneTypeOK
  <2>. QED
    BY <2>1, LaneAssumption, LessType
<1>2. limit' \in 1 .. Ceiling
  <2>1. limit' = Pressed(moved, pressure)
    BY DEF Succeed
  <2>. QED
    BY <1>1, <2>1, PressedType
<1>3. healthy' \in Nat
  BY DEF Succeed, Kept, LaneTypeOK
<1>4. LeaveSlot(c) /\ st[c] = "running"
  BY DEF Succeed
<1>5. /\ Running' = Running \ {c} /\ Waiting' = Waiting
      /\ c \in Running /\ c \notin Waiting
      /\ active' = Greater(0, active - 1) /\ active' \in Nat
      /\ st' \in [Callers -> {"idle", "waiting", "running"}]
      /\ probe' = probe \ {c} /\ woken' = Waiting /\ dirty' = TRUE
  BY <1>4, LeaveMoves
<1>6. /\ streak' = 0 /\ openUntil' \in Nat /\ halfOpen' \in BOOLEAN
      /\ UNCHANGED <<up, blind, saved, time, left>>
  BY DEF Succeed, LaneTypeOK
<1>. QED
  BY <1>2, <1>3, <1>5, <1>6, LaneAssumption DEF LaneTypeOK

LEMMA LaneTypeStep == LaneTypeOK /\ [LaneNext]_lanevars => LaneTypeOK'
<1>. SUFFICES ASSUME LaneTypeOK, [LaneNext]_lanevars PROVE LaneTypeOK'
  OBVIOUS
<1>1. CASE BeginJob
  <2>1. /\ Running' = {} /\ Waiting' = {} /\ active' = 0 /\ probe' = {} /\ woken' = {}
        /\ st' \in [Callers -> {"idle", "waiting", "running"}]
    BY <1>1, NoCallersMoves DEF BeginJob, NewLane
  <2>2. streak' \in 0 .. Threshold /\ openUntil' \in Nat
    <3>1. {Restored, Fresh} \subseteq [failures : 0 .. Threshold, until : Nat]
      BY LaneAssumption DEF Restored, Fresh, LaneTypeOK
    <3>2. PICK health \in {Restored, Fresh} : NewLane(health)
      BY <1>1 DEF BeginJob
    <3>. QED
      BY <3>1, <3>2 DEF NewLane
  <2>3. limit' \in 1 .. Ceiling /\ healthy' \in Nat /\ left' \in 0 .. MaxOps
    BY <1>1, LaneAssumption DEF BeginJob, NewLane
  <2>4. /\ up' \in BOOLEAN /\ blind' \in BOOLEAN /\ dirty' \in BOOLEAN
        /\ halfOpen' \in BOOLEAN /\ UNCHANGED <<saved, time>>
    BY <1>1 DEF BeginJob, NewLane
  <2>. QED
    BY <2>1, <2>2, <2>3, <2>4 DEF LaneTypeOK
<1>2. CASE EndJob
  <2>1. saved' \in [failures : 0 .. Threshold, until : Nat]
    <3>1. CASE saved' = saved
      BY <3>1 DEF LaneTypeOK
    <3>2. CASE saved' = [failures |-> streak,
                         until |-> IF openUntil > time THEN openUntil ELSE 0]
      BY <3>2 DEF LaneTypeOK
    <3>. QED
      BY <1>2, <3>1, <3>2 DEF EndJob
  <2>. QED
    BY <1>2, <2>1 DEF EndJob, LaneTypeOK, circuit, callers, Running, Waiting
<1>3. CASE KillLane
  <2>1. /\ Running' = {} /\ Waiting' = {} /\ active' = 0 /\ probe' = {} /\ woken' = {}
        /\ st' \in [Callers -> {"idle", "waiting", "running"}]
    BY <1>3, NoCallersMoves DEF KillLane
  <2>. QED
    BY <1>3, <2>1 DEF KillLane, LaneTypeOK, circuit
<1>4. CASE LaneTick
  BY <1>4 DEF LaneTick, LaneTypeOK, circuit, callers, Running, Waiting
<1>5. ASSUME NEW c \in Callers, TurnAway(c) PROVE LaneTypeOK'
  BY <1>5, LaneAssumption
  DEF TurnAway, Acquires, LaneTypeOK, circuit, callers, Running, Waiting
<1>6. ASSUME NEW c \in Callers, Enter(c) PROVE LaneTypeOK'
  <2>1. st[c] = "idle" /\ left' \in 0 .. MaxOps /\ halfOpen' \in BOOLEAN
    BY <1>6, LaneAssumption DEF Enter, Acquires, LaneTypeOK
  <2>2. c \in Waiting' \cup Running' /\ probe' \subseteq probe \cup {c}
    BY <1>6, <2>1 DEF Enter, Admit, Running, Waiting, LaneTypeOK
  <2>3. Waiting \subseteq Waiting' /\ Running \subseteq Running'
    BY <1>6, <2>1 DEF Enter, Admit, Running, Waiting, LaneTypeOK
  <2>4. active' \in Nat /\ st' \in [Callers -> {"idle", "waiting", "running"}]
    BY <1>6 DEF Enter, Admit, LaneTypeOK
  <2>. QED
    BY <1>6, <2>1, <2>2, <2>3, <2>4 DEF Enter, LaneTypeOK
<1>7. ASSUME NEW c \in Callers, WakeUp(c) PROVE LaneTypeOK'
  <2>1. st[c] = "waiting" /\ c \in woken /\ woken' = woken \ {c}
    BY <1>7 DEF WakeUp, LaneTypeOK, Waiting
  <2>2. active' \in Nat /\ st' \in [Callers -> {"idle", "waiting", "running"}]
    BY <1>7 DEF WakeUp, Admit, LaneTypeOK
  <2>3. dirty' \in BOOLEAN
    BY <1>7 DEF WakeUp, LaneTypeOK
  <2>4. probe' \subseteq Waiting' \cup Running'
    BY <1>7, <2>1 DEF WakeUp, Admit, Running, Waiting, LaneTypeOK
  <2>5. woken' \subseteq Waiting'
    BY <1>7, <2>1 DEF WakeUp, Admit, Waiting, LaneTypeOK
  <2>. QED
    BY <1>7, <2>2, <2>3, <2>4, <2>5 DEF WakeUp, LaneTypeOK, circuit
<1>8. ASSUME NEW c \in Callers, CancelWaiting(c) PROVE LaneTypeOK'
  BY <1>8 DEF CancelWaiting, LaneTypeOK, circuit, Running, Waiting
<1>9. ASSUME NEW c \in Callers, Finish(c) PROVE LaneTypeOK'
  BY <1>9, FailType, SucceedType DEF Finish
<1>10. CASE UNCHANGED lanevars
  BY <1>10 DEF lanevars, LaneTypeOK, circuit, callers, Running, Waiting
<1>. QED
  BY <1>1, <1>2, <1>3, <1>4, <1>5, <1>6, <1>7, <1>8, <1>9, <1>10 DEF LaneNext

(* Every variable keeps its type; limit stays between 1 and Ceiling.       *)
THEOREM LaneTypes == LaneSpec => []LaneTypeOK
<1>1. LaneInit => LaneTypeOK
  <2>. SUFFICES ASSUME LaneInit PROVE LaneTypeOK
    OBVIOUS
  <2>1. /\ limit \in 1 .. Ceiling /\ left \in 0 .. MaxOps
        /\ streak \in 0 .. Threshold /\ openUntil \in Nat
        /\ saved \in [failures : 0 .. Threshold, until : Nat]
    BY LaneAssumption DEF LaneInit, Fresh
  <2>2. /\ active \in Nat /\ healthy \in Nat /\ time \in Nat
        /\ st \in [Callers -> {"idle", "waiting", "running"}]
    BY DEF LaneInit
  <2>3. /\ up \in BOOLEAN /\ blind \in BOOLEAN /\ halfOpen \in BOOLEAN
        /\ dirty \in BOOLEAN
        /\ probe \subseteq Waiting \cup Running /\ woken \subseteq Waiting
    BY DEF LaneInit
  <2>. QED
    BY <2>1, <2>2, <2>3 DEF LaneTypeOK
<1>. QED
  BY <1>1, LaneTypeStep, PTL DEF LaneSpec
-----------------------------------------------------------------------------
(* The counter and the limit                                               *)

LEMMA ActiveStep ==
  LaneTypeOK /\ ActiveIsRunning /\ [LaneNext]_lanevars => ActiveIsRunning'
<1>. SUFFICES ASSUME LaneTypeOK, ActiveIsRunning, [LaneNext]_lanevars PROVE ActiveIsRunning'
  OBVIOUS
<1>0. IsFiniteSet(Running)
  BY CallerSets
<1>1. CASE BeginJob \/ KillLane
  <2>1. Running' = {} /\ active' = 0
    BY <1>1, NoCallersMoves DEF BeginJob, NewLane, KillLane
  <2>. QED
    BY <2>1, FS_EmptySet DEF ActiveIsRunning
<1>2. CASE EndJob \/ LaneTick \/ (\E c \in Callers : TurnAway(c)) \/ UNCHANGED lanevars
  <2>1. UNCHANGED <<active, st>>
    BY <1>2 DEF EndJob, LaneTick, TurnAway, lanevars, callers
  <2>. QED
    BY <2>1 DEF ActiveIsRunning, Running
<1>3. ASSUME NEW c \in Callers, st[c] # "running", Admit(c)
      PROVE  ActiveIsRunning'
  <2>1. Running' = Running \cup {c} /\ active' = active + 1 /\ c \notin Running
    BY <1>3, AdmitMoves
  <2>2. Cardinality(Running') = Cardinality(Running) + 1
    BY <1>0, <2>1, FS_AddElement
  <2>. QED
    BY <2>1, <2>2 DEF ActiveIsRunning
<1>4. ASSUME NEW c \in Callers, st[c] # "running", active' = active,
             st' = [st EXCEPT ![c] = "idle"] \/ st' = [st EXCEPT ![c] = "waiting"]
                 \/ st' = st
      PROVE  ActiveIsRunning'
  <2>1. Running' = Running
    BY <1>4 DEF Running, LaneTypeOK
  <2>. QED
    BY <1>4, <2>1 DEF ActiveIsRunning
<1>5. ASSUME NEW c \in Callers, Enter(c) PROVE ActiveIsRunning'
  <2>1. st[c] # "running"
    BY <1>5 DEF Enter, Acquires
  <2>. QED
    BY <1>3, <1>4, <1>5, <2>1 DEF Enter
<1>6. ASSUME NEW c \in Callers, WakeUp(c) PROVE ActiveIsRunning'
  <2>1. st[c] # "running"
    BY <1>6 DEF WakeUp, LaneTypeOK, Waiting
  <2>. QED
    BY <1>3, <1>4, <1>6, <2>1 DEF WakeUp
<1>7. ASSUME NEW c \in Callers, CancelWaiting(c) PROVE ActiveIsRunning'
  BY <1>4, <1>7 DEF CancelWaiting
<1>8. ASSUME NEW c \in Callers, Finish(c) PROVE ActiveIsRunning'
  <2>1. st[c] = "running" /\ LeaveSlot(c)
    BY <1>8, FinishLeaves
  <2>2. Running' = Running \ {c} /\ c \in Running /\ active' = Greater(0, active - 1)
    BY <2>1, LeaveMoves
  <2>3. Cardinality(Running') = Cardinality(Running) - 1
    BY <1>0, <2>2, FS_RemoveElement
  <2>4. Cardinality(Running) # 0
    BY <1>0, <2>2, FS_EmptySet
  <2>5. active - 1 >= 0
    BY <2>4 DEF ActiveIsRunning, LaneTypeOK
  <2>. QED
    BY <2>2, <2>3, <2>5 DEF ActiveIsRunning, LaneTypeOK, Greater
<1>. QED
  BY <1>1, <1>2, <1>5, <1>6, <1>7, <1>8 DEF LaneNext

(* active counts the operations that run, whatever is cancelled, rejected  *)
(* or fails.                                                               *)
THEOREM ActiveCounts == LaneSpec => []ActiveIsRunning
<1>1. LaneInit => ActiveIsRunning
  <2>. SUFFICES ASSUME LaneInit PROVE ActiveIsRunning
    OBVIOUS
  <2>1. Running = {} /\ active = 0
    BY DEF LaneInit, Running
  <2>. QED
    BY <2>1, FS_EmptySet DEF ActiveIsRunning
<1>. QED
  BY <1>1, LaneTypes, ActiveStep, PTL DEF LaneSpec

(* Who starts to run was admitted by Enter or by WakeUp.                     *)
LEMMA NewlyRunning ==
  ASSUME LaneTypeOK, [LaneNext]_lanevars, NEW d \in Running' \ Running
  PROVE  /\ d \in Callers /\ Room /\ Admit(d) /\ st[d] # "running"
         /\ Enter(d) \/ (WakeUp(d) /\ ~WakeRejected)
<1>1. CASE BeginJob \/ KillLane
  BY <1>1, NoCallersMoves DEF BeginJob, NewLane, KillLane
<1>2. CASE EndJob \/ LaneTick \/ (\E c \in Callers : TurnAway(c)) \/ UNCHANGED lanevars
  BY <1>2 DEF EndJob, LaneTick, TurnAway, lanevars, callers, Running
<1>3. ASSUME NEW c \in Callers, Enter(c) \/ WakeUp(c) \/ CancelWaiting(c)
      PROVE  /\ c = d /\ Room /\ Admit(d) /\ st[d] # "running"
             /\ Enter(d) \/ (WakeUp(d) /\ ~WakeRejected)
  <2>1. st[c] # "running"
    BY <1>3 DEF Enter, Acquires, WakeUp, CancelWaiting, LaneTypeOK, Waiting
  <2>2. d \in Callers /\ st'[d] = "running" /\ st[d] # "running"
    BY DEF Running
  <2>3. \A e : st' = [st EXCEPT ![c] = e] /\ e # "running" => FALSE
    BY <2>2 DEF LaneTypeOK
  <2>4. st' # st
    BY <2>2
  <2>5. Room /\ Admit(c) /\ (Enter(c) \/ (WakeUp(c) /\ ~WakeRejected))
    BY <1>3, <2>3, <2>4 DEF Enter, WakeUp, CancelWaiting
  <2>6. c = d
    BY <2>1, <2>2, <2>5 DEF Admit, LaneTypeOK
  <2>. QED
    BY <2>1, <2>5, <2>6
<1>4. ASSUME NEW c \in Callers, Finish(c) PROVE FALSE
  BY <1>4, FinishLeaves, LeaveMoves
<1>. QED
  BY <1>1, <1>2, <1>3, <1>4 DEF LaneNext, Running

(* An operation starts only when, with it, no more than limit run.         *)
THEOREM AdmissionBounded == LaneSpec => AdmitsWithinLimit
<1>1. LaneTypeOK /\ ActiveIsRunning /\ ActiveIsRunning' /\ [LaneNext]_lanevars
      => [Running' \ Running # {} => Cardinality(Running') <= limit]_lanevars
  <2>. SUFFICES ASSUME LaneTypeOK, ActiveIsRunning, ActiveIsRunning', [LaneNext]_lanevars,
                       NEW d \in Running' \ Running
                PROVE  Cardinality(Running') <= limit
    OBVIOUS
  <2>1. Room /\ Admit(d)
    BY NewlyRunning
  <2>2. active' = active + 1 /\ active < limit
    BY <2>1 DEF Admit, Room
  <2>. QED
    BY <2>2 DEF ActiveIsRunning, LaneTypeOK
<1>. QED
  BY <1>1, LaneTypes, ActiveCounts, PTL DEF LaneSpec, AdmitsWithinLimit

-----------------------------------------------------------------------------
(* Waiting                                                                 *)

LEMMA WakeupStep ==
  LaneTypeOK /\ NoLostWakeup /\ [LaneNext]_lanevars => NoLostWakeup'
<1>. SUFFICES ASSUME LaneTypeOK, NoLostWakeup, [LaneNext]_lanevars PROVE NoLostWakeup'
  OBVIOUS
<1>1. CASE BeginJob \/ KillLane
  BY <1>1, NoCallersMoves DEF BeginJob, NewLane, KillLane, NoLostWakeup
<1>2. CASE EndJob \/ LaneTick \/ (\E c \in Callers : TurnAway(c)) \/ UNCHANGED lanevars
  BY <1>2 DEF EndJob, LaneTick, TurnAway, lanevars, callers, NoLostWakeup, Waiting
<1>3. ASSUME NEW c \in Callers, Enter(c) PROVE NoLostWakeup'
  <2>1. CASE Room
    <3>1. Waiting' = Waiting /\ active' = active + 1
      BY <1>3, <2>1 DEF Enter, Acquires, Admit, Waiting, LaneTypeOK
    <3>. QED
      BY <1>3, <3>1 DEF Enter, NoLostWakeup, LaneTypeOK
  <2>2. CASE ~Room
    BY <1>3, <2>2 DEF Enter, Room, NoLostWakeup, LaneTypeOK
  <2>. QED
    BY <2>1, <2>2
<1>4. ASSUME NEW c \in Callers, WakeUp(c) PROVE NoLostWakeup'
  <2>1. st[c] = "waiting" /\ c \in woken /\ woken' = woken \ {c} /\ limit' = limit
    BY <1>4 DEF WakeUp, LaneTypeOK, Waiting
  <2>2. CASE WakeRejected
    <3>1. Waiting' = Waiting \ {c} /\ active' = active
      BY <1>4, <2>2 DEF WakeUp, Waiting, LaneTypeOK
    <3>. QED
      BY <2>1, <3>1 DEF NoLostWakeup
  <2>3. CASE ~WakeRejected /\ Room
    <3>1. Waiting' = Waiting \ {c} /\ active' = active + 1
      BY <1>4, <2>1, <2>3, AdmitMoves DEF WakeUp
    <3>. QED
      BY <2>1, <3>1 DEF NoLostWakeup, LaneTypeOK
  <2>4. CASE ~WakeRejected /\ ~Room
    BY <1>4, <2>1, <2>4 DEF WakeUp, Room, NoLostWakeup, LaneTypeOK
  <2>. QED
    BY <2>2, <2>3, <2>4
<1>5. ASSUME NEW c \in Callers, CancelWaiting(c) PROVE NoLostWakeup'
  <2>1. Waiting' = Waiting \ {c}
    BY <1>5 DEF CancelWaiting, Waiting, LaneTypeOK
  <2>. QED
    BY <1>5, <2>1 DEF CancelWaiting, NoLostWakeup
<1>6. ASSUME NEW c \in Callers, Finish(c) PROVE NoLostWakeup'
  <2>1. Waiting' = Waiting /\ woken' = Waiting
    BY <1>6, FinishLeaves, LeaveMoves
  <2>. QED
    BY <2>1 DEF NoLostWakeup
<1>. QED
  BY <1>1, <1>2, <1>3, <1>4, <1>5, <1>6 DEF LaneNext

(* Nobody sleeps beside a free slot.                                       *)
THEOREM WakeupsKept == LaneSpec => []NoLostWakeup
<1>1. LaneInit => NoLostWakeup
  BY DEF LaneInit, NoLostWakeup, Waiting
<1>. QED
  BY <1>1, LaneTypes, WakeupStep, PTL DEF LaneSpec

-----------------------------------------------------------------------------
(* The circuit                                                             *)

(* A failure that opens the circuit opens it for the future.               *)
LEMMA OpensAhead ==
  ASSUME LaneTypeOK, NEW c \in Callers, Finish(c)
  PROVE  openUntil' \in {0, openUntil} \/ time < openUntil'
<1>1. ASSUME NEW reason, NEW cooldown \in Cooldowns, NEW immediate \in BOOLEAN,
             NEW pressure, Fail(c, reason, cooldown, immediate, pressure)
      PROVE  openUntil' = openUntil \/ time < openUntil'
  <2>. DEFINE wait == IF cooldown = 0 THEN Cooldown ELSE cooldown
  <2>1. wait \in Nat /\ wait > 0
    BY LaneAssumption
  <2>2. openUntil' \in {openUntil, Greater(openUntil, time + wait)}
    BY <1>1 DEF Fail
  <2>. QED
    BY <2>1, <2>2 DEF LaneTypeOK, Greater
<1>2. ASSUME NEW slow, NEW pressure, Succeed(c, slow, pressure)
      PROVE  openUntil' \in {0, openUntil}
  BY <1>2 DEF Succeed
<1>. QED
  BY <1>1, <1>2 DEF Finish

LEMMA StaleStep ==
  LaneTypeOK /\ StaleWaitersWoken /\ [LaneNext]_lanevars => StaleWaitersWoken'
<1>. SUFFICES ASSUME LaneTypeOK, StaleWaitersWoken, [LaneNext]_lanevars, openUntil' # 0,
                     NEW d \in Waiting', d \notin probe'
              PROVE  d \in woken' /\ time' < openUntil'
  BY DEF StaleWaitersWoken
<1>1. CASE BeginJob \/ KillLane
  BY <1>1, NoCallersMoves DEF BeginJob, NewLane, KillLane
<1>2. CASE EndJob \/ (\E c \in Callers : TurnAway(c)) \/ UNCHANGED lanevars
  BY <1>2 DEF EndJob, TurnAway, lanevars, callers, circuit, StaleWaitersWoken, Waiting
<1>3. CASE LaneTick
  BY <1>3 DEF LaneTick, callers, circuit, StaleWaitersWoken, Waiting
<1>4. ASSUME NEW c \in Callers, Enter(c) PROVE d \in woken' /\ time' < openUntil'
  <2>1. openUntil' = openUntil /\ probe' = probe \cup {c} /\ time' = time
        /\ woken' = woken
    BY <1>4 DEF Enter
  <2>2. d \in Waiting
    BY <1>4, <2>1 DEF Enter, Admit, Waiting, LaneTypeOK
  <2>. QED
    BY <2>1, <2>2 DEF StaleWaitersWoken
<1>5. ASSUME NEW c \in Callers, WakeUp(c) PROVE d \in woken' /\ time' < openUntil'
  <2>1. st[c] = "waiting" /\ openUntil' = openUntil /\ time' = time
        /\ woken' = woken \ {c}
    BY <1>5 DEF WakeUp, circuit, LaneTypeOK, Waiting
  <2>2. d \in Waiting /\ (d = c => st' = st)
    BY <1>5, <2>1 DEF WakeUp, Admit, Waiting, LaneTypeOK
  <2>3. d # c
    <3>1. SUFFICES ASSUME d = c PROVE FALSE
      OBVIOUS
    <3>2. ~WakeRejected /\ probe' = probe
      BY <1>5, <2>1, <2>2, <3>1 DEF WakeUp, Admit, LaneTypeOK
    <3>. QED
      BY <2>1, <2>2, <3>1, <3>2 DEF StaleWaitersWoken, WakeRejected, CoolingDown
  <2>4. d \notin probe
    BY <1>5, <2>3 DEF WakeUp
  <2>. QED
    BY <2>1, <2>2, <2>3, <2>4 DEF StaleWaitersWoken
<1>6. ASSUME NEW c \in Callers, CancelWaiting(c)
      PROVE  d \in woken' /\ time' < openUntil'
  <2>1. d \in Waiting /\ d # c
    BY <1>6 DEF CancelWaiting, Waiting, LaneTypeOK
  <2>. QED
    BY <1>6, <2>1 DEF CancelWaiting, circuit, StaleWaitersWoken
<1>7. ASSUME NEW c \in Callers, Finish(c) PROVE d \in woken' /\ time' < openUntil'
  <2>1. /\ Waiting' = Waiting /\ woken' = Waiting /\ c \notin Waiting
        /\ probe' = probe \ {c} /\ time' = time
    BY <1>7, FinishLeaves, LeaveMoves
  <2>2. openUntil' = openUntil \/ time < openUntil'
    BY <1>7, OpensAhead
  <2>. QED
    BY <2>1, <2>2 DEF StaleWaitersWoken
<1>. QED
  BY <1>1, <1>2, <1>3, <1>4, <1>5, <1>6, <1>7 DEF LaneNext

(* Until a probe has closed the circuit nothing else gets in, callers that *)
(* were waiting when it opened included.                                   *)
THEOREM CircuitHolds == LaneSpec => CircuitGuards
<1>1. LaneInit => StaleWaitersWoken
  BY DEF LaneInit, StaleWaitersWoken
<1>2. LaneTypeOK /\ StaleWaitersWoken /\ [LaneNext]_lanevars
      => [\A c \in Running' \ Running :
            openUntil # 0 => time >= openUntil /\ c \in probe']_lanevars
  <2>. SUFFICES ASSUME LaneTypeOK, StaleWaitersWoken, [LaneNext]_lanevars,
                       NEW d \in Running' \ Running, openUntil # 0
                PROVE  time >= openUntil /\ d \in probe'
    OBVIOUS
  <2>1. CASE Enter(d)
    BY <2>1 DEF Enter, Rejects, LaneTypeOK
  <2>2. CASE WakeUp(d) /\ ~WakeRejected /\ Room
    <3>1. d \in Waiting /\ time >= openUntil
      BY <2>2 DEF WakeUp, WakeRejected, CoolingDown, LaneTypeOK
    <3>2. d \in probe
      BY <3>1 DEF StaleWaitersWoken, LaneTypeOK
    <3>. QED
      BY <2>2, <3>1, <3>2 DEF WakeUp
  <2>. QED
    BY <2>1, <2>2, NewlyRunning
<1>. QED
  BY <1>1, <1>2, LaneTypes, StaleStep, PTL DEF LaneSpec, CircuitGuards

LEMMA SavedStep ==
  LaneTypeOK /\ SavedCooldownHonoured /\ [LaneNext]_lanevars => SavedCooldownHonoured'
<1>. SUFFICES ASSUME LaneTypeOK, SavedCooldownHonoured, [LaneNext]_lanevars, up',
                     ~blind', saved'.until > time'
              PROVE  openUntil' >= saved'.until /\ Running' = {}
  BY DEF SavedCooldownHonoured
<1>1. CASE BeginJob
  <2>1. Running' = {} /\ saved' = saved /\ time' = time
    BY <1>1, NoCallersMoves DEF BeginJob, NewLane
  <2>2. NewLane(Restored)
    BY <1>1 DEF BeginJob
  <2>. QED
    BY <2>1, <2>2 DEF NewLane, Restored, LaneTypeOK
<1>2. CASE EndJob \/ KillLane
  BY <1>2 DEF EndJob, KillLane
<1>3. CASE LaneTick
  BY <1>3 DEF LaneTick, circuit, callers, SavedCooldownHonoured, LaneTypeOK, Running
<1>4. CASE UNCHANGED lanevars
  BY <1>4 DEF lanevars, circuit, callers, SavedCooldownHonoured, Running
<1>5. ASSUME NEW c \in Callers,
             TurnAway(c) \/ Enter(c) \/ WakeUp(c) \/ CancelWaiting(c)
      PROVE  openUntil' >= saved'.until /\ Running' = {}
  <2>1. /\ up /\ ~blind /\ saved' = saved /\ time' = time /\ openUntil' = openUntil
    <3>1. UNCHANGED <<up, blind, openUntil, saved, time>>
      BY <1>5 DEF TurnAway, Enter, WakeUp, CancelWaiting, circuit
    <3>2. up /\ ~blind
      BY <3>1, Zenon
    <3>. QED
      BY <3>1, <3>2
  <2>2. openUntil >= saved.until /\ Running = {} /\ saved.until > time
    BY <2>1 DEF SavedCooldownHonoured
  <2>3. CoolingDown
    BY <2>2 DEF CoolingDown, LaneTypeOK
  <2>4. ~Enter(c)
    BY <2>3 DEF Enter, Rejects, CoolingDown
  <2>5. Running' = {}
    BY <1>5, <2>2, <2>3, <2>4
    DEF TurnAway, WakeUp, WakeRejected, CancelWaiting, callers, Running, LaneTypeOK
  <2>. QED
    BY <2>1, <2>2, <2>5
<1>6. ASSUME NEW c \in Callers, Finish(c) PROVE FALSE
  <2>1. c \in Running /\ UNCHANGED <<up, blind, saved, time>>
    BY <1>6, FinishLeaves DEF Running
  <2>. QED
    BY <2>1 DEF SavedCooldownHonoured
<1>. QED
  BY <1>1, <1>2, <1>3, <1>4, <1>5, <1>6 DEF LaneNext

(* A cooldown saved by one job keeps every operation of a later one out,   *)
(* unless that job began without the saved health.                         *)
THEOREM CooldownSurvives == LaneSpec => []SavedCooldownHonoured
<1>1. LaneInit => SavedCooldownHonoured
  BY DEF LaneInit, SavedCooldownHonoured
<1>. QED
  BY <1>1, LaneTypes, SavedStep, PTL DEF LaneSpec
=============================================================================
