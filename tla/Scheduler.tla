----------------------------- MODULE Scheduler -----------------------------
(***************************************************************************)
(* The long-running scheduler of metafusion.py over several starts: the    *)
(* job at startup, the daily times, reloads of the configuration, shutdown *)
(* by signal and by the watchdog, and other processes on the same run      *)
(* lock.                                                                   *)
(*                                                                         *)
(* A job is what IncrementalJob and ChangeFeed are about; here it opens    *)
(* its stores, is active, closes them, and leaves a row in job_runs.       *)
(***************************************************************************)
EXTENDS Integers, Sequences

CONSTANTS
  Day,        \* ticks of the clock in a day
  Configs,    \* configurations: [times, start], times of the day and what to
              \* do at startup
  Invalid,    \* a file that is not a valid configuration
  History,    \* the rows of job_runs the catch-up reads
  MaxAge,     \* schedule_catch_up_max_hours
  MaxTime,    \* bound on the clock
  MaxEdits,   \* bound on edits of the file
  MaxStarts,  \* bound on starts of the process
  MaxOthers   \* bound on operations of other processes

Never == -1

ASSUME SchedulerAssumption ==
  /\ Day \in Nat \ {0} /\ MaxAge \in Nat /\ History \in Nat \ {0}
  /\ \A c \in Configs : /\ c.times \subseteq 0..(Day - 1)
                        /\ c.start \in {"run_on_start", "catch_up", "neither"}
  /\ Invalid \notin Configs
  /\ MaxTime \in Nat /\ MaxEdits \in Nat /\ MaxStarts \in Nat /\ MaxOthers \in Nat

VARIABLES
  now,        \* the clock
  file,       \* the configuration file
  version,    \* counts its edits
  runs,       \* the last rows of job_runs, with outcome and end
  lock,       \* who holds the run lock
  at,         \* where main is
  conf,       \* its configuration
  sig,        \* the version of the file the reloader has seen
  next,       \* the time each registered job is to run
  due,        \* the jobs the pass of run_pending has yet to run
  job,        \* the job it runs
  stop,       \* shutdown has been requested
  starts, others, other,
  since,      \* history: when the jobs were registered
  tried,      \* history: when a job of this process was last under way
  owed,       \* history: the slot this process found missed at startup
  won,        \* history: when a job of any process last succeeded
  stale       \* history: the configuration is not that of the version in sig

clock == <<now, file, version>>
elsewhere == <<others, other>>
process == <<at, conf, sig, next, due, job, stop, starts>>
history == <<since, tried, owed, won, stale>>
vars == <<clock, runs, lock, process, elsewhere, history>>

Times == {c.times : c \in Configs}
Slots == UNION Times

\* Where main is with the jobs of its configuration registered.
Looping == {"loop", "reading", "pending", "waiting"}

TypeOK ==
  /\ now \in 0..MaxTime /\ version \in 0..MaxEdits
  /\ file \in Configs \cup {Invalid} /\ conf \in Configs \cup {Invalid}
  /\ runs \in Seq([ok : BOOLEAN, at : 0..MaxTime]) /\ Len(runs) <= History
  /\ lock \in {"free", "main", "other"}
  /\ at \in {"down", "loaded", "deciding", "registering", "applying"} \cup Looping
  /\ sig \in 0..MaxEdits
  /\ next \in [Slots -> Int] /\ due \subseteq Slots
  /\ job \in {"none", "opening", "active", "cancelled", "closing", "failing"}
  /\ stop \in BOOLEAN /\ starts \in 0..MaxStarts
  /\ others \in 0..MaxOthers
  /\ other \in {"none", "job", "command", "rebuild", "rebuilt"}
  /\ {since, tried, owed, won} \subseteq Never..MaxTime /\ stale \in BOOLEAN

Init ==
  /\ now = 0 /\ version = 0 /\ file \in Configs
  /\ runs = <<>> /\ lock = "free"
  /\ at = "down" /\ conf = Invalid /\ sig = 0
  /\ next = [s \in Slots |-> Never] /\ due = {} /\ job = "none" /\ stop = FALSE
  /\ starts = 0 /\ others = 0 /\ other = "none"
  /\ since = Never /\ tried = Never /\ owed = Never /\ won = Never /\ stale = FALSE

-----------------------------------------------------------------------------
\* The last time up to t that is one of the times of the day in S, of today or
\* yesterday.
Passed(S, t) ==
  {u \in 0..t : u % Day \in S /\ u \div Day >= (t \div Day) - 1}
Latest(S, t) == CHOOSE u \in Passed(S, t) : \A w \in Passed(S, t) : w <= u

\* missed_schedule_due.  The mutant lets any row cover the slot.
MissedByAnyRun(S, t, rows) ==
  /\ Passed(S, t) # {} /\ t - Latest(S, t) <= MaxAge
  /\ \A i \in DOMAIN rows : rows[i].at < Latest(S, t)
Missed(S, t, rows) ==
  /\ Passed(S, t) # {} /\ t - Latest(S, t) <= MaxAge
  /\ \A i \in DOMAIN rows : ~(rows[i].ok /\ rows[i].at >= Latest(S, t))

\* The library schedules a daily job at the next such time of the day.
NextTime(s, t) == CHOOSE u \in (t + 1)..(t + Day) : u % Day = s

\* A row for a job that ended, or found the lock taken; the catch-up reads the
\* last ones only.
Row(ok) ==
  /\ runs' = LET all == Append(runs, [ok |-> ok, at |-> now])
             IN IF Len(all) > History THEN Tail(all) ELSE all
  /\ won' = IF ok THEN now ELSE won

\* Every job is registered anew.  The mutant registers the last time only.
RegisterLast(c) ==
  /\ next' = [s \in Slots |-> IF s \in c.times /\ \A r \in c.times : r <= s
                              THEN NextTime(s, now) ELSE Never]
  /\ since' = now
RegisterAll(c) ==
  /\ next' = [s \in Slots |-> IF s \in c.times THEN NextTime(s, now) ELSE Never]
  /\ since' = now

\* The process is gone, with its memory and its lock.
Gone ==
  /\ at' = "down" /\ conf' = Invalid /\ sig' = 0 /\ job' = "none" /\ stop' = FALSE
  /\ next' = [s \in Slots |-> Never] /\ due' = {}
  /\ since' = Never /\ tried' = Never /\ owed' = Never /\ stale' = FALSE
  /\ lock' = IF lock = "main" THEN "free" ELSE lock
  /\ UNCHANGED <<clock, runs, starts, elsewhere, won>>

-----------------------------------------------------------------------------
\* main up to the loop.

Start ==
  /\ at = "down" /\ starts < MaxStarts
  /\ file # Invalid /\ file.times # {}
  /\ starts' = starts + 1
  /\ at' = "loaded" /\ conf' = file /\ sig' = version
  /\ UNCHANGED <<clock, runs, lock, next, due, job, stop, elsewhere, history>>

\* The reloader looks at the file for the first time some time after it was
\* read.
Watch ==
  /\ at = "loaded"
  /\ at' = "deciding"
  /\ sig' = version /\ stale' = (sig # version)
  /\ UNCHANGED <<clock, runs, lock, conf, next, due, job, stop, starts, elsewhere,
                 since, tried, owed, won>>

\* The job enters its turn, or finds another process at work.
TakeLock ==
  /\ tried' = now
  /\ IF lock = "free" THEN lock' = "main" /\ job' = "opening" /\ UNCHANGED <<runs, won>>
     ELSE Row(FALSE) /\ UNCHANGED <<lock, job>>

StartupJob ==
  \/ conf.start = "run_on_start"
  \/ conf.start = "catch_up" /\ Missed(conf.times, now, runs)

DecideStartup ==
  /\ at = "deciding" /\ job = "none"
  /\ at' = "registering"
  /\ owed' = IF /\ conf.start = "catch_up" /\ ~stop
                /\ Passed(conf.times, now) # {} /\ now - Latest(conf.times, now) <= MaxAge
             THEN Latest(conf.times, now) ELSE Never
  /\ IF StartupJob /\ ~stop THEN TakeLock ELSE UNCHANGED <<lock, job, runs, tried, won>>
  /\ UNCHANGED <<clock, conf, sig, next, due, stop, starts, elsewhere, since, stale>>

Register ==
  /\ at = "registering" /\ job = "none"
  /\ at' = "loop"
  /\ RegisterAll(conf)
  /\ owed' = Never
  /\ UNCHANGED <<clock, runs, lock, conf, sig, due, job, stop, starts, elsewhere,
                 tried, won, stale>>

-----------------------------------------------------------------------------
\* The loop.

\* run_pending collects the jobs that are due and runs them in their order.  The
\* mutant finds a time only when it comes.
CollectedOnTime(times) == {s \in Slots : times[s] = now}
Collected(times) == {s \in Slots : times[s] # Never /\ times[s] <= now}

Pass == at' = "pending" /\ due' = Collected(next')

Exit ==
  /\ at = "loop" /\ stop
  /\ Gone

\* reload_if_changed: the signature first, then the file.
Unchanged ==
  /\ at = "loop" /\ ~stop /\ sig = version
  /\ UNCHANGED next
  /\ Pass
  /\ UNCHANGED <<clock, runs, lock, conf, sig, job, stop, starts, elsewhere, history>>

Changed ==
  /\ at = "loop" /\ ~stop /\ sig # version
  /\ at' = "reading"
  /\ sig' = version /\ stale' = FALSE
  /\ UNCHANGED <<clock, runs, lock, conf, next, due, job, stop, starts, elsewhere,
                 since, tried, owed, won>>

Read ==
  /\ at = "reading" /\ file # Invalid
  /\ at' = "applying" /\ conf' = file
  /\ UNCHANGED <<clock, runs, lock, sig, next, due, job, stop, starts, elsewhere, history>>

\* The mutant takes the signature when the file has been read.
SignatureAfter == version
SignatureBefore == sig

Apply ==
  /\ at = "applying"
  /\ sig' = SignatureBefore
  /\ RegisterAll(conf)
  /\ Pass
  /\ UNCHANGED <<clock, runs, lock, conf, job, stop, starts, elsewhere, tried, owed, won, stale>>

\* The file is invalid, or a path it names cannot be used at the moment.
Reject ==
  /\ at = "reading"
  /\ UNCHANGED next
  /\ Pass
  /\ stale' = (file # Invalid)
  /\ UNCHANGED <<clock, runs, lock, conf, sig, job, stop, starts, elsewhere,
                 since, tried, owed, won>>

\* After a run a job is scheduled for its next time from now.
AfterRun(s) ==
  /\ due' = due \ {s}
  /\ next' = [next EXCEPT ![s] = NextTime(s, now)]

First(s) == s \in due /\ \A r \in due : next[s] <= next[r]

RunPending(s) ==
  /\ at = "pending" /\ job = "none" /\ First(s)
  /\ TakeLock
  /\ IF lock = "free" THEN UNCHANGED <<due, next>> ELSE AfterRun(s)
  /\ UNCHANGED <<clock, at, conf, sig, stop, starts, elsewhere, since, owed, stale>>

PassDone ==
  /\ at = "pending" /\ job = "none" /\ due = {}
  /\ at' = "waiting"
  /\ UNCHANGED <<clock, runs, lock, conf, sig, next, due, job, stop, starts, elsewhere,
                 history>>

\* Thirty seconds, or a signal.
Wake ==
  /\ at = "waiting"
  /\ at' = "loop"
  /\ UNCHANGED <<clock, runs, lock, conf, sig, next, due, job, stop, starts, elsewhere,
                 history>>

-----------------------------------------------------------------------------
\* run_metafusion_job.

InJob == UNCHANGED <<clock, conf, sig, stop, starts, elsewhere, since, owed, stale>>

Opened ==
  /\ job = "opening" /\ job' = "active"
  /\ UNCHANGED <<runs, lock, at, next, due, tried, won>> /\ InJob

\* A store cannot be opened: the exception leaves main.
OpenFails == job = "opening" /\ Gone

Worked ==
  /\ \/ job = "active" /\ job' \in {"closing", "failing"}
     \/ job = "cancelled" /\ job' = "failing"
  /\ UNCHANGED <<runs, lock, at, next, due, tried, won>> /\ InJob

\* Stores are closed, the row is written and the lock released; the same may
\* fail, which makes the job a failed one.
Closed ==
  /\ job \in {"closing", "failing"}
  /\ \E ok \in {job = "closing", FALSE} : Row(ok)
  /\ job' = "none" /\ lock' = "free" /\ tried' = now
  /\ IF at = "pending" THEN \E s \in due : First(s) /\ AfterRun(s)
     ELSE UNCHANGED <<due, next>>
  /\ UNCHANGED at /\ InJob

-----------------------------------------------------------------------------
\* request_shutdown.  A job whose event loop does not run yet, or no longer,
\* is not cancelled.
Signal ==
  /\ at \in {"deciding", "registering", "applying"} \cup Looping
  /\ stop' = TRUE
  /\ job' = IF job = "active" THEN "cancelled" ELSE job
  /\ UNCHANGED <<clock, runs, lock, at, conf, sig, next, due, starts, elsewhere, history>>

\* _force_exit_after_timeout.
Watchdog == at # "down" /\ stop /\ Gone
Kill == at # "down" /\ Gone

-----------------------------------------------------------------------------
\* Other processes, the user, and time.

Here == UNCHANGED <<process, since, tried, owed, stale>>

\* A job of its own, or a command that changes durable state, under the lock; a
\* rebuild is one and then the other.
OtherStarts(what) ==
  /\ other = "none" /\ others < MaxOthers
  /\ others' = others + 1
  /\ IF lock = "free" THEN lock' = "other" /\ other' = what /\ UNCHANGED <<runs, won>>
     ELSE /\ IF what = "job" THEN Row(FALSE) ELSE UNCHANGED <<runs, won>>
          /\ UNCHANGED <<lock, other>>
  /\ UNCHANGED clock /\ Here

OtherEnds ==
  /\ lock = "other" /\ lock' = "free"
  /\ IF other = "job" THEN \E ok \in BOOLEAN : Row(ok) ELSE UNCHANGED <<runs, won>>
  /\ other' = IF other = "rebuild" THEN "rebuilt" ELSE "none"
  /\ UNCHANGED <<clock, others>> /\ Here

Rebuild ==
  /\ other = "rebuilt"
  /\ IF lock = "free" THEN lock' = "other" /\ other' = "job" /\ UNCHANGED <<runs, won>>
     ELSE Row(FALSE) /\ other' = "none" /\ UNCHANGED lock
  /\ UNCHANGED <<clock, others>> /\ Here

Edit(c) ==
  /\ version < MaxEdits
  /\ version' = version + 1 /\ file' = c
  /\ UNCHANGED <<now, runs, lock, elsewhere, won>> /\ Here

Tick ==
  /\ now < MaxTime
  /\ now' = now + 1
  /\ UNCHANGED <<file, version, runs, lock, elsewhere, won>> /\ Here

MainStep ==
  \/ Watch \/ DecideStartup \/ Register
  \/ Exit \/ Unchanged \/ Changed \/ Read \/ Apply \/ Reject
  \/ \E s \in Slots : RunPending(s)
  \/ PassDone \/ Wake
  \/ Opened \/ OpenFails \/ Worked \/ Closed

Next ==
  \/ Start \/ MainStep
  \/ Signal \/ Watchdog \/ Kill
  \/ \E what \in {"job", "command", "rebuild"} : OtherStarts(what)
  \/ OtherEnds \/ Rebuild
  \/ \E c \in Configs \cup {Invalid} : Edit(c)
  \/ Tick

Spec == Init /\ [][Next]_vars

\* The process runs and a job ends, since all it does has timeouts.
FairSpec == Spec /\ WF_vars(MainStep)

-----------------------------------------------------------------------------
\* No time of the day passes unnoticed while its job is registered: a job was
\* under way then or later, or the job is still to run, however long other jobs
\* take, whoever holds the lock and whatever fails (run_pending, main).
SlotServed ==
  at \in Looping =>
    \A s \in conf.times : \A t \in (since + 1)..now :
      t % Day = s => next[s] \in 0..t \/ tried >= t

\* When main goes on to its loop, the last slot from before its start that is not
\* too old has had a successful job, of whatever process, or a job of this one:
\* a job that failed, was cancelled, killed or refused before a restart does not
\* use its slot up (missed_schedule_due).
StartupCovers ==
  at = "registering" /\ job = "none" /\ owed # Never => won >= owed \/ tried >= owed

\* Between two looks at the file the scheduler runs with what the file says,
\* whenever it was edited, unless it was edited while the process started or
\* was refused although it is valid (reload_if_changed).
ConfigFollowed ==
  at \in {"pending", "waiting"} /\ sig = version /\ file # Invalid /\ ~stale
  => conf = file

\* A job that is due is run, or refused by the lock, unless its process ends or
\* registers its jobs anew (main).
DueRuns == \A s \in Slots : []<>~(at \in Looping /\ next[s] \in 0..now)
=============================================================================
