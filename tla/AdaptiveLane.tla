---------------------------- MODULE AdaptiveLane ----------------------------
(***************************************************************************)
(* One lane of the concurrency controller (helper/concurrency.py): how     *)
(* many operations of a kind may run at once, the circuit that keeps new   *)
(* ones out after repeated failures, the half-open probe that closes it    *)
(* again, and the provider_health row that carries a cooldown from one job *)
(* to the next.                                                            *)
(*                                                                         *)
(* The callers are asyncio tasks.  The condition's lock is never held      *)
(* across an await other than condition.wait(), so everything between two  *)
(* awaits is one step here: acquire up to its wait, a wake-up, a release.  *)
(* A finished caller may acquire again before the waiters it woke have     *)
(* run.                                                                    *)
(***************************************************************************)
EXTENDS Integers, FiniteSets

CONSTANTS
  Callers,    \* the tasks that use the lane
  Kind,       \* what the kind of the lane brings with it, see Traits
  Initial, Ceiling,  \* where limit starts, and its upper bound
  Window,     \* healthy_window
  Threshold,  \* failure_threshold
  Cooldown,   \* circuit_cooldown, in ticks
  Cooldowns,  \* the cooldowns a caller asks for; 0 asks for none
  MaxNow, MaxOps     \* bounds for TLC: the clock, operations in all

ASSUME LaneAssumption ==
  /\ IsFiniteSet(Callers)
  /\ Kind \subseteq {"pressure", "duration", "provider"}
  /\ Ceiling \in Nat \ {0} /\ Initial \in 1 .. Ceiling
  /\ Window \in Nat \ {0} /\ Threshold \in Nat /\ Threshold >= 2
  /\ Cooldown \in Nat \ {0} /\ Cooldowns \subseteq Nat
  /\ MaxNow \in Nat /\ MaxOps \in Nat

VARIABLES
  up,         \* a job is running; its lanes exist
  blind,      \* history: it started without the health that was saved
  limit, active, healthy,
  streak,     \* consecutive_failures, up to Threshold
  openUntil,  \* open_until; 0 while the circuit is closed
  halfOpen,   \* half_open_active
  dirty,      \* the lane has seen a success, a failure or a rejection
  st,         \* what every caller is doing
  probe,      \* the callers that hold or wait for a half-open lease
  woken,      \* waiting callers that notify_all has scheduled
  saved,      \* durable: provider_health
  time,       \* the clock
  left        \* operations the job may still ask for

circuit == <<streak, openUntil, halfOpen>>
callers == <<st, probe, woken>>
lanevars == <<up, blind, limit, active, healthy, circuit, dirty, callers, saved, time,
              left>>

Running == {c \in Callers : st[c] = "running"}
Waiting == {c \in Callers : st[c] = "waiting"}
Greater(x, y) == IF x >= y THEN x ELSE y

(* Traits: "item" and "nested" lanes feel the pressure of CPU and memory,   *)
(* "plex" the duration of its calls; the health of "tmdb", "fanart" and     *)
(* "plex" outlives a job.  A lane with every trait has all the behaviours   *)
(* of each of the five.                                                     *)
PressureLane == "pressure" \in Kind
PlexLane == "duration" \in Kind
ProviderLane == "provider" \in Kind

-----------------------------------------------------------------------------
NoCallers ==
  /\ active' = 0 /\ st' = [c \in Callers |-> "idle"]
  /\ probe' = {} /\ woken' = {}

Fresh == [failures |-> 0, until |-> 0]

(* The mutant forgets the cooldown that is still running.                  *)
RestoresCountOnly == [failures |-> saved.failures, until |-> 0]

(* load_provider_health: a row whose cooldown is over starts cleanly.      *)
Restored == IF saved.until > time THEN saved ELSE Fresh

LaneInit ==
  /\ up = FALSE /\ blind = FALSE
  /\ limit = Initial /\ active = 0 /\ healthy = 0
  /\ streak = 0 /\ openUntil = 0 /\ halfOpen = FALSE /\ dirty = FALSE
  /\ st = [c \in Callers |-> "idle"] /\ probe = {} /\ woken = {}
  /\ saved = Fresh /\ time = 1 /\ left = 0

(* AdaptiveConcurrencyController: a new lane with the health it is given.  *)
NewLane(health) ==
  /\ limit' = Initial /\ healthy' = 0 /\ dirty' = FALSE /\ NoCallers
  /\ streak' = health.failures /\ openUntil' = health.until
  /\ halfOpen' = FALSE

(* begin_adaptive_concurrency: a dry run does not load the saved health,   *)
(* and when loading it fails the job goes on with fresh limits.            *)
BeginJob ==
  /\ ~up /\ up' = TRUE
  /\ \E health \in {Restored, Fresh} :
       NewLane(health) /\ blind' = (health # Restored)
  /\ left' = MaxOps
  /\ UNCHANGED <<saved, time>>

(* finish_adaptive_concurrency: a provider lane that was used is saved,    *)
(* unless the job was a dry run; a failure to save is only logged.         *)
EndJob ==
  /\ up /\ up' = FALSE /\ blind' = FALSE
  /\ \A c \in Callers : st[c] = "idle"
  /\ \/ /\ ProviderLane /\ dirty
        /\ saved' = [failures |-> streak,
                     until |-> IF openUntil > time THEN openUntil ELSE 0]
     \/ saved' = saved
  /\ UNCHANGED <<limit, active, healthy, circuit, dirty, callers, time, left>>

(* The process dies; nothing is saved.                                     *)
KillLane ==
  /\ up /\ up' = FALSE /\ blind' = FALSE /\ NoCallers
  /\ UNCHANGED <<limit, healthy, circuit, dirty, saved, time, left>>

-----------------------------------------------------------------------------
(* acquire                                                                 *)

CoolingDown == openUntil # 0 /\ time < openUntil
Rejects == openUntil # 0 /\ (time < openUntil \/ halfOpen)

Room == active < limit

Admit(c) == active' = active + 1 /\ st' = [st EXCEPT ![c] = "running"]

Acquires(c) == up /\ st[c] = "idle" /\ left > 0 /\ left' = left - 1

(* CircuitOpenError.                                                       *)
TurnAway(c) ==
  /\ Acquires(c) /\ Rejects
  /\ dirty' = TRUE
  /\ UNCHANGED <<up, blind, limit, active, healthy, circuit, callers, saved, time>>

(* The first caller after a cooldown becomes the probe.  A caller that     *)
(* finds the lane full waits, the probe too.                               *)
Enter(c) ==
  /\ Acquires(c) /\ ~Rejects
  /\ halfOpen' = (halfOpen \/ openUntil # 0)
  /\ probe' = IF openUntil # 0 THEN probe \cup {c} ELSE probe
  /\ IF Room THEN Admit(c)
     ELSE active' = active /\ st' = [st EXCEPT ![c] = "waiting"]
  /\ UNCHANGED <<up, blind, limit, healthy, streak, openUntil, dirty, woken, saved, time>>

(* The mutant does not look at the circuit again after a wait.             *)
WakesBlind == FALSE
WakeRejected == CoolingDown

(* A woken caller takes a slot, is rejected by a circuit that has opened   *)
(* meanwhile, or waits again because somebody else took the slot.          *)
WakeUp(c) ==
  /\ c \in woken /\ woken' = woken \ {c}
  /\ \/ /\ WakeRejected
        /\ st' = [st EXCEPT ![c] = "idle"] /\ probe' = probe \ {c}
        /\ dirty' = TRUE /\ UNCHANGED active
     \/ /\ ~WakeRejected /\ Room
        /\ Admit(c) /\ UNCHANGED <<probe, dirty>>
     \/ /\ ~WakeRejected /\ ~Room
        /\ UNCHANGED <<active, st, probe, dirty>>
  /\ UNCHANGED <<up, blind, limit, healthy, circuit, saved, time, left>>

(* CancelledError out of condition.wait(): a sibling in bounded_map failed *)
(* or the job is being stopped.  acquire has no handler for it.            *)
CancelWaiting(c) ==
  /\ st[c] = "waiting"
  /\ st' = [st EXCEPT ![c] = "idle"]
  /\ probe' = probe \ {c} /\ woken' = woken \ {c}
  /\ UNCHANGED <<up, blind, limit, active, healthy, circuit, dirty, saved, time, left>>

-----------------------------------------------------------------------------
(* release                                                                 *)

(* The mutant wakes one waiter.                                            *)
NotifyOne(c) ==
  LET sleeping == (Waiting \ woken) \ {c}
  IN woken' = woken \cup (IF sleeping = {} THEN {} ELSE {CHOOSE d \in sleeping : TRUE})
NotifyAll(c) == woken' = Waiting \ {c}

Less(n) == Greater(1, n - 1)

(* What the controller knows of CPU and memory when it releases: nothing   *)
(* above 90 %, an older measurement, or one it has just taken, which costs *)
(* the lane another slot.                                                  *)
Pressures == IF PressureLane THEN {"none", "known", "measured"}
             ELSE {"none", "known"}
Pressed(n, pressure) == IF pressure = "measured" THEN Less(n) ELSE n
Kept(n, pressure) == IF pressure = "measured" THEN 0 ELSE n

LeaveSlot(c) ==
  /\ active' = Greater(0, active - 1)
  /\ st' = [st EXCEPT ![c] = "idle"]
  /\ probe' = probe \ {c}
  /\ dirty' = TRUE
  /\ NotifyAll(c)

(* A lease on which failure() was called, by the caller or by runtime_slot *)
(* for any exception, cancellation included.                               *)
Fail(c, reason, cooldown, immediate, pressure) ==
  /\ st[c] = "running"
  /\ LeaveSlot(c)
  /\ LET count == streak + 1
         opens == immediate \/ c \in probe \/ count >= Threshold
         wait == IF cooldown = 0 THEN Cooldown ELSE cooldown
         lowered == IF reason = "rate_limit" THEN Greater(1, (limit + 1) \div 2)
                    ELSE IF count >= 2 THEN Less(limit) ELSE limit
     IN /\ streak' = IF count > Threshold THEN Threshold ELSE count
        /\ limit' = Pressed(lowered, pressure)
        /\ openUntil' = IF opens THEN Greater(openUntil, time + wait) ELSE openUntil
        /\ halfOpen' = (halfOpen /\ ~opens)
  /\ healthy' = 0
  /\ UNCHANGED <<up, blind, saved, time, left>>

(* Any other release.  A plex call of five seconds or more is slow.        *)
Succeed(c, slow, pressure) ==
  /\ st[c] = "running"
  /\ LeaveSlot(c)
  /\ streak' = 0
  /\ openUntil' = IF c \in probe THEN 0 ELSE openUntil
  /\ halfOpen' = (halfOpen /\ c \notin probe)
  /\ LET counts == ~slow /\ pressure = "none" /\ limit < Ceiling
         grows == counts /\ healthy + 1 >= Window
     IN /\ limit' = Pressed(IF slow THEN Less(limit)
                            ELSE IF grows THEN limit + 1 ELSE limit, pressure)
        /\ healthy' = Kept(IF slow \/ grows THEN 0
                           ELSE IF counts THEN healthy + 1 ELSE healthy, pressure)
  /\ UNCHANGED <<up, blind, saved, time, left>>

Finish(c) ==
  \/ \E reason \in {"rate_limit", "other"}, cooldown \in Cooldowns,
        immediate \in BOOLEAN, pressure \in Pressures :
       Fail(c, reason, cooldown, immediate, pressure)
  \/ \E slow \in (IF PlexLane THEN BOOLEAN ELSE {FALSE}),
        pressure \in Pressures :
       Succeed(c, slow, pressure)

(* A woken task runs in the next turn of the event loop, long before a     *)
(* cooldown of seconds is over.                                            *)
LaneTick ==
  /\ time < MaxNow /\ woken = {}
  /\ time' = time + 1
  /\ UNCHANGED <<up, blind, limit, active, healthy, circuit, dirty, callers, saved, left>>

LaneNext ==
  \/ BeginJob \/ EndJob \/ KillLane \/ LaneTick
  \/ \E c \in Callers : \/ TurnAway(c) \/ Enter(c) \/ WakeUp(c)
                        \/ CancelWaiting(c) \/ Finish(c)

LaneSpec == LaneInit /\ [][LaneNext]_lanevars

(* Every operation ends, by its timeout if by nothing else, and the event  *)
(* loop runs every task it has scheduled.                                  *)
LaneFairSpec ==
  LaneSpec /\ \A c \in Callers : WF_lanevars(WakeUp(c)) /\ WF_lanevars(Finish(c))

-----------------------------------------------------------------------------
(* Properties                                                              *)

(* Types; a woken caller waits, and only a caller inside acquire or with a *)
(* lease is the probe.                                                     *)
LaneTypeOK ==
  /\ up \in BOOLEAN /\ blind \in BOOLEAN
  /\ limit \in 1 .. Ceiling /\ active \in Nat /\ healthy \in Nat
  /\ streak \in 0 .. Threshold /\ openUntil \in Nat /\ halfOpen \in BOOLEAN
  /\ dirty \in BOOLEAN
  /\ st \in [Callers -> {"idle", "waiting", "running"}]
  /\ probe \subseteq Waiting \cup Running /\ woken \subseteq Waiting
  /\ saved \in [failures : 0 .. Threshold, until : Nat]
  /\ time \in Nat /\ left \in 0 .. MaxOps

(* AdaptiveLane.active: the counter every admission is decided by is the   *)
(* number of operations that run, after any cancellation or failure.       *)
ActiveIsRunning == active = Cardinality(Running)

(* acquire: an operation is admitted only if with it no more than limit    *)
(* run, although limit shrinks under operations that are already running.  *)
AdmitsWithinLimit ==
  [][Running' \ Running # {} => Cardinality(Running') <= limit]_lanevars

(* release's notify_all: no caller sleeps while there is a free slot, also *)
(* when the limit has just grown.                                          *)
NoLostWakeup == Waiting \ woken # {} => active >= limit

(* docs/operations.md, "Adaptive concurrency and provider protection":     *)
(* from the moment the circuit opens until a probe has closed it, nothing  *)
(* enters but a probe, and no probe before the cooldown is over.  Callers  *)
(* that were waiting when it opened are included.                          *)
CircuitGuards ==
  [][\A c \in Running' \ Running :
       openUntil # 0 => time >= openUntil /\ c \in probe']_lanevars

(* docs/operations.md, the same section: a cooldown that was saved keeps   *)
(* every operation of a later job out until it is over, through any number *)
(* of jobs that do not save theirs; except in a job that could not read    *)
(* the saved health or, as a dry run, does not.                            *)
SavedCooldownHonoured ==
  up /\ ~blind /\ saved.until > time => openUntil >= saved.until /\ Running = {}

(* Every caller that waits is admitted, rejected or cancelled in the end.  *)
EveryWaiterLeaves ==
  \A c \in Callers : st[c] = "waiting" ~> st[c] # "waiting"

(* docs/operations.md:414, "then a single half-open probe decides whether  *)
(* the circuit closes": while the lane rejects everybody for the sake of a *)
(* probe, there is one.  The code does not keep this (see the README): a   *)
(* probe that is cancelled while it waits leaves the flag behind.          *)
HalfOpenHasProbe == up /\ halfOpen => probe # {}
=============================================================================
