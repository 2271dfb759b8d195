----------------------------- MODULE LibraryRun -----------------------------
(***************************************************************************)
(* A job over several libraries (metafusion_main): the listing of the      *)
(* libraries, the discovery of every inventory page by page, the canary of *)
(* a new build, the second reading and the processing of each library, and *)
(* the decision what the cleanup may take for absent.  Plex changes under  *)
(* it all the time.                                                        *)
(*                                                                         *)
(* What processing a library does to its items is IncrementalJob's, what   *)
(* the cleanup does with the absent ones is Cleanup's.                     *)
(***************************************************************************)
EXTENDS Integers, FiniteSetsExt

CONSTANTS
  Libraries,    \* the libraries there may be, that of Formula 1 aside
  Items,        \* rating keys, in the order Plex lists them
  Rank,         \* the order in which Plex lists them
  TypeOf,       \* the type of each library
  KindOf,       \* the type of each item
  Selections,   \* libraries that may be configured; none is all of them
  Small,        \* up to this many items are read in one page
  Page,         \* the size of a page otherwise
  Builds,       \* published builds
  MaxChanges,   \* bound on changes of Plex during a job
  MaxFaults     \* bound on failures

Types == {"movie", "tv"}

None == "none"
Unread == {-1}   \* the inventory of a library that could not be read

ASSUME LibraryAssumption ==
  /\ Items \subseteq Nat /\ IsFiniteSet(Items)
  /\ None \notin Libraries /\ None \notin Builds
  /\ Rank \in [Libraries -> Nat] /\ \A l, m \in Libraries : Rank[l] = Rank[m] => l = m
  /\ TypeOf \in [Libraries -> Types] /\ KindOf \in [Items -> Types]
  /\ Selections \subseteq SUBSET Libraries
  /\ Small \in Nat /\ Page \in Nat \ {0}
  /\ MaxChanges \in Nat /\ MaxFaults \in Nat

VARIABLES
  holds,      \* the items of each library
  online,     \* the libraries Plex lists
  known,      \* plex_library_inventory: the libraries ever discovered
  qualified,  \* the build the canary's record names
  build,      \* the build that runs
  stage,      \* where the job is
  plan,       \* what it decided at its start
  todo,       \* the libraries its present pass has yet to read
  read,       \* the reading under way
  found,      \* section_inventory_records
  seen,       \* plex_metadata_dict
  done,       \* successful_sections
  failed,     \* it has failures
  checked,    \* its canary passed
  changes, faults,
  steady,     \* history: items in Plex during the whole job
  hurt,       \* history: libraries whose own reading or processing failed in it
  ever,       \* history: libraries a job ever discovered
  proven      \* history: builds one of whose jobs succeeded

plex == <<holds, online>>
records == <<known, qualified>>
working == <<stage, plan, todo, read, found, seen, done, failed, checked>>
past == <<steady, hurt, ever, proven>>
lvars == <<plex, records, build, working, changes, faults, past>>

NoPlan == [all |-> {}, sections |-> {}, full |-> {}, cleanup |-> FALSE, guarded |-> {}]
NoRead == [lib |-> None, total |-> 0, offset |-> 0, keys |-> {}, step |-> "total"]

Of(type) == {i \in Items : KindOf[i] = type}
Held(L) == UNION {holds[l] : l \in L}

LTypeOK ==
  /\ holds \in [Libraries -> SUBSET Items] /\ online \subseteq Libraries
  /\ known \subseteq Libraries
  /\ qualified \in Builds \cup {None} /\ build \in Builds
  /\ stage \in {"idle", "discover", "process", "cleanup", "closing"}
  /\ plan \in [all : SUBSET Libraries, sections : SUBSET Libraries, full : SUBSET Libraries,
               cleanup : BOOLEAN, guarded : SUBSET Libraries]
  /\ todo \subseteq Libraries
  /\ read \in [lib : Libraries \cup {None}, total : Nat, offset : Nat, keys : SUBSET Items,
               step : {"total", "pages", "check", "ready"}]
  /\ found \in [Libraries -> (SUBSET Items) \cup {Unread}]
  /\ seen \subseteq Items /\ done \subseteq Libraries
  /\ failed \in BOOLEAN /\ checked \in BOOLEAN
  /\ changes \in 0..MaxChanges /\ faults \in 0..MaxFaults
  /\ steady \subseteq Items /\ hurt \subseteq Libraries /\ ever \subseteq Libraries
  /\ proven \subseteq Builds

\* Any inventory in which an item is in one library of its type.
LInit ==
  /\ \E where \in [Items -> Libraries \cup {None}] :
       /\ \A i \in Items : where[i] # None => TypeOf[where[i]] = KindOf[i]
       /\ holds = [l \in Libraries |-> {i \in Items : where[i] = l}]
  /\ online = Libraries
  /\ known = {} /\ qualified = None
  /\ build \in Builds
  /\ stage = "idle" /\ plan = NoPlan /\ todo = {} /\ read = NoRead
  /\ found = [l \in Libraries |-> Unread]
  /\ seen = {} /\ done = {} /\ failed = FALSE /\ checked = FALSE
  /\ changes = 0 /\ faults = 0
  /\ steady = {} /\ hurt = {} /\ ever = {} /\ proven = {}

-----------------------------------------------------------------------------
\* The start of a job: the libraries Plex lists, those to work on, and how.

\* reconcile_library_inventory keeps what it ever discovered.  The mutant keeps
\* what it has discovered last.
ReconciledLast(all) == all
Reconciled(all) == known \cup all

\* What a job knows is gone when it ends.
NoJob ==
  /\ plan' = NoPlan /\ todo' = {} /\ read' = NoRead
  /\ found' = [l \in Libraries |-> Unread]
  /\ seen' = {} /\ done' = {} /\ failed' = FALSE /\ checked' = FALSE
  /\ changes' = 0 /\ steady' = {} /\ hurt' = {}

\* plex_operation, connect_plex_server and the listing of the libraries: a request
\* has failed after its retries.
RequestFails == faults < MaxFaults /\ faults' = faults + 1

\* A server that cannot be reached ends the job before it has decided anything.
Unreachable ==
  /\ stage = "idle" /\ RequestFails
  /\ UNCHANGED <<plex, records, build, working, changes, past>>

\* connect_plex_library: every library there is, or those of the configuration.
Sections(select, all) == IF select = {} THEN all ELSE select \cap all

\* full: the libraries that are due for a full scan, or are made to have one by an
\* option, the change feed or a missing output file.  fails: the Formula 1 extension
\* fails, or a requested rating key is not found.  Without a library to work on
\* there is an error, which comes before anything is recorded if all were to be
\* taken.
Begin(select, targeted, full, fails) ==
  /\ stage = "idle"
  /\ LET all == online
         auto == select = {}
         sections == Sections(select, all)
         missing == IF auto THEN known \ all ELSE {}
         unlisted == IF auto THEN {} ELSE select \ all
     IN /\ auto => all # {}
        /\ full \subseteq sections
        /\ known' = IF auto THEN Reconciled(all) ELSE known
        /\ plan' = [all |-> all, sections |-> sections, full |-> full,
                    cleanup |-> ~targeted /\ missing = {} /\ full = sections,
                    guarded |-> IF auto THEN ever \ all ELSE unlisted]
        /\ failed' = (fails \/ unlisted # {})
        /\ stage' = IF sections = {} THEN "closing" ELSE "discover"
        /\ todo' = sections
        /\ ever' = IF auto THEN ever \cup all ELSE ever
        /\ steady' = Held(plan'.all \cup plan'.guarded)
  /\ IF fails THEN RequestFails ELSE UNCHANGED faults
  /\ read' = NoRead
  /\ found' = [l \in Libraries |-> Unread] /\ done' = {} /\ checked' = FALSE
  /\ seen' = {} /\ hurt' = {}
  /\ UNCHANGED <<plex, qualified, build, changes, proven>>

-----------------------------------------------------------------------------
\* load_plex_library_inventory, first for the records of every library, then for
\* the items of each.

Place(i, l) == Cardinality({j \in holds[l] : j < i})
PageSize(total) == IF total <= Small THEN Max({1, total}) ELSE Page

\* The library whose turn it is.
Turn(l) ==
  /\ stage \in {"discover", "process"}
  /\ l \in todo /\ \A m \in todo : Rank[l] <= Rank[m]
InReading ==
  UNCHANGED <<plex, records, build, stage, plan, seen, done, checked, changes, steady, ever,
              proven>>

ReadTotal(l) ==
  /\ Turn(l) /\ read = NoRead /\ l \in online
  /\ read' = [NoRead EXCEPT !.lib = l, !.total = Cardinality(holds[l]), !.step = "pages"]
  /\ UNCHANGED <<todo, found, failed, faults, hurt>> /\ InReading

NextPage ==
  {i \in holds[read.lib] :
     Place(i, read.lib) \in read.offset..(read.offset + PageSize(read.total) - 1)}
Repeats == NextPage \cap read.keys # {}

ReadPage ==
  /\ read.step = "pages" /\ read.lib \in online /\ ~Repeats
  /\ read' = [read EXCEPT
       !.keys = @ \cup NextPage, !.offset = @ + Cardinality(NextPage),
       !.step = IF Cardinality(NextPage) < PageSize(read.total) THEN "check" ELSE "pages"]
  /\ UNCHANGED <<todo, found, failed, faults, hurt>> /\ InReading

\* The total has not changed and everything was listed.
Stable ==
  /\ read.lib \in online
  /\ Cardinality(holds[read.lib]) = read.total /\ Cardinality(read.keys) = read.total

\* What is left to do when a library has failed.  The mutant gives the others up.
RestNone(l) == {}
Rest(l) == todo \ {l}

\* The library cannot be used in this job; the others can.
Fails(l) ==
  /\ failed' = TRUE /\ todo' = Rest(l) /\ read' = NoRead /\ hurt' = hurt \cup {l}

Discovered ==
  /\ stage = "discover" /\ read.step = "check" /\ Stable
  /\ found' = [found EXCEPT ![read.lib] = read.keys]
  /\ todo' = todo \ {read.lib} /\ read' = NoRead
  /\ UNCHANGED <<failed, faults, hurt>> /\ InReading

\* A repeated rating key, an inventory that changed under the pages, a library
\* that is gone, a request that failed after its retries.
ReadFails(l) ==
  /\ Turn(l)
  /\ \/ l \notin online /\ UNCHANGED faults
     \/ read.step = "check" /\ ~Stable /\ UNCHANGED faults
     \/ read.step = "pages" /\ Repeats /\ UNCHANGED faults
     \/ read.step # "ready" /\ RequestFails
  /\ Fails(l)
  /\ UNCHANGED found /\ InReading

\* validate_inventory_snapshot: the same number of items, and the same items.  The
\* mutant compares the numbers only.
SameSize(first, second) == Cardinality(first) = Cardinality(second)
Same(first, second) == first = second

Reread ==
  /\ stage = "process" /\ read.step = "check" /\ Stable
  /\ IF Same(found[read.lib], read.keys)
     THEN read' = [read EXCEPT !.step = "ready"] /\ UNCHANGED <<todo, failed, hurt>>
     ELSE Fails(read.lib)
  /\ UNCHANGED <<found, faults>> /\ InReading

-----------------------------------------------------------------------------
\* The canary, the libraries, the cleanup.

\* run_upgrade_canary, unless the build has passed before.
Canary ==
  /\ stage = "discover" /\ todo = {} /\ read = NoRead
  /\ \/ /\ build = qualified
        /\ stage' = "process" /\ todo' = plan.sections \ {l \in Libraries : found[l] = Unread}
        /\ UNCHANGED <<checked, failed, faults>>
     \/ /\ build # qualified
        /\ stage' = "process" /\ todo' = plan.sections \ {l \in Libraries : found[l] = Unread}
        /\ checked' = TRUE
        /\ UNCHANGED <<failed, faults>>
     \/ /\ build # qualified /\ RequestFails
        /\ stage' = "closing" /\ failed' = TRUE
        /\ UNCHANGED <<todo, checked>>
  /\ UNCHANGED <<plex, records, build, plan, read, found, seen, done, changes, past>>

\* process_library puts all items of a full scan in plex_metadata_dict; else those
\* it selects, at worst none.
Processed ==
  /\ read.step = "ready"
  /\ LET l == read.lib
     IN /\ seen' = IF l \in plan.full THEN seen \cup read.keys ELSE seen
        /\ done' = done \cup {l}
        /\ todo' = todo \ {l}
  /\ read' = NoRead
  /\ UNCHANGED <<plex, records, build, stage, plan, found, failed, checked, changes,
                 faults, past>>

ProcessFails ==
  /\ read.step = "ready"
  /\ faults < MaxFaults /\ faults' = faults + 1
  /\ Fails(read.lib)
  /\ UNCHANGED <<plex, records, build, stage, plan, found, seen, done, checked, changes, steady,
                 ever, proven>>

ProcessedAll ==
  /\ stage = "process" /\ todo = {} /\ read = NoRead
  /\ stage' = IF plan.cleanup THEN "cleanup" ELSE "closing"
  /\ UNCHANGED <<plex, records, build, plan, todo, read, found, seen, done, failed, checked,
                 changes, faults, past>>

\* complete_inventory_types: every library of the type that Plex listed was
\* processed.
SafeTypes ==
  IF failed THEN {}
  ELSE {type \in Types : LET those == {l \in plan.all : TypeOf[l] = type}
                         IN those # {} /\ those \subseteq done}

\* What the cleanup may take for absent.
Absent == (UNION {Of(type) : type \in SafeTypes}) \ seen

Cleanup ==
  /\ stage = "cleanup"
  /\ stage' = "closing"
  /\ \/ UNCHANGED <<failed, faults>>
     \/ faults < MaxFaults /\ faults' = faults + 1 /\ failed' = TRUE
  /\ UNCHANGED <<plex, records, build, plan, todo, read, found, seen, done, checked, changes,
                 past>>

\* run_metafusion_job flushes, and commits the canary if the job succeeded.  The
\* mutant commits what passed.
CommitsPassed(success) == checked
Commits(success) == checked /\ success

Close ==
  /\ stage = "closing"
  /\ \E success \in {~failed, FALSE} :
       /\ success = (~failed) \/ faults < MaxFaults
       /\ faults' = IF success = ~failed THEN faults ELSE faults + 1
       /\ qualified' = IF Commits(success) THEN build ELSE qualified
       /\ proven' = IF success THEN proven \cup {build} ELSE proven
  /\ stage' = "idle" /\ NoJob
  /\ UNCHANGED <<plex, known, build, ever>>

KillJob ==
  /\ stage # "idle" /\ faults < MaxFaults
  /\ faults' = faults + 1
  /\ stage' = "idle" /\ NoJob
  /\ UNCHANGED <<plex, records, build, ever, proven>>

-----------------------------------------------------------------------------
\* Plex, the operator and time.

Changes(new, libraries) ==
  /\ IF stage = "idle" THEN UNCHANGED changes
     ELSE changes < MaxChanges /\ changes' = changes + 1
  /\ holds' = new /\ online' = libraries
  /\ steady' = steady \cap UNION {new[l] : l \in plan.all \cup plan.guarded}
  /\ UNCHANGED <<records, build, working, faults, hurt, ever, proven>>

Fits(l, i) == TypeOf[l] = KindOf[i] /\ l \in online

Move(i, from, to) ==
  /\ i \in holds[from] /\ from # to /\ Fits(to, i) /\ from \in online
  /\ Changes([holds EXCEPT ![from] = @ \ {i}, ![to] = @ \cup {i}], online)

Add(i, l) ==
  /\ i \notin Held(Libraries) /\ Fits(l, i)
  /\ Changes([holds EXCEPT ![l] = @ \cup {i}], online)

Delete(i, l) ==
  /\ i \in holds[l] /\ l \in online
  /\ Changes([holds EXCEPT ![l] = @ \ {i}], online)

\* The library of a server or disk that is away, and back.
Switch(l) == Changes(holds, IF l \in online THEN online \ {l} ELSE online \cup {l})

Upgrade(b) ==
  /\ stage = "idle" /\ b # build
  /\ build' = b
  /\ UNCHANGED <<plex, records, working, changes, faults, past>>

JobStep ==
  \/ \E l \in Libraries : ReadTotal(l) \/ ReadFails(l)
  \/ ReadPage \/ Discovered \/ Reread
  \/ Canary \/ Processed \/ ProcessFails \/ ProcessedAll \/ Cleanup \/ Close

LNext ==
  \/ \E select \in Selections, targeted, fails \in BOOLEAN, full \in SUBSET Libraries :
       Begin(select, targeted, full, fails)
  \/ Unreachable \/ JobStep \/ KillJob
  \/ \E i \in Items, l \in Libraries : Add(i, l) \/ Delete(i, l) \/ \E m \in Libraries : Move(i, l, m)
  \/ \E l \in Libraries : Switch(l)
  \/ \E b \in Builds : Upgrade(b)

LSpec == LInit /\ [][LNext]_lvars

-----------------------------------------------------------------------------
\* What was in Plex during the whole job is never taken for absent, although it
\* moves between the libraries while they are read one after the other and page
\* by page, if Plex does not change more than MaxChanges times during the job
\* (load_plex_library_inventory, validate_inventory_snapshot,
\* complete_inventory_types).
PresentIsSeen ==
  stage = "cleanup" => Absent \cap steady \cap Held(plan.all) = {}

\* What is in a library that Plex no longer lists is not taken for absent either,
\* in this job or any later one (reconcile_library_inventory).
MissingIsGuarded ==
  stage = "cleanup" => Absent \cap steady \subseteq Held(plan.all)

\* No library is processed by a build that has neither passed its canary in this
\* job nor had a successful job before (run_upgrade_canary, commit_upgrade_canary).
BuildQualified ==
  stage \in {"process", "cleanup"} => checked \/ build \in proven

\* A library that fails stops no other: when a job ends that was not stopped by its
\* canary, every library is processed unless its own reading or processing failed
\* (metafusion_main).
OthersProcessed ==
  stage = "cleanup" \/ (stage = "closing" /\ (checked \/ build = qualified))
  => plan.sections \subseteq done \cup hurt
=============================================================================
