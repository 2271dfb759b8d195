------------------------------ MODULE Cleanup ------------------------------
(***************************************************************************)
(* Cleanup of a Kometa library over many jobs: modules/cleanup.py with the *)
(* candidates of helper/state_db.py, between the jobs that build output    *)
(* and the Plex inventory that changes under them.                         *)
(*                                                                         *)
(* An item is a title or a season of one (Parent).  It has a state row,    *)
(* which may claim its artwork file, and an entry in the Kometa YAML, and  *)
(* each of these two has a candidate of its own once it is missed.  The    *)
(* quarantine is a set of files here; helper/quarantine.py itself is       *)
(* module Quarantine.                                                      *)
(***************************************************************************)
EXTENDS Naturals, FiniteSets

CONSTANTS
  Items,
  Parent,   \* the title an item belongs to; of a title, the title itself
  Editions, \* titles whose YAML key names an edition
  Files,
  Dest,     \* the artwork file of an item
  Folder,   \* the folder of an item in Plex, which names that of its artwork
  Required, \* cleanup.confirmation_scans
  Grace,    \* cleanup.grace_hours, in ticks
  MaxMoves, \* bound on what Plex and the user do
  MaxFaults

Titles == {i \in Items : Parent[i] = i}

ASSUME CleanupAssumption ==
  /\ Parent \in [Items -> Items] /\ \A i \in Items : Parent[i] \in Titles
  /\ Editions \subseteq Titles
  /\ Dest \in [Items -> Files]
  /\ \A i, j \in Items : Dest[i] = Dest[j] => Folder[i] = Folder[j]
  /\ Required \in Nat \ {0} /\ Grace \in Nat
  /\ {MaxMoves, MaxFaults} \subseteq Nat

Slots == {"state", "yaml"} \X Items
Rows == {"none", "row", "owner"} \* no row, one without and one with the artwork
Candidate == [n : 0 .. Required, age : 0 .. Grace, known : BOOLEAN]
NoCandidate == [n |-> 0, age |-> 0, known |-> FALSE]

VARIABLES
  plex,    \* items in Plex
  file,    \* "none", "art" that MetaFusion wrote, or what a "user" put there
  vault,   \* files in quarantine
  yaml,    \* items with an entry in the YAML file
  rows,    \* the state rows
  cand,    \* table cleanup_candidates
  phase, full, inv, \* the job: where it is, its kind and its inventory
  mem,     \* the state rows as the job sees them
  elig,    \* slots found eligible by the running cleanup
  absent,  \* history: what full scans have missed since one last saw it
  moves, faults

outside == <<plex, moves>>
output == <<file, vault, yaml>>
job == <<full, inv>>
vars == <<outside, output, rows, cand, phase, job, mem, elig, absent, faults>>

Closed(S) == \A i \in S : Parent[i] \in S

TypeOK ==
  /\ plex \in SUBSET Items /\ Closed(plex)
  /\ file \in [Files -> {"none", "art", "user"}] /\ vault \in SUBSET Files
  /\ yaml \in SUBSET Items /\ Closed(yaml)
  /\ rows \in [Items -> Rows] /\ mem \in [Items -> Rows]
  /\ cand \in [Slots -> Candidate]
  /\ phase \in {"idle", "work", "cancel", "observe", "yaml", "write",
                "complete", "assets", "state", "flush"}
  /\ full \in BOOLEAN /\ inv \in SUBSET Items /\ Closed(inv)
  /\ elig \in SUBSET Slots
  /\ absent \in [Slots -> [n : 0 .. Required, age : 0 .. Grace]]
  /\ moves \in 0 .. MaxMoves /\ faults \in 0 .. MaxFaults

Init ==
  /\ plex = Items /\ moves = 0 /\ faults = 0
  /\ file = [f \in Files |-> "none"] /\ vault = {} /\ yaml = {}
  /\ rows = [i \in Items |-> "none"] /\ mem = rows
  /\ cand = [s \in Slots |-> NoCandidate]
  /\ absent = [s \in Slots |-> [n |-> 0, age |-> 0]]
  /\ phase = "idle" /\ full = FALSE /\ inv = {} /\ elig = {}

-----------------------------------------------------------------------------
(* Plex, the user and the clock *)

Leaves(i) ==
  /\ moves < MaxMoves /\ moves' = moves + 1
  /\ i \in plex
  /\ plex' = {j \in plex : j # i /\ Parent[j] # i}
  /\ UNCHANGED <<output, rows, cand, phase, job, mem, elig, absent, faults>>

Returns(i) ==
  /\ moves < MaxMoves /\ moves' = moves + 1
  /\ i \notin plex
  /\ plex' = plex \union {i, Parent[i]}
  /\ UNCHANGED <<output, rows, cand, phase, job, mem, elig, absent, faults>>

UserArtwork(f) ==
  /\ moves < MaxMoves /\ moves' = moves + 1
  /\ file[f] # "user" /\ file' = [file EXCEPT ![f] = "user"]
  /\ UNCHANGED <<plex, vault, yaml, rows, cand, phase, job, mem, elig, absent, faults>>

Later(n) == IF n < Grace THEN n + 1 ELSE n
Age(c) == IF c.n = 0 THEN c.age ELSE Later(c.age)

Tick ==
  /\ phase = "idle"
  /\ \E s \in Slots : (cand[s].n > 0 /\ cand[s].age < Grace)
                      \/ (absent[s].n > 0 /\ absent[s].age < Grace)
  /\ cand' = [s \in Slots |-> [n |-> cand[s].n, age |-> Age(cand[s]), known |-> cand[s].known]]
  /\ absent' = [s \in Slots |-> [n |-> absent[s].n, age |-> Age(absent[s])]]
  /\ UNCHANGED <<outside, output, rows, phase, job, mem, elig, faults>>

-----------------------------------------------------------------------------
(* A job up to cleanup *)

Begin(kind) ==
  /\ phase = "idle"
  /\ phase' = "work" /\ full' = kind /\ inv' = plex
  /\ mem' = rows /\ elig' = {}
  /\ UNCHANGED <<outside, output, rows, cand, absent, faults>>

BeginFull == Begin(TRUE)
BeginIncremental == Begin(FALSE)

Fault == faults < MaxFaults /\ faults' = faults + 1

(* Builds the items of S.  A file nobody has put there is written and      *)
(* owned; one that matches may be adopted; a user's is left alone.         *)
Build(S) ==
  /\ file' = [f \in Files |->
        IF file[f] = "none" /\ \E i \in S : Dest[i] = f THEN "art" ELSE file[f]]
  /\ \E adopted \in SUBSET S :
       mem' = [i \in Items |->
          IF i \notin S THEN mem[i]
          ELSE IF file[Dest[i]] = "none" \/ mem[i] = "owner"
                  \/ (file[Dest[i]] = "art" /\ i \in adopted)
               THEN "owner" ELSE "row"]
  /\ yaml' = yaml \union S

(* A full scan that succeeds in every library has built everything, and    *)
(* only then cleanup runs (safe_library_types).                            *)
WorkAll ==
  /\ phase = "work" /\ full
  /\ Build(inv)
  /\ phase' = "cancel"
  /\ UNCHANGED <<outside, vault, rows, cand, job, elig, absent, faults>>

WorkSome(S) ==
  /\ phase = "work" /\ S \subseteq inv /\ Closed(S)
  /\ \/ full /\ Fault
     \/ ~full /\ UNCHANGED faults
  /\ Build(S)
  /\ phase' = "flush"
  /\ UNCHANGED <<outside, vault, rows, cand, job, elig, absent>>

-----------------------------------------------------------------------------
(* Cleanup.  Each phase deals with a set of slots or files one after the   *)
(* other, in a transaction each: it deals with all of them, or with some   *)
(* until one fails and the job goes on to its flush.                       *)

Through(T, all, next) ==
  \/ T = all /\ phase' = next /\ UNCHANGED faults
  \/ T # all /\ phase' = "flush" /\ Fault

(* The mutant does not look whether the item is back. *)
NobodyBack == {}

(* A YAML candidate is found again by the cache key it was recorded with,  *)
(* which is that of a row only if there was one (known).                   *)
Back == {s \in Slots : cand[s].n > 0 /\ s[2] \in inv /\ cand[s].known}

CancelReturned(T) ==
  /\ phase = "cancel"
  /\ Through(T, Back, "observe")
  /\ cand' = [s \in Slots |-> IF s \in T THEN NoCandidate ELSE cand[s]]
  /\ absent' = [s \in Slots |->
       IF phase' = "observe" /\ s[2] \in inv THEN [n |-> 0, age |-> 0] ELSE absent[s]]
  /\ UNCHANGED <<outside, output, rows, job, mem, elig>>

More(n) == IF n < Required THEN n + 1 ELSE n

(* The mutant takes the first absence for the last one. *)
EligibleAtOnce(c) == c.n > 0
Eligible(c) == c.n >= Required /\ c.age >= Grace

(* observe_cleanup_candidate, for each slot of T; the first time it sets   *)
(* the key, which is that of a row for the items of keyed.                 *)
ObserveSlots(T, keyed) ==
  /\ cand' = [s \in Slots |->
       IF s \notin T THEN cand[s]
       ELSE [n |-> More(cand[s].n), age |-> cand[s].age,
             known |-> IF cand[s].n = 0 THEN s[2] \in keyed ELSE cand[s].known]]
  /\ absent' = [s \in Slots |->
       IF s \notin T THEN absent[s]
       ELSE [n |-> More(absent[s].n), age |-> absent[s].age]]
  /\ elig' = elig \union {s \in T : Eligible(cand'[s])}

Has(i) == mem[i] # "none"

(* The mutant forgets the seasons. *)
MissedTitles(S) == {i \in S \ inv : Parent[i] = i}

(* Titles with a row that Plex does not list, and seasons in the row of a  *)
(* show that Plex lists without them.                                      *)
Missed(S) == {i \in S \ inv : Parent[i] = i \/ Parent[i] \in inv \intersect S}
MissedRows == {"state"} \X Missed({i \in Items : Has(i)})
MissedEntries == {"yaml"} \X Missed(yaml)

Observe(T) ==
  /\ phase = "observe"
  /\ Through(T, MissedRows, "yaml")
  /\ ObserveSlots(T, Items)
  /\ UNCHANGED <<outside, output, rows, job, mem>>

(* The YAML entry of a title is matched with a row by its title and year,  *)
(* which cannot be read off the key of an edition.                         *)
KeyOfRow == {i \in Items : Parent[i] # i \/ (Has(i) /\ i \notin Editions)}

ObserveYaml(T) ==
  /\ phase = "yaml"
  /\ Through(T, MissedEntries, "write")
  /\ ObserveSlots(T, KeyOfRow)
  /\ UNCHANGED <<outside, output, rows, job, mem>>

Entries == {s[2] : s \in {e \in elig : e[1] = "yaml"}}

Remaining == {i \in yaml : i \notin Entries /\ Parent[i] \notin Entries}

(* One atomic replacement of the file, refused if it was changed since it  *)
(* was read.                                                               *)
WriteYaml ==
  /\ phase = "write" /\ phase' = "complete"
  /\ yaml' = Remaining
  /\ UNCHANGED <<outside, file, vault, rows, cand, job, mem, elig, absent, faults>>

WriteYamlFails ==
  /\ phase = "write" /\ Entries # {} /\ Fault /\ phase' = "flush"
  /\ UNCHANGED <<outside, output, rows, cand, job, mem, elig, absent>>

Forgotten(T) == [s \in Slots |-> IF s \in T THEN NoCandidate ELSE cand[s]]

(* A title whose key has no year is never completed. *)
Completable == {"yaml"} \X (Entries \ Editions)

CompleteYaml(T) ==
  /\ phase = "complete"
  /\ Through(T, Completable, "assets")
  /\ cand' = Forgotten(T)
  /\ UNCHANGED <<outside, output, rows, job, mem, elig, absent>>

StaleOwner(i) ==
  mem[i] = "owner" /\ ({<<"state", i>>, <<"state", Parent[i]>>} \intersect elig # {})

(* The mutant does not care whether a title lives in the folder. *)
StaleFilesAnywhere ==
  {f \in Files : file[f] = "art" /\ \E i \in Items : Dest[i] = f /\ StaleOwner(i)}

(* remove_asset: an eligible owner, the checksum MetaFusion recorded, and  *)
(* no live title in the folder, unless the file is that of a stale season. *)
StaleFiles ==
  {f \in Files :
     /\ file[f] = "art"
     /\ \E i \in Items : Dest[i] = f /\ StaleOwner(i)
     /\ \/ \E i \in Items \ Titles :
             Dest[i] = f /\ mem[i] = "owner" /\ <<"state", i>> \in MissedRows
        \/ \A i \in Items, t \in inv \intersect Titles :
             Dest[i] = f => Folder[t] # Folder[i]}

QuarantineAssets(F) ==
  /\ phase = "assets"
  /\ Through(F, StaleFiles, "state")
  /\ file' = [f \in Files |-> IF f \in F THEN "none" ELSE file[f]]
  /\ vault' = vault \union F
  /\ UNCHANGED <<outside, yaml, rows, cand, job, mem, elig, absent>>

StaleRows == {s \in elig : s[1] = "state" /\ Has(s[2])}

(* _apply_cache_changes: the row goes from memory, then the candidate.  If *)
(* the latter fails the row is gone and the candidate is not.              *)
RemoveRows(D, T) ==
  /\ phase = "state"
  /\ Cardinality(D \ T) <= 1
  /\ Through(T, StaleRows, "flush")
  /\ mem' = [i \in Items |->
       IF {<<"state", i>>, <<"state", Parent[i]>>} \intersect D # {} THEN "none" ELSE mem[i]]
  /\ cand' = Forgotten(T)
  /\ UNCHANGED <<outside, output, rows, job, elig, absent>>

Flush ==
  /\ phase = "flush" /\ phase' = "idle"
  /\ rows' = mem
  /\ elig' = {} /\ inv' = {} /\ full' = FALSE
  /\ UNCHANGED <<outside, output, cand, mem, absent, faults>>

(* The flush fails, or the process is killed at some point of the job. *)
Kill ==
  /\ phase # "idle" /\ Fault /\ phase' = "idle"
  /\ mem' = rows /\ elig' = {} /\ inv' = {} /\ full' = FALSE
  /\ UNCHANGED <<outside, output, rows, cand, absent>>

(* --cleanup-restore holds the run lock.  The file has no owner then. *)
Restore(f) ==
  /\ phase = "idle" /\ f \in vault /\ file[f] = "none"
  /\ file' = [file EXCEPT ![f] = "art"] /\ vault' = vault \ {f}
  /\ UNCHANGED <<outside, yaml, rows, cand, phase, job, mem, elig, absent, faults>>

CleanupStep ==
  \/ \E T \in SUBSET Back : CancelReturned(T)
  \/ \E T \in SUBSET MissedRows : Observe(T)
  \/ \E T \in SUBSET MissedEntries : ObserveYaml(T)
  \/ WriteYaml \/ WriteYamlFails
  \/ \E T \in SUBSET Completable : CompleteYaml(T)
  \/ \E F \in SUBSET StaleFiles : QuarantineAssets(F)
  \/ \E D \in SUBSET StaleRows : \E T \in SUBSET D : RemoveRows(D, T)

JobStep ==
  \/ WorkAll \/ (\E S \in SUBSET Items : WorkSome(S))
  \/ CleanupStep \/ Flush

Next ==
  \/ \E i \in Items : Leaves(i) \/ Returns(i)
  \/ \E f \in Files : UserArtwork(f) \/ Restore(f)
  \/ Tick \/ BeginFull \/ BeginIncremental \/ JobStep \/ Kill

Spec == Init /\ [][Next]_vars
FairSpec ==
  /\ Spec
  /\ WF_vars(JobStep) /\ SF_vars(BeginFull) /\ SF_vars(Tick)

-----------------------------------------------------------------------------
(* Properties *)

(* Full scans have missed it often enough, and for long enough, since one  *)
(* of them last saw it.                                                    *)
Confirmed(s) == absent[s].n >= Required /\ absent[s].age >= Grace

(* A state row disappears only after the configured number of full scans   *)
(* and the grace period without the item or its show, however often jobs   *)
(* failed, were killed, or saw it in between (observe_cleanup_candidate,   *)
(* cancel_cleanup_candidate).                                              *)
RowsConfirmed ==
  [][\A i \in Items :
       rows[i] # "none" /\ rows'[i] = "none" =>
         Confirmed(<<"state", i>>) \/ Confirmed(<<"state", Parent[i]>>)]_vars

(* The same for entries of the Kometa YAML (docs/policies.md:386).  Not so *)
(* for an edition, whose candidate no return cancels (see the README).     *)
EntriesConfirmed ==
  [][\A i \in Items :
       i \in yaml /\ i \notin yaml' =>
         Confirmed(<<"yaml", i>>) \/ Confirmed(<<"yaml", Parent[i]>>)]_vars

(* Artwork leaves its place only into quarantine, only if MetaFusion wrote *)
(* it for an item whose absence is confirmed, and not while an item of the *)
(* inventory owns it as well (remove_asset).                               *)
QuarantineIsJust ==
  [][\A f \in Files :
       file[f] # "none" /\ file'[f] = "none" =>
         /\ file[f] = "art" /\ f \in vault'
         /\ \E i \in Items : /\ Dest[i] = f /\ mem[i] = "owner"
                             /\ Confirmed(<<"state", i>>) \/ Confirmed(<<"state", Parent[i]>>)
         /\ \A i \in inv : Dest[i] = f => mem[i] # "owner"]_vars

(* What has left Plex for good is gone from the state and the YAML in the  *)
(* end, whatever failed on the way.                                        *)
Reconciled ==
  \A i \in Items :
    <>[](i \notin plex) => <>[](rows[i] = "none" /\ i \notin yaml)
=============================================================================
