----------------------------- MODULE MediaStore -----------------------------
(***************************************************************************)
(* MediaStateStore (helper/state_db.py) as a job uses it through           *)
(* helper/cache.py: SQLite rows below, pending writes, deletions and a     *)
(* preview's memory laid over them, a flush that writes all of it in one   *)
(* transaction, and the two operations that change the rows behind it      *)
(* between jobs, forgetting an artwork claim and rebinding a library.      *)
(*                                                                         *)
(* A value is what the store tells apart: the library that scopes it, one  *)
(* artwork destination of the item (root) and one of a season (season),    *)
(* and whether it carries a season_average, which a flush drops from       *)
(* shows.                                                                  *)
(***************************************************************************)
EXTENDS Naturals

CONSTANTS
  Keys, Libraries, Places,
  NoPlace, Absent,
  Shows,      \* keys of entries with media_type tv
  Rebindable, \* keys of entries an operator moves to another library
  Inputs      \* the values a job writes for a key

Claim == Places \union {NoPlace}
Value == [lib : Libraries, root : Claim, season : Claim, average : BOOLEAN]
Row == [lib : Libraries, root : Claim, average : BOOLEAN]

ASSUME StoreAssumption ==
  /\ Shows \subseteq Keys /\ Rebindable \subseteq Keys
  /\ NoPlace \notin Places /\ Absent \notin Value \union Row
  /\ Inputs \in [Keys -> SUBSET Value]
  /\ \A k \in Keys \ Shows : \A v \in Inputs[k] :
        v.season = NoPlace /\ ~v.average

NoClaims == [root |-> NoPlace, season |-> NoPlace]
Nothing == [k \in Keys |-> Absent]

VARIABLES
  media,    \* table media_state
  seasons,  \* table season_state: the destination of the season
  index,    \* table asset_ownership
  session,  \* "closed", or how the job opened the store
  pending,  \* MediaStateStore._pending
  memory,   \* MediaStateStore._memory
  deleted,  \* MediaStateStore._deleted
  tx        \* the transaction of a flush: the tables as it will leave them

db == <<media, seasons, index>>
overlay == <<pending, memory, deleted>>
vars == <<db, session, overlay, tx>>

NoTx == [open |-> FALSE, left |-> {}, media |-> Nothing,
         seasons |-> [k \in Keys |-> NoPlace],
         index |-> [k \in Keys |-> NoClaims]]

TypeOK ==
  /\ media \in [Keys -> Row \union {Absent}]
  /\ seasons \in [Keys -> Claim]
  /\ index \in [Keys -> [root : Claim, season : Claim]]
  /\ session \in {"closed", "writable", "preview"}
  /\ pending \in [Keys -> Value \union {Absent}]
  /\ memory \in [Keys -> Value \union {Absent}]
  /\ deleted \in SUBSET Keys
  /\ tx \in [open : BOOLEAN, left : SUBSET Keys,
             media : [Keys -> Row \union {Absent}],
             seasons : [Keys -> Claim],
             index : [Keys -> [root : Claim, season : Claim]]]

Init ==
  /\ media = Nothing
  /\ seasons = [k \in Keys |-> NoPlace]
  /\ index = [k \in Keys |-> NoClaims]
  /\ session = "closed"
  /\ pending = Nothing /\ memory = Nothing /\ deleted = {}
  /\ tx = NoTx

-----------------------------------------------------------------------------
(* Reading *)

DatabaseEntry(k) ==
  IF media[k] = Absent THEN Absent
  ELSE [lib |-> media[k].lib, root |-> media[k].root,
        season |-> seasons[k], average |-> media[k].average]

Get(k) ==
  IF k \in deleted THEN Absent
  ELSE IF pending[k] # Absent THEN pending[k]
  ELSE IF memory[k] # Absent THEN memory[k]
  ELSE DatabaseEntry(k)

InScope(v, lib) == v # Absent /\ v.lib = lib

(* The mutant does not take the deletions off the rows.                    *)
EntriesOfRows(lib) ==
  [k \in Keys |-> IF InScope(Get(k), lib) THEN Get(k)
                  ELSE IF InScope(media[k], lib) THEN DatabaseEntry(k) ELSE Absent]

(* The rows of the library, the overlays of the library on top of them,   *)
(* less what is deleted.                                                  *)
EntriesForScope(lib) ==
  [k \in Keys |->
     IF k \in deleted THEN Absent
     ELSE IF InScope(pending[k], lib) THEN pending[k]
     ELSE IF InScope(memory[k], lib) THEN memory[k]
     ELSE IF InScope(media[k], lib) THEN DatabaseEntry(k) ELSE Absent]

-----------------------------------------------------------------------------
(* A job *)

(* begin_cache_session.  It first closes a store the job before has left   *)
(* open, which is a step of its own here (Close).                          *)
BeginSession(how) ==
  /\ session = "closed"
  /\ session' = how
  /\ UNCHANGED <<db, overlay, tx>>

SetItem(k, v) ==
  /\ session # "closed" /\ ~tx.open
  /\ Get(k) # v
  /\ deleted' = deleted \ {k}
  /\ \/ /\ session = "preview"
        /\ memory' = [memory EXCEPT ![k] = v]
        /\ UNCHANGED pending
     \/ /\ session = "writable"
        /\ pending' = [pending EXCEPT ![k] = v]
        /\ UNCHANGED memory
  /\ UNCHANGED <<db, session, tx>>

(* Only cleanup deletes, and not in a dry run (modules/cleanup.py:425). *)
DelItem(k) ==
  /\ session = "writable" /\ ~tx.open
  /\ Get(k) # Absent
  /\ pending' = [pending EXCEPT ![k] = Absent]
  /\ memory' = [memory EXCEPT ![k] = Absent]
  /\ deleted' = deleted \union {k}
  /\ UNCHANGED <<db, session, tx>>

(* DELETE FROM media_state cascades to the other two tables. *)
IndexAfterDelete ==
  [k \in Keys |-> IF k \in deleted THEN NoClaims ELSE index[k]]

BeginFlush ==
  /\ session = "writable" /\ ~tx.open
  /\ deleted # {} \/ pending # Nothing
  /\ tx' = [open |-> TRUE,
            left |-> {k \in Keys : pending[k] # Absent},
            media |-> [k \in Keys |-> IF k \in deleted THEN Absent ELSE media[k]],
            seasons |-> [k \in Keys |-> IF k \in deleted THEN NoPlace ELSE seasons[k]],
            index |-> IndexAfterDelete]
  /\ UNCHANGED <<db, session, overlay>>

AssetRows(v) == [root |-> v.root, season |-> v.season]
RowOf(k, v) ==
  [lib |-> v.lib, root |-> v.root, average |-> v.average /\ k \notin Shows]

FlushRow(k) ==
  /\ tx.open /\ k \in tx.left
  /\ tx' = [tx EXCEPT !.left = @ \ {k},
                      !.media[k] = RowOf(k, pending[k]),
                      !.seasons[k] = pending[k].season,
                      !.index[k] = AssetRows(pending[k])]
  /\ UNCHANGED <<db, session, overlay>>

CommitFlush ==
  /\ tx.open /\ tx.left = {}
  /\ media' = tx.media /\ seasons' = tx.seasons /\ index' = tx.index
  /\ pending' = Nothing /\ deleted' = {}
  /\ tx' = NoTx
  /\ UNCHANGED <<session, memory>>

(* The mutant forgets the pending writes of a transaction that failed.     *)
DropOverlay ==
  /\ pending' = Nothing /\ deleted' = {}
  /\ UNCHANGED memory
KeepOverlay == UNCHANGED overlay

(* A statement fails and SQLite rolls back; the job may flush again. *)
FlushFails ==
  /\ tx.open
  /\ tx' = NoTx
  /\ KeepOverlay
  /\ UNCHANGED <<db, session>>

(* The job is over, or the process has been killed. *)
Close ==
  /\ session # "closed"
  /\ session' = "closed"
  /\ pending' = Nothing /\ memory' = Nothing /\ deleted' = {}
  /\ tx' = NoTx
  /\ UNCHANGED db

-----------------------------------------------------------------------------
(* The operator, between jobs *)

(* remove_asset_ownership, for the poster and for the season. *)
ForgetRoot(k) ==
  /\ session = "closed" /\ media[k] # Absent
  /\ media' = [media EXCEPT ![k].root = NoPlace]
  /\ index' = [index EXCEPT ![k].root = NoPlace]
  /\ UNCHANGED <<seasons, session, overlay, tx>>

ForgetSeason(k) ==
  /\ session = "closed" /\ media[k] # Absent
  /\ seasons' = [seasons EXCEPT ![k] = NoPlace]
  /\ index' = [index EXCEPT ![k].season = NoPlace]
  /\ UNCHANGED <<media, session, overlay, tx>>

Takes(mine, theirs) == IF mine = NoPlace THEN theirs ELSE mine
Conflict(mine, theirs) == mine # NoPlace /\ theirs # NoPlace /\ mine # theirs

(* apply_library_rebinding for one ready proposal.  The payloads it merges *)
(* are those of media_state, which hold no seasons; the rows of the old    *)
(* identity go last, and take its season rows with them.                   *)
Rebind(k, l) ==
  /\ session = "closed" /\ k # l
  /\ {k, l} \subseteq Rebindable /\ (k \in Shows <=> l \in Shows)
  /\ media[k] # Absent /\ media[l] # Absent /\ media[k].lib # media[l].lib
  /\ ~Conflict(index[l].root, index[k].root)
  /\ ~Conflict(index[l].season, index[k].season)
  /\ media' = [media EXCEPT ![l].root = Takes(@, media[k].root), ![k] = Absent]
  /\ seasons' = [seasons EXCEPT ![k] = NoPlace]
  /\ index' = [index EXCEPT
       ![l] = [root |-> Takes(@.root, index[k].root),
               season |-> Takes(@.season, index[k].season)],
       ![k] = NoClaims]
  /\ UNCHANGED <<session, overlay, tx>>

Next ==
  \/ \E how \in {"writable", "preview"} : BeginSession(how)
  \/ \E k \in Keys : \E v \in Inputs[k] : SetItem(k, v)
  \/ \E k \in Keys : DelItem(k) \/ FlushRow(k) \/ ForgetRoot(k) \/ ForgetSeason(k)
  \/ BeginFlush \/ CommitFlush \/ FlushFails \/ Close
  \/ \E k, l \in Keys : Rebind(k, l)

Spec == Init /\ [][Next]_vars

-----------------------------------------------------------------------------
(* Properties *)

Saved(k, v) ==
  IF v = Absent THEN Absent ELSE [v EXCEPT !.average = @ /\ k \notin Shows]
Merge(v, w) ==
  [lib |-> w.lib, root |-> Takes(w.root, v.root),
   season |-> Takes(w.season, v.season), average |-> w.average]

Map == INSTANCE MediaMap WITH
  Values <- Value, Stored <- Saved, Merged <- Merge,
  seen <- [k \in Keys |-> Get(k)],
  kept <- [k \in Keys |-> DatabaseEntry(k)],
  mode <- session

(* The store is the mapping it promises to be: what was written is read    *)
(* until the job ends, a flush saves all of it or nothing, a preview       *)
(* saves nothing, and rebinding an identity loses no claim                 *)
(* (MediaStateStore, apply_library_rebinding).                             *)
Implements == Map!Spec

(* asset_ownership, from which the artwork claims of the next job are      *)
(* built, has every claim the rows of an item make, and none that they do  *)
(* not: a row rewritten, deleted, forgotten or rebound takes its claims    *)
(* with it.  Only for a season of a show that may have been rebound can    *)
(* the index claim a place the rows do not, because apply_library_rebinding *)
(* moves the claim and drops the season's row.                             *)
IndexAgrees ==
  \A k \in Keys :
    /\ media[k] = Absent => index[k] = NoClaims /\ seasons[k] = NoPlace
    /\ media[k] # Absent => index[k].root = media[k].root
    /\ seasons[k] \in {NoPlace, index[k].season}
    /\ seasons[k] = index[k].season \/ k \in Shows \intersect Rebindable

(* Planning a library reads the current value of every item in it, saved   *)
(* or not, and never one that has been deleted (entries_for_scope).        *)
ScopeReads ==
  \A k \in Keys, lib \in Libraries :
    /\ InScope(Get(k), lib) => EntriesForScope(lib)[k] = Get(k)
    /\ Get(k) = Absent => EntriesForScope(lib)[k] = Absent

(* Rebinding transfers the artwork ownership of the old identity           *)
(* (docs/lifecycle-management.md:178): whatever it claimed, the new one    *)
(* claims as well.  Not so for a show with seasons (see the README).       *)
RebindKeepsClaims ==
  [][\A k, l \in Keys :
       Rebind(k, l) =>
         /\ DatabaseEntry(k).root \in {NoPlace, DatabaseEntry(l).root'}
         /\ DatabaseEntry(k).season \in {NoPlace, DatabaseEntry(l).season'}]_vars
=============================================================================
