---------------------------- MODULE KometaOutput ----------------------------
(***************************************************************************)
(* What MetaFusion does to the metadata files Kometa reads: a job takes    *)
(* the fingerprint of a file, reads it, merges into it what TMDb has for   *)
(* the items of one library after the other, and puts the result in the    *)
(* place of the file it fingerprinted; then it saves where each value came *)
(* from.  An operator may take an entry out between jobs.  The user edits  *)
(* the same files at any time, and a job may be killed at any step.        *)
(*                                                                         *)
(* A field of an entry has a place, the numbers of its season and episode  *)
(* if it has them, and a key.  All that TMDb has for an item changes at    *)
(* once.  The keys of other fields, the order of fields, the selector of   *)
(* an entry and the names of entries are left out: an entry is its item's. *)
(***************************************************************************)
EXTENDS Identity

CONSTANTS
  LibraryOrder, \* the libraries in the order a job processes them
  LibraryOf,    \* the library of each item
  TypeOf,       \* the type of each library; libraries of a type share a file
  Paths,        \* the fields an entry may have
  Inventories,  \* the seasons and episodes each item may have in Plex
  States,       \* the states each TMDb record may be in
  BackupCount,  \* OUTPUT_BACKUP_COUNT
  MaxChanges,   \* bound on what the user, the operator, Plex and TMDb do, and on
                \* jobs of some items only
  MaxFaults     \* bound on failures and kills

Libraries == Range(LibraryOrder)
Types == {TypeOf[l] : l \in Libraries}
FileOf(i) == TypeOf[LibraryOf[i]]

User == "user"    \* a value the user gave
Old == "old"      \* a value an older build of MetaFusion gave
Sources == UNION {States[r] : r \in Records}
Values == Sources \cup {None, User, Old}

Place(p) == p.place
Key(p) == p.key

Manual == "note"
Deprecated == "runtime"
TagKey(tags) == IF tags = "sync" THEN "genre.sync" ELSE "genre"

ASSUME KometaAssumption ==
  /\ LibraryOrder \in Seq(Libraries) /\ IsInjective(LibraryOrder)
  /\ LibraryOf \in [Items -> Libraries]
  /\ Paths \subseteq [place : Seq(Nat), key : STRING]
  /\ \A r \in Records : States[r] # {}
  /\ {None, User, Old} \cap Sources = {}
  /\ BackupCount \in Nat /\ MaxChanges \in Nat /\ MaxFaults \in Nat

VARIABLES
  file,      \* the metadata file of each type
  backups,   \* .metafusion-backups, the oldest first
  ledger,    \* metadata_field_provenance
  source,    \* the state of each TMDb record
  holds,     \* the seasons and episodes each item has in Plex
  policy,    \* KOMETA_TAG_POLICY
  at,        \* where the job or the operator's command is
  libs,      \* the libraries the job has yet to process, the present one first
  left,      \* items it has yet to process
  read,      \* inventories its workers have read
  target,    \* the type of the file it has open
  snap,      \* output_snapshot
  base,      \* original_yaml_data
  doc,       \* consolidated_metadata
  copy,      \* the backup the write under way has taken
  good,      \* it has succeeded so far
  entries,   \* records of the present library
  records,   \* _metadata_provenance_records
  changes, faults,
  dropped,   \* history: fields the job has left out of a document on purpose
  raced,     \* history: the user changed a file while it was being replaced
  touched    \* history: fields the user changed during the job

disk == <<file, backups, ledger>>
world == <<source, holds, policy>>
open == <<target, snap, base, doc, copy, good>>
job == <<at, libs, left, read, entries, records>>
bounds == <<changes, faults>>
history == <<dropped, raced, touched>>
vars == <<disk, world, open, job, bounds, history, identity>>

Blank == [p \in Paths |-> None]
Empty == [i \in Items |-> Blank]
NoFile == [state |-> "none", text |-> Empty]
Whole(text) == [state |-> "whole", text |-> text]
Broken == [state |-> "broken", text |-> Empty]   \* no valid document
Unread == {<<>>}   \* the inventory of an item no worker has read

Documents == [Items -> [Paths -> Values]]
Files == [state : {"none", "whole", "broken"}, text : Documents]
Shares == [Items -> [Paths -> Values] \cup {<<>>}]   \* what some items are given
Phases ==
  {"idle", "snapshot", "read", "items", "check", "backup", "replace", "reread", "restore",
   "restoring", "prune", "flush", "fingerprint"}

OutputTypeOK ==
  /\ file \in [Types -> Files] /\ backups \in [Types -> Seq(Files)] /\ ledger \in Documents
  /\ source \in [Records -> Sources] /\ \A r \in Records : source[r] \in States[r]
  /\ DOMAIN holds = Items /\ \A i \in Items : holds[i] \in Inventories[i]
  /\ DOMAIN read = Items /\ \A i \in Items : read[i] \in Inventories[i] \cup {{}, Unread}
  /\ policy \in {"append", "sync"} /\ at \in Phases
  /\ libs \in Seq(Libraries) /\ left \subseteq Items /\ target \in Types \cup {None}
  /\ {snap, copy} \subseteq Files /\ {base, doc} \subseteq Documents /\ good \in BOOLEAN
  /\ entries \in Shares /\ records \in Shares
  /\ changes \in 0..MaxChanges /\ faults \in 0..MaxFaults
  /\ dropped \subseteq Items \X Paths /\ touched \subseteq Items \X Paths /\ raced \in BOOLEAN

TypeOK == OutputTypeOK /\ IdentityTypeOK

-----------------------------------------------------------------------------
(* The merge of one entry                                                  *)

(* Numeric seasons and episodes that an inventory does not have.  A movie   *)
(* has no inventory: nothing of its entry is Gone.                         *)
Everything == {Place(p) : p \in Paths}
Gone(p, inventory) == Place(p) # <<>> /\ Place(p) \notin inventory

(* The other form of a tag field, appended to Plex's or replacing them.    *)
Alternate(p) ==
  [p EXCEPT !.key = IF @ = "genre" THEN "genre.sync" ELSE IF @ = "genre.sync" THEN "genre" ELSE @]

Own(keys) == {p \in Paths : Place(p) = <<>> /\ Key(p) \in keys}

(* _build_movie: the fields it generates, with or without a value.         *)
MovieFields == Own({"summary", TagKey(policy)})

(* _build_tv: those of the show, unless it is split over TMDb series, and  *)
(* process_season: those of its seasons and episodes in Plex.              *)
ShowFields(i) == IF i \in Preserved THEN {} ELSE Own({"summary", TagKey(policy)})
SeasonFields(inventory) == {p \in Paths : Place(p) \in inventory /\ Key(p) = "title"}

IsMovie(i) == FileOf(i) = "movie"
Fields(i, inventory) ==
  IF IsMovie(i) THEN MovieFields ELSE ShowFields(i) \cup SeasonFields(inventory)

Generated(i, inventory, missing) ==
  [p \in Paths |-> IF p \in Fields(i, inventory) \ missing THEN source[chosen[i]] ELSE None]

\* The mutant prefers what the file has.
MergeKeeping(existing, generated, inventory) ==
  [p \in Paths |->
     IF Gone(p, inventory) \/ Key(p) = Deprecated THEN None
     ELSE IF existing[p] # None THEN existing[p] ELSE generated[p]]

(* _merge_fields at every level, and what merge_generated_metadata removes *)
Merge(existing, generated, inventory) ==
  [p \in Paths |->
     IF Gone(p, inventory) \/ Key(p) = Deprecated THEN None
     ELSE IF generated[p] # None THEN generated[p]
     ELSE IF Alternate(p) # p /\ Alternate(p) \in Paths /\ generated[Alternate(p)] # None THEN None
     ELSE existing[p]]

(* remove_deprecated_metadata_fields                                       *)
WithoutDeprecated(text) ==
  [i \in Items |-> [p \in Paths |-> IF Key(p) = Deprecated THEN None ELSE text[i][p]]]

(* validate_metadata_document, for a type of library                       *)
Valid(text) == \A i \in Items, p \in Paths : Key(p) = Deprecated => text[i][p] = None

(* kometa_provenance_records: a value for every generated field            *)
Explained(i, inventory, merged) ==
  [p \in Paths |-> IF p \in Fields(i, inventory) THEN merged[p] ELSE None]

-----------------------------------------------------------------------------
(* A job                                                                   *)

Nothing == [i \in Items |-> <<>>]
Idle ==
  /\ at' = "idle" /\ libs' = <<>> /\ left' = {} /\ read' = [i \in Items |-> Unread]
  /\ entries' = Nothing /\ records' = Nothing
Closed == target' = None /\ snap' = NoFile /\ base' = Empty /\ doc' = Empty /\ copy' = NoFile /\ good' = TRUE

(* An entry an older build wrote and the user added to.                    *)
Earlier ==
  [p \in Paths |-> IF Key(p) = Manual THEN User
                  ELSE IF p \in Own({"summary", Deprecated}) THEN Old ELSE None]

(* MetaFusion is new, or it has been in use before.                        *)
Init ==
  /\ \/ file = [t \in Types |-> NoFile] /\ override = [i \in Items |-> None]
     \/ /\ file = [t \in Types |-> Whole([i \in Items |-> IF FileOf(i) = t THEN Earlier ELSE Blank])]
        /\ override = Overrides
  /\ IdentityInit
  /\ backups = [t \in Types |-> <<>>] /\ ledger = Empty
  /\ source = [r \in Records |-> CHOOSE v \in States[r] : TRUE]
  /\ holds \in [Items -> UNION {Inventories[i] : i \in Items}]
  /\ \A i \in Items : holds[i] \in Inventories[i]
  /\ policy = "append"
  /\ at = "idle" /\ libs = <<>> /\ left = {} /\ read = [i \in Items |-> Unread]
  /\ entries = Nothing /\ records = Nothing
  /\ target = None /\ snap = NoFile /\ base = Empty /\ doc = Empty /\ copy = NoFile /\ good = TRUE
  /\ changes = 0 /\ faults = 0
  /\ dropped = {} /\ raced = FALSE /\ touched = {}

(* run_metafusion_job, with the items its plan selects.  The jobs that     *)
(* select some of the items are counted.                                   *)
StartJob(selected) ==
  /\ at = "idle" /\ selected # {}
  /\ changes' = changes + IF selected = Items THEN 0 ELSE 1
  /\ changes' <= MaxChanges
  /\ at' = "snapshot" /\ libs' = LibraryOrder /\ left' = selected
  /\ dropped' = {} /\ touched' = {}
  /\ UNCHANGED <<disk, world, open, read, entries, records, faults, raced, identity>>

Here == {i \in left : LibraryOf[i] = Head(libs)}

(* A library is left behind, with its records or, when it failed, without. *)
Leave(kept) ==
  /\ Closed
  /\ libs' = Tail(libs) /\ entries' = Nothing
  /\ left' = left \ Here
  /\ records' = [i \in Items |-> IF kept[i] = <<>> THEN records[i] ELSE kept[i]]
  /\ at' = IF Len(libs) = 1 THEN "flush" ELSE "snapshot"

(* process_library: nothing of the library is due.                         *)
SkipLibrary ==
  /\ at = "snapshot" /\ Here = {} /\ Leave(Nothing)
  /\ UNCHANGED <<disk, world, read, bounds, history>>

(* process_library: _output_snapshot                                       *)
Snapshot ==
  /\ at = "snapshot" /\ Here # {}
  /\ target' = TypeOf[Head(libs)] /\ snap' = file[target'] /\ at' = "read"
  /\ raced' = FALSE
  /\ UNCHANGED <<disk, world, base, doc, copy, good, libs, left, read, entries, records, bounds, dropped, touched>>

(* process_library: _read_existing_metadata                                *)
ReadOutput ==
  /\ at = "read"
  /\ IF file[target].state = "broken" THEN Leave(Nothing)
     ELSE /\ base' = file[target].text /\ doc' = WithoutDeprecated(base') /\ at' = "items"
          /\ UNCHANGED <<target, snap, copy, good, libs, left, entries, records>>
  /\ UNCHANGED <<disk, world, read, bounds, history>>

(* get_plex_metadata: the episodes of the item are read.  When that fails  *)
(* the item goes on with none.                                             *)
ReadItem(i) ==
  /\ at = "items" /\ i \in Here /\ read[i] = Unread
  /\ \/ read' = [read EXCEPT ![i] = holds[i]] /\ UNCHANGED faults
     \/ /\ faults < MaxFaults /\ holds[i] # {}
        /\ read' = [read EXCEPT ![i] = {}] /\ faults' = faults + 1
  /\ ReadIdentity(i)
  /\ UNCHANGED <<disk, world, open, at, libs, left, entries, records, changes, history>>

(* _build_movie and _build_tv: the item is taken for a TMDb record.        *)
Identify(i) ==
  /\ at = "items" /\ i \in Here /\ read[i] # Unread /\ chosen[i] = None
  /\ \E answered \in BOOLEAN :
       /\ ~answered => faults < MaxFaults
       /\ faults' = IF answered THEN faults ELSE faults + 1
       /\ \E way \in Resolved(i, answered) : Settle(i, way[1], way[2])
  /\ UNCHANGED <<disk, world, open, job, changes, history>>

(* process_and_collect: the item is built from what TMDb has a value for,  *)
(* all of it but for some fields, and its entry collected.                 *)
Collect(i, missing, merged) ==
  /\ missing # {} => faults < MaxFaults
  /\ faults' = IF missing = {} THEN faults ELSE faults + 1
  /\ doc' = [doc EXCEPT ![i] = merged]
  /\ entries' = [entries EXCEPT ![i] = Explained(i, read[i], merged)]
  /\ left' = left \ {i} /\ read' = [read EXCEPT ![i] = Unread]
  /\ Release(i)
  /\ UNCHANGED <<disk, world, target, snap, base, copy, good, at, libs, records, changes, raced, touched>>

Ready(i) == at = "items" /\ i \in Here /\ chosen[i] # None

(* _build_movie                                                            *)
BuildMovie(i) ==
  /\ Ready(i) /\ IsMovie(i)
  /\ \E missing \in SUBSET MovieFields :
       Collect(i, missing, Merge(doc[i], Generated(i, {}, missing), Everything))
  /\ UNCHANGED dropped

(* _build_tv: what Plex was read to have is authoritative.                 *)
BuildShow(i) ==
  /\ Ready(i) /\ ~IsMovie(i)
  /\ \E missing \in SUBSET Fields(i, read[i]) :
       Collect(i, missing, Merge(doc[i], Generated(i, read[i], missing), read[i]))
  /\ dropped' = dropped \cup {<<i, p>> : p \in {q \in Paths : Gone(q, read[i])}}

(* Without an acceptable TMDb record, or when TMDb gives no details, the    *)
(* entry of the item is left as it is.                                     *)
Rejected(i) ==
  /\ at = "items" /\ i \in Here /\ read[i] # Unread /\ chosen[i] = None
  /\ IF Resolved(i, TRUE) = {} THEN UNCHANGED faults
     ELSE faults < MaxFaults /\ faults' = faults + 1
  /\ left' = left \ {i} /\ read' = [read EXCEPT ![i] = Unread]
  /\ Unsettled(i)
  /\ UNCHANGED <<disk, world, open, at, libs, entries, records, changes, history>>

(* _build_movie, _build_tv                                                 *)
RejectMovie(i) == IsMovie(i) /\ Rejected(i)
RejectShow(i) == ~IsMovie(i) /\ Rejected(i)

(* process_library: every item is done, and the document is as it was.     *)
NothingToWrite ==
  /\ at = "items" /\ Here = {} /\ doc = base
  /\ Leave(entries)
  /\ UNCHANGED <<disk, world, read, bounds, history>>

(* process_library: every item is done, and the document is to be written. *)
BeginWrite ==
  /\ at = "items" /\ Here = {} /\ doc # base
  /\ at' = "check"
  /\ UNCHANGED <<disk, world, open, libs, left, read, entries, records, bounds, history>>

-----------------------------------------------------------------------------
(* write_kometa_metadata                                                   *)

\* The mutant keeps the records of a library whose write failed.
ReturnRegardless(succeeded) ==
  IF libs = <<>> THEN Idle /\ Closed ELSE Leave(entries) /\ UNCHANGED read

(* The file is replaced, or nothing happens to it, and the caller goes on. *)
Return(succeeded) ==
  IF libs = <<>> THEN Idle /\ Closed
  ELSE Leave(IF succeeded THEN entries ELSE Nothing) /\ UNCHANGED read

\* The mutant does not compare the file with its fingerprint.
NeverLooks == TRUE

(* The document is valid and the file is still the one of the fingerprint. *)
Unchanged == file[target] = snap

Check ==
  /\ at = "check"
  /\ IF Valid(doc) /\ Unchanged
     THEN at' = "backup" /\ UNCHANGED <<open, libs, left, read, entries, records>>
     ELSE Return(FALSE)
  /\ UNCHANGED <<disk, world, bounds, history>>

Backup ==
  /\ at = "backup"
  /\ at' = "replace"
  /\ IF file[target].state # "none" /\ BackupCount > 0
     THEN copy' = file[target] /\ backups' = [backups EXCEPT ![target] = Append(@, copy')]
     ELSE UNCHANGED <<copy, backups>>
  /\ UNCHANGED <<file, ledger, world, target, snap, base, doc, good, libs, left, read, entries, records, bounds, history>>

(* atomic_write_yaml                                                       *)
Replace ==
  /\ at = "replace"
  /\ file' = [file EXCEPT ![target] = Whole(doc)] /\ at' = "reread"
  /\ UNCHANGED <<backups, ledger, world, open, libs, left, read, entries, records, bounds, history>>

ReplaceFails ==
  /\ at = "replace" /\ faults < MaxFaults
  /\ faults' = faults + 1 /\ at' = "prune" /\ good' = FALSE
  /\ UNCHANGED <<disk, world, target, snap, base, doc, copy, libs, left, read, entries, records, changes, history>>

Reread ==
  /\ at = "reread" /\ file[target].state = "whole" /\ Valid(file[target].text)
  /\ at' = "prune"
  /\ UNCHANGED <<disk, world, open, libs, left, read, entries, records, bounds, history>>

(* What was written is no valid document, or cannot be read.               *)
RereadFails ==
  /\ at = "reread"
  /\ IF file[target].state = "whole" /\ Valid(file[target].text)
     THEN faults < MaxFaults /\ faults' = faults + 1 ELSE UNCHANGED faults
  /\ good' = FALSE /\ at' = "restore"
  /\ UNCHANGED <<disk, world, target, snap, base, doc, copy, libs, left, read, entries, records, changes, history>>

(* The copy taken is copied back, in place; without one the file goes.     *)
Restore ==
  /\ at = "restore"
  /\ IF copy # NoFile
     THEN file' = [file EXCEPT ![target] = Broken] /\ at' = "restoring"
     ELSE file' = [file EXCEPT ![target] = NoFile] /\ at' = "prune"
  /\ UNCHANGED <<backups, ledger, world, open, libs, left, read, entries, records, bounds, history>>

Restored ==
  /\ at = "restoring"
  /\ file' = [file EXCEPT ![target] = copy] /\ at' = "prune"
  /\ UNCHANGED <<backups, ledger, world, open, libs, left, read, entries, records, bounds, history>>

(* _prune_backups, and the return to the caller                            *)
Prune ==
  /\ at = "prune"
  /\ backups' = [backups EXCEPT ![target] =
       IF copy # NoFile /\ Len(@) > BackupCount THEN SubSeq(@, Len(@) - BackupCount + 1, Len(@)) ELSE @]
  /\ Return(good)
  /\ UNCHANGED <<file, ledger, world, bounds, history>>

-----------------------------------------------------------------------------
(* The end of a job                                                        *)

(* save_metadata_provenance, whose failure is only logged                  *)
Saved(succeeds) ==
  LET Told == {i \in Items : records[i] # <<>>}
  IN  IF succeeds
      THEN ledger' = [i \in Items |-> IF i \in Told THEN records[i] ELSE ledger[i]]
      ELSE UNCHANGED ledger

Flush ==
  /\ at = "flush"
  /\ \E saved, flushed \in BOOLEAN :
       /\ Saved(saved) /\ KeepIdentity(flushed)
       /\ faults' = faults + IF saved /\ flushed THEN 0 ELSE 1
       /\ faults' <= MaxFaults
  /\ Idle /\ Closed
  /\ UNCHANGED <<file, backups, world, changes, history>>

Kill ==
  /\ at # "idle" /\ faults < MaxFaults
  /\ faults' = faults + 1
  /\ Idle /\ Closed /\ LoseIdentity
  /\ UNCHANGED <<disk, world, changes, history>>

-----------------------------------------------------------------------------
(* The operator, the user, Plex and TMDb                                   *)

(* apply_output_management: the operator, between jobs, has the entry of   *)
(* an item taken out.  The document is read and then fingerprinted.        *)
OperatorReads(i) ==
  LET t == FileOf(i)
  IN  /\ at = "idle" /\ file[t].state = "whole" /\ file[t].text[i] # Blank
      /\ changes < MaxChanges /\ changes' = changes + 1
      /\ at' = "fingerprint" /\ target' = t
      /\ base' = file[t].text /\ doc' = [base' EXCEPT ![i] = Blank]
      /\ dropped' = {i} \X Paths /\ raced' = FALSE /\ touched' = {}
      /\ UNCHANGED <<disk, world, snap, copy, good, libs, left, read, entries, records, faults>>

OperatorFingerprints ==
  /\ at = "fingerprint"
  /\ IF file[target].state = "none" THEN Idle /\ Closed
     ELSE snap' = file[target] /\ at' = "check"
          /\ UNCHANGED <<target, base, doc, copy, good, libs, left, read, entries, records>>
  /\ UNCHANGED <<disk, world, bounds, history>>

(* From here on nobody looks again whether the file is the one expected.   *)
Committed == at \in {"fingerprint", "backup", "replace", "reread", "restore", "restoring"}

UserChanges(t, new) ==
  /\ changes < MaxChanges /\ changes' = changes + 1
  /\ new # file[t] /\ file' = [file EXCEPT ![t] = new]
  /\ raced' = (raced \/ Committed)
  /\ touched' = touched \cup
       {cell \in Items \X Paths : new.text[cell[1]][cell[2]] # file[t].text[cell[1]][cell[2]]}
  /\ UNCHANGED <<backups, ledger, world, open, job, faults, dropped>>

(* The user writes or empties a field, breaks or removes the file, or puts *)
(* a backup in its place.                                                  *)
UserEdits(t) ==
  \/ \E i \in Items, p \in Paths, v \in {None, User} :
       /\ FileOf(i) = t /\ file[t].state = "whole" /\ Key(p) \in {Manual, "summary"}
       /\ UserChanges(t, [file[t] EXCEPT !.text[i][p] = v])
  \/ UserChanges(t, Broken)
  \/ UserChanges(t, NoFile)
  \/ \E n \in DOMAIN backups[t] : UserChanges(t, backups[t][n])

PolicyChanges ==
  /\ at = "idle" /\ changes < MaxChanges /\ changes' = changes + 1
  /\ policy' = IF policy = "sync" THEN "append" ELSE "sync"
  /\ UNCHANGED <<disk, source, holds, open, job, faults, history>>

TMDbChanges(r) ==
  /\ changes < MaxChanges /\ changes' = changes + 1
  /\ \E v \in States[r] \ {source[r]} : source' = [source EXCEPT ![r] = v]
  /\ UNCHANGED <<disk, holds, policy, open, job, faults, history>>

PlexChanges(i) ==
  /\ changes < MaxChanges /\ changes' = changes + 1
  /\ \E v \in Inventories[i] \ {holds[i]} : holds' = [holds EXCEPT ![i] = v]
  /\ UNCHANGED <<disk, source, policy, open, job, faults, history>>

(* An override is the operator's, who waits for the job.                   *)
IdentityChanges ==
  /\ changes < MaxChanges /\ changes' = changes + 1
  /\ \/ \E r \in Records : Retire(r)
     \/ \E i \in Items : Rematch(i)
     \/ at = "idle" /\ \E i \in Items : Override(i)
  /\ UNCHANGED <<disk, world, open, job, faults, history>>

-----------------------------------------------------------------------------
OutputStep ==
  \/ SkipLibrary \/ Snapshot \/ ReadOutput \/ NothingToWrite \/ BeginWrite
  \/ Check \/ Backup \/ Replace \/ ReplaceFails \/ Reread \/ RereadFails
  \/ Restore \/ Restored \/ Prune
  \/ OperatorFingerprints

ItemStep(i) ==
  ReadItem(i) \/ Identify(i) \/ BuildMovie(i) \/ BuildShow(i) \/ RejectMovie(i) \/ RejectShow(i)

JobStep ==
  \/ OutputStep /\ UNCHANGED identity
  \/ \E i \in Items : ItemStep(i)
  \/ Flush

OthersStep ==
  \/ \E i \in Items : OperatorReads(i) \/ PlexChanges(i)
  \/ \E r \in Records : TMDbChanges(r)
  \/ \E t \in Types : UserEdits(t)
  \/ PolicyChanges

Next ==
  \/ \E selected \in SUBSET Items : StartJob(selected)
  \/ JobStep
  \/ Kill
  \/ OthersStep /\ UNCHANGED identity
  \/ IdentityChanges

Spec == Init /\ [][Next]_vars

(* A job takes its next step, and every item is due again and again.       *)
FairSpec == Spec /\ WF_vars(JobStep) /\ SF_vars(StartJob(Items))

-----------------------------------------------------------------------------
Lost(i, p) ==
  LET t == FileOf(i) IN file[t].text[i][p] # None /\ file'[t].text[i][p] = None

(* A write that failed is undone.  What the file had is in the copy taken. *)
Undone(i, p) ==
  LET t == FileOf(i)
  IN  /\ target = t /\ ~good
      /\ \/ snap.text[i][p] = None
         \/ \E n \in DOMAIN backups[t] : backups[t][n].text[i][p] # None

(* A field of the user's or of an earlier run leaves a file by the user's  *)
(* hand, because the season or episode it is of was not in the inventory   *)
(* its item was processed with, or with the entry an operator takes out;   *)
(* never because TMDb has no value for it, because another library or an   *)
(* earlier reading of the file is written over it, or because a write      *)
(* fails half-way (merge_generated_metadata, write_kometa_metadata).  An   *)
(* edit made while the file is being replaced is the exception, and so is  *)
(* one made between the fingerprint and the reading, and undone since.     *)
FieldsKept ==
  [][\A i \in Items, p \in Paths : Lost(i, p) =>
       \/ changes' # changes \/ raced \/ base # snap.text
       \/ <<i, p>> \in dropped \/ Key(p) = Deprecated
       \/ \E q \in Paths : q = Alternate(p) /\ q # p /\ file'[FileOf(i)].text[i][q] # None
       \/ Undone(i, p)]_vars

(* What the provenance ledger says of an item when a job saves it is what  *)
(* the file holds, but for what the user has changed during that job: the  *)
(* records of a library whose write failed are not saved                   *)
(* (process_library, save_metadata_provenance).                            *)
LedgerTrue ==
  [][\A i \in Items, p \in Paths :
       /\ ledger'[i] # ledger[i] /\ ledger'[i][p] # None /\ <<i, p>> \notin touched
       => ledger'[i][p] = file[FileOf(i)].text[i][p]]_vars

(* The TMDb values a job puts in the entry of an item are of a record of   *)
(* the title Plex had for it when the job read it, or of the record the    *)
(* operator names: what was learned of an item no longer counts when Plex  *)
(* takes it for another title (apply_learned_tmdb_identity,                *)
(* apply_cached_tmdb_recovery, tmdb_external_id_consensus).                *)
RightTitle ==
  [][\A i \in Items, p \in Paths :
       LET v == doc'[i][p]
       IN  /\ chosen[i] # None /\ chosen'[i] = None /\ v # doc[i][p] /\ v \in Sources
           => \E r \in Right(i, seen[i]) : v \in States[r]]_vars

(* TMDb has a record for the item, and Plex an id that leads to it.        *)
Leads(i) ==
  IF Overridden(i) THEN override[i] \in live
  ELSE \E r \in live \cap OfTitle(i, plex[i]) :
         /\ r = plex[i].tmdb \/ ExternalOf[r] = plex[i].external
         /\ plex[i].year # 0 /\ YearOf[r] # 0 => YearOf[r] - plex[i].year \in -1..1

Follows(i) ==
  \E r \in live \cap Right(i, plex[i]) :
    \A p \in Fields(i, holds[i]) : file[FileOf(i)].text[i][p] = source[r]

Readable == <>[](\A t \in Types : file[t].state # "broken")

(* When the user leaves the files readable they come to hold what TMDb has *)
(* for every item Plex holds, whatever failed, was killed or was lost on   *)
(* the way, and also when TMDb retires the record an item was taken for    *)
(* and has another of its title (process_library,                          *)
(* tmdb_details_with_recovery).                                            *)
FilesFollow == Readable => <>[](\A i \in Items : Leads(i) => Follows(i))
=============================================================================
