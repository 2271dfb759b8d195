------------------------------ MODULE Artwork ------------------------------
(***************************************************************************)
(* One artwork destination and the movies and shows whose folder it is in:  *)
(* the selection, protection, adoption, download and replacement of an image,*)
(* the ownership records they leave, and the job that holds those records  *)
(* in memory until it flushes them.  The items run concurrently; a step    *)
(* ends where the code awaits.  The posters and backgrounds of movies and  *)
(* of shows and the posters of seasons take the same steps, each written   *)
(* out in the code; only movies have editions that reuse a file at once.   *)
(*                                                                         *)
(* A file is its content: an image of a provider, named by its source, or  *)
(* an image of the user's.  A checksum is the content it is taken of.      *)
(***************************************************************************)
EXTENDS Integers, FiniteSets

CONSTANTS
  Items,       \* cache keys of the titles that resolve to this destination
  Tmdb,        \* the TMDb title of each item
  Shows,       \* the titles that are shows
  Offerings,   \* for each title, the sets of images the providers may offer
  Provider,    \* the provider of each image
  Canonical,   \* the images that are TMDb's canonical choice when offered
  Accepted,    \* those that meet the absolute requirements
  Relaxed,     \* those only the automatic relaxed fallback accepts
  UserArt,     \* images the user may put at the destination
  NoFile,      \* no file, no checksum, no source, no claim
  Policy,      \* ASSET_UPDATE_POLICY
  Due,         \* which outputs an item of a job may be due for
  MaxChanges   \* bound on edits by the user, new selections and kills

Titles == {Tmdb[i] : i \in Items}
Providers == {"tmdb", "fanart", "plex"}
Offered(t) == UNION Offerings[t]
Sources == UNION {Offered(t) : t \in Titles}
Contents == Sources \cup UserArt \cup {NoFile}
Claims == Titles \X Sources

ASSUME OfferAssumption ==
  /\ \A t \in Titles : Offerings[t] # {}
  /\ \A t \in Titles : \A S \in Offerings[t] : Cardinality(S \cap Canonical) <= 1
  /\ Provider \in [Sources -> Providers]
  /\ \A s \in Canonical : s \in Accepted /\ Provider[s] = "tmdb"
  /\ \A s \in Relaxed : s \notin Accepted /\ Provider[s] # "plex"
ASSUME ArtAssumption ==
  /\ UserArt \cap Sources = {}
  /\ NoFile \notin UserArt \cup Sources \cup Claims \cup (Claims \X Contents)
  /\ Canonical \subseteq Sources /\ Relaxed \subseteq Sources
ASSUME PolicyAssumption ==
  /\ Policy \in {"managed", "fill_missing", "overwrite"}
  /\ Due \subseteq {"poster and background", "background"}
ASSUME BoundAssumption == MaxChanges \in Nat

VARIABLES
  file,      \* the content at the destination
  offers,    \* the images the providers offer for each title
  cache,     \* the media state of each item in the job's memory
  disk,      \* the media state of each item in SQLite
  on,        \* a job is running
  todo,      \* items the job has still to evaluate
  claimed,   \* the registry's runtime claim
  claimers,  \* the registry's runtime owners
  verified,  \* the registry's verified claims and checksums
  work,      \* the evaluation of each item
  raced,     \* history: user images put while an evaluation was under way
  met,       \* history: canonical images that earlier evaluations came to
  changes    \* how many of the bounded changes have happened

vars == <<file, offers, cache, disk, on, todo, claimed, claimers, verified, work,
          raced, met, changes>>

\* What media_state holds of the destination: the checksum and the source
\* recorded with it, and the canonical source seen once and not yet applied.
Entry(sum, src, pend) == [sum |-> sum, src |-> src, pend |-> pend]
NoEntry == Entry(NoFile, NoFile, NoFile)

Places == {"idle", "reading", "claiming", "adopting", "fetching", "comparing",
           "replacing", "hashing"}
Permissions == {"none", "missing", "overwrite", "fill_missing", "unowned",
                "modified", "managed"}

\* The local variables of process_background between two awaits.
Step(at, lock, pick, shared, perm, go, failed) ==
  [at |-> at, lock |-> lock, pick |-> pick, shared |-> shared, perm |-> perm,
   go |-> go, failed |-> failed]
Plain(at, lock, pick) == Step(at, lock, pick, FALSE, "none", FALSE, {})
Idle == Plain("idle", "none", NoFile)

TypeOK ==
  /\ file \in Contents
  /\ offers \in [Titles -> SUBSET Sources]
  /\ \A t \in Titles : offers[t] \in Offerings[t]
  /\ \A m \in {cache, disk} :
       m \in [Items -> [sum : Contents, src : Sources \cup {NoFile},
                        pend : Canonical \cup {NoFile}]]
  /\ on \in BOOLEAN
  /\ todo \subseteq Items
  /\ claimed \in Claims \cup {NoFile}
  /\ claimers \subseteq Items
  /\ verified \in [Items -> (Claims \X Contents) \cup {NoFile}]
  /\ work \in [Items -> [at : Places, lock : {"none"} \cup Due,
                         pick : Sources \cup {NoFile}, shared : BOOLEAN,
                         perm : Permissions, go : BOOLEAN,
                         failed : SUBSET Providers]]
  /\ raced \subseteq UserArt
  /\ met \in [Items -> SUBSET Canonical]
  /\ changes \in 0..MaxChanges

Init ==
  /\ file \in UserArt \cup {NoFile}
  /\ offers \in {o \in [Titles -> SUBSET Sources] :
                  \A t \in Titles : o[t] \in Offerings[t]}
  /\ cache = [i \in Items |-> NoEntry]
  /\ disk = cache
  /\ on = FALSE
  /\ todo = {}
  /\ claimed = NoFile
  /\ claimers = {}
  /\ verified = [i \in Items |-> NoFile]
  /\ work = [i \in Items |-> Idle]
  /\ raced = {}
  /\ met = [i \in Items |-> {}]
  /\ changes = 0

-----------------------------------------------------------------------------
\* The registry.  Its owners are the records SQLite held when the job began,
\* which the job changes only when it ends.

Claim(i, source) == <<Tmdb[i], source>>
Owners == {i \in Items : disk[i].sum # NoFile}
OwnerClaim(i) == Claim(i, disk[i].src)

\* _shareable, _same_shared_asset: editions of one movie may share an image; an
\* owner may also move the image they share on to another source.
Shareable(claim, other) == claim = other
SameSharedAsset(claim, other) == claim[1] = other[1]

\* The mutant does not ask the owners of the destination.
CompatibleWithAnyone(i, claim) == TRUE

Compatible(i, claim) ==
  \A o \in Owners \ {i} :
    IF i \in Owners THEN SameSharedAsset(claim, OwnerClaim(o))
                    ELSE Shareable(claim, OwnerClaim(o))

Collides(i, claim) ==
  \/ claimed \notin {NoFile, claim}
  \/ ~Compatible(i, claim)

ClaimStatus(i) ==
  IF i \in Owners THEN "self"
  ELSE IF Owners # {} \/ claimers # {} THEN "shared" ELSE "new"

\* shared_checksum: the file is what another owner's record, or this job's
\* verification for another owner, says this very image is.
SharedFile(i, claim) ==
  /\ file # NoFile
  /\ \E o \in Items \ {i} :
       \/ o \in Owners /\ Shareable(claim, OwnerClaim(o)) /\ disk[o].sum = file
       \/ verified[o] = <<claim, file>>

\* The mutant does not compare the file with its record.
PermissionOfRecord(entry) ==
  IF file = NoFile THEN "missing"
  ELSE IF Policy # "managed" THEN Policy
  ELSE IF entry.sum = NoFile THEN "unowned" ELSE "managed"

\* asset_write_allowed
Permission(entry) ==
  IF file = NoFile THEN "missing"
  ELSE IF Policy # "managed" THEN Policy
  ELSE IF entry.sum = NoFile THEN "unowned"
  ELSE IF entry.sum # file THEN "modified"
  ELSE "managed"

Granted == {"missing", "overwrite", "managed"}

-----------------------------------------------------------------------------
\* The media state.

\* _record_canonical_observation, and _clear_applied_canonical_observation
\* after the fields of the call are stored.
Observed(entry, source) ==
  Entry(entry.sum, entry.src,
        IF source \in Canonical /\ source # entry.src THEN source ELSE NoFile)

Recorded(entry, sum, source) ==
  Entry(sum, source, IF entry.pend = source THEN NoFile ELSE entry.pend)

Record(i, entry) == cache' = [cache EXCEPT ![i] = entry]
Goto(i, step) == work' = [work EXCEPT ![i] = step]

-----------------------------------------------------------------------------
\* The evaluation of one item.

\* Every way an evaluation ends releases its lock.
Finish(i) ==
  /\ Goto(i, Idle)
  /\ met' = [met EXCEPT ![i] = @ \cup ({work[i].pick} \cap Canonical)]

RegistryUnchanged == UNCHANGED <<claimed, claimers, verified>>
JobUnchanged == UNCHANGED <<offers, disk, on, todo, changes>>

\* _select_artwork_with_fallback: TMDb's canonical image; the best of TMDb, then
\* of Fanart.tv, that meets the requirements; the one Plex shows; the best of
\* those below the minimum; and, only while nothing is at the destination, the
\* automatic relaxed fallback.  U is what the providers not excluded offer.
Usable(i, failed) == {s \in offers[Tmdb[i]] : Provider[s] \notin failed}
From(provider, U) == {s \in U : Provider[s] = provider}

CanonicalOf(U) == U \cap Canonical
FromTmdb(U) ==
  IF CanonicalOf(U) # {} THEN CanonicalOf(U) ELSE From("tmdb", U) \cap Accepted
FromFanart(U) == From("fanart", U) \cap Accepted
FromPlex(U) == From("plex", U)
Reserves(U) == U \ (Relaxed \cup FromPlex(U))
RelaxedFallback(U) == IF file = NoFile THEN U \cap Relaxed ELSE {}

Candidates(i, failed) ==
  LET U == Usable(i, failed)
  IN IF FromTmdb(U) # {} THEN FromTmdb(U)
     ELSE IF FromFanart(U) # {} THEN FromFanart(U)
     ELSE IF FromPlex(U) # {} THEN FromPlex(U)
     ELSE IF Reserves(U) # {} THEN Reserves(U)
     ELSE RelaxedFallback(U)

\* build_movie, build_tv: the lock of the first output the item is due for.
Locked(i, due) ==
  /\ on /\ i \in todo /\ work[i] = Idle
  /\ \A o \in Items \ {i} : work[o].lock # due
  /\ todo' = todo \ {i}
  /\ RegistryUnchanged
  /\ UNCHANGED <<file, offers, disk, on, raced, met, changes>>

\* Nothing is offered: what is at the destination is preserved and the check
\* recorded.
FindNothing(i, due) ==
  /\ Locked(i, due)
  /\ Candidates(i, {}) = {}
  /\ Record(i, Observed(cache[i], NoFile))
  /\ UNCHANGED work

\* A movie reuses the file at once when another edition's record or
\* verification vouches for it.
SelectMovie(i, due, pick) ==
  LET shared == SharedFile(i, Claim(i, pick))
  IN /\ Tmdb[i] \notin Shows
     /\ Locked(i, due)
     /\ pick \in Candidates(i, {})
     /\ Goto(i, Step("reading", due, pick, shared, "none", FALSE, {}))
     /\ IF shared THEN Record(i, Entry(file, pick, NoFile)) ELSE UNCHANGED cache

SelectShow(i, due, pick) ==
  /\ Tmdb[i] \in Shows
  /\ Locked(i, due)
  /\ pick \in Candidates(i, {})
  /\ Goto(i, Plain("reading", due, pick))
  /\ UNCHANGED cache

\* The checksum of the destination is read in a thread, before the claim.
ReadPermission(i) ==
  LET w == work[i]
  IN /\ w.at = "reading"
     /\ Goto(i, Step("claiming", w.lock, w.pick, w.shared, Permission(cache[i]),
                     FALSE, {}))
     /\ RegistryUnchanged /\ JobUnchanged
     /\ UNCHANGED <<file, cache, raced, met>>

\* protected_asset_destination with the permission read before: a relaxed
\* candidate never reaches the claim when a file exists.
Preserve(i) ==
  /\ work[i].at = "claiming" /\ file # NoFile /\ work[i].pick \in Relaxed
  /\ Finish(i)
  /\ Record(i, Observed(cache[i], work[i].pick))
  /\ RegistryUnchanged /\ JobUnchanged
  /\ UNCHANGED <<file, raced>>

Claiming(i) ==
  work[i].at = "claiming" /\ (file = NoFile \/ work[i].pick \notin Relaxed)

\* AssetDestinationCollisionError: the item fails and records nothing.
Collide(i) ==
  /\ Claiming(i) /\ Collides(i, Claim(i, work[i].pick))
  /\ Finish(i)
  /\ RegistryUnchanged /\ JobUnchanged
  /\ UNCHANGED <<file, cache, raced>>

\* What the rest of protected_asset_destination decides.
SharedHere(i) ==
  /\ file # NoFile
  /\ \/ ClaimStatus(i) = "shared"
     \/ ClaimStatus(i) = "self" /\ work[i].shared
Allowed(i) == ~SharedHere(i) /\ work[i].perm \in Granted
Adoptable(i) == ~SharedHere(i) /\ work[i].perm = "unowned" /\ file # NoFile

TakeClaim(i) ==
  /\ Claiming(i) /\ ~Collides(i, Claim(i, work[i].pick))
  /\ claimed' = Claim(i, work[i].pick)
  /\ claimers' = claimers \cup {i}

\* The file is left as it is and the check recorded.
Keep(i) ==
  /\ TakeClaim(i) /\ ~Allowed(i) /\ ~Adoptable(i)
  /\ Finish(i)
  /\ Record(i, Observed(cache[i], work[i].pick))
  /\ JobUnchanged
  /\ UNCHANGED <<file, verified, raced>>

\* mark_verified: the registry keeps what was verified for the other editions.
MarkVerified(i, sum) ==
  verified' = [verified EXCEPT ![i] = <<Claim(i, work[i].pick), sum>>]

SameSource(i) == work[i].perm = "managed" /\ file # NoFile
                 /\ cache[i].src = work[i].pick

\* A managed file of the selected source is verified for the other editions;
\* unless its bounded recheck is due, nothing is downloaded.
Verify(i) ==
  IF SameSource(i)
  THEN MarkVerified(i, file)
  ELSE UNCHANGED verified

SkipSameSource(i) ==
  /\ TakeClaim(i) /\ Allowed(i) /\ SameSource(i)
  /\ Verify(i)
  /\ Finish(i)
  /\ Record(i, Entry(cache[i].sum, work[i].pick, NoFile))
  /\ JobUnchanged
  /\ UNCHANGED <<file, raced>>

\* The download, to a temporary file: of a replacement, or of the image the
\* existing file may be identical to.
Download(i, at) ==
  LET w == work[i]
  IN /\ TakeClaim(i)
     /\ Goto(i, Plain(at, w.lock, w.pick))
     /\ JobUnchanged
     /\ UNCHANGED <<file, cache, raced, met>>
Fetch(i) == Allowed(i) /\ Verify(i) /\ Download(i, "fetching")
TryToAdopt(i) == Adoptable(i) /\ UNCHANGED verified /\ Download(i, "adopting")

\* adopt_exact_tmdb_asset: a byte-identical file becomes the item's.
Adopt(i) ==
  LET pick == work[i].pick
  IN /\ work[i].at = "adopting" /\ file = pick
     /\ Finish(i)
     /\ MarkVerified(i, pick)
     /\ Record(i, Entry(pick, pick, NoFile))
     /\ JobUnchanged
     /\ UNCHANGED <<file, claimed, claimers, raced>>

\* The content differs, or the download or the checksum failed.
DoNotAdopt(i) ==
  /\ work[i].at = "adopting"
  /\ Finish(i)
  /\ Record(i, Observed(cache[i], work[i].pick))
  /\ RegistryUnchanged /\ JobUnchanged
  /\ UNCHANGED <<file, raced>>

Fetched(i) ==
  LET w == work[i]
  IN /\ w.at = "fetching"
     /\ Goto(i, Plain("comparing", w.lock, w.pick))
     /\ RegistryUnchanged /\ JobUnchanged
     /\ UNCHANGED <<file, cache, raced, met>>

\* _download_with_missing_failover: while nothing is at the destination, the
\* selection is repeated without the providers whose image failed.
FailOver(i, pick) ==
  LET w == work[i]
      failed == w.failed \cup {Provider[w.pick]}
  IN /\ w.at = "fetching" /\ file = NoFile
     /\ pick \in Candidates(i, failed)
     /\ Goto(i, Step("fetching", w.lock, pick, FALSE, "none", FALSE, failed))
     /\ RegistryUnchanged /\ JobUnchanged
     /\ UNCHANGED <<file, cache, raced, met>>

\* The mutant does not wait for a second evaluation.
UpgradeAtOnce(entry, source, better) == source \in Canonical \/ better

\* _canonical_upgrade_decision, and for other images the quality guard, which
\* is left open.
Upgrade(entry, source, better) ==
  IF source \in Canonical THEN source \in {entry.src, entry.pend} ELSE better

\* smart_asset_upgrade, in a thread.
Compare(i, better) ==
  LET w == work[i]
      go == \/ file = NoFile
            \/ file # w.pick /\ Upgrade(cache[i], w.pick, better)
  IN /\ w.at = "comparing"
     /\ Goto(i, Step("replacing", w.lock, w.pick, FALSE, "none", go, {}))
     /\ RegistryUnchanged /\ JobUnchanged
     /\ UNCHANGED <<file, cache, raced, met>>

\* The observation is recorded and, when it is decided, the file replaced; the
\* replacement may fail.
LeaveFile(i) ==
  /\ work[i].at = "replacing"
  /\ Finish(i)
  /\ Record(i, Observed(cache[i], work[i].pick))
  /\ RegistryUnchanged /\ JobUnchanged
  /\ UNCHANGED <<file, raced>>

Replace(i) ==
  LET w == work[i]
  IN /\ w.at = "replacing" /\ w.go
     /\ file' = w.pick
     /\ Record(i, Observed(cache[i], w.pick))
     /\ Goto(i, Plain("hashing", w.lock, w.pick))
     /\ RegistryUnchanged /\ JobUnchanged
     /\ UNCHANGED <<raced, met>>

\* The checksum recorded is the one of the file as it is found.
RecordWrite(i) ==
  LET pick == work[i].pick
  IN /\ work[i].at = "hashing" /\ file # NoFile
     /\ Finish(i)
     /\ MarkVerified(i, file)
     /\ Record(i, Recorded(cache[i], file, pick))
     /\ JobUnchanged
     /\ UNCHANGED <<file, claimed, claimers, raced>>

\* Disk pressure, a failed provider chain, an exception or a cancellation.
Abandon(i) ==
  /\ work[i] # Idle
  /\ Finish(i)
  /\ RegistryUnchanged /\ JobUnchanged
  /\ UNCHANGED <<file, cache, raced>>

-----------------------------------------------------------------------------
\* The job, the user and the providers.

Change == changes < MaxChanges /\ changes' = changes + 1
AllIdle == \A i \in Items : work[i] = Idle

EmptyRegistry ==
  /\ claimed' = NoFile
  /\ claimers' = {}
  /\ verified' = [i \in Items |-> NoFile]

StartJob ==
  /\ ~on
  /\ on' = TRUE
  /\ todo' = Items
  /\ cache' = disk
  /\ EmptyRegistry
  /\ UNCHANGED <<file, offers, disk, work, raced, met, changes>>

\* flush_cache succeeds or fails; the next job starts from SQLite.
EndJob ==
  /\ on /\ AllIdle
  /\ on' = FALSE
  /\ todo' = {}
  /\ disk' \in {cache, disk}
  /\ cache' = disk'
  /\ EmptyRegistry
  /\ UNCHANGED <<file, offers, work, raced, met, changes>>

Kill ==
  /\ Change
  /\ on
  /\ on' = FALSE
  /\ todo' = {}
  /\ cache' = disk
  /\ work' = [i \in Items |-> Idle]
  /\ EmptyRegistry
  /\ UNCHANGED <<file, offers, disk, raced, met>>

UserPuts(c) ==
  /\ Change
  /\ file' = c
  /\ raced' = IF AllIdle \/ c = NoFile THEN raced ELSE raced \cup {c}
  /\ RegistryUnchanged
  /\ UNCHANGED <<offers, cache, disk, on, todo, work, met>>

ProvidersChange(t, S) ==
  /\ Change
  /\ offers' = [offers EXCEPT ![t] = S]
  /\ RegistryUnchanged
  /\ UNCHANGED <<file, cache, disk, on, todo, work, raced, met>>

Select(i) ==
  \E d \in Due :
    \/ FindNothing(i, d)
    \/ \E s \in Sources : SelectMovie(i, d, s) \/ SelectShow(i, d, s)

Protect(i) ==
  \/ ReadPermission(i)
  \/ Preserve(i) \/ Collide(i) \/ Keep(i) \/ SkipSameSource(i)
  \/ Fetch(i) \/ TryToAdopt(i)
  \/ Adopt(i) \/ DoNotAdopt(i)

Transfer(i) ==
  \/ Fetched(i)
  \/ \E s \in Sources : FailOver(i, s)
  \/ \E better \in BOOLEAN : Compare(i, better)
  \/ LeaveFile(i) \/ Replace(i) \/ RecordWrite(i)

Evaluate(i) == Select(i) \/ Protect(i) \/ Transfer(i)

Next ==
  \/ \E i \in Items : Evaluate(i) \/ Abandon(i)
  \/ StartJob \/ EndJob \/ Kill
  \/ \E c \in UserArt \cup {NoFile} : UserPuts(c)
  \/ \E t \in Titles : \E S \in Offerings[t] : ProvidersChange(t, S)

Spec == Init /\ [][Next]_vars

-----------------------------------------------------------------------------
\* Under managed and fill_missing, an image the user put at the destination
\* while nothing was being evaluated is changed by the user only
\* (asset_write_allowed; docs/policies.md, "Existing-file behavior").
UserArtKept ==
  [][(Policy # "overwrite" /\ file \in UserArt \ raced) =>
        file' \in UserArt \cup {NoFile}]_vars

\* Items of different TMDb titles never both hold a record of the one
\* destination, in memory or in SQLite (AssetDestinationRegistry.claim).
OneTitle ==
  \A i, j \in Items :
    /\ {cache[i].sum, disk[i].sum} # {NoFile}
    /\ {cache[j].sum, disk[j].sum} # {NoFile}
    => Tmdb[i] = Tmdb[j]

\* That an existing file is to be replaced by another canonical image is only
\* decided when an evaluation before this one had come to that image as well
\* (_canonical_upgrade_decision, _record_canonical_observation).
ConfirmedTwice ==
  [][\A i \in Items :
       LET w == work[i]
       IN (/\ w.at = "comparing" /\ work'[i].at = "replacing" /\ work'[i].go
           /\ file # NoFile
           /\ w.pick \in Canonical \ {cache[i].src})
          => w.pick \in met[i]]_vars
=============================================================================
