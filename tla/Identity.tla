------------------------------ MODULE Identity ------------------------------
(***************************************************************************)
(* Which TMDb record MetaFusion takes an item of Plex for: the operator's  *)
(* override, the record a stale id was replaced with, the binding learned  *)
(* when a record was verified, the id Plex has, or the record that has the *)
(* external id (IMDb, TVDb) Plex has; and the queue of items whose         *)
(* identity a person has to review.  TMDb retires records, Plex matches    *)
(* items anew, the operator overrides.                                     *)
(*                                                                         *)
(* The search by title is off, as it is by default; titles are left out,   *)
(* years are not.  An item has one external id.  Restarts and jobs are the *)
(* business of the module that EXTENDS this one.                           *)
(***************************************************************************)
EXTENDS Integers, FiniteSets, Sequences, Functions

CONSTANTS
  Items,       \* movies and shows in Plex
  Records,     \* TMDb records of movies and shows
  ExternalOf,  \* the external id TMDb has for a record, if any
  YearOf,      \* its year, if any
  Matches,     \* what Plex may take each item for, a TMDb id, an external id and
               \* a year each, beginning with the first
  Overrides,   \* the record the operator may override each item with, if any
  Preserved    \* shows that provider_mappings splits over TMDb series

None == "none"

ASSUME IdentityAssumption ==
  /\ None \notin Records
  /\ Overrides \in [Items -> Records \cup {None}]
  /\ \A i \in Items :
       /\ 1 \in DOMAIN Matches[i]
       /\ \A ids \in Range(Matches[i]) : ids.tmdb \in Records \cup {None}

VARIABLES
  live,      \* records that TMDb still has
  plex,      \* what Plex takes each item for
  override,  \* identity_overrides
  binding,   \* identity_bindings
  stored,    \* what media_state has of each item's identity
  reviews,   \* open entries of identity_review_queue
  known,     \* media_state as the job has it in memory
  seen,      \* what the job read of each item in Plex
  chosen,    \* the record the job takes an item for
  gaps       \* items whose identity this job could not settle

ground == <<live, plex, override>>
memory == <<known, seen, chosen, gaps>>
identity == <<ground, binding, stored, reviews, memory>>

Unseen == [tmdb |-> None, external |-> None, year |-> 0]
NoBinding == [record |-> None, print |-> <<>>]
NoEntry == [record |-> None, from |-> None, print |-> <<>>]

(* plex_identity_fingerprint: nothing for an item without ids.             *)
Fingerprint(ids) == IF ids.tmdb = None /\ ids.external = None THEN <<>> ELSE <<ids.tmdb, ids.external>>

IdentityTypeOK ==
  LET Ids == UNION {Range(Matches[i]) : i \in Items}
      Prints == {<<>>} \cup {Fingerprint(ids) : ids \in Ids}
      Entries == [record : Records \cup {None}, from : Records \cup {None}, print : Prints]
  IN  /\ live \subseteq Records
      /\ plex \in [Items -> Ids] /\ \A i \in Items : plex[i] \in Range(Matches[i])
      /\ seen \in [Items -> Ids \cup {Unseen}] /\ \A i \in Items : seen[i] \in Range(Matches[i]) \cup {Unseen}
      /\ override \in [Items -> Records \cup {None}] /\ \A i \in Items : override[i] \in {None, Overrides[i]}
      /\ chosen \in [Items -> Records \cup {None}]
      /\ binding \in [Items -> [record : Records \cup {None}, print : Prints]]
      /\ known \in [Items -> Entries] /\ stored \in [Items -> Entries]
      /\ reviews \subseteq Items /\ gaps \subseteq Items

Forget ==
  /\ seen' = [i \in Items |-> Unseen] /\ chosen' = [i \in Items |-> None] /\ gaps' = {}

IdentityInit ==
  /\ live = Records
  /\ plex = [i \in Items |-> Matches[i][1]]
  /\ binding = [i \in Items |-> NoBinding]
  /\ stored = [i \in Items |-> NoEntry] /\ known = stored
  /\ reviews = {} /\ gaps = {}
  /\ seen = [i \in Items |-> Unseen] /\ chosen = [i \in Items |-> None]

-----------------------------------------------------------------------------
(* apply_cached_tmdb_recovery: while Plex still has the stale id           *)
Recovered(i) ==
  LET e == known[i]
  IN  IF /\ seen[i].tmdb # None /\ e.from = seen[i].tmdb
         /\ e.print = Fingerprint(seen[i]) /\ e.record # None
      THEN e.record ELSE seen[i].tmdb

\* The mutant does not compare the fingerprints.
LoadedForGood(i) == IF Fingerprint(seen[i]) = <<>> THEN None ELSE binding[i].record

(* load_identity_binding, for an item that has a fingerprint               *)
Loaded(i) ==
  IF Fingerprint(seen[i]) # <<>> /\ binding[i].print = Fingerprint(seen[i])
  THEN binding[i].record ELSE None

(* apply_learned_tmdb_identity                                             *)
Learned(i) == IF Loaded(i) # None THEN Loaded(i) ELSE Recovered(i)

(* apply_manual_tmdb_identity                                              *)
Overridden(i) == override[i] # None

(* tmdb_external_id_consensus: accepted, and trusted                       *)
Compared(i, r) == seen[i].external # None /\ ExternalOf[r] # None
Consensus(i, r) == Compared(i, r) /\ i \notin Preserved => ExternalOf[r] = seen[i].external
Trusted(i, r) ==
  \/ Overridden(i) \/ Compared(i, r) \/ i \in Preserved
  \/ seen[i].tmdb = r

(* tmdb_identity_consistent                                                *)
Consistent(i, r) ==
  seen[i].year # 0 /\ YearOf[r] # 0 => YearOf[r] - seen[i].year \in -1..1

(* resolve_tmdb_id, by the external id                                     *)
Found(i, excluded) ==
  {r \in live \ excluded : seen[i].external # None /\ ExternalOf[r] = seen[i].external}

(* resolve_tmdb_id: the candidates, of which TMDb's order picks one        *)
Candidates(i) == IF Learned(i) # None THEN {Learned(i)} ELSE Found(i, {})

(* tmdb_details_with_recovery: what a candidate leads to.  Nothing tells a *)
(* record that is gone from a request that failed.                         *)
Details(i, r, answered) ==
  IF answered /\ r \in live /\ Consensus(i, r) THEN {r} ELSE Found(i, {r})

(* What _build_movie or _build_tv may take the item for, and the candidate *)
(* that led to it.                                                         *)
Resolved(i, answered) ==
  IF Overridden(i) THEN {<<r, r>> : r \in IF answered THEN {override[i]} \cap live ELSE {}}
  ELSE {w \in Candidates(i) \X live : w[2] \in Details(i, w[1], answered) /\ Consistent(i, w[2])}

(* _save_high_confidence_identity: save_identity_binding                   *)
Bound(i, r) ==
  IF Trusted(i, r) /\ ~Overridden(i) /\ Fingerprint(seen[i]) # <<>>
  THEN [record |-> r, print |-> Fingerprint(seen[i])] ELSE binding[i]

(* The id Plex had before the preload put another in its place.            *)
Replaced(i) == IF Learned(i) # Recovered(i) THEN Recovered(i) ELSE seen[i].tmdb

(* meta_cache_async: the id, and the stale one it stands for               *)
Remembered(i, c, r) ==
  IF c = r THEN [known[i] EXCEPT !.record = r]
  ELSE [record |-> r, print |-> Fingerprint(seen[i]),
        from |-> IF Replaced(i) # None THEN Replaced(i) ELSE c]

(* resolve_identity_reviews                                                *)
Reviewed(i, r) == IF Trusted(i, r) THEN reviews \ {i} ELSE reviews

(* The preload of an item: get_plex_metadata, _external_ids.               *)
ReadIdentity(i) ==
  /\ seen' = [seen EXCEPT ![i] = plex[i]]
  /\ UNCHANGED <<ground, binding, stored, reviews, known, chosen, gaps>>

(* The item is taken for a record, its reviews are closed                  *)
(* (resolve_identity_reviews) and the binding is in SQLite at once.        *)
Settle(i, c, r) ==
  /\ chosen' = [chosen EXCEPT ![i] = r]
  /\ binding' = [binding EXCEPT ![i] = Bound(i, r)]
  /\ reviews' = Reviewed(i, r)
  /\ known' = [known EXCEPT ![i] = Remembered(i, c, r)]
  /\ UNCHANGED <<ground, stored, seen, gaps>>

(* _record_artwork_gap: tmdb_missing, tmdb_failure or identity_rejected    *)
Unsettled(i) ==
  /\ gaps' = gaps \cup {i} /\ seen' = [seen EXCEPT ![i] = Unseen]
  /\ UNCHANGED <<ground, binding, stored, reviews, known, chosen>>

(* The item is done.                                                       *)
Release(i) ==
  /\ chosen' = [chosen EXCEPT ![i] = None] /\ seen' = [seen EXCEPT ![i] = Unseen]
  /\ UNCHANGED <<ground, binding, stored, reviews, known, gaps>>

(* The end of a job: flush_cache, which may fail, and                      *)
(* reconcile_identity_reviews.                                             *)
KeepIdentity(flushed) ==
  /\ stored' = (IF flushed THEN known ELSE stored) /\ known' = stored'
  /\ reviews' = reviews \cup gaps
  /\ Forget /\ UNCHANGED <<ground, binding>>

(* The job is killed: what only its memory has is lost.                    *)
LoseIdentity == known' = stored /\ Forget /\ UNCHANGED <<ground, binding, stored, reviews>>

-----------------------------------------------------------------------------
Retire(r) ==
  /\ r \in live /\ live' = live \ {r}
  /\ UNCHANGED <<plex, override, binding, stored, reviews, memory>>

Rematch(i) ==
  /\ \E ids \in Range(Matches[i]) \ {plex[i]} : plex' = [plex EXCEPT ![i] = ids]
  /\ UNCHANGED <<live, override, binding, stored, reviews, memory>>

(* save_identity_override, remove_identity_override: between jobs          *)
Override(i) ==
  /\ Overrides[i] # None
  /\ IF override[i] = None
     THEN override' = [override EXCEPT ![i] = Overrides[i]] /\ reviews' = reviews \ {i}
     ELSE override' = [override EXCEPT ![i] = None] /\ UNCHANGED reviews
  /\ UNCHANGED <<live, plex, binding, stored, memory>>

-----------------------------------------------------------------------------
(* The records of the title Plex takes an item for, and those that stand   *)
(* for it by the operator's word.                                          *)
OfTitle(i, ids) ==
  {r \in Records :
     IF ids.external # None /\ ExternalOf[r] # None /\ i \notin Preserved
     THEN ExternalOf[r] = ids.external
     ELSE r = ids.tmdb \/ (ids.external # None /\ ExternalOf[r] = ids.external)}
Right(i, ids) == IF Overridden(i) THEN {override[i]} ELSE OfTitle(i, ids)

(* What the recovery of a stale id left in media_state can not be taken    *)
(* for another title's: Plex has one match of the item only, or no match   *)
(* with an external id, or external ids always tell a wrong record.  TMDb  *)
(* lacks external ids of some records, and media_state keeps a recovered   *)
(* id beside the record of a later match (meta_cache_async): an item that  *)
(* Plex takes for another title and back is then taken for the other one.  *)
OneMatch(i) == \A ids \in Range(Matches[i]) : ids = Matches[i][1]
Unmistakable(i) ==
  \/ OneMatch(i)
  \/ \A ids \in Range(Matches[i]) : ids.external = None
  \/ i \notin Preserved /\ \A r \in Records : ExternalOf[r] # None
=============================================================================
