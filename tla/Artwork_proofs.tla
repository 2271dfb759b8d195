--------------------------- MODULE Artwork_proofs ---------------------------
(***************************************************************************)
(* Proofs about Artwork for any number of movies that resolve to one       *)
(* destination, any offers of the providers and any images of the user.    *)
(***************************************************************************)
EXTENDS Artwork, TLAPS

(* An image of the user's put while nothing was under way. *)
Kept == UserArt \ raced

(* No record and no verification describes such an image. *)
ChecksumInv ==
  \A i \in Items :
    /\ cache[i].sum \notin Kept /\ disk[i].sum \notin Kept
    /\ verified[i] # NoFile => verified[i][2] \notin Kept

(* An evaluation that may still replace the file is not looking at one. *)
GrantInv ==
  \A i \in Items :
    /\ work[i].perm # "overwrite"
    /\ \/ work[i].at \in {"fetching", "comparing", "replacing", "hashing"}
       \/ work[i].at = "claiming" /\ work[i].perm \in Granted
       => file \notin Kept

Recorders == {i \in Items : cache[i].sum # NoFile \/ disk[i].sum # NoFile}
Past == {"adopting", "fetching", "comparing", "replacing", "hashing"}

(* All records, the claim and what goes on under it are of one title. *)
TitleInv ==
  /\ \A i, j \in Recorders : Tmdb[i] = Tmdb[j]
  /\ claimed # NoFile => \A i \in Recorders : Tmdb[i] = claimed[1]
  /\ \A i \in Items : verified[i] # NoFile =>
       claimed # NoFile /\ claimed[1] = Tmdb[i] /\ verified[i][1][1] = Tmdb[i]
  /\ \A i \in Items : work[i].at \in Past =>
       claimed # NoFile /\ claimed[1] = Tmdb[i]
  /\ claimed = NoFile =>
       \A i \in Recorders : \E o \in Owners : Tmdb[o] = Tmdb[i]
  /\ ~on => AllIdle /\ cache = disk

(* A canonical image that waits for its second evaluation had a first one. *)
PendingInv ==
  \A i \in Items :
    /\ disk[i].pend # NoFile => disk[i].pend \in met[i]
    /\ \/ cache[i].pend \in met[i] \cup {NoFile}
       \/ work[i].at = "hashing" /\ cache[i].pend = work[i].pick

-----------------------------------------------------------------------------
LEMMA Constants ==
  /\ \A i \in Items : Tmdb[i] \in Titles
  /\ \A t \in Titles : \A S \in Offerings[t] : S \subseteq Sources
  /\ \A s \in Sources : Provider[s] \in Providers
  /\ Canonical \subseteq Sources
  /\ NoFile \notin Sources /\ NoFile \notin UserArt
  /\ UserArt \cap Sources = {}
  /\ NoFile \notin Claims /\ NoFile \notin Claims \X Contents
<1>1. Titles = {Tmdb[i] : i \in Items} /\ Sources = UNION {Offered(t) : t \in Titles}
  BY DEF Titles, Sources
<1>2. \A t \in Titles : \A S \in Offerings[t] : S \subseteq Sources
  BY <1>1 DEF Offered
<1>. QED
  BY <1>1, <1>2, ArtAssumption, OfferAssumption

Inv ==
  /\ TypeOK /\ TitleInv /\ PendingInv
  /\ Policy # "overwrite" => ChecksumInv /\ GrantInv

LEMMA InitType == Init => TypeOK
<1>. SUFFICES ASSUME Init PROVE TypeOK
  OBVIOUS
<1>1. Idle \in [at : Places, lock : {"none"} \cup Due, pick : Sources \cup {NoFile},
               shared : BOOLEAN, perm : Permissions, go : BOOLEAN,
               failed : SUBSET Providers]
  BY DEF Idle, Plain, Step, Places, Permissions
<1>2. NoEntry \in [sum : Contents, src : Sources \cup {NoFile},
                  pend : Canonical \cup {NoFile}]
  BY DEF NoEntry, Entry, Contents
<1>3. \A t \in Titles : offers[t] \in Offerings[t]
  BY DEF Init
<1>4. offers \in [Titles -> SUBSET Sources]
  BY DEF Init
<1>8. /\ met \in [Items -> SUBSET Canonical]
      /\ verified \in [Items -> (Claims \X Contents) \cup {NoFile}]
  BY DEF Init
<1>5. /\ file \in Contents /\ on \in BOOLEAN /\ todo \subseteq Items
      /\ claimed \in Claims \cup {NoFile} /\ claimers \subseteq Items
      /\ raced \subseteq UserArt
  BY DEF Init, Contents
<1>9. changes \in 0..MaxChanges
  BY BoundAssumption DEF Init
<1>6. work \in [Items -> [at : Places, lock : {"none"} \cup Due,
                         pick : Sources \cup {NoFile}, shared : BOOLEAN,
                         perm : Permissions, go : BOOLEAN,
                         failed : SUBSET Providers]]
  BY <1>1 DEF Init
<1>7. \A m \in {cache, disk} :
       m \in [Items -> [sum : Contents, src : Sources \cup {NoFile},
                        pend : Canonical \cup {NoFile}]]
  BY <1>2 DEF Init
<1>. QED
  BY <1>3, <1>4, <1>5, <1>6, <1>7, <1>8, <1>9 DEF TypeOK

(* The types of what the steps assemble. *)
EntryType == [sum : Contents, src : Sources \cup {NoFile},
              pend : Canonical \cup {NoFile}]
WorkType == [at : Places, lock : {"none"} \cup Due, pick : Sources \cup {NoFile},
             shared : BOOLEAN, perm : Permissions, go : BOOLEAN,
             failed : SUBSET Providers]

LEMMA Shapes ==
  /\ Idle \in WorkType /\ Idle.at = "idle" /\ Idle.perm = "none"
  /\ \A at \in Places, lock \in {"none"} \cup Due, pick \in Sources \cup {NoFile},
       shared \in BOOLEAN, perm \in Permissions, go \in BOOLEAN,
       failed \in SUBSET Providers :
       Step(at, lock, pick, shared, perm, go, failed) \in WorkType
  /\ \A at \in Places, lock \in {"none"} \cup Due, pick \in Sources \cup {NoFile} :
       Plain(at, lock, pick) \in WorkType
  /\ \A sum \in Contents, src \in Sources \cup {NoFile},
       pend \in Canonical \cup {NoFile} : Entry(sum, src, pend) \in EntryType
  /\ \A e \in EntryType, s \in Sources \cup {NoFile} :
       /\ Observed(e, s) \in EntryType /\ Observed(e, s).sum = e.sum
       /\ Observed(e, s).pend \in {s} \cup {NoFile}
       /\ Observed(e, s).pend \in Canonical \cup {NoFile}
  /\ \A e \in EntryType, c \in Contents, s \in Sources \cup {NoFile} :
       /\ Recorded(e, c, s) \in EntryType /\ Recorded(e, c, s).sum = c
       /\ Recorded(e, c, s).pend \in {e.pend, NoFile}
       /\ Recorded(e, c, s).pend # NoFile => Recorded(e, c, s).pend # s
  /\ \A e \in EntryType : Permission(e) \in Permissions
<1>1. \A at \in Places, lock \in {"none"} \cup Due, pick \in Sources \cup {NoFile},
        shared \in BOOLEAN, perm \in Permissions, go \in BOOLEAN,
        failed \in SUBSET Providers :
        Step(at, lock, pick, shared, perm, go, failed) \in WorkType
  BY DEF Step, WorkType
<1>2. \A at \in Places, lock \in {"none"} \cup Due, pick \in Sources \cup {NoFile} :
        Plain(at, lock, pick) \in WorkType
  <2>1. {} \in SUBSET Providers /\ "none" \in Permissions
    BY DEF Permissions
  <2>. QED
    BY <1>1, <2>1 DEF Plain
<1>3. Idle \in WorkType /\ Idle.at = "idle" /\ Idle.perm = "none"
  <2>1. "idle" \in Places
    BY DEF Places
  <2>. QED
    BY <1>2, <2>1 DEF Idle, Plain, Step
<1>4. \A e \in EntryType : Permission(e) \in Permissions
  BY PolicyAssumption DEF Permission, Permissions
<1>5. \A sum \in Contents, src \in Sources \cup {NoFile},
        pend \in Canonical \cup {NoFile} : Entry(sum, src, pend) \in EntryType
  BY DEF Entry, EntryType
<1>6. \A e \in EntryType, s \in Sources \cup {NoFile} :
        /\ Observed(e, s) \in EntryType /\ Observed(e, s).sum = e.sum
        /\ Observed(e, s).pend \in {s} \cup {NoFile}
        /\ Observed(e, s).pend \in Canonical \cup {NoFile}
  BY DEF Entry, EntryType, Observed
<1>7. \A e \in EntryType, c \in Contents, s \in Sources \cup {NoFile} :
        /\ Recorded(e, c, s) \in EntryType /\ Recorded(e, c, s).sum = c
        /\ Recorded(e, c, s).pend \in {e.pend, NoFile}
        /\ Recorded(e, c, s).pend # NoFile => Recorded(e, c, s).pend # s
  BY DEF Entry, EntryType, Recorded
<1>. QED
  BY <1>1, <1>2, <1>3, <1>4, <1>5, <1>6, <1>7

-----------------------------------------------------------------------------
(* Types.                                                                  *)

Typing ==
  /\ file \in Contents
  /\ offers \in [Titles -> SUBSET Sources]
  /\ \A t \in Titles : offers[t] \in Offerings[t]
  /\ cache \in [Items -> EntryType] /\ disk \in [Items -> EntryType]
  /\ on \in BOOLEAN /\ todo \subseteq Items
  /\ claimed \in Claims \cup {NoFile} /\ claimers \subseteq Items
  /\ verified \in [Items -> (Claims \X Contents) \cup {NoFile}]
  /\ work \in [Items -> WorkType]
  /\ raced \subseteq UserArt /\ met \in [Items -> SUBSET Canonical]
  /\ changes \in 0..MaxChanges

LEMMA Typed == (TypeOK <=> Typing) /\ (TypeOK' <=> Typing')
BY DEF TypeOK, Typing, EntryType, WorkType

(* An evaluation under way has a candidate. *)
HasPick(w) == w.at # "idle" => w.pick \in Sources
PickInv == \A i \in Items : HasPick(work[i])

LEMMA Picks ==
  /\ HasPick(Idle)
  /\ \A at \in Places, lock \in {"none"} \cup Due, pick \in Sources :
       HasPick(Plain(at, lock, pick))
  /\ \A at \in Places, lock \in {"none"} \cup Due, pick \in Sources,
       shared \in BOOLEAN, perm \in Permissions, go \in BOOLEAN,
       failed \in SUBSET Providers :
       HasPick(Step(at, lock, pick, shared, perm, go, failed))
BY DEF HasPick, Idle, Plain, Step

(* What an evaluation of i may do to the variables. *)
Effect(i) ==
  /\ UNCHANGED <<offers, disk, on, raced, changes>>
  /\ todo' \subseteq todo
  /\ file' \in {file} \cup Sources
  /\ claimed' \in Claims \cup {NoFile} /\ claimers' \subseteq Items
  /\ \E w \in WorkType : work' = [work EXCEPT ![i] = w] /\ HasPick(w)
  /\ \E e \in EntryType : cache' = [cache EXCEPT ![i] = e]
  /\ \E v \in (Claims \X Contents) \cup {NoFile} :
       verified' = [verified EXCEPT ![i] = v]
  /\ \E c \in SUBSET Canonical : met' = [met EXCEPT ![i] = @ \cup c]

(* The two outcomes of a selection: nothing, or a candidate. *)
Nothing(i) ==
  /\ cache' = [cache EXCEPT ![i] = Observed(cache[i], NoFile)]
  /\ work' = work
Chosen(i, d, s, sh) ==
  /\ work' = [work EXCEPT ![i] = Step("reading", d, s, sh, "none", FALSE, {})]
  /\ \/ cache' = cache
     \/ /\ SharedFile(i, Claim(i, s))
        /\ cache' = [cache EXCEPT ![i] = Entry(file, s, NoFile)]
Selects(i) ==
  /\ on /\ work[i] = Idle
  /\ todo' \subseteq todo
  /\ UNCHANGED <<file, offers, disk, on, raced, met, changes>>
  /\ UNCHANGED <<claimed, claimers, verified>>
  /\ \/ Nothing(i)
     \/ \E d \in Due, s \in Sources, sh \in BOOLEAN : Chosen(i, d, s, sh)

LEMMA Selecting ==
  ASSUME NEW i \in Items, Select(i)
  PROVE  Selects(i)
<1>. PICK d \in Due : \/ FindNothing(i, d)
                      \/ \E s \in Sources : SelectMovie(i, d, s) \/ SelectShow(i, d, s)
  BY DEF Select
<1>. USE DEF Locked, RegistryUnchanged, Record, Goto, Selects
<1>1. CASE FindNothing(i, d)
  BY <1>1 DEF FindNothing, Nothing
<1>2. ASSUME NEW s \in Sources, SelectMovie(i, d, s) PROVE Selects(i)
  <2>1. SharedFile(i, Claim(i, s)) \in BOOLEAN
    BY DEF SharedFile
  <2>2. Chosen(i, d, s, SharedFile(i, Claim(i, s)))
    BY <1>2 DEF SelectMovie, Chosen
  <2>. QED
    BY <1>2, <2>1, <2>2 DEF SelectMovie
<1>3. ASSUME NEW s \in Sources, SelectShow(i, d, s) PROVE Selects(i)
  <2>1. Chosen(i, d, s, FALSE)
    BY <1>3 DEF SelectShow, Chosen, Plain
  <2>. QED
    BY <1>3, <2>1 DEF SelectShow
<1>. QED
  BY <1>1, <1>2, <1>3

LEMMA Evaluating ==
  ASSUME TypeOK, PickInv, NEW i \in Items, Evaluate(i) \/ Abandon(i)
  PROVE  Effect(i)
<1>. USE Typed, Constants DEF Typing
<1>0. /\ cache[i] \in EntryType /\ work[i] \in WorkType /\ work[i].pick \in Sources \cup {NoFile}
      /\ work[i].lock \in {"none"} \cup Due /\ file \in Contents
      /\ cache[i].sum \in Contents
      /\ HasPick(work[i]) /\ HasPick(Idle) /\ Idle \in WorkType
      /\ work[i].shared \in BOOLEAN
      /\ {} \in SUBSET Providers /\ "none" \in Permissions
      /\ {"reading", "claiming", "adopting", "fetching", "comparing", "replacing",
          "hashing"} \subseteq Places
  <2>1. /\ cache[i] \in EntryType /\ work[i] \in WorkType /\ file \in Contents
    OBVIOUS
  <2>2. /\ work[i].pick \in Sources \cup {NoFile} /\ work[i].lock \in {"none"} \cup Due
        /\ work[i].shared \in BOOLEAN
    BY <2>1 DEF WorkType
  <2>3. cache[i].sum \in Contents
    BY <2>1 DEF EntryType
  <2>4. HasPick(work[i]) /\ HasPick(Idle) /\ Idle \in WorkType
    BY Picks, Shapes DEF PickInv
  <2>5. /\ {} \in SUBSET Providers /\ "none" \in Permissions
        /\ {"reading", "claiming", "adopting", "fetching", "comparing", "replacing",
            "hashing"} \subseteq Places
    BY DEF Permissions, Places
  <2>. QED
    BY <2>1, <2>2, <2>3, <2>4, <2>5
<1>1. /\ cache = [cache EXCEPT ![i] = cache[i]]
      /\ work = [work EXCEPT ![i] = work[i]]
      /\ verified = [verified EXCEPT ![i] = verified[i]]
      /\ verified[i] \in (Claims \X Contents) \cup {NoFile}
      /\ met = [met EXCEPT ![i] = @ \cup {}]
  OBVIOUS
<1>2. ASSUME Finish(i)
      PROVE  /\ \E w \in WorkType : work' = [work EXCEPT ![i] = w] /\ HasPick(w)
             /\ \E c \in SUBSET Canonical : met' = [met EXCEPT ![i] = @ \cup c]
  <2>1. ({work[i].pick} \cap Canonical) \in SUBSET Canonical
    OBVIOUS
  <2>. QED
    BY <1>0, <1>2, <2>1 DEF Finish, Goto
<1>3. /\ \A s \in Sources : Claim(i, s) \in Claims
      /\ \A s \in Sources \cup {NoFile} : Observed(cache[i], s) \in EntryType
      /\ work[i].at # "idle" => work[i].pick \in Sources
  BY <1>0, Shapes DEF Claim, Claims, PickInv, HasPick
<1>. USE DEF RegistryUnchanged, JobUnchanged, Record, Goto, Effect
<1>4. CASE Select(i)
  <2>0. Selects(i)
    BY <1>4, Selecting
  <2>1. CASE Nothing(i)
    BY <1>0, <1>1, <1>3, <2>0, <2>1, Shapes DEF Selects, Nothing
  <2>2. ASSUME NEW d \in Due, NEW s \in Sources, NEW sh \in BOOLEAN, Chosen(i, d, s, sh)
        PROVE  Effect(i)
    <3>1. Entry(file, s, NoFile) \in EntryType
      BY <1>0, Shapes
    <3>2. Step("reading", d, s, sh, "none", FALSE, {}) \in WorkType
      BY <1>0, Shapes
    <3>3. \E w \in WorkType : work' = [work EXCEPT ![i] = w] /\ HasPick(w)
      BY <1>0, <2>2, <3>2, Picks DEF Chosen
    <3>4. \E e \in EntryType : cache' = [cache EXCEPT ![i] = e]
      BY <1>0, <1>1, <2>2, <3>1 DEF Chosen
    <3>. QED
      BY <1>0, <1>1, <2>0, <3>3, <3>4 DEF Selects
  <2>3. Nothing(i) \/ \E d \in Due, s \in Sources, sh \in BOOLEAN : Chosen(i, d, s, sh)
    BY <2>0 DEF Selects
  <2>. HIDE DEF Effect
  <2>. QED
    BY <2>1, <2>2, <2>3
<1>5. CASE ReadPermission(i)
  <2>1. Step("claiming", work[i].lock, work[i].pick, work[i].shared,
             Permission(cache[i]), FALSE, {}) \in WorkType
    BY <1>0, Shapes
  <2>2. work[i].pick \in Sources /\ Permission(cache[i]) \in Permissions
    BY <1>0, <1>3, <1>5, Shapes DEF ReadPermission
  <2>3. HasPick(Step("claiming", work[i].lock, work[i].pick, work[i].shared,
                     Permission(cache[i]), FALSE, {}))
    BY <1>0, <2>2, Picks
  <2>. QED
    BY <1>1, <1>3, <1>5, <2>1, <2>3 DEF ReadPermission
<1>6. CASE Preserve(i) \/ Collide(i) \/ DoNotAdopt(i) \/ LeaveFile(i) \/ Abandon(i)
  <2>1. /\ Finish(i) /\ UNCHANGED <<file, claimed, claimers, verified, raced>>
        /\ UNCHANGED <<offers, disk, on, todo, changes>>
        /\ \/ cache' = cache
           \/ cache' = [cache EXCEPT ![i] = Observed(cache[i], work[i].pick)]
    BY <1>6 DEF Preserve, Collide, DoNotAdopt, LeaveFile, Abandon
  <2>. QED
    BY <1>0, <1>1, <1>2, <1>3, <2>1
<1>7. CASE Keep(i)
  BY ZenonT(60), <1>0, <1>1, <1>2, <1>3, <1>7 DEF Keep, TakeClaim, Claiming
<1>8. ASSUME Claiming(i)
      PROVE <<Claim(i, work[i].pick), file>> \in Claims \X Contents
  BY <1>0, <1>3, <1>8 DEF Claiming
<1>9. CASE SkipSameSource(i)
  <2>1. Entry(cache[i].sum, work[i].pick, NoFile) \in EntryType
    BY <1>0, Shapes
  <2>. QED
    BY ZenonT(60), <1>0, <1>1, <1>2, <1>3, <1>8, <1>9, <2>1
       DEF SkipSameSource, TakeClaim, Claiming, Verify, MarkVerified
<1>10. ASSUME NEW at \in {"fetching", "adopting"}, Claiming(i)
       PROVE  /\ Plain(at, work[i].lock, work[i].pick) \in WorkType
              /\ HasPick(Plain(at, work[i].lock, work[i].pick))
  BY <1>0, <1>3, <1>10, Shapes, Picks DEF Claiming
<1>11. CASE Fetch(i)
  BY ZenonT(60), <1>0, <1>1, <1>3, <1>8, <1>10, <1>11
     DEF Fetch, Download, TakeClaim, Verify, MarkVerified, Claiming
<1>12. CASE TryToAdopt(i)
  <2>1. /\ Plain("adopting", work[i].lock, work[i].pick) \in WorkType
        /\ HasPick(Plain("adopting", work[i].lock, work[i].pick))
    BY <1>10, <1>12 DEF TryToAdopt, Download, TakeClaim
  <2>2. work[i].pick \in Sources
    BY <1>3, <1>12 DEF TryToAdopt, Download, TakeClaim, Claiming
  <2>. QED
    BY <1>0, <1>1, <1>3, <1>12, <2>1, <2>2 DEF TryToAdopt, Download, TakeClaim
<1>13. CASE Adopt(i)
  <2>1. work[i].pick \in Sources /\ work[i].pick \in Contents
    BY <1>3, <1>13 DEF Adopt, Contents
  <2>2. /\ Entry(work[i].pick, work[i].pick, NoFile) \in EntryType
        /\ <<Claim(i, work[i].pick), work[i].pick>> \in Claims \X Contents
    BY <1>3, <2>1, Shapes
  <2>. QED
    BY <1>2, <1>13, <2>2 DEF Adopt, MarkVerified
<1>14. CASE Fetched(i)
  <2>1. work[i].pick \in Sources
    BY <1>3, <1>14 DEF Fetched
  <2>2. /\ Plain("comparing", work[i].lock, work[i].pick) \in WorkType
        /\ HasPick(Plain("comparing", work[i].lock, work[i].pick))
    BY <1>0, <2>1, Shapes, Picks
  <2>. QED
    BY <1>1, <1>3, <1>14, <2>1, <2>2 DEF Fetched
<1>18. CASE \E s \in Sources : FailOver(i, s)
  <2>. PICK s \in Sources : FailOver(i, s)
    BY <1>18
  <2>. DEFINE failed == work[i].failed \cup {Provider[work[i].pick]}
  <2>0. failed \in SUBSET Providers
    BY <1>0, <1>3 DEF FailOver, WorkType
  <2>1. /\ Step("fetching", work[i].lock, s, FALSE, "none", FALSE, failed) \in WorkType
        /\ HasPick(Step("fetching", work[i].lock, s, FALSE, "none", FALSE, failed))
    BY <1>0, <2>0, Shapes, Picks
  <2>. HIDE DEF failed
  <2>2. work' = [work EXCEPT ![i] = Step("fetching", work[i].lock, s, FALSE, "none",
                                         FALSE, failed)]
    BY DEF FailOver, failed
  <2>. QED
    BY <1>1, <1>3, <2>1, <2>2 DEF FailOver
<1>15. CASE \E better \in BOOLEAN : Compare(i, better)
  <2>. PICK better \in BOOLEAN : Compare(i, better)
    BY <1>15
  <2>. DEFINE go == \/ file = NoFile
                    \/ file # work[i].pick /\ Upgrade(cache[i], work[i].pick, better)
  <2>1. go \in BOOLEAN
    BY DEF Upgrade
  <2>. HIDE DEF go
  <2>4. work[i].pick \in Sources
    BY <1>3 DEF Compare
  <2>2. /\ Step("replacing", work[i].lock, work[i].pick, FALSE, "none", go, {}) \in WorkType
        /\ HasPick(Step("replacing", work[i].lock, work[i].pick, FALSE, "none", go, {}))
    BY <1>0, <2>1, <2>4, Shapes, Picks
  <2>3. work' = [work EXCEPT ![i] = Step("replacing", work[i].lock, work[i].pick,
                                         FALSE, "none", go, {})]
    BY DEF Compare, go
  <2>. QED
    BY ZenonT(60), <1>1, <1>3, <2>2, <2>3 DEF Compare
<1>16. CASE Replace(i)
  <2>1. work[i].pick \in Sources
    BY <1>3, <1>16 DEF Replace
  <2>2. /\ Plain("hashing", work[i].lock, work[i].pick) \in WorkType
        /\ HasPick(Plain("hashing", work[i].lock, work[i].pick))
    BY <1>0, <2>1, Shapes, Picks
  <2>. QED
    BY <1>1, <1>3, <1>16, <2>1, <2>2 DEF Replace
<1>17. CASE RecordWrite(i)
  <2>1. work[i].pick \in Sources
    BY <1>3, <1>17 DEF RecordWrite
  <2>2. /\ Recorded(cache[i], file, work[i].pick) \in EntryType
        /\ <<Claim(i, work[i].pick), file>> \in Claims \X Contents
    BY <1>0, <1>3, <2>1, Shapes
  <2>. QED
    BY <1>2, <1>17, <2>2 DEF RecordWrite, MarkVerified
<1>. QED
  BY <1>4, <1>5, <1>6, <1>7, <1>9, <1>11, <1>12, <1>13, <1>14, <1>15, <1>16, <1>17,
     <1>18 DEF Evaluate, Protect, Transfer

LEMMA TypeStep ==
  ASSUME TypeOK, PickInv, [Next]_vars
  PROVE  TypeOK' /\ PickInv'
<1>. SUFFICES Typing' /\ PickInv'
  BY Typed
<1>0. Typing
  BY Typed
<1>1. CASE \E i \in Items : Evaluate(i) \/ Abandon(i)
  <2>. PICK i \in Items : Evaluate(i) \/ Abandon(i)
    BY <1>1
  <2>0. Effect(i)
    BY Evaluating
  <2>5. PICK w \in WorkType : work' = [work EXCEPT ![i] = w] /\ HasPick(w)
    BY <2>0 DEF Effect
  <2>6. work \in [Items -> WorkType]
    BY <1>0 DEF Typing
  <2>7. work' \in [Items -> WorkType]
    BY <2>5, <2>6
  <2>8. \A j \in Items : work'[j] = IF j = i THEN w ELSE work[j]
    BY <2>5, <2>6
  <2>1. work' \in [Items -> WorkType] /\ PickInv'
    BY <2>5, <2>7, <2>8 DEF PickInv
  <2>2. cache' \in [Items -> EntryType] /\ file' \in Contents
    BY <1>0, <2>0 DEF Effect, Typing, Contents
  <2>3. /\ verified' \in [Items -> (Claims \X Contents) \cup {NoFile}]
        /\ met' \in [Items -> SUBSET Canonical]
    BY <1>0, <2>0 DEF Effect, Typing
  <2>4. /\ claimed' \in Claims \cup {NoFile} /\ claimers' \subseteq Items
        /\ todo' \subseteq Items
        /\ UNCHANGED <<offers, disk, on, raced, changes>>
    BY <1>0, <2>0 DEF Effect, Typing
  <2>. QED
    BY <1>0, <2>1, <2>2, <2>3, <2>4 DEF Typing
<1>2. [i \in Items |-> Idle] \in [Items -> WorkType] /\ Idle.at = "idle"
  BY Shapes
<1>3. ASSUME Change PROVE changes' \in 0..MaxChanges
  BY <1>0, <1>3, BoundAssumption DEF Change, Typing
<1>4. ASSUME EmptyRegistry
      PROVE  /\ claimed' \in Claims \cup {NoFile} /\ claimers' \subseteq Items
             /\ verified' \in [Items -> (Claims \X Contents) \cup {NoFile}]
  BY <1>4 DEF EmptyRegistry
<1>5. CASE StartJob \/ EndJob
  BY <1>0, <1>4, <1>5 DEF StartJob, EndJob, PickInv, Typing
<1>6. CASE Kill
  <2>1. work' \in [Items -> WorkType] /\ PickInv'
    BY <1>2, <1>6 DEF Kill, PickInv, HasPick
  <2>. QED
    BY <1>0, <1>3, <1>4, <1>6, <2>1 DEF Kill, Typing
<1>7. CASE \E c \in UserArt \cup {NoFile} : UserPuts(c)
  <2>. PICK c \in UserArt \cup {NoFile} : UserPuts(c)
    BY <1>7
  <2>1. file' \in Contents /\ raced' \subseteq UserArt
    BY <1>0 DEF UserPuts, Contents, Typing
  <2>. QED
    BY <1>0, <1>3, <2>1 DEF UserPuts, RegistryUnchanged, PickInv, Typing
<1>8. CASE \E t \in Titles : \E S \in Offerings[t] : ProvidersChange(t, S)
  BY <1>0, <1>3, <1>8, Constants DEF ProvidersChange, RegistryUnchanged, PickInv, Typing
<1>9. CASE UNCHANGED vars
  BY <1>0, <1>9 DEF vars, PickInv, Typing
<1>. QED
  BY <1>1, <1>5, <1>6, <1>7, <1>8, <1>9 DEF Next

-----------------------------------------------------------------------------
(* Images of the user.                                                     *)

KeptInv == ChecksumInv /\ GrantInv

Grants(w) == \/ w.at \in {"fetching", "comparing", "replacing", "hashing"}
             \/ w.at = "claiming" /\ w.perm \in Granted

(* What an evaluation of i has to leave behind. *)
KeepsArt(i) ==
  /\ cache'[i].sum \notin Kept
  /\ verified'[i] # NoFile => verified'[i][2] \notin Kept
  /\ file' = file \/ (file \notin Kept /\ file' \in Sources)
  /\ work'[i].perm # "overwrite"
  /\ Grants(work'[i]) => file' \notin Kept

LEMMA KeptEvaluate ==
  ASSUME TypeOK, PickInv, KeptInv, Policy # "overwrite", NEW i \in Items,
         Evaluate(i) \/ Abandon(i)
  PROVE  KeepsArt(i)
<1>. USE Typed, Constants DEF Typing
<1>1. /\ cache[i] \in EntryType /\ work[i] \in WorkType
      /\ work[i].at # "idle" => work[i].pick \in Sources
      /\ cache[i].sum \notin Kept /\ NoFile \notin Kept /\ Kept \cap Sources = {}
      /\ work[i].perm # "overwrite"
      /\ Grants(work[i]) => file \notin Kept
      /\ verified[i] # NoFile => verified[i][2] \notin Kept
  BY DEF PickInv, HasPick, KeptInv, ChecksumInv, GrantInv, Grants, Kept
<1>2. ASSUME Finish(i)
      PROVE  work'[i].perm # "overwrite" /\ ~Grants(work'[i])
  BY <1>2, Shapes DEF Finish, Goto, Grants
<1>3. \A s \in Sources \cup {NoFile} : Observed(cache[i], s).sum \notin Kept
  BY <1>1, Shapes
<1>. USE DEF RegistryUnchanged, JobUnchanged, Record, Goto, KeepsArt
<1>4. CASE Select(i)
  <2>0. Selects(i)
    BY <1>4, Selecting
  <2>1. CASE Nothing(i)
    BY <1>1, <1>3, <2>0, <2>1, Shapes DEF Selects, Nothing, Grants
  <2>2. ASSUME NEW d \in Due, NEW s \in Sources, NEW sh \in BOOLEAN, Chosen(i, d, s, sh)
        PROVE  KeepsArt(i)
    <3>. DEFINE claim == Claim(i, s)
    <3>0. claim \in Claims /\ <<claim, file>> # NoFile /\ <<claim, file>>[2] = file
      BY DEF Claim, Claims
    <3>. HIDE DEF claim
    <3>4. ChecksumInv
      BY DEF KeptInv
    <3>5. ASSUME NEW o \in Items, verified[o] = <<claim, file>>
          PROVE  file \notin Kept
      <4>1. verified[o] # NoFile /\ verified[o][2] = file
        BY <3>0, <3>5
      <4>2. verified[o] # NoFile => verified[o][2] \notin Kept
        BY <3>4 DEF ChecksumInv
      <4>. QED
        BY <4>1, <4>2
    <3>6. \A o \in Items : disk[o].sum = file => file \notin Kept
      BY <3>4 DEF ChecksumInv
    <3>1. SharedFile(i, claim) => file \notin Kept
      BY <3>5, <3>6 DEF SharedFile
    <3>2. /\ work'[i].at = "reading" /\ work'[i].perm = "none"
          /\ \/ cache' = cache
             \/ /\ SharedFile(i, claim)
                /\ cache' = [cache EXCEPT ![i] = Entry(file, s, NoFile)]
          /\ UNCHANGED <<file, verified>>
      BY <2>0, <2>2 DEF Selects, Chosen, Step, claim
    <3>3. cache'[i].sum \notin Kept
      BY <1>1, <3>1, <3>2 DEF Entry
    <3>. QED
      BY <1>1, <3>2, <3>3 DEF Grants
  <2>. QED
    BY <2>0, <2>1, <2>2 DEF Selects
<1>5. CASE ReadPermission(i)
  <2>1. /\ Permission(cache[i]) # "overwrite"
        /\ Permission(cache[i]) \in Granted => file \notin Kept
    BY ZenonT(60), <1>1, PolicyAssumption DEF Permission, Granted
  <2>. QED
    BY <1>1, <1>5, <2>1 DEF ReadPermission, Step, Grants
<1>6. CASE Preserve(i) \/ Collide(i) \/ DoNotAdopt(i) \/ LeaveFile(i) \/ Abandon(i)
  BY <1>1, <1>2, <1>3, <1>6 DEF Preserve, Collide, DoNotAdopt, LeaveFile, Abandon
<1>7. CASE Keep(i)
  BY <1>1, <1>2, <1>3, <1>7 DEF Keep, TakeClaim, Claiming
<1>8. CASE SkipSameSource(i)
  <2>1. file \notin Kept
    BY <1>1, <1>8 DEF SkipSameSource, TakeClaim, Claiming, SameSource, Grants, Granted
  <2>. QED
    BY <1>1, <1>2, <1>8, <2>1 DEF SkipSameSource, Verify, MarkVerified, Entry
<1>9. CASE Fetch(i)
  <2>1. file \notin Kept
    BY <1>1, <1>9 DEF Fetch, Allowed, Download, TakeClaim, Claiming, Grants
  <2>. QED
    BY <1>1, <1>9, <2>1 DEF Fetch, Download, Verify, MarkVerified, Plain, Step, Grants
<1>10. CASE TryToAdopt(i)
  BY <1>1, <1>10 DEF TryToAdopt, Download, Plain, Step, Grants
<1>11. CASE Adopt(i)
  BY <1>1, <1>2, <1>11 DEF Adopt, MarkVerified, Entry
<1>12. CASE Fetched(i)
  BY <1>1, <1>12 DEF Fetched, Plain, Step, Grants
<1>16. CASE \E s \in Sources : FailOver(i, s)
  BY <1>1, <1>16 DEF FailOver, Step, Grants
<1>13. CASE \E better \in BOOLEAN : Compare(i, better)
  BY <1>1, <1>13 DEF Compare, Step, Grants
<1>14. CASE Replace(i)
  BY <1>1, <1>3, <1>14 DEF Replace, Plain, Step, Grants
<1>15. CASE RecordWrite(i)
  <2>1. file \notin Kept
    BY <1>1, <1>15 DEF RecordWrite, Grants
  <2>2. Recorded(cache[i], file, work[i].pick).sum = file
    BY DEF Recorded, Entry
  <2>. QED
    BY <1>1, <1>2, <1>15, <2>1, <2>2 DEF RecordWrite, MarkVerified
<1>. QED
  BY <1>4, <1>5, <1>6, <1>7, <1>8, <1>9, <1>10, <1>11, <1>12, <1>13, <1>14, <1>15,
     <1>16 DEF Evaluate, Protect, Transfer

LEMMA KeptStep ==
  ASSUME TypeOK, PickInv, KeptInv, Policy # "overwrite", [Next]_vars
  PROVE  KeptInv' /\ (file \in Kept => file' \in UserArt \cup {NoFile})
<1>0. Typing
  BY Typed
<1>1. CASE \E i \in Items : Evaluate(i) \/ Abandon(i)
  <2>. PICK i \in Items : Evaluate(i) \/ Abandon(i)
    BY <1>1
  <2>1. Effect(i) /\ KeepsArt(i) /\ Kept' = Kept /\ Kept \cap Sources = {}
    BY Evaluating, KeptEvaluate, Constants DEF Effect, Kept
  <2>2. \A j \in Items \ {i} : /\ cache'[j] = cache[j] /\ verified'[j] = verified[j]
                              /\ work'[j] = work[j]
    BY <1>0, <2>1 DEF Effect, Typing
  <2>3. disk' = disk
    BY <2>1 DEF Effect
  <2>4. ChecksumInv'
    BY <2>1, <2>2, <2>3 DEF KeepsArt, KeptInv, ChecksumInv
  <2>5. GrantInv'
    <3>1. file' \in Kept => file' = file
      BY <2>1 DEF KeepsArt
    <3>. QED
      BY <2>1, <2>2, <3>1 DEF KeepsArt, KeptInv, GrantInv, Grants
  <2>6. file \in Kept => file' \in UserArt \cup {NoFile}
    BY <2>1 DEF KeepsArt, Kept
  <2>. QED
    BY <2>4, <2>5, <2>6 DEF KeptInv
<1>2. CASE StartJob \/ EndJob \/ Kill
  <2>1. Idle.at = "idle" /\ Idle.perm = "none"
    BY Shapes
  <2>2. /\ UNCHANGED <<file, raced>> /\ Kept' = Kept
        /\ disk' \in {cache, disk} /\ cache' = disk'
        /\ work' = work \/ work' = [i \in Items |-> Idle]
        /\ verified' = [i \in Items |-> NoFile]
    BY <1>2 DEF StartJob, EndJob, Kill, EmptyRegistry, Kept
  <2>3. ChecksumInv'
    BY <2>2 DEF KeptInv, ChecksumInv
  <2>4. GrantInv'
    BY <2>1, <2>2 DEF KeptInv, GrantInv
  <2>. QED
    BY <2>2, <2>3, <2>4 DEF KeptInv, Kept
<1>3. CASE \E c \in UserArt \cup {NoFile} : UserPuts(c)
  <2>. PICK c \in UserArt \cup {NoFile} : UserPuts(c)
    BY <1>3
  <2>1. /\ UNCHANGED <<cache, disk, verified, work>> /\ Kept' \subseteq Kept
        /\ file' = c
    BY DEF UserPuts, RegistryUnchanged, Kept
  <2>2. ChecksumInv'
    BY <2>1 DEF KeptInv, ChecksumInv
  <2>3. ~AllIdle => file' \notin Kept'
    BY Constants DEF UserPuts, Kept
  <2>4. AllIdle => \A i \in Items : ~Grants(work[i])
    BY Shapes DEF AllIdle, Grants
  <2>5. GrantInv'
    BY <2>1, <2>3, <2>4 DEF KeptInv, GrantInv, Grants
  <2>. QED
    BY <2>1, <2>2, <2>5 DEF KeptInv
<1>4. CASE \/ \E t \in Titles : \E S \in Offerings[t] : ProvidersChange(t, S)
           \/ UNCHANGED vars
  <2>1. UNCHANGED <<file, cache, disk, verified, work, raced>>
    BY <1>4 DEF ProvidersChange, RegistryUnchanged, vars
  <2>. QED
    BY <2>1 DEF KeptInv, ChecksumInv, GrantInv, Kept
<1>. QED
  BY <1>1, <1>2, <1>3, <1>4 DEF Next

-----------------------------------------------------------------------------
(* One title.                                                              *)

(* The ways an evaluation bears on who holds a record, claim or            *)
(* verification.                                                           *)
Recording(i) ==   \* it goes on, under the claim it has, or ends
  /\ cache'[i].sum = cache[i].sum
  /\ UNCHANGED <<claimed, verified>>
  /\ work'[i].at \in Past => work[i].at \in Past
Taking(i) ==      \* it takes the claim
  /\ work[i].pick \in Sources /\ ~Collides(i, Claim(i, work[i].pick))
  /\ claimed' = Claim(i, work[i].pick)
  /\ cache'[i].sum = cache[i].sum
  /\ \/ verified' = verified
     \/ \E c \in Contents :
          verified' = [verified EXCEPT ![i] = <<Claim(i, work[i].pick), c>>]
Owning(i) ==      \* it records the file as the item's, under the claim
  /\ work[i].at \in Past /\ work'[i].at \notin Past
  /\ claimed' = claimed
  /\ \E c \in Contents :
       verified' = [verified EXCEPT ![i] = <<Claim(i, work[i].pick), c>>]
Sharing(i) ==     \* it records the file as another edition's
  /\ \E s \in Sources : SharedFile(i, Claim(i, s))
  /\ work'[i].at \notin Past
  /\ UNCHANGED <<claimed, verified>>

LEMMA TitleKinds ==
  ASSUME TypeOK, PickInv, NEW i \in Items, Evaluate(i) \/ Abandon(i)
  PROVE  /\ Recording(i) \/ Taking(i) \/ Owning(i) \/ Sharing(i)
         /\ on \/ ~AllIdle
<1>. USE Typed, Constants DEF Typing
<1>1. /\ cache[i] \in EntryType /\ work[i] \in WorkType
      /\ work[i].at # "idle" => work[i].pick \in Sources
      /\ file \in Contents /\ Idle.at = "idle"
  BY Shapes DEF PickInv, HasPick
<1>2. \A s \in Sources \cup {NoFile} : Observed(cache[i], s).sum = cache[i].sum
  BY <1>1, Shapes
<1>3. ASSUME Finish(i) PROVE work'[i].at = "idle"
  BY <1>1, <1>3 DEF Finish, Goto
<1>. USE DEF RegistryUnchanged, JobUnchanged, Record, Goto, Past
<1>4. CASE Select(i)
  <2>0. Selects(i)
    BY <1>4, Selecting
  <2>1. CASE Nothing(i)
    <3>1. /\ cache'[i].sum = cache[i].sum /\ on
          /\ UNCHANGED <<claimed, verified, work>>
      BY <1>2, <2>0, <2>1 DEF Selects, Nothing
    <3>. QED
      BY <3>1 DEF Recording
  <2>2. ASSUME NEW d \in Due, NEW s \in Sources, NEW sh \in BOOLEAN, Chosen(i, d, s, sh)
        PROVE  (Recording(i) \/ Sharing(i)) /\ on
    <3>1. /\ work'[i].at = "reading" /\ on
          /\ UNCHANGED <<claimed, verified>>
          /\ SharedFile(i, Claim(i, s)) \/ cache' = cache
      BY <2>0, <2>2 DEF Selects, Chosen, Step
    <3>. QED
      BY <1>1, <3>1 DEF Recording, Sharing
  <2>. QED
    BY <2>0, <2>1, <2>2 DEF Selects
<1>5. CASE \/ Preserve(i) \/ Collide(i) \/ DoNotAdopt(i) \/ LeaveFile(i) \/ Abandon(i)
           \/ ReadPermission(i) \/ Replace(i)
           \/ Fetched(i) \/ (\E s \in Sources : FailOver(i, s))
           \/ (\E better \in BOOLEAN : Compare(i, better))
  <2>1. UNCHANGED <<claimed, verified>> /\ work[i] # Idle
    BY <1>1, <1>5 DEF Preserve, Collide, DoNotAdopt, LeaveFile, Abandon,
       ReadPermission, Replace, Fetched, FailOver, Compare, Claiming
  <2>3. \/ cache' = cache
        \/ cache' = [cache EXCEPT ![i] = Observed(cache[i], work[i].pick)]
    BY <1>5 DEF Preserve, Collide, DoNotAdopt, LeaveFile, Abandon,
       ReadPermission, Replace, Fetched, FailOver, Compare
  <2>4. cache'[i].sum = cache[i].sum
    BY <1>1, <1>2, <2>3 DEF WorkType
  <2>2. work'[i].at \in Past => work[i].at \in Past
    BY <1>1, <1>3, <1>5 DEF Preserve, Collide, DoNotAdopt, LeaveFile, Abandon,
       ReadPermission, Replace, Fetched, FailOver, Compare,
       Plain, Step
  <2>. QED
    BY <2>1, <2>2, <2>4 DEF Recording, AllIdle
<1>6. CASE Keep(i) \/ SkipSameSource(i) \/ Fetch(i) \/ TryToAdopt(i)
  <2>1. TakeClaim(i) /\ work[i].pick \in Sources /\ work[i] # Idle
    BY <1>1, <1>6 DEF Keep, SkipSameSource, Fetch, TryToAdopt, Download, TakeClaim,
       Claiming
  <2>4. \/ cache' = cache
        \/ cache' = [cache EXCEPT ![i] = Observed(cache[i], work[i].pick)]
        \/ cache' = [cache EXCEPT ![i] = Entry(cache[i].sum, work[i].pick, NoFile)]
    BY <1>6 DEF Keep, SkipSameSource, Fetch, TryToAdopt, Download
  <2>2. cache'[i].sum = cache[i].sum
    BY <1>1, <1>2, <2>1, <2>4 DEF Entry
  <2>3. \/ verified' = verified
        \/ \E c \in Contents :
             verified' = [verified EXCEPT ![i] = <<Claim(i, work[i].pick), c>>]
    BY <1>1, <1>6 DEF Keep, SkipSameSource, Fetch, TryToAdopt, Download, Verify,
       MarkVerified
  <2>. QED
    BY <2>1, <2>2, <2>3 DEF Taking, TakeClaim, AllIdle
<1>7. CASE Adopt(i) \/ RecordWrite(i)
  <2>1. work[i] # Idle /\ work[i].at \in Past /\ work'[i].at \notin Past
    BY <1>1, <1>3, <1>7 DEF Adopt, RecordWrite
  <2>2. work[i].pick \in Contents
    BY <1>1, <1>7 DEF Adopt, RecordWrite, Contents
  <2>. QED
    BY <1>1, <1>7, <2>1, <2>2 DEF Adopt, RecordWrite, MarkVerified, Owning, AllIdle
<1>. QED
  BY <1>4, <1>5, <1>6, <1>7 DEF Evaluate, Protect, Transfer

LEMMA TitleEvaluate ==
  ASSUME TypeOK, PickInv, TitleInv, NEW i \in Items, Evaluate(i) \/ Abandon(i)
  PROVE  TitleInv'
<1>0. Typing /\ Effect(i)
  BY Typed, Evaluating
<1>1. /\ \A j \in Items \ {i} : cache'[j] = cache[j] /\ work'[j] = work[j]
      /\ disk' = disk /\ on' = on /\ on
  <2>1. on
    BY TitleKinds DEF TitleInv
  <2>. QED
    BY <1>0, <2>1 DEF Effect, Typing
<1>2. /\ \A j, k \in Recorders : Tmdb[j] = Tmdb[k]
      /\ claimed # NoFile => \A j \in Recorders : Tmdb[j] = claimed[1]
      /\ \A j \in Items : verified[j] # NoFile =>
           claimed # NoFile /\ claimed[1] = Tmdb[j] /\ verified[j][1][1] = Tmdb[j]
      /\ \A j \in Items : work[j].at \in Past =>
           claimed # NoFile /\ claimed[1] = Tmdb[j]
      /\ claimed = NoFile =>
           \A j \in Recorders : \E o \in Owners : Tmdb[o] = Tmdb[j]
  BY DEF TitleInv
<1>3. /\ Owners' = Owners /\ Owners \subseteq Recorders
      /\ Recorders' \subseteq Recorders \cup {i}
      /\ Past' = Past
  BY <1>1 DEF Owners, Recorders, Past
<1>4. ASSUME cache'[i].sum = cache[i].sum PROVE Recorders' = Recorders
  BY <1>1, <1>4 DEF Recorders
<1>5. CASE Recording(i)
  <2>1. /\ Recorders' = Recorders /\ UNCHANGED <<claimed, verified>>
        /\ \A j \in Items : work'[j].at \in Past => work[j].at \in Past
    BY <1>1, <1>4, <1>5 DEF Recording
  <2>. QED
    BY <1>1, <1>2, <1>3, <2>1 DEF TitleInv
<1>6. ASSUME NEW s \in Sources
      PROVE  Claim(i, s) # NoFile /\ Claim(i, s)[1] = Tmdb[i] /\ Claim(i, s) \in Claims
  BY Constants DEF Claim, Claims
<1>7. CASE Taking(i)
  <2>1. /\ Recorders' = Recorders /\ claimed' # NoFile /\ claimed'[1] = Tmdb[i]
        /\ claimed \in {NoFile, claimed'}
    BY <1>4, <1>6, <1>7 DEF Taking, Collides
  <2>2. \A j \in Recorders : Tmdb[j] = Tmdb[i]
    <3>1. CASE claimed # NoFile
      BY <1>2, <2>1, <3>1
    <3>2. CASE claimed = NoFile
      <4>1. \A o \in Owners \ {i} : Tmdb[o] = Tmdb[i]
        <5>1. Compatible(i, Claim(i, work[i].pick))
          BY <1>7 DEF Taking, Collides
        <5>2. \A o \in Owners : OwnerClaim(o)[1] = Tmdb[o]
          BY DEF OwnerClaim, Claim
        <5>. QED
          BY <1>6, <1>7, <5>1, <5>2 DEF Taking, Compatible, SameSharedAsset, Shareable
      <4>. QED
        BY <1>2, <3>2, <4>1
    <3>. QED
      BY <3>1, <3>2
  <2>3. \A j \in Items : verified'[j] # NoFile =>
          claimed'[1] = Tmdb[j] /\ verified'[j][1][1] = Tmdb[j]
    <3>1. \A j \in Items : verified[j] # NoFile =>
            claimed'[1] = Tmdb[j] /\ verified[j][1][1] = Tmdb[j]
      BY <1>2, <2>1
    <3>2. verified \in [Items -> (Claims \X Contents) \cup {NoFile}]
      BY <1>0 DEF Typing
    <3>3. \A c \in Contents : <<Claim(i, work[i].pick), c>>[1][1] = Tmdb[i]
      BY <1>6, <1>7 DEF Taking
    <3>. QED
      BY <1>7, <2>1, <3>1, <3>2, <3>3 DEF Taking
  <2>4. \A j \in Items : work'[j].at \in Past => claimed'[1] = Tmdb[j]
    BY <1>1, <1>2, <2>1
  <2>. QED
    BY <1>1, <1>2, <1>3, <2>1, <2>2, <2>3, <2>4 DEF TitleInv
<1>8. CASE Owning(i)
  <2>1. /\ claimed' = claimed /\ claimed # NoFile /\ claimed[1] = Tmdb[i]
        /\ \A j \in Items : work'[j].at \in Past => work[j].at \in Past
    BY <1>1, <1>2, <1>8 DEF Owning
  <2>2. \A j \in Recorders' : Tmdb[j] = claimed[1]
    BY <1>2, <1>3, <2>1
  <2>3. \A j \in Items : verified'[j] # NoFile =>
          claimed[1] = Tmdb[j] /\ verified'[j][1][1] = Tmdb[j]
    <3>1. verified \in [Items -> (Claims \X Contents) \cup {NoFile}]
      BY <1>0 DEF Typing
    <3>2. \A c \in Contents : <<Claim(i, work[i].pick), c>>[1][1] = Tmdb[i]
      BY DEF Claim
    <3>. QED
      BY <1>2, <1>8, <2>1, <3>1, <3>2 DEF Owning
  <2>. QED
    BY <1>1, <1>2, <1>3, <2>1, <2>2, <2>3 DEF TitleInv
<1>9. CASE Sharing(i)
  <2>. PICK s \in Sources : SharedFile(i, Claim(i, s))
    BY <1>9 DEF Sharing
  <2>. DEFINE claim == Claim(i, s)
  <2>1. claim \in Claims /\ claim # NoFile /\ claim[1] = Tmdb[i]
    BY <1>6
  <2>2. \/ \E o \in Owners : Tmdb[o] = Tmdb[i]
        \/ claimed # NoFile /\ claimed[1] = Tmdb[i]
    <3>1. PICK o \in Items : \/ o \in Owners /\ claim = OwnerClaim(o)
                             \/ verified[o] = <<claim, file>>
      BY DEF SharedFile, Shareable
    <3>2. CASE o \in Owners /\ claim = OwnerClaim(o)
      BY <2>1, <3>2 DEF OwnerClaim, Claim
    <3>3. CASE verified[o] = <<claim, file>>
      <4>1. verified[o] # NoFile /\ verified[o][1] = claim
        BY <1>0, <2>1, <3>3, Constants DEF Typing
      <4>. HIDE DEF claim
      <4>. QED
        BY <1>2, <2>1, <4>1
    <3>. QED
      BY <3>1, <3>2, <3>3
  <2>3. /\ UNCHANGED <<claimed, verified>>
        /\ \A j \in Items : work'[j].at \in Past => work[j].at \in Past
    BY <1>1, <1>9 DEF Sharing
  <2>4. \A j \in Recorders : Tmdb[j] = Tmdb[i]
    BY <1>2, <1>3, <2>2
  <2>5. /\ claimed # NoFile => Tmdb[i] = claimed[1]
        /\ claimed = NoFile => \E o \in Owners : Tmdb[o] = Tmdb[i]
    BY <1>2, <1>3, <2>2
  <2>6. /\ \A j, k \in Recorders' : Tmdb[j] = Tmdb[k]
        /\ claimed # NoFile => \A j \in Recorders' : Tmdb[j] = claimed[1]
        /\ claimed = NoFile => \A j \in Recorders' : \E o \in Owners : Tmdb[o] = Tmdb[j]
    BY <1>2, <1>3, <2>4, <2>5
  <2>. QED
    BY <1>1, <1>2, <1>3, <2>3, <2>6 DEF TitleInv
<1>. QED
  BY <1>5, <1>7, <1>8, <1>9, TitleKinds

LEMMA TitleStep ==
  ASSUME TypeOK, PickInv, TitleInv, [Next]_vars
  PROVE  TitleInv'
<1>1. CASE \E i \in Items : Evaluate(i) \/ Abandon(i)
  BY <1>1, TitleEvaluate
<1>2. CASE StartJob \/ EndJob \/ Kill
  <2>1. /\ cache' = disk' /\ disk' \in {cache, disk}
        /\ claimed' = NoFile /\ verified' = [i \in Items |-> NoFile]
    BY <1>2 DEF StartJob, EndJob, Kill, EmptyRegistry
  <2>2. Recorders' \subseteq Recorders /\ Owners' = Recorders'
    BY <2>1 DEF Recorders, Owners
  <2>3. AllIdle' /\ \A i \in Items : work'[i].at \notin Past'
    <3>1. Idle.at = "idle"
      BY Shapes
    <3>2. \A i \in Items : work'[i] = Idle
      BY <1>2 DEF TitleInv, StartJob, EndJob, Kill, AllIdle
    <3>. QED
      BY <3>1, <3>2 DEF AllIdle, Past
  <2>4. \A i \in Items : verified'[i] = NoFile
    BY <2>1
  <2>. QED
    BY <2>1, <2>2, <2>3, <2>4 DEF TitleInv
<1>3. CASE \/ \E c \in UserArt \cup {NoFile} : UserPuts(c)
           \/ \E t \in Titles : \E S \in Offerings[t] : ProvidersChange(t, S)
           \/ UNCHANGED vars
  <2>1. UNCHANGED <<cache, disk, on, claimed, verified, work>>
    BY <1>3 DEF UserPuts, ProvidersChange, RegistryUnchanged, vars
  <2>. QED
    BY <2>1 DEF TitleInv, Recorders, Owners, Past, AllIdle
<1>. QED
  BY <1>1, <1>2, <1>3 DEF Next

-----------------------------------------------------------------------------
(* Canonical images.                                                       *)

(* Where the pending image of i comes from in an evaluation.               *)
Pends(i) ==
  /\ \A j \in Items \ {i} : work'[j] = work[j] /\ cache'[j] = cache[j]
  /\ \A j \in Items : met[j] \subseteq met'[j]
  /\ disk' = disk
  /\ \/ cache'[i].pend = NoFile
     \/ /\ cache'[i].pend = cache[i].pend
        /\ work[i].at # "hashing"
     \/ /\ cache'[i].pend = work[i].pick
        /\ \/ work'[i].at = "hashing" /\ work'[i].pick = work[i].pick
           \/ work[i].pick \in met'[i]
     \/ /\ cache'[i].pend = cache[i].pend /\ cache[i].pend # work[i].pick
     \/ /\ work[i].pick \in Canonical => work[i].pick \in met'[i]
        /\ cache'[i] = cache[i]

LEMMA PendingEvaluate ==
  ASSUME TypeOK, PickInv, NEW i \in Items, Evaluate(i) \/ Abandon(i)
  PROVE  Pends(i)
<1>0. Typing /\ Effect(i)
  BY Typed, Evaluating
<1>1. /\ \A j \in Items \ {i} : work'[j] = work[j] /\ cache'[j] = cache[j]
      /\ \A j \in Items : met[j] \subseteq met'[j]
      /\ disk' = disk
  BY <1>0 DEF Effect, Typing
<1>2. /\ cache[i] \in EntryType /\ work[i] \in WorkType
      /\ cache[i] \in [sum : Contents, src : Sources \cup {NoFile},
                       pend : Canonical \cup {NoFile}]
      /\ work[i].pick \in Sources \cup {NoFile}
  BY <1>0 DEF Typing, EntryType, WorkType
<1>3. ASSUME Finish(i)
      PROVE  work[i].pick \in Canonical => work[i].pick \in met'[i]
  BY <1>0, <1>3 DEF Finish, Typing
<1>4. \A s \in Sources \cup {NoFile} :
        /\ Observed(cache[i], s).pend \in {s, NoFile}
        /\ Observed(cache[i], s).pend \in Canonical \cup {NoFile}
  BY DEF Observed, Entry
<1>. USE <1>1 DEF Pends, RegistryUnchanged, JobUnchanged, Record, Goto
<1>5. CASE Select(i)
  <2>0. Selects(i)
    BY <1>5, Selecting
  <2>1. CASE Nothing(i)
    BY <1>0, <1>4, <2>1 DEF Nothing, Typing
  <2>2. ASSUME NEW d \in Due, NEW s \in Sources, NEW sh \in BOOLEAN, Chosen(i, d, s, sh)
        PROVE  Pends(i)
    <3>1. cache' = cache \/ cache' = [cache EXCEPT ![i] = Entry(file, s, NoFile)]
      BY <2>2 DEF Chosen
    <3>2. work[i].at = "idle"
      BY <2>0, Shapes DEF Selects
    <3>. QED
      BY <1>0, <3>1, <3>2 DEF Typing, Entry
  <2>. QED
    BY <2>0, <2>1, <2>2 DEF Selects
<1>6. CASE \/ ReadPermission(i) \/ Fetch(i) \/ TryToAdopt(i)
           \/ Fetched(i) \/ (\E s \in Sources : FailOver(i, s))
           \/ (\E better \in BOOLEAN : Compare(i, better))
  BY <1>6 DEF ReadPermission, Fetch, TryToAdopt, Download, Fetched, FailOver, Compare,
     TakeClaim, Claiming
<1>7. CASE Collide(i) \/ Abandon(i)
  BY <1>3, <1>7 DEF Collide, Abandon
<1>8. CASE Preserve(i) \/ Keep(i) \/ DoNotAdopt(i) \/ LeaveFile(i)
  <2>1. Finish(i) /\ cache' = [cache EXCEPT ![i] = Observed(cache[i], work[i].pick)]
    BY <1>8 DEF Preserve, Keep, DoNotAdopt, LeaveFile
  <2>2. cache'[i] = Observed(cache[i], work[i].pick)
    BY <1>0, <2>1 DEF Typing
  <2>. QED
    BY <1>2, <1>3, <1>4, <2>1, <2>2
<1>9. CASE SkipSameSource(i) \/ Adopt(i)
  BY <1>0, <1>9 DEF SkipSameSource, Adopt, Entry, Typing
<1>10. CASE Replace(i)
  <2>1. cache'[i] = Observed(cache[i], work[i].pick)
    BY <1>0, <1>10 DEF Replace, Typing
  <2>2. work'[i].at = "hashing" /\ work'[i].pick = work[i].pick
    BY <1>0, <1>10 DEF Replace, Plain, Step, Typing
  <2>. QED
    BY <1>2, <1>4, <2>1, <2>2
<1>11. CASE RecordWrite(i)
  <2>1. cache'[i] = Recorded(cache[i], file, work[i].pick)
    BY <1>0, <1>11 DEF RecordWrite, Typing
  <2>2. Recorded(cache[i], file, work[i].pick).pend =
          IF cache[i].pend = work[i].pick THEN NoFile ELSE cache[i].pend
    BY DEF Recorded, Entry
  <2>. QED
    BY <2>1, <2>2
<1>. QED
  BY <1>5, <1>6, <1>7, <1>8, <1>9, <1>10, <1>11 DEF Evaluate, Protect, Transfer

LEMMA PendingStep ==
  ASSUME TypeOK, PickInv, TitleInv, PendingInv, [Next]_vars
  PROVE  PendingInv'
<1>0. Typing
  BY Typed
<1>1. \A i \in Items : cache[i].pend \in Canonical \cup {NoFile}
  BY <1>0 DEF Typing, EntryType
<1>2. CASE \E i \in Items : Evaluate(i) \/ Abandon(i)
  <2>. PICK i \in Items : Evaluate(i) \/ Abandon(i)
    BY <1>2
  <2>1. Pends(i)
    BY PendingEvaluate
  <2>2. \A j \in Items \ {i} :
          /\ disk'[j].pend # NoFile => disk'[j].pend \in met'[j]
          /\ \/ cache'[j].pend \in met'[j] \cup {NoFile}
             \/ work'[j].at = "hashing" /\ cache'[j].pend = work'[j].pick
    BY <2>1 DEF Pends, PendingInv
  <2>3. disk'[i].pend # NoFile => disk'[i].pend \in met'[i]
    BY <2>1 DEF Pends, PendingInv
  <2>4. \/ cache'[i].pend \in met'[i] \cup {NoFile}
        \/ work'[i].at = "hashing" /\ cache'[i].pend = work'[i].pick
    BY <1>1, <2>1 DEF Pends, PendingInv
  <2>. QED
    BY <2>2, <2>3, <2>4 DEF PendingInv
<1>3. CASE EndJob
  <2>1. \A i \in Items : cache[i].pend # NoFile => cache[i].pend \in met[i]
    BY <1>3, Shapes DEF PendingInv, EndJob, AllIdle
  <2>. QED
    BY <1>3, <2>1 DEF EndJob, PendingInv
<1>4. CASE StartJob \/ Kill
  BY <1>4 DEF StartJob, Kill, PendingInv
<1>5. CASE \/ \E c \in UserArt \cup {NoFile} : UserPuts(c)
           \/ \E t \in Titles : \E S \in Offerings[t] : ProvidersChange(t, S)
           \/ UNCHANGED vars
  <2>1. UNCHANGED <<cache, disk, work, met>>
    BY <1>5 DEF UserPuts, ProvidersChange, RegistryUnchanged, vars
  <2>. QED
    BY <2>1 DEF PendingInv
<1>. QED
  BY <1>2, <1>3, <1>4, <1>5 DEF Next

(* Every step that decides to replace an existing file by another canonical *)
(* image finds it pending.                                                 *)
LEMMA Deciding ==
  ASSUME TypeOK, PickInv, PendingInv, [Next]_vars, NEW i \in Items,
         work[i].at = "comparing", work'[i].at = "replacing", work'[i].go,
         file # NoFile, work[i].pick \in Canonical \ {cache[i].src}
  PROVE  work[i].pick \in met[i]
<1>0. Typing
  BY Typed
<1>1. \E better \in BOOLEAN : Compare(i, better)
  <2>1. ASSUME NEW j \in Items, Evaluate(j) \/ Abandon(j) PROVE j = i
    BY <2>1, PendingEvaluate DEF Pends
  <2>2. Evaluate(i) \/ Abandon(i)
    <3>1. Idle.at = "idle"
      BY Shapes
    <3>. QED
      BY <2>1, <3>1 DEF Next, StartJob, EndJob, Kill, UserPuts, ProvidersChange, vars
  <2>3. ~Finish(i)
    BY <1>0, Shapes DEF Finish, Goto, Typing
  <2>4. ~Select(i)
    BY Selecting, Shapes DEF Selects
  <2>5. ~(ReadPermission(i) \/ Fetch(i) \/ TryToAdopt(i))
    BY DEF ReadPermission, Fetch, TryToAdopt, Download, TakeClaim, Claiming
  <2>6. ~Replace(i) /\ ~Fetched(i) /\ \A s \in Sources : ~FailOver(i, s)
    BY DEF Replace, Fetched, FailOver
  <2>7. ~(Preserve(i) \/ Collide(i) \/ Keep(i) \/ SkipSameSource(i) \/ Adopt(i)
          \/ DoNotAdopt(i) \/ LeaveFile(i) \/ RecordWrite(i) \/ Abandon(i))
    BY <2>3 DEF Preserve, Collide, Keep, SkipSameSource, Adopt, DoNotAdopt, LeaveFile,
       RecordWrite, Abandon
  <2>. QED
    BY <2>2, <2>4, <2>5, <2>6, <2>7 DEF Evaluate, Protect, Transfer
<1>2. PICK better \in BOOLEAN : Compare(i, better)
  BY <1>1
<1>3. work[i].pick \in {cache[i].src, cache[i].pend}
  <2>1. work'[i].go = \/ file = NoFile
                      \/ file # work[i].pick /\ Upgrade(cache[i], work[i].pick, better)
    BY <1>0, <1>2 DEF Compare, Goto, Step, Typing
  <2>. QED
    BY <2>1 DEF Upgrade
<1>4. cache[i].pend = work[i].pick /\ work[i].pick # NoFile
  BY <1>3, Constants DEF PickInv, HasPick
<1>. QED
  BY <1>4 DEF PendingInv

-----------------------------------------------------------------------------
(* The theorems.                                                           *)

LEMMA InitInv == Init => Inv /\ PickInv
<1>. SUFFICES ASSUME Init PROVE Inv /\ PickInv
  OBVIOUS
<1>1. /\ \A i \in Items : /\ cache[i] = NoEntry /\ disk[i] = NoEntry
                           /\ work[i] = Idle /\ verified[i] = NoFile
      /\ claimed = NoFile /\ cache = disk
  BY DEF Init
<1>2. /\ NoEntry.sum = NoFile /\ NoEntry.pend = NoFile
      /\ Idle.at = "idle" /\ Idle.perm = "none"
  BY DEF NoEntry, Entry, Idle, Plain, Step
<1>3. ChecksumInv /\ GrantInv
  BY <1>1, <1>2, Constants DEF ChecksumInv, GrantInv, Kept
<1>4. TitleInv
  BY <1>1, <1>2 DEF TitleInv, Recorders, Past, AllIdle
<1>5. PendingInv /\ PickInv
  BY <1>1, <1>2 DEF PendingInv, PickInv, HasPick
<1>. QED
  BY <1>3, <1>4, <1>5, InitType DEF Inv

LEMMA InvStep == Inv /\ PickInv /\ [Next]_vars => Inv' /\ PickInv'
BY TypeStep, KeptStep, TitleStep, PendingStep, PolicyAssumption DEF Inv, KeptInv

LEMMA Invariance == Spec => [](Inv /\ PickInv)
BY InitInv, InvStep, PTL DEF Spec

(* The files, the two copies of the media state, the registry and the       *)
(* evaluations are always of their types (Artwork.TypeOK).                  *)
THEOREM TypeCorrect == Spec => []TypeOK
BY Invariance, PTL DEF Inv

(* An image of the user's that was put while nothing was being evaluated is *)
(* never replaced by the job (asset_write_allowed).                         *)
THEOREM UserArtIsKept == Spec => UserArtKept
<1>1. Inv /\ PickInv /\ [Next]_vars =>
        [(Policy # "overwrite" /\ file \in UserArt \ raced) =>
            file' \in UserArt \cup {NoFile}]_vars
  BY KeptStep DEF Inv, KeptInv, Kept
<1>. QED
  BY <1>1, Invariance, PTL DEF Spec, UserArtKept

(* However many movies resolve to the destination, the ones that hold a     *)
(* record of it are of one title (AssetDestinationRegistry.claim).          *)
THEOREM OneTitleHolds == Spec => []OneTitle
<1>1. Inv => OneTitle
  BY DEF Inv, TitleInv, Recorders, OneTitle
<1>. QED
  BY <1>1, Invariance, PTL

(* A canonical image replaces an existing file only after an earlier        *)
(* evaluation had come to it (_canonical_upgrade_decision).                 *)
THEOREM CanonicalIsConfirmed == Spec => ConfirmedTwice
<1>1. Inv /\ PickInv /\ [Next]_vars =>
        [\A i \in Items :
           (/\ work[i].at = "comparing" /\ work'[i].at = "replacing" /\ work'[i].go
            /\ file # NoFile
            /\ work[i].pick \in Canonical \ {cache[i].src})
           => work[i].pick \in met[i]]_vars
  BY Deciding DEF Inv
<1>. QED
  BY <1>1, Invariance, PTL DEF Spec, ConfirmedTwice
=============================================================================
