------------------------ MODULE KometaOutput_proofs ------------------------
(***************************************************************************)
(* What KometaOutput promises, for any libraries, items, records, fields   *)
(* and inventories, and any number of changes and failures.                *)
(***************************************************************************)
EXTENDS KometaOutput, TLAPS

(***************************************************************************)
(* Where a job is.  While it has a file open that file is of the type of   *)
(* its present library; a library it has left, or has not come to, has no  *)
(* entries, and one that is still to come no records.  The operator's      *)
(* command has no libraries at all.                                        *)
(***************************************************************************)
Opened ==
  {"read", "items", "check", "backup", "replace", "reread", "restore", "restoring", "prune"}

PlaceInv ==
  /\ at \in {"snapshot", "read", "items"} => libs # <<>>
  /\ at \in {"idle", "flush", "fingerprint"} => libs = <<>>
  /\ at \in Opened \cup {"fingerprint"} => target \in Types
  /\ at \in Opened /\ libs # <<>> => target = TypeOf[Head(libs)]
  /\ at \notin Opened \ {"read"} => entries = Nothing
  /\ libs = <<>> /\ at # "flush" => records = Nothing /\ entries = Nothing
  /\ IsInjective(libs)
  /\ \A i \in Items : records[i] # <<>> => LibraryOf[i] \notin Range(libs)
  /\ \A i \in Items : entries[i] # <<>> => libs # <<>> /\ LibraryOf[i] = Head(libs)

(* A copy is taken only of a file that is there, and success is given up   *)
(* before anything is restored.                                            *)
CopyInv ==
  /\ at \notin {"replace", "reread", "restore", "restoring", "prune"} => copy = NoFile
  /\ at \in {"restore", "restoring"} => ~good
  /\ at \notin {"restore", "restoring", "prune"} => good

(* A file that cannot be read has no fields.                               *)
Plain(f) == f.state # "whole" => f.text = Empty
PlainInv ==
  /\ \A t \in Types : Plain(file[t]) /\ \A n \in DOMAIN backups[t] : Plain(backups[t][n])
  /\ Plain(snap) /\ Plain(copy)
-----------------------------------------------------------------------------
(* The operators of the model                                              *)

LEMMA Constants ==
  /\ None \in Values /\ User \in Values /\ Old \in Values /\ Sources \subseteq Values
  /\ Blank \in [Paths -> Values] /\ Empty \in Documents
  /\ NoFile \in Files /\ Broken \in Files /\ Nothing \in Shares
  /\ \A t \in Documents : Whole(t) \in Files
  /\ Earlier \in [Paths -> Values]
BY DEF Values, Sources, Blank, Empty, Documents, NoFile, Broken, Nothing, Shares, Files, Whole, Earlier

LEMMA TypeOf_ ==
  /\ \A i \in Items : LibraryOf[i] \in Libraries /\ FileOf(i) \in Types
  /\ \A l \in Libraries : TypeOf[l] \in Types
  /\ LibraryOrder \in Seq(Libraries)
BY KometaAssumption DEF FileOf, Types

(* The merge of two entries is an entry.                                   *)
LEMMA MergeType ==
  ASSUME NEW existing \in [Paths -> Values], NEW generated \in [Paths -> Values], NEW inventory
  PROVE  Merge(existing, generated, inventory) \in [Paths -> Values]
BY Constants DEF Merge

LEMMA GeneratedType ==
  ASSUME TypeOK, NEW i \in Items, chosen[i] # None, NEW inventory, NEW missing
  PROVE  /\ source[chosen[i]] \in States[chosen[i]] /\ chosen[i] \in Records
         /\ Generated(i, inventory, missing) \in [Paths -> Values]
<1>1. chosen[i] \in Records
  BY DEF TypeOK, IdentityTypeOK
<1>2. source[chosen[i]] \in States[chosen[i]] /\ source[chosen[i]] \in Values
  BY <1>1, Constants DEF TypeOK, OutputTypeOK
<1>. QED
  BY <1>1, <1>2, Constants DEF Generated

LEMMA ExplainedType ==
  ASSUME NEW i \in Items, NEW inventory, NEW merged \in [Paths -> Values]
  PROVE  Explained(i, inventory, merged) \in [Paths -> Values]
BY Constants DEF Explained

-----------------------------------------------------------------------------
(* Types                                                                   *)

LEMMA TypeInit == Init => OutputTypeOK
<1>. SUFFICES ASSUME Init PROVE OutputTypeOK
  OBVIOUS
<1>1. file \in [Types -> Files]
  <2>1. CASE file = [t \in Types |-> NoFile]
    BY <2>1, Constants
  <2>2. CASE file = [t \in Types |-> Whole([i \in Items |-> IF FileOf(i) = t THEN Earlier ELSE Blank])]
    <3>1. \A t \in Types : [i \in Items |-> IF FileOf(i) = t THEN Earlier ELSE Blank] \in Documents
      BY Constants DEF Documents
    <3>. QED
      BY <2>2, <3>1, Constants
  <2>. QED
    BY <2>1, <2>2 DEF Init
<1>2. backups \in [Types -> Seq(Files)] /\ ledger \in Documents
  BY Constants DEF Init
<1>3. source \in [Records -> Sources] /\ \A r \in Records : source[r] \in States[r]
  <2>1. \A r \in Records : (CHOOSE v \in States[r] : TRUE) \in States[r]
    BY KometaAssumption
  <2>. QED
    BY <2>1 DEF Init, Sources
<1>4. DOMAIN holds = Items /\ DOMAIN read = Items
      /\ \A i \in Items : holds[i] \in Inventories[i] /\ read[i] \in Inventories[i] \cup {{}, Unread}
  BY DEF Init
<1>5. changes \in 0..MaxChanges /\ faults \in 0..MaxFaults
  BY KometaAssumption DEF Init
<1>6. /\ policy \in {"append", "sync"} /\ at \in Phases
      /\ libs \in Seq(Libraries) /\ left \subseteq Items /\ target \in Types \cup {None}
  BY DEF Init, Phases
<1>7. /\ {snap, copy} \subseteq Files /\ {base, doc} \subseteq Documents /\ good \in BOOLEAN
      /\ entries \in Shares /\ records \in Shares
      /\ dropped \subseteq Items \X Paths /\ touched \subseteq Items \X Paths /\ raced \in BOOLEAN
  BY Constants DEF Init
<1>. QED
  BY <1>1, <1>2, <1>3, <1>4, <1>5, <1>6, <1>7 DEF OutputTypeOK

(* What the actions do to the variables of a job.                          *)
LEMMA LeaveType ==
  ASSUME OutputTypeOK, libs # <<>>, NEW kept \in Shares, Leave(kept)
  PROVE  /\ target' \in Types \cup {None} /\ snap' \in Files /\ copy' \in Files
         /\ base' \in Documents /\ doc' \in Documents /\ good' \in BOOLEAN
         /\ entries' \in Shares /\ records' \in Shares
         /\ libs' \in Seq(Libraries) /\ left' \subseteq Items /\ at' \in Phases
<1>1. records' \in Shares
  BY DEF Leave, Shares, OutputTypeOK
<1>2. libs' \in Seq(Libraries)
  BY DEF Leave, OutputTypeOK
<1>. QED
  BY <1>1, <1>2, Constants DEF Leave, Closed, OutputTypeOK, Phases

LEMMA ReturnType ==
  ASSUME OutputTypeOK, NEW succeeded \in BOOLEAN, Return(succeeded)
  PROVE  /\ target' \in Types \cup {None} /\ snap' \in Files /\ copy' \in Files
         /\ base' \in Documents /\ doc' \in Documents /\ good' \in BOOLEAN
         /\ entries' \in Shares /\ records' \in Shares
         /\ libs' \in Seq(Libraries) /\ left' \subseteq Items /\ at' \in Phases
         /\ DOMAIN read' = Items
         /\ \A i \in Items : read'[i] \in Inventories[i] \cup {{}, Unread}
<1>1. CASE libs = <<>>
  BY <1>1, Constants DEF Return, Idle, Closed, Phases
<1>2. CASE libs # <<>>
  <2>1. (IF succeeded THEN entries ELSE Nothing) \in Shares
    BY Constants DEF OutputTypeOK
  <2>. QED
    BY <1>2, <2>1, LeaveType DEF Return, OutputTypeOK
<1>. QED
  BY <1>1, <1>2

LEMMA OutputStepType ==
  ASSUME OutputTypeOK, PlaceInv, OutputStep
  PROVE  OutputTypeOK'
<1>. USE DEF disk, world, open, job, bounds, history
<1>1. CASE SkipLibrary
  BY <1>1, LeaveType, Constants DEF SkipLibrary, OutputTypeOK, PlaceInv
<1>2. CASE Snapshot
  <2>1. Head(libs) \in Libraries
    BY <1>2 DEF Snapshot, OutputTypeOK, PlaceInv
  <2>2. target' \in Types /\ snap' \in Files /\ at' \in Phases
    BY <1>2, <2>1, TypeOf_ DEF Snapshot, OutputTypeOK, Phases
  <2>. QED
    BY <1>2, <2>2 DEF Snapshot, OutputTypeOK
<1>3. CASE ReadOutput
  <2>0. file[target] \in Files /\ libs # <<>>
    BY <1>3 DEF ReadOutput, OutputTypeOK, PlaceInv, Opened
  <2>1. CASE Leave(Nothing)
    BY <1>3, <2>0, <2>1, LeaveType, Constants DEF ReadOutput, OutputTypeOK
  <2>2. CASE file[target].state # "broken"
    <3>1. base' \in Documents
      BY <1>3, <2>0, <2>2 DEF ReadOutput, Files
    <3>2. doc' \in Documents /\ at' \in Phases
      BY <1>3, <2>2, <3>1, Constants DEF ReadOutput, WithoutDeprecated, Documents, Phases
    <3>. QED
      BY <1>3, <2>2, <3>1, <3>2 DEF ReadOutput, OutputTypeOK
  <2>. QED
    BY <1>3, <2>1, <2>2 DEF ReadOutput
<1>4. CASE NothingToWrite
  BY <1>4, LeaveType DEF NothingToWrite, OutputTypeOK, PlaceInv
<1>5. CASE BeginWrite
  BY <1>5 DEF BeginWrite, OutputTypeOK, Phases
<1>6. CASE Check
  <2>1. CASE Return(FALSE)
    BY <1>6, <2>1, ReturnType DEF Check, OutputTypeOK
  <2>2. CASE ~Return(FALSE)
    BY <1>6, <2>2 DEF Check, OutputTypeOK, Phases
  <2>. QED
    BY <2>1, <2>2
<1>7. CASE Backup
  <2>0. target \in Types /\ file[target] \in Files
    BY <1>7 DEF Backup, OutputTypeOK, PlaceInv, Opened
  <2>1. copy' \in Files /\ backups' \in [Types -> Seq(Files)]
    <3>1. Append(backups[target], file[target]) \in Seq(Files)
      BY <2>0 DEF OutputTypeOK
    <3>. QED
      BY <1>7, <2>0, <3>1 DEF Backup, OutputTypeOK
  <2>2. at' \in Phases
    BY <1>7 DEF Backup, Phases
  <2>. QED
    BY <1>7, <2>1, <2>2 DEF Backup, OutputTypeOK
<1>8. CASE Replace
  <2>1. file' \in [Types -> Files] /\ at' \in Phases
    BY <1>8, Constants DEF Replace, OutputTypeOK, Phases
  <2>. QED
    BY <1>8, <2>1 DEF Replace, OutputTypeOK
<1>9. CASE ReplaceFails
  <2>1. faults' \in 0..MaxFaults /\ at' \in Phases
    BY <1>9, KometaAssumption DEF ReplaceFails, OutputTypeOK, Phases
  <2>. QED
    BY <1>9, <2>1 DEF ReplaceFails, OutputTypeOK
<1>10. CASE Reread
  BY <1>10 DEF Reread, OutputTypeOK, Phases
<1>11. CASE RereadFails
  <2>1. faults' \in 0..MaxFaults /\ at' \in Phases
    BY <1>11, KometaAssumption DEF RereadFails, OutputTypeOK, Phases
  <2>. QED
    BY <1>11, <2>1 DEF RereadFails, OutputTypeOK
<1>12. CASE Restore
  <2>1. file' \in [Types -> Files] /\ at' \in Phases
    BY <1>12, Constants DEF Restore, OutputTypeOK, Phases
  <2>. QED
    BY <1>12, <2>1 DEF Restore, OutputTypeOK
<1>13. CASE Restored
  <2>1. file' \in [Types -> Files] /\ at' \in Phases
    BY <1>13 DEF Restored, OutputTypeOK, Phases
  <2>. QED
    BY <1>13, <2>1 DEF Restored, OutputTypeOK
<1>14. CASE Prune
  <2>1. backups' \in [Types -> Seq(Files)]
    <3>1. \A s \in Seq(Files) : Len(s) > BackupCount =>
             SubSeq(s, Len(s) - BackupCount + 1, Len(s)) \in Seq(Files)
      BY KometaAssumption
    <3>. QED
      BY <1>14, <3>1 DEF Prune, OutputTypeOK
  <2>2. good \in BOOLEAN
    BY DEF OutputTypeOK
  <2>. QED
    BY <1>14, <2>1, <2>2, ReturnType DEF Prune, OutputTypeOK
<1>15. CASE OperatorFingerprints
  <2>0. file[target] \in Files
    BY <1>15 DEF OperatorFingerprints, OutputTypeOK, PlaceInv
  <2>1. CASE Idle /\ Closed
    BY <1>15, <2>1, Constants DEF OperatorFingerprints, OutputTypeOK, Idle, Closed, Phases
  <2>2. CASE ~(Idle /\ Closed)
    BY <1>15, <2>0, <2>2 DEF OperatorFingerprints, OutputTypeOK, Phases
  <2>. QED
    BY <2>1, <2>2
<1>. QED
  BY <1>1, <1>2, <1>3, <1>4, <1>5, <1>6, <1>7, <1>8, <1>9, <1>10, <1>11, <1>12, <1>13, <1>14, <1>15
     DEF OutputStep

LEMMA ReadType ==
  ASSUME DOMAIN read = Items, \A j \in Items : read[j] \in Inventories[j] \cup {{}, Unread},
         NEW i \in Items, NEW inventory \in Inventories[i] \cup {{}, Unread}, read' = [read EXCEPT ![i] = inventory]
  PROVE  DOMAIN read' = Items /\ \A j \in Items : read'[j] \in Inventories[j] \cup {{}, Unread}
OBVIOUS

LEMMA ItemStepType ==
  ASSUME TypeOK, NEW i \in Items, ItemStep(i)
  PROVE  OutputTypeOK'
<1>. USE DEF disk, world, open, job, history
<1>0. OutputTypeOK
  BY DEF TypeOK
<1>1. CASE ReadItem(i)
  <2>1. PICK inventory \in {holds[i], {}} : read' = [read EXCEPT ![i] = inventory]
    BY <1>1 DEF ReadItem
  <2>2. DOMAIN read' = Items /\ \A j \in Items : read'[j] \in Inventories[j] \cup {{}, Unread}
    BY <1>0, <2>1, ReadType DEF OutputTypeOK
  <2>3. faults' \in 0..MaxFaults
    BY <1>0, <1>1, KometaAssumption DEF ReadItem, OutputTypeOK
  <2>. QED
    BY <1>0, <1>1, <2>2, <2>3 DEF ReadItem, OutputTypeOK
<1>2. CASE Identify(i)
  <2>1. faults' \in 0..MaxFaults
    BY <1>0, <1>2, KometaAssumption DEF Identify, OutputTypeOK
  <2>. QED
    BY <1>0, <1>2, <2>1 DEF Identify, OutputTypeOK
<1>3. ASSUME NEW missing, NEW holding, NEW inventory,
             Collect(i, missing, Merge(doc[i], Generated(i, holding, missing), inventory)),
             chosen[i] # None, dropped' \subseteq Items \X Paths
      PROVE  OutputTypeOK'
  <2>. DEFINE merged == Merge(doc[i], Generated(i, holding, missing), inventory)
  <2>1. merged \in [Paths -> Values]
    BY <1>0, <1>3, MergeType, GeneratedType DEF OutputTypeOK, Documents
  <2>2. Explained(i, read[i], merged) \in [Paths -> Values]
    BY <2>1, ExplainedType
  <2>. HIDE DEF merged
  <2>3. Collect(i, missing, merged)
    BY <1>3 DEF merged
  <2>4. doc' \in Documents /\ entries' \in Shares
    BY <1>0, <2>1, <2>2, <2>3 DEF Collect, OutputTypeOK, Documents, Shares
  <2>5. /\ DOMAIN read' = Items /\ \A j \in Items : read'[j] \in Inventories[j] \cup {{}, Unread}
        /\ faults' \in 0..MaxFaults /\ left' \subseteq Items
    BY <1>0, <2>3, KometaAssumption DEF Collect, OutputTypeOK
  <2>. QED
    BY <1>0, <1>3, <2>3, <2>4, <2>5 DEF Collect, OutputTypeOK
<1>4. CASE BuildMovie(i)
  <2>1. dropped' \subseteq Items \X Paths
    BY <1>0, <1>4 DEF BuildMovie, OutputTypeOK
  <2>2. PICK missing : Collect(i, missing, Merge(doc[i], Generated(i, {}, missing), Everything))
    BY <1>4 DEF BuildMovie
  <2>. QED
    BY <1>3, <1>4, <2>1, <2>2 DEF BuildMovie, Ready
<1>5. CASE BuildShow(i)
  <2>1. dropped' \subseteq Items \X Paths
    BY <1>0, <1>5 DEF BuildShow, OutputTypeOK
  <2>2. PICK missing : Collect(i, missing, Merge(doc[i], Generated(i, read[i], missing), read[i]))
    BY <1>5 DEF BuildShow
  <2>. QED
    BY <1>3, <1>5, <2>1, <2>2 DEF BuildShow, Ready
<1>6. CASE Rejected(i)
  <2>1. DOMAIN read' = Items /\ \A j \in Items : read'[j] \in Inventories[j] \cup {{}, Unread}
    BY <1>0, <1>6, ReadType DEF Rejected, OutputTypeOK
  <2>2. faults' = faults \/ (faults < MaxFaults /\ faults' = faults + 1)
    <3>1. CASE Resolved(i, TRUE) = {}
      BY <1>6, <3>1 DEF Rejected
    <3>2. CASE Resolved(i, TRUE) # {}
      BY <1>6, <3>2 DEF Rejected
    <3>. QED
      BY <3>1, <3>2
  <2>3. faults' \in 0..MaxFaults /\ left' \subseteq Items
    BY <1>0, <1>6, <2>2, KometaAssumption DEF Rejected, OutputTypeOK
  <2>. QED
    BY <1>0, <1>6, <2>1, <2>3 DEF Rejected, OutputTypeOK
<1>. QED
  BY <1>1, <1>2, <1>4, <1>5, <1>6 DEF ItemStep, RejectMovie, RejectShow

LEMMA OtherStepType ==
  ASSUME OutputTypeOK, PlaceInv, NEW selected \in SUBSET Items,
         StartJob(selected) \/ Flush \/ Kill \/ OthersStep \/ IdentityChanges \/ UNCHANGED vars
  PROVE  OutputTypeOK'
<1>. USE DEF disk, world, open, job, bounds, history
<1>0. \A n : n \in 0..MaxChanges => n + 0 \in Nat /\ (n + 1 <= MaxChanges => n + 1 \in 0..MaxChanges)
  BY KometaAssumption
<1>1. CASE StartJob(selected)
  <2>1. changes' \in 0..MaxChanges
    BY <1>1, KometaAssumption DEF StartJob, OutputTypeOK
  <2>2. libs' \in Seq(Libraries) /\ at' \in Phases
    BY <1>1, KometaAssumption DEF StartJob, Phases
  <2>. QED
    BY <1>1, <2>1, <2>2 DEF StartJob, OutputTypeOK
<1>2. Idle /\ Closed =>
        /\ target' \in Types \cup {None} /\ snap' \in Files /\ copy' \in Files
        /\ base' \in Documents /\ doc' \in Documents /\ good' \in BOOLEAN
        /\ entries' \in Shares /\ records' \in Shares
        /\ libs' \in Seq(Libraries) /\ left' \subseteq Items /\ at' \in Phases
        /\ DOMAIN read' = Items
        /\ \A i \in Items : read'[i] \in Inventories[i] \cup {{}, Unread}
  BY Constants DEF Idle, Closed, Phases
<1>3. CASE Flush
  <2>1. PICK saved \in BOOLEAN : Saved(saved) /\ \E flushed \in BOOLEAN :
          /\ faults' = faults + IF saved /\ flushed THEN 0 ELSE 1
          /\ faults' <= MaxFaults
    BY <1>3 DEF Flush
  <2>2. faults' \in 0..MaxFaults
    BY <2>1, KometaAssumption DEF OutputTypeOK
  <2>3. ledger' \in Documents
    BY <2>1 DEF Saved, OutputTypeOK, Documents, Shares
  <2>. QED
    BY <1>2, <1>3, <2>2, <2>3 DEF Flush, OutputTypeOK
<1>4. CASE Kill
  <2>1. faults' \in 0..MaxFaults
    BY <1>4, KometaAssumption DEF Kill, OutputTypeOK
  <2>. QED
    BY <1>2, <1>4, <2>1 DEF Kill, OutputTypeOK
<1>5. ASSUME NEW i \in Items, OperatorReads(i)
      PROVE  OutputTypeOK'
  <2>1. base' \in Documents
    BY <1>5, TypeOf_ DEF OperatorReads, OutputTypeOK, Files
  <2>2. doc' \in Documents /\ target' \in Types /\ at' \in Phases
    BY <1>5, <2>1, TypeOf_, Constants DEF OperatorReads, Documents, Phases
  <2>3. changes' \in 0..MaxChanges /\ dropped' \subseteq Items \X Paths
    BY <1>5, KometaAssumption DEF OperatorReads, OutputTypeOK
  <2>. QED
    BY <1>5, <2>1, <2>2, <2>3 DEF OperatorReads, OutputTypeOK
<1>6. ASSUME NEW t \in Types, NEW new \in Files, UserChanges(t, new)
      PROVE  OutputTypeOK'
  <2>1. changes' \in 0..MaxChanges /\ file' \in [Types -> Files]
    BY <1>6, KometaAssumption DEF UserChanges, OutputTypeOK
  <2>2. touched' \subseteq Items \X Paths /\ raced' \in BOOLEAN
    BY <1>6 DEF UserChanges, OutputTypeOK, Committed
  <2>. QED
    BY <1>6, <2>1, <2>2 DEF UserChanges, OutputTypeOK
<1>7. ASSUME NEW t \in Types, UserEdits(t)
      PROVE  OutputTypeOK'
  <2>1. \A i \in Items, p \in Paths, v \in {None, User} : [file[t] EXCEPT !.text[i][p] = v] \in Files
    <3>. TAKE i \in Items, p \in Paths, v \in {None, User}
    <3>1. file[t] \in [state : {"none", "whole", "broken"}, text : Documents]
      BY DEF OutputTypeOK, Files
    <3>2. [file[t].text EXCEPT ![i][p] = v] \in Documents
      BY <3>1, Constants DEF Documents
    <3>3. [file[t] EXCEPT !.text[i][p] = v] = [file[t] EXCEPT !.text = [file[t].text EXCEPT ![i][p] = v]]
      BY <3>1
    <3>. QED
      BY <3>1, <3>2, <3>3 DEF Files
  <2>2. \A n \in DOMAIN backups[t] : backups[t][n] \in Files
    BY DEF OutputTypeOK
  <2>. QED
    BY <1>6, <1>7, <2>1, <2>2, Constants DEF UserEdits
<1>8. CASE PolicyChanges
  <2>1. changes' \in 0..MaxChanges /\ policy' \in {"append", "sync"}
    BY <1>8, KometaAssumption DEF PolicyChanges, OutputTypeOK
  <2>. QED
    BY <1>8, <2>1 DEF PolicyChanges, OutputTypeOK
<1>9. ASSUME NEW r \in Records, TMDbChanges(r)
      PROVE  OutputTypeOK'
  <2>1. changes' \in 0..MaxChanges
    BY <1>9, KometaAssumption DEF TMDbChanges, OutputTypeOK
  <2>2. source' \in [Records -> Sources] /\ \A s \in Records : source'[s] \in States[s]
    BY <1>9 DEF TMDbChanges, OutputTypeOK, Sources
  <2>. QED
    BY <1>9, <2>1, <2>2 DEF TMDbChanges, OutputTypeOK
<1>10. ASSUME NEW i \in Items, PlexChanges(i)
       PROVE  OutputTypeOK'
  <2>1. changes' \in 0..MaxChanges
    BY <1>10, KometaAssumption DEF PlexChanges, OutputTypeOK
  <2>2. DOMAIN holds' = Items /\ \A j \in Items : holds'[j] \in Inventories[j]
    BY <1>10 DEF PlexChanges, OutputTypeOK
  <2>. QED
    BY <1>10, <2>1, <2>2 DEF PlexChanges, OutputTypeOK
<1>11. CASE IdentityChanges
  <2>1. changes' \in 0..MaxChanges
    BY <1>11, KometaAssumption DEF IdentityChanges, OutputTypeOK
  <2>. QED
    BY <1>11, <2>1 DEF IdentityChanges, OutputTypeOK
<1>12. CASE UNCHANGED vars
  BY <1>12 DEF vars, OutputTypeOK
<1>. QED
  BY <1>1, <1>3, <1>4, <1>5, <1>7, <1>8, <1>9, <1>10, <1>11, <1>12 DEF OthersStep

(* The part of a record that remembers identities.                         *)
LEMMA Identities ==
  ASSUME IdentityTypeOK, NEW i \in Items
  PROVE  /\ Learned(i) \in Records \cup {None} /\ Recovered(i) \in Records \cup {None}
         /\ seen[i].tmdb \in Records \cup {None}
         /\ \A answered \in BOOLEAN : \A way \in Resolved(i, answered) :
              way[1] \in Records /\ way[2] \in Records /\ way[2] \in live
<1>1. seen[i].tmdb \in Records \cup {None}
  BY IdentityAssumption DEF IdentityTypeOK, Unseen
<1>2. Recovered(i) \in Records \cup {None} /\ Loaded(i) \in Records \cup {None}
  BY <1>1 DEF Recovered, Loaded, IdentityTypeOK
<1>3. Learned(i) \in Records \cup {None}
  BY <1>2 DEF Learned
<1>4. ASSUME NEW answered \in BOOLEAN, NEW way \in Resolved(i, answered)
      PROVE  way[1] \in Records /\ way[2] \in Records /\ way[2] \in live
  <2>1. CASE Overridden(i)
    <3>1. way \in {<<r, r>> : r \in live}
      BY <1>4, <2>1 DEF Resolved
    <3>. QED
      BY <3>1 DEF IdentityTypeOK
  <2>2. CASE ~Overridden(i)
    <3>1. way \in Candidates(i) \X live
      BY <1>4, <2>2 DEF Resolved
    <3>2. Candidates(i) \subseteq Records
      BY <1>3 DEF Candidates, Found, IdentityTypeOK
    <3>. QED
      BY <3>1, <3>2 DEF IdentityTypeOK
  <2>. QED
    BY <2>1, <2>2
<1>. QED
  BY <1>1, <1>2, <1>3, <1>4

LEMMA IdentityInitType ==
  ASSUME IdentityInit, override \in [Items -> Records \cup {None}],
         \A i \in Items : override[i] \in {None, Overrides[i]}
  PROVE  IdentityTypeOK
<1>1. \A i \in Items : Matches[i][1] \in Range(Matches[i])
  BY IdentityAssumption DEF Range
<1>. QED
  BY <1>1 DEF IdentityInit, IdentityTypeOK, NoBinding, NoEntry

LEMMA IdentityStays == IdentityTypeOK /\ UNCHANGED identity => IdentityTypeOK'
BY DEF IdentityTypeOK, identity, ground, memory

LEMMA IdentityStepType ==
  ASSUME TypeOK, [Next]_vars
  PROVE  IdentityTypeOK'
<1>. USE DEF ground, memory
<1>0. IdentityTypeOK
  BY DEF TypeOK
<1>1. CASE UNCHANGED identity
  BY <1>0, <1>1, IdentityStays
<1>2. ASSUME NEW i \in Items, ReadItem(i) PROVE IdentityTypeOK'
  BY <1>0, <1>2 DEF ReadItem, ReadIdentity, IdentityTypeOK
<1>3. ASSUME NEW i \in Items, Identify(i) PROVE IdentityTypeOK'
  <2>0. PICK answered \in BOOLEAN : \E way \in Resolved(i, answered) : Settle(i, way[1], way[2])
    BY <1>3 DEF Identify
  <2>1. PICK way \in Resolved(i, answered) : Settle(i, way[1], way[2])
    BY <2>0
  <2>. DEFINE c == way[1]  r == way[2]
  <2>2. c \in Records /\ r \in Records
    BY <1>0, <2>1, Identities
  <2>. HIDE DEF c, r
  <2>3. Settle(i, c, r)
    BY <2>1 DEF c, r
  <2>4. Fingerprint(seen[i]) \in {<<>>} \cup {Fingerprint(ids) : ids \in UNION {Range(Matches[j]) : j \in Items}}
    <3>1. CASE seen[i] = Unseen
      BY <3>1 DEF Unseen, Fingerprint
    <3>2. CASE seen[i] \in Range(Matches[i])
      BY <3>2
    <3>. QED
      BY <1>0, <3>1, <3>2 DEF IdentityTypeOK
  <2>5. Replaced(i) \in Records \cup {None}
    BY <1>0, Identities DEF Replaced
  <2>6. /\ chosen' \in [Items -> Records \cup {None}]
        /\ reviews' \subseteq Items
    BY <1>0, <2>2, <2>3 DEF Settle, Reviewed, IdentityTypeOK
  <2>7. binding' \in [Items -> [record : Records \cup {None},
                               print : {<<>>} \cup {Fingerprint(ids) : ids \in UNION {Range(Matches[j]) : j \in Items}}]]
    BY <1>0, <2>2, <2>3, <2>4 DEF Settle, Bound, IdentityTypeOK
  <2>8. known' \in [Items -> [record : Records \cup {None}, from : Records \cup {None},
                              print : {<<>>} \cup {Fingerprint(ids) : ids \in UNION {Range(Matches[j]) : j \in Items}}]]
    BY ZenonT(60), <1>0, <2>2, <2>3, <2>4, <2>5 DEF Settle, Remembered, IdentityTypeOK
  <2>. QED
    BY <1>0, <2>3, <2>6, <2>7, <2>8 DEF Settle, IdentityTypeOK
<1>4. ASSUME NEW i \in Items, Release(i) \/ Unsettled(i) PROVE IdentityTypeOK'
  BY <1>0, <1>4 DEF Release, Unsettled, IdentityTypeOK
<1>5. ASSUME NEW flushed \in BOOLEAN, KeepIdentity(flushed) PROVE IdentityTypeOK'
  BY <1>0, <1>5 DEF KeepIdentity, Forget, IdentityTypeOK
<1>6. CASE LoseIdentity
  BY <1>0, <1>6 DEF LoseIdentity, Forget, IdentityTypeOK
<1>7. CASE IdentityChanges
  <2>1. ASSUME NEW r \in Records, Retire(r) PROVE IdentityTypeOK'
    BY <1>0, <2>1 DEF Retire, IdentityTypeOK
  <2>2. ASSUME NEW i \in Items, Rematch(i) PROVE IdentityTypeOK'
    BY <1>0, <2>2 DEF Rematch, IdentityTypeOK
  <2>3. ASSUME NEW i \in Items, Override(i) PROVE IdentityTypeOK'
    <3>1. PICK o \in {None, Overrides[i]} : override' = [override EXCEPT ![i] = o]
      BY <2>3 DEF Override
    <3>2. /\ override' \in [Items -> Records \cup {None}]
          /\ \A j \in Items : override'[j] \in {None, Overrides[j]}
      BY <1>0, <3>1, IdentityAssumption DEF IdentityTypeOK
    <3>3. reviews' \subseteq Items /\ UNCHANGED <<live, plex, binding, stored, memory>>
      BY <1>0, <2>3 DEF Override, IdentityTypeOK
    <3>. QED
      BY <1>0, <3>2, <3>3 DEF IdentityTypeOK
  <2>. QED
    BY <1>7, <2>1, <2>2, <2>3 DEF IdentityChanges
<1>8. ASSUME NEW i \in Items, ItemStep(i) PROVE IdentityTypeOK'
  <2>1. BuildMovie(i) \/ BuildShow(i) => Release(i)
    BY DEF BuildMovie, BuildShow, Collect
  <2>2. RejectMovie(i) \/ RejectShow(i) => Unsettled(i)
    BY DEF RejectMovie, RejectShow, Rejected
  <2>. QED
    BY <1>2, <1>3, <1>4, <1>8, <2>1, <2>2 DEF ItemStep
<1>9. Flush => \E flushed \in BOOLEAN : KeepIdentity(flushed)
  BY DEF Flush
<1>10. StartJob(Items) \/ (\E selected \in SUBSET Items : StartJob(selected)) => UNCHANGED identity
  BY DEF StartJob
<1>11. Kill => LoseIdentity
  BY DEF Kill
<1>. QED
  BY <1>1, <1>5, <1>6, <1>7, <1>8, <1>9, <1>10, <1>11 DEF Next, JobStep, vars

-----------------------------------------------------------------------------
(* Places                                                                  *)

LEMMA PlaceInit == Init => PlaceInv /\ CopyInv /\ PlainInv
<1>. SUFFICES ASSUME Init PROVE PlaceInv /\ CopyInv /\ PlainInv
  OBVIOUS
<1>1. PlaceInv
  BY DEF Init, PlaceInv, Opened, IsInjective, Range, Nothing
<1>2. PlainInv
  <2>1. Plain(NoFile) /\ \A text : Plain(Whole(text))
    BY DEF Plain, NoFile, Whole
  <2>2. \A t \in Types : Plain(file[t])
    <3>1. CASE file = [t \in Types |-> NoFile]
      BY <2>1, <3>1
    <3>2. CASE file = [t \in Types |-> Whole([i \in Items |-> IF FileOf(i) = t THEN Earlier ELSE Blank])]
      BY <2>1, <3>2
    <3>. QED
      BY <3>1, <3>2 DEF Init
  <2>. QED
    BY <2>1, <2>2 DEF Init, PlainInv
<1>. QED
  BY <1>1, <1>2 DEF Init, CopyInv

(* The libraries that are left when the present one is.                    *)
LEMMA TailFacts ==
  ASSUME OutputTypeOK, PlaceInv, libs # <<>>
  PROVE  /\ IsInjective(Tail(libs)) /\ Head(libs) \notin Range(Tail(libs))
         /\ Range(Tail(libs)) \subseteq Range(libs)
         /\ Tail(libs) = <<>> <=> Len(libs) = 1
<1>1. libs \in Seq(Libraries) /\ Len(libs) \in Nat \ {0} /\ Head(libs) = libs[1]
  BY DEF OutputTypeOK
<1>2. /\ DOMAIN Tail(libs) = 1..(Len(libs) - 1) /\ DOMAIN libs = 1..Len(libs)
      /\ \A n \in 1..(Len(libs) - 1) : Tail(libs)[n] = libs[n + 1]
      /\ Len(Tail(libs)) = Len(libs) - 1 /\ Tail(libs) \in Seq(Libraries)
  BY <1>1
<1>3. \A m, n \in 1..Len(libs) : libs[m] = libs[n] => m = n
  BY <1>2 DEF PlaceInv, IsInjective
<1>4. IsInjective(Tail(libs))
  BY <1>1, <1>2, <1>3 DEF IsInjective
<1>5. Head(libs) \notin Range(Tail(libs))
  BY <1>1, <1>2, <1>3 DEF Range
<1>6. Range(Tail(libs)) \subseteq Range(libs)
  BY <1>1, <1>2 DEF Range
<1>7. Tail(libs) = <<>> <=> Len(libs) = 1
  <2>1. \A s \in Seq(Libraries) : s = <<>> <=> Len(s) = 0
    OBVIOUS
  <2>2. Tail(libs) = <<>> <=> Len(Tail(libs)) = 0
    BY <1>2, <2>1
  <2>3. Len(Tail(libs)) = 0 <=> Len(libs) = 1
    BY <1>1, <1>2
  <2>. QED
    BY <2>2, <2>3
<1>. QED
  BY <1>4, <1>5, <1>6, <1>7

LEMMA LeavePlace ==
  ASSUME OutputTypeOK, PlaceInv, libs # <<>>, NEW kept,
         \A i \in Items : kept[i] # <<>> => kept[i] = entries[i], Leave(kept)
  PROVE  PlaceInv' /\ at' \in {"snapshot", "flush"}
<1>1. at' = IF Tail(libs) = <<>> THEN "flush" ELSE "snapshot"
  BY TailFacts DEF Leave
<1>2. libs' = Tail(libs) /\ entries' = Nothing
  BY DEF Leave
<1>3. ASSUME NEW i \in Items, records'[i] # <<>>
      PROVE  LibraryOf[i] \notin Range(libs')
  <2>1. records[i] # <<>> \/ entries[i] # <<>>
    BY <1>3 DEF Leave
  <2>2. CASE records[i] # <<>>
    BY <1>2, <2>2, TailFacts DEF PlaceInv
  <2>3. CASE entries[i] # <<>>
    BY <1>2, <2>3, TailFacts DEF PlaceInv
  <2>. QED
    BY <2>1, <2>2, <2>3
<1>4. IsInjective(libs')
  BY <1>2, TailFacts
<1>5. \A i \in Items : entries'[i] = <<>>
  BY <1>2 DEF Nothing
<1>. QED
  BY <1>1, <1>2, <1>3, <1>4, <1>5 DEF PlaceInv, Opened

LEMMA IdlePlace == Idle => PlaceInv' /\ at' = "idle"
BY DEF Idle, PlaceInv, Opened, Nothing, IsInjective, Range

LEMMA ReturnPlace ==
  ASSUME OutputTypeOK, PlaceInv, NEW succeeded \in BOOLEAN, Return(succeeded)
  PROVE  PlaceInv' /\ at' \in {"snapshot", "flush", "idle"} /\ Closed
<1>1. CASE libs = <<>>
  BY <1>1, IdlePlace DEF Return
<1>2. CASE libs # <<>>
  <2>1. PICK kept \in {entries, Nothing} : Leave(kept)
    BY <1>2 DEF Return
  <2>2. \A i \in Items : kept[i] # <<>> => kept[i] = entries[i]
    BY DEF Nothing
  <2>. QED
    BY <1>2, <2>1, <2>2, LeavePlace DEF Leave
<1>. QED
  BY <1>1, <1>2

LEMMA PlaceStep ==
  ASSUME TypeOK, PlaceInv, [Next]_vars
  PROVE  PlaceInv'
<1>. USE DEF disk, world, open, job, bounds, history
<1>0. OutputTypeOK
  BY DEF TypeOK
<1>1. CASE OutputStep
  <2>0. \A i \in Items : (Nothing[i] # <<>> => Nothing[i] = entries[i])
                          /\ (entries[i] # <<>> => entries[i] = entries[i])
    BY DEF Nothing
  <2>1. CASE SkipLibrary
    BY <1>0, <2>0, <2>1, LeavePlace DEF SkipLibrary, PlaceInv
  <2>2. CASE Snapshot
    <3>1. target' \in Types /\ target' = TypeOf[Head(libs)]
      BY <1>0, <2>2, TypeOf_ DEF Snapshot, PlaceInv, OutputTypeOK
    <3>. QED
      BY <2>2, <3>1 DEF Snapshot, PlaceInv, Opened
  <2>3. CASE ReadOutput
    <3>1. CASE Leave(Nothing)
      BY <1>0, <2>0, <2>3, <3>1, LeavePlace DEF ReadOutput, PlaceInv
    <3>2. CASE ~Leave(Nothing)
      BY <2>3, <3>2 DEF ReadOutput, PlaceInv, Opened
    <3>. QED
      BY <3>1, <3>2
  <2>4. CASE NothingToWrite
    BY <1>0, <2>0, <2>4, LeavePlace DEF NothingToWrite, PlaceInv
  <2>5. CASE BeginWrite \/ Backup \/ Replace \/ ReplaceFails \/ Reread \/ RereadFails \/ Restored
    BY <2>5 DEF BeginWrite, Backup, Replace, ReplaceFails, Reread, RereadFails, Restored, PlaceInv, Opened
  <2>6. CASE Restore
    <3>1. /\ at = "restore" /\ at' \in {"restoring", "prune"}
          /\ UNCHANGED <<target, libs, entries, records>>
      BY <2>6 DEF Restore
    <3>. QED
      BY <3>1 DEF PlaceInv, Opened
  <2>7. CASE Check
    <3>1. CASE Return(FALSE)
      BY <1>0, <3>1, ReturnPlace
    <3>2. CASE ~Return(FALSE)
      BY <2>7, <3>2 DEF Check, PlaceInv, Opened
    <3>. QED
      BY <3>1, <3>2
  <2>8. CASE Prune
    BY <1>0, <2>8, ReturnPlace DEF Prune, OutputTypeOK
  <2>9. CASE OperatorFingerprints
    <3>1. CASE Idle
      BY <3>1, IdlePlace
    <3>2. CASE ~Idle
      BY <2>9, <3>2 DEF OperatorFingerprints, PlaceInv, Opened
    <3>. QED
      BY <3>1, <3>2
  <2>. QED
    BY <1>1, <2>1, <2>2, <2>3, <2>4, <2>5, <2>6, <2>7, <2>8, <2>9 DEF OutputStep
<1>2. ASSUME NEW i \in Items, ItemStep(i)
      PROVE  PlaceInv'
  <2>1. /\ at = "items" /\ LibraryOf[i] = Head(libs) /\ UNCHANGED <<at, libs, target, records>>
        /\ \A j \in Items \ {i} : entries'[j] = entries[j]
    BY <1>0, <1>2 DEF ItemStep, ReadItem, Identify, BuildMovie, BuildShow, RejectMovie, RejectShow,
                      Rejected, Collect, Ready, Here, OutputTypeOK, Shares
  <2>. QED
    BY <2>1 DEF PlaceInv, Opened
<1>3. CASE Flush \/ Kill
  BY <1>3, IdlePlace DEF Flush, Kill
<1>4. ASSUME NEW selected \in SUBSET Items, StartJob(selected)
      PROVE  PlaceInv'
  <2>1. LibraryOrder # <<>>
    <3>1. PICK i \in selected : i \in Items
      BY <1>4 DEF StartJob
    <3>2. LibraryOf[i] \in Range(LibraryOrder)
      BY <3>1, TypeOf_ DEF Libraries
    <3>. QED
      BY <3>2 DEF Range
  <2>2. at = "idle" /\ records = Nothing /\ entries = Nothing
    BY <1>4 DEF StartJob, PlaceInv
  <2>. QED
    BY <1>4, <2>1, <2>2, KometaAssumption DEF StartJob, PlaceInv, Opened, Nothing
<1>5. CASE OthersStep
  <2>1. ASSUME NEW i \in Items, OperatorReads(i)
        PROVE  PlaceInv'
    BY <2>1, TypeOf_ DEF OperatorReads, PlaceInv, Opened
  <2>2. (\E t \in Types : UserEdits(t)) => UNCHANGED <<at, target, libs, entries, records>>
    <3>1. \A t, new : UserChanges(t, new) => UNCHANGED <<at, target, libs, entries, records>>
      BY DEF UserChanges
    <3>. QED
      BY <3>1 DEF UserEdits
  <2>3. ASSUME UNCHANGED <<at, target, libs, entries, records>>
        PROVE  PlaceInv'
    BY <2>3 DEF PlaceInv
  <2>. QED
    BY <1>5, <2>1, <2>2, <2>3 DEF OthersStep, PlexChanges, TMDbChanges, PolicyChanges
<1>6. CASE IdentityChanges \/ UNCHANGED vars
  BY <1>6 DEF IdentityChanges, PlaceInv, vars
<1>. QED
  BY <1>1, <1>2, <1>3, <1>4, <1>5, <1>6 DEF Next, JobStep

(* Copies, and files that cannot be read                                   *)

LEMMA CopyStep ==
  ASSUME TypeOK, PlaceInv, CopyInv, [Next]_vars
  PROVE  CopyInv'
<1>. USE DEF disk, world, open, job, bounds, history
<1>0. OutputTypeOK
  BY DEF TypeOK
<1>1. Closed => CopyInv' \/ at' \in {"replace", "reread", "restore", "restoring", "prune"}
  BY DEF Closed, CopyInv
<1>2. CASE OutputStep
  <2>1. CASE SkipLibrary \/ NothingToWrite
    <3>1. PICK kept \in {Nothing, entries} : Leave(kept)
      BY <2>1 DEF SkipLibrary, NothingToWrite
    <3>. QED
      BY <3>1 DEF Leave, Closed, CopyInv
  <2>2. CASE ReadOutput
    <3>1. CASE Leave(Nothing)
      BY <3>1 DEF Leave, Closed, CopyInv
    <3>2. CASE ~Leave(Nothing)
      BY <2>2, <3>2 DEF ReadOutput, CopyInv
    <3>. QED
      BY <3>1, <3>2
  <2>3. CASE Check
    <3>1. CASE Return(FALSE)
      BY <1>0, <3>1, ReturnPlace DEF Closed, CopyInv
    <3>2. CASE ~Return(FALSE)
      BY <2>3, <3>2 DEF Check, CopyInv
    <3>. QED
      BY <3>1, <3>2
  <2>4. CASE Prune
    BY <1>0, <2>4, ReturnPlace DEF Prune, Closed, CopyInv, OutputTypeOK
  <2>5. CASE OperatorFingerprints
    <3>1. CASE Idle /\ Closed
      BY <3>1 DEF Idle, Closed, CopyInv
    <3>2. CASE ~(Idle /\ Closed)
      BY <2>5, <3>2 DEF OperatorFingerprints, CopyInv
    <3>. QED
      BY <3>1, <3>2
  <2>6. CASE Snapshot \/ BeginWrite \/ Backup
    BY <2>6 DEF Snapshot, BeginWrite, Backup, CopyInv
  <2>7. CASE Replace \/ ReplaceFails \/ Reread \/ RereadFails
    BY <2>7 DEF Replace, ReplaceFails, Reread, RereadFails, CopyInv
  <2>8. CASE Restore
    <3>1. at = "restore" /\ at' \in {"restoring", "prune"} /\ UNCHANGED <<copy, good>>
      BY <2>8 DEF Restore
    <3>. QED
      BY <3>1 DEF CopyInv
  <2>9. CASE Restored
    BY <2>9 DEF Restored, CopyInv
  <2>. QED
    BY <1>2, <2>1, <2>2, <2>3, <2>4, <2>5, <2>6, <2>7, <2>8, <2>9 DEF OutputStep
<1>3. ASSUME UNCHANGED <<at, copy, good>>
      PROVE  CopyInv'
  BY <1>3 DEF CopyInv
<1>4. ASSUME NEW i \in Items, ItemStep(i)
      PROVE  UNCHANGED <<at, copy, good>>
  BY <1>4 DEF ItemStep, ReadItem, Identify, BuildMovie, BuildShow, RejectMovie, RejectShow,
              Rejected, Collect
<1>5. CASE Flush \/ Kill
  BY <1>5 DEF Flush, Kill, Idle, Closed, CopyInv
<1>6. ASSUME NEW selected \in SUBSET Items, StartJob(selected)
      PROVE  CopyInv'
  BY <1>6 DEF StartJob, CopyInv
<1>7. CASE OthersStep
  <2>1. ASSUME NEW i \in Items, OperatorReads(i)
        PROVE  CopyInv'
    BY <2>1 DEF OperatorReads, CopyInv
  <2>2. \A t, new : UserChanges(t, new) => UNCHANGED <<at, copy, good>>
    BY DEF UserChanges
  <2>3. (\E t \in Types : UserEdits(t)) => UNCHANGED <<at, copy, good>>
    BY <2>2 DEF UserEdits
  <2>. QED
    BY <1>3, <1>7, <2>1, <2>3 DEF OthersStep, PlexChanges, TMDbChanges, PolicyChanges
<1>8. CASE IdentityChanges \/ UNCHANGED vars
  BY <1>3, <1>8 DEF IdentityChanges, vars
<1>. QED
  BY <1>2, <1>3, <1>4, <1>5, <1>6, <1>7, <1>8 DEF Next, JobStep

LEMMA PlainStep ==
  ASSUME TypeOK, PlaceInv, PlainInv, [Next]_vars
  PROVE  PlainInv'
<1>. USE DEF disk, world, open, job, bounds, history
<1>0. OutputTypeOK
  BY DEF TypeOK
<1>1. Plain(NoFile) /\ Plain(Broken) /\ \A text : Plain(Whole(text))
  BY DEF Plain, NoFile, Broken, Whole
<1>2. ASSUME UNCHANGED <<file, backups>>,
             UNCHANGED <<snap, copy>> \/ Closed
      PROVE  PlainInv'
  BY <1>1, <1>2 DEF PlainInv, Closed
<1>3. CASE OutputStep
  <2>1. CASE SkipLibrary \/ NothingToWrite \/ BeginWrite \/ ReplaceFails \/ Reread \/ RereadFails
    BY <1>2, <2>1 DEF SkipLibrary, NothingToWrite, Leave, BeginWrite, ReplaceFails, Reread, RereadFails
  <2>2. CASE Snapshot
    <3>1. target' \in Types /\ snap' = file[target']
      BY <1>0, <2>2, TypeOf_ DEF Snapshot, PlaceInv, OutputTypeOK
    <3>. QED
      BY <2>2, <3>1 DEF Snapshot, PlainInv
  <2>3. CASE ReadOutput
    BY <1>2, <2>3 DEF ReadOutput, Leave
  <2>4. CASE Check
    <3>1. CASE Return(FALSE)
      BY <1>0, <1>2, <2>4, <3>1, ReturnPlace DEF Check
    <3>2. CASE ~Return(FALSE)
      BY <1>2, <2>4, <3>2 DEF Check
    <3>. QED
      BY <3>1, <3>2
  <2>5. CASE Backup
    <3>0. target \in Types /\ Plain(file[target]) /\ backups[target] \in Seq(Files)
      BY <1>0, <2>5 DEF Backup, PlaceInv, Opened, PlainInv, OutputTypeOK
    <3>1. CASE UNCHANGED <<copy, backups>>
      BY <1>2, <2>5, <3>1 DEF Backup
    <3>2. CASE copy' = file[target] /\ backups' = [backups EXCEPT ![target] = Append(@, copy')]
      <4>1. file[target] \in Files /\ backups \in [Types -> Seq(Files)]
        BY <1>0, <3>0 DEF OutputTypeOK
      <4>2. \A n \in DOMAIN Append(backups[target], file[target]) :
              \/ n \in DOMAIN backups[target]
                 /\ Append(backups[target], file[target])[n] = backups[target][n]
              \/ Append(backups[target], file[target])[n] = file[target]
        BY <3>0, <4>1
      <4>3. \A n \in DOMAIN backups'[target] : Plain(backups'[target][n])
        BY <3>0, <3>2, <4>1, <4>2 DEF PlainInv
      <4>4. \A t \in Types \ {target} : backups'[t] = backups[t]
        BY <3>2, <4>1
      <4>. QED
        BY <2>5, <3>0, <3>2, <4>3, <4>4 DEF Backup, PlainInv
    <3>. QED
      BY <2>5, <3>1, <3>2 DEF Backup
  <2>6. ASSUME NEW f, Plain(f), file' = [file EXCEPT ![target] = f], UNCHANGED <<backups, snap, copy>>
        PROVE  PlainInv'
    BY <1>0, <2>6 DEF PlainInv, OutputTypeOK
  <2>7. CASE Replace \/ Restore \/ Restored
    BY <1>1, <2>6, <2>7 DEF Replace, Restore, Restored, PlainInv
  <2>8. CASE Prune
    <3>1. Closed /\ UNCHANGED file
      BY <1>0, <2>8, ReturnPlace DEF Prune, OutputTypeOK
    <3>2. ASSUME NEW t \in Types, NEW n \in DOMAIN backups'[t]
          PROVE  Plain(backups'[t][n])
      <4>1. backups[t] \in Seq(Files) /\ backups \in [Types -> Seq(Files)]
        BY <1>0 DEF OutputTypeOK
      <4>2. CASE backups'[t] = backups[t]
        BY <3>2, <4>2 DEF PlainInv
      <4>3. CASE backups'[t] # backups[t]
        <5>. DEFINE s == backups[t]  m == Len(s) - BackupCount + 1
        <5>1. Len(s) > BackupCount /\ backups'[t] = SubSeq(s, m, Len(s))
          BY <2>8, <4>1, <4>3 DEF Prune
        <5>2. BackupCount \in Nat /\ Len(s) \in Nat
          BY <4>1, KometaAssumption
        <5>3. \A k \in DOMAIN SubSeq(s, m, Len(s)) :
                k + m - 1 \in DOMAIN s /\ SubSeq(s, m, Len(s))[k] = s[k + m - 1]
          BY <4>1, <5>1, <5>2
        <5>. QED
          BY <3>2, <5>1, <5>3 DEF PlainInv
      <4>. QED
        BY <4>2, <4>3
    <3>. QED
      BY <1>1, <3>1, <3>2 DEF PlainInv, Closed
  <2>9. CASE OperatorFingerprints
    <3>0. target \in Types
      BY <2>9 DEF OperatorFingerprints, PlaceInv
    <3>1. CASE Closed
      BY <1>2, <2>9, <3>1 DEF OperatorFingerprints
    <3>2. CASE ~Closed
      BY <2>9, <3>0, <3>2 DEF OperatorFingerprints, PlainInv
    <3>. QED
      BY <3>1, <3>2
  <2>. QED
    BY <1>3, <2>1, <2>2, <2>3, <2>4, <2>5, <2>7, <2>8, <2>9 DEF OutputStep
<1>4. ASSUME NEW i \in Items, ItemStep(i)
      PROVE  UNCHANGED <<file, backups, snap, copy>>
  BY <1>4 DEF ItemStep, ReadItem, Identify, BuildMovie, BuildShow, RejectMovie, RejectShow,
              Rejected, Collect
<1>5. CASE Flush \/ Kill
  BY <1>2, <1>5 DEF Flush, Kill
<1>6. ASSUME NEW selected \in SUBSET Items, StartJob(selected)
      PROVE  PlainInv'
  BY <1>2, <1>6 DEF StartJob
<1>7. CASE OthersStep
  <2>1. ASSUME NEW t \in Types, NEW new, Plain(new), UserChanges(t, new)
        PROVE  PlainInv'
    BY <1>0, <2>1 DEF UserChanges, PlainInv, OutputTypeOK
  <2>2. ASSUME NEW t \in Types, UserEdits(t)
        PROVE  PlainInv'
    <3>1. ASSUME NEW i \in Items, NEW p \in Paths, NEW v \in {None, User}, file[t].state = "whole",
                 UserChanges(t, [file[t] EXCEPT !.text[i][p] = v])
          PROVE  PlainInv'
      <4>1. file[t] \in [state : {"none", "whole", "broken"}, text : Documents]
        BY <1>0 DEF OutputTypeOK, Files
      <4>2. [file[t] EXCEPT !.text[i][p] = v].state = "whole"
        BY <3>1, <4>1
      <4>. QED
        BY <2>1, <3>1, <4>2 DEF Plain
    <3>2. \A n \in DOMAIN backups[t] : Plain(backups[t][n])
      BY DEF PlainInv
    <3>. QED
      BY <1>1, <2>1, <2>2, <3>1, <3>2 DEF UserEdits
  <2>. QED
    BY <1>2, <1>7, <2>2 DEF OthersStep, PlexChanges, TMDbChanges, PolicyChanges, OperatorReads
<1>8. CASE IdentityChanges \/ UNCHANGED vars
  BY <1>2, <1>8 DEF IdentityChanges, vars
<1>. QED
  BY <1>2, <1>3, <1>4, <1>5, <1>6, <1>7, <1>8 DEF Next, JobStep

LEMMA StateStep ==
  /\ Init => TypeOK /\ PlaceInv /\ CopyInv /\ PlainInv
  /\ TypeOK /\ PlaceInv /\ CopyInv /\ PlainInv /\ [Next]_vars
     => TypeOK' /\ PlaceInv' /\ CopyInv' /\ PlainInv'
<1>1. ASSUME Init PROVE TypeOK
  <2>1. override \in [Items -> Records \cup {None}] /\ \A i \in Items : override[i] \in {None, Overrides[i]}
    <3>1. CASE override = [i \in Items |-> None]
      BY <3>1
    <3>2. CASE override = Overrides
      BY <3>2, IdentityAssumption
    <3>. QED
      BY <1>1, <3>1, <3>2 DEF Init
  <2>. QED
    BY <1>1, <2>1, TypeInit, IdentityInitType DEF Init, TypeOK
<1>2. ASSUME TypeOK, PlaceInv, CopyInv, PlainInv, [Next]_vars PROVE TypeOK'
  <2>1. OutputTypeOK'
    BY <1>2, OutputStepType, ItemStepType, OtherStepType DEF TypeOK, Next, JobStep
  <2>. QED
    BY <1>2, <2>1, IdentityStepType DEF TypeOK
<1>. QED
  BY <1>1, <1>2, PlaceInit, PlaceStep, CopyStep, PlainStep

(* Every variable always has the values its declaration allows, through    *)
(* process_library, write_kometa_metadata and what happens around them.    *)
THEOREM KometaTypes == Spec => []TypeOK
<1>1. Init => TypeOK /\ PlaceInv /\ CopyInv /\ PlainInv
  BY StateStep
<1>2. TypeOK /\ PlaceInv /\ CopyInv /\ PlainInv /\ [Next]_vars
      => (TypeOK /\ PlaceInv /\ CopyInv /\ PlainInv)'
  BY StateStep
<1>. QED
  BY <1>1, <1>2, PTL DEF Spec
-----------------------------------------------------------------------------
(* RightTitle                                                              *)

(* An item is taken for a record while its turn lasts, and the record is   *)
(* of the title Plex was read to have, or the operator's.                  *)
ChosenInv ==
  \A i \in Items : chosen[i] # None =>
    /\ at = "items" /\ i \in Here /\ read[i] # Unread
    /\ chosen[i] \in Right(i, seen[i])

(* A binding is of a record of every match that has its fingerprint.       *)
BindingInv ==
  \A i \in Items : binding[i].record # None =>
    /\ binding[i].print # <<>>
    /\ \A ids \in Range(Matches[i]) :
         Fingerprint(ids) = binding[i].print => binding[i].record \in OfTitle(i, ids)

(* A stale id is remembered only of a match that has an external id; and   *)
(* when Plex has one match only, the binding that was learned with it has  *)
(* precedence over it from then on.                                        *)
RecoveryInv ==
  \A i \in Items : \A e \in {known[i], stored[i]} : e.from # None =>
    /\ \E ids \in Range(Matches[i]) : ids.external # None /\ e.print = Fingerprint(ids)
    /\ OneMatch(i) => binding[i].record # None /\ binding[i].print = Fingerprint(Matches[i][1])

TitleInv == ChosenInv /\ BindingInv /\ RecoveryInv

LEMMA SameTitle ==
  ASSUME NEW i, NEW a, NEW b, Fingerprint(a) = Fingerprint(b), Fingerprint(a) # <<>>
  PROVE  OfTitle(i, a) = OfTitle(i, b) /\ a.tmdb = b.tmdb /\ a.external = b.external
<1>1. Fingerprint(a) = <<a.tmdb, a.external>> /\ Fingerprint(b) = <<b.tmdb, b.external>>
  BY DEF Fingerprint
<1>2. a.tmdb = b.tmdb /\ a.external = b.external
  <2>1. <<a.tmdb, a.external>> = <<b.tmdb, b.external>>
    BY <1>1
  <2>. QED
    BY <2>1
<1>. QED
  BY <1>2 DEF OfTitle

(* Where a candidate comes from.                                           *)
LEMMA CandidateOrigin ==
  ASSUME TypeOK, NEW i \in Items, NEW r, r \in Candidates(i)
  PROVE  /\ r \in Records
         /\ \/ r = seen[i].tmdb
            \/ seen[i].external # None /\ ExternalOf[r] = seen[i].external
            \/ r = Loaded(i)
            \/ /\ Loaded(i) = None /\ r = known[i].record /\ known[i].from # None
               /\ known[i].print = Fingerprint(seen[i])
<1>1. /\ seen[i].tmdb \in Records \cup {None} /\ Learned(i) \in Records \cup {None}
      /\ live \subseteq Records
  BY Identities DEF TypeOK, IdentityTypeOK
<1>2. CASE Learned(i) = None
  <2>1. r \in Found(i, {})
    BY <1>2 DEF Candidates
  <2>. QED
    BY <1>1, <2>1 DEF Found
<1>3. CASE Learned(i) # None
  <2>1. r = Learned(i)
    BY <1>3 DEF Candidates
  <2>2. CASE Loaded(i) # None
    BY <1>1, <1>3, <2>1, <2>2 DEF Learned
  <2>3. CASE Loaded(i) = None
    BY <1>1, <1>3, <2>1, <2>3 DEF Learned, Recovered
  <2>. QED
    BY <2>2, <2>3
<1>. QED
  BY <1>2, <1>3

(* What an item is taken for is of the title that was read.                *)
LEMMA ResolvedRight ==
  ASSUME TypeOK, BindingInv, RecoveryInv, NEW i \in Items, Unmistakable(i),
         NEW answered \in BOOLEAN, NEW way \in Resolved(i, answered)
  PROVE  way[2] \in Right(i, seen[i])
<1>1. way[1] \in Records /\ way[2] \in Records
  BY Identities DEF TypeOK
<1>2. CASE Overridden(i)
  <2>1. way \in {<<r, r>> : r \in {override[i]} \cap live}
    BY <1>2 DEF Resolved
  <2>. QED
    BY <1>2, <2>1 DEF Right
<1>3. CASE ~Overridden(i)
  <2>. DEFINE c == way[1]  r == way[2]
  <2>1. c \in Candidates(i) /\ r \in Details(i, c, answered)
    BY <1>3 DEF Resolved
  <2>2. SUFFICES r \in OfTitle(i, seen[i])
    BY <1>3 DEF Right
  <2>0. seen[i] \in Range(Matches[i])
    <3>1. seen[i] # Unseen
      <4>. SUFFICES ASSUME seen[i] = Unseen PROVE FALSE
        OBVIOUS
      <4>1. Fingerprint(seen[i]) = <<>> /\ seen[i].tmdb = None /\ seen[i].external = None
        BY DEF Unseen, Fingerprint
      <4>2. Loaded(i) = None /\ Recovered(i) = None /\ Found(i, {}) = {}
        BY <4>1 DEF Loaded, Recovered, Found
      <4>. QED
        BY <2>1, <4>2 DEF Candidates, Learned
    <3>. QED
      BY <3>1 DEF TypeOK, IdentityTypeOK
  <2>3. CASE seen[i].external # None /\ ExternalOf[r] = seen[i].external
    BY <1>1, <2>3 DEF OfTitle
  <2>4. CASE ~(seen[i].external # None /\ ExternalOf[r] = seen[i].external)
    <3>1. r = c /\ Consensus(i, c)
      BY <2>1, <2>4 DEF Details, Found
    <3>2. CASE r = seen[i].tmdb
      BY <1>1, <2>4, <3>1, <3>2 DEF Consensus, Compared, OfTitle
    <3>3. CASE r = Loaded(i)
      <4>1. binding[i].record = r /\ r # None /\ binding[i].print = Fingerprint(seen[i])
        BY <1>1, <3>3, IdentityAssumption DEF Loaded
      <4>. QED
        BY <2>0, <4>1 DEF BindingInv
    <3>4. CASE /\ Loaded(i) = None /\ r = known[i].record /\ known[i].from # None
               /\ known[i].print = Fingerprint(seen[i])
      <4>1. PICK ids \in Range(Matches[i]) : ids.external # None /\ Fingerprint(seen[i]) = Fingerprint(ids)
        BY <3>4 DEF RecoveryInv
      <4>2. seen[i].external # None
        BY <4>1, SameTitle DEF Fingerprint
      <4>3. CASE OneMatch(i)
        <5>1. /\ binding[i].record # None /\ binding[i].print = Fingerprint(Matches[i][1])
              /\ seen[i] = Matches[i][1]
          BY <2>0, <3>4, <4>3 DEF RecoveryInv, OneMatch
        <5>2. Fingerprint(seen[i]) # <<>>
          BY <4>2 DEF Fingerprint
        <5>. QED
          BY <3>4, <5>1, <5>2 DEF Loaded
      <4>4. CASE i \notin Preserved /\ \A s \in Records : ExternalOf[s] # None
        BY <1>1, <2>4, <3>1, <4>2, <4>4 DEF Consensus, Compared
      <4>. QED
        BY <2>0, <4>2, <4>3, <4>4 DEF Unmistakable
    <3>. QED
      BY <2>1, <3>1, <3>2, <3>3, <3>4, <2>4, CandidateOrigin
  <2>. QED
    BY <2>3, <2>4
<1>. QED
  BY <1>2, <1>3

(* Taking an item for a record keeps what is remembered sound.             *)
LEMMA SettleSound ==
  ASSUME TypeOK, TitleInv, NEW i \in Items, Unmistakable(i),
         NEW answered \in BOOLEAN, NEW way \in Resolved(i, answered), Settle(i, way[1], way[2])
  PROVE  BindingInv' /\ RecoveryInv'
<1>. DEFINE c == way[1]  r == way[2]
<1>1. c \in Records /\ r \in Records /\ r \in Right(i, seen[i])
  BY Identities, ResolvedRight DEF TypeOK, TitleInv
<1>2. /\ \A j \in Items \ {i} : binding'[j] = binding[j] /\ known'[j] = known[j]
      /\ binding'[i] = Bound(i, r) /\ known'[i] = Remembered(i, c, r) /\ stored' = stored
  BY DEF Settle, TypeOK, IdentityTypeOK
<1>3. ~Overridden(i) => r \in OfTitle(i, seen[i])
  BY <1>1 DEF Right
<1>4. c # r => ~Overridden(i) /\ seen[i].external # None /\ ExternalOf[r] = seen[i].external
  <2>1. CASE Overridden(i)
    <3>1. way \in {<<s, s>> : s \in {override[i]} \cap live}
      BY <2>1 DEF Resolved
    <3>. QED
      BY <3>1
  <2>2. CASE ~Overridden(i)
    <3>1. r \in Details(i, c, answered)
      BY <2>2 DEF Resolved
    <3>. QED
      BY <2>2, <3>1 DEF Details, Found
  <2>. QED
    BY <2>1, <2>2
<1>5. seen[i].external # None => seen[i] \in Range(Matches[i]) /\ Fingerprint(seen[i]) # <<>>
  BY DEF TypeOK, IdentityTypeOK, Unseen, Fingerprint
<1>6. Fingerprint(seen[i]) # <<>> => seen[i] \in Range(Matches[i])
  BY DEF TypeOK, IdentityTypeOK, Unseen, Fingerprint
<1>. HIDE DEF c, r
<1>7. \/ Bound(i, r) = binding[i]
      \/ /\ Bound(i, r) = [record |-> r, print |-> Fingerprint(seen[i])]
         /\ ~Overridden(i) /\ Fingerprint(seen[i]) # <<>>
  BY DEF Bound
<1>8. BindingInv'
  <2>. SUFFICES ASSUME NEW j \in Items, binding'[j].record # None
                PROVE  /\ binding'[j].print # <<>>
                       /\ \A ids \in Range(Matches[j]) :
                            Fingerprint(ids) = binding'[j].print => binding'[j].record \in OfTitle(j, ids)
    BY DEF BindingInv
  <2>1. CASE binding'[j] = binding[j]
    BY <2>1 DEF TitleInv, BindingInv
  <2>2. CASE binding'[j] # binding[j]
    <3>1. /\ j = i /\ binding'[i].record = r /\ binding'[i].print = Fingerprint(seen[i])
          /\ ~Overridden(i) /\ Fingerprint(seen[i]) # <<>>
      BY <1>2, <1>7, <2>2
    <3>2. \A ids : Fingerprint(ids) = Fingerprint(seen[i]) => OfTitle(i, ids) = OfTitle(i, seen[i])
      BY <3>1, SameTitle
    <3>. QED
      BY <1>3, <3>1, <3>2
  <2>. QED
    BY <2>1, <2>2
<1>9. OneMatch(i) /\ binding[i].record # None /\ binding[i].print = Fingerprint(Matches[i][1])
      => binding'[i].record # None /\ binding'[i].print = Fingerprint(Matches[i][1])
  BY <1>1, <1>2, <1>6, <1>7, IdentityAssumption DEF OneMatch
<1>10. known'[i].from # None =>
         /\ \E ids \in Range(Matches[i]) : ids.external # None /\ known'[i].print = Fingerprint(ids)
         /\ OneMatch(i) => binding'[i].record # None /\ binding'[i].print = Fingerprint(Matches[i][1])
  <2>1. CASE c = r
    <3>1. known'[i].from = known[i].from /\ known'[i].print = known[i].print
      BY <1>2, <2>1 DEF Remembered, TypeOK, IdentityTypeOK
    <3>. QED
      BY <1>9, <3>1 DEF TitleInv, RecoveryInv
  <2>2. CASE c # r
    <3>1. known'[i].print = Fingerprint(seen[i]) /\ seen[i] \in Range(Matches[i]) /\ seen[i].external # None
      BY <1>2, <1>4, <1>5, <2>2 DEF Remembered
    <3>2. Bound(i, r) = [record |-> r, print |-> Fingerprint(seen[i])]
      BY <1>1, <1>4, <1>5, <2>2, <3>1 DEF Bound, Trusted, Compared
    <3>. QED
      BY <1>1, <1>2, <3>1, <3>2, IdentityAssumption DEF OneMatch
  <2>. QED
    BY <2>1, <2>2
<1>11. RecoveryInv'
  <2>. SUFFICES ASSUME NEW j \in Items, NEW e \in {known'[j], stored'[j]}, e.from # None
                PROVE  /\ \E ids \in Range(Matches[j]) : ids.external # None /\ e.print = Fingerprint(ids)
                       /\ OneMatch(j) => binding'[j].record # None /\ binding'[j].print = Fingerprint(Matches[j][1])
    BY DEF RecoveryInv
  <2>1. CASE j # i
    BY <1>2, <2>1 DEF TitleInv, RecoveryInv
  <2>2. CASE j = i /\ e = known'[i]
    BY <1>10, <2>2
  <2>3. CASE j = i /\ e = stored[i]
    BY <1>9, <2>3 DEF TitleInv, RecoveryInv
  <2>. QED
    BY <1>2, <2>1, <2>2, <2>3
<1>. QED
  BY <1>8, <1>11

LEMMA TitleStep ==
  ASSUME TypeOK, TitleInv, \A i \in Items : Unmistakable(i), [Next]_vars
  PROVE  TitleInv'
<1>. USE DEF disk, world, open, job, bounds, history, ground, memory
<1>0. /\ OutputTypeOK /\ chosen \in [Items -> Records \cup {None}]
      /\ seen \in [Items -> (UNION {Range(Matches[i]) : i \in Items}) \cup {Unseen}]
  BY DEF TypeOK, IdentityTypeOK
<1>1. ASSUME UNCHANGED <<binding, known, stored>>
      PROVE  BindingInv' /\ RecoveryInv'
  BY <1>1 DEF TitleInv, BindingInv, RecoveryInv
<1>2. ASSUME \A i \in Items : chosen'[i] = None
      PROVE  ChosenInv'
  BY <1>2 DEF ChosenInv
<1>3. at # "items" \/ Here = {} => \A i \in Items : chosen[i] = None
  BY DEF TitleInv, ChosenInv
<1>4. CASE OutputStep /\ UNCHANGED identity
  <2>1. at # "items" \/ Here = {}
    BY <1>4 DEF OutputStep, SkipLibrary, Snapshot, ReadOutput, NothingToWrite, BeginWrite, Check,
                Backup, Replace, ReplaceFails, Reread, RereadFails, Restore, Restored, Prune,
                OperatorFingerprints
  <2>. QED
    BY <1>1, <1>2, <1>3, <1>4, <2>1 DEF identity, TitleInv
<1>5. ASSUME NEW i \in Items, ItemStep(i)
      PROVE  TitleInv'
  <2>0. /\ i \in Here /\ at = "items" /\ UNCHANGED <<at, libs>>
        /\ UNCHANGED override
    BY <1>5 DEF ItemStep, ReadItem, Identify, BuildMovie, BuildShow, RejectMovie, RejectShow, Rejected,
                Collect, Ready, ReadIdentity, Settle, Release, Unsettled
  <2>1. ASSUME NEW j \in Items \ {i}, chosen'[j] # None,
               chosen'[j] = chosen[j], seen'[j] = seen[j], read'[j] = read[j],
               j \in left => j \in left'
        PROVE  /\ at' = "items" /\ j \in Here' /\ read'[j] # Unread
               /\ chosen'[j] \in Right(j, seen[j])'
    BY <2>0, <2>1 DEF TitleInv, ChosenInv, Here, Right, Overridden, OfTitle
  <2>2. CASE ReadItem(i)
    <3>1. /\ \A j \in Items \ {i} : seen'[j] = seen[j] /\ read'[j] = read[j]
          /\ UNCHANGED <<chosen, left, binding, known, stored>> /\ read[i] = Unread
      BY <1>0, <2>2 DEF ReadItem, ReadIdentity, OutputTypeOK
    <3>2. chosen'[i] = None
      BY <3>1 DEF TitleInv, ChosenInv
    <3>. QED
      BY <1>1, <2>1, <3>1, <3>2 DEF TitleInv, ChosenInv
  <2>3. CASE Identify(i)
    <3>1. PICK answered \in BOOLEAN : \E way \in Resolved(i, answered) : Settle(i, way[1], way[2])
      BY <2>3 DEF Identify
    <3>2. PICK way \in Resolved(i, answered) : Settle(i, way[1], way[2])
      BY <3>1
    <3>3. BindingInv' /\ RecoveryInv'
      BY <3>2, SettleSound
    <3>4. way[2] \in Right(i, seen[i])
      BY <3>2, ResolvedRight DEF TitleInv
    <3>5. /\ \A j \in Items \ {i} : chosen'[j] = chosen[j]
          /\ chosen'[i] = way[2] /\ UNCHANGED <<seen, read, left>> /\ read[i] # Unread
      BY <1>0, <2>3, <3>2 DEF Settle, Identify
    <3>6. chosen'[i] \in Right(i, seen[i])'
      BY <2>0, <3>4, <3>5 DEF Right, Overridden, OfTitle
    <3>7. i \in Here'
      BY <2>0, <3>5 DEF Here
    <3>. QED
      BY <2>0, <2>1, <3>3, <3>5, <3>6, <3>7 DEF TitleInv, ChosenInv
  <2>4. CASE BuildMovie(i) \/ BuildShow(i)
    <3>1. /\ Release(i) /\ left' = left \ {i} /\ read' = [read EXCEPT ![i] = Unread]
      BY <2>4 DEF BuildMovie, BuildShow, Collect
    <3>2. /\ \A j \in Items \ {i} : seen'[j] = seen[j] /\ read'[j] = read[j] /\ chosen'[j] = chosen[j]
          /\ chosen'[i] = None /\ UNCHANGED <<binding, known, stored>>
      BY <1>0, <3>1 DEF Release, OutputTypeOK
    <3>. QED
      BY <1>1, <2>1, <3>1, <3>2 DEF TitleInv, ChosenInv
  <2>5. CASE Rejected(i)
    <3>1. /\ Unsettled(i) /\ left' = left \ {i} /\ read' = [read EXCEPT ![i] = Unread] /\ chosen[i] = None
      BY <2>5 DEF Rejected
    <3>2. /\ \A j \in Items \ {i} : seen'[j] = seen[j] /\ read'[j] = read[j] /\ chosen'[j] = chosen[j]
          /\ chosen'[i] = None /\ UNCHANGED <<binding, known, stored>>
      BY <1>0, <3>1 DEF Unsettled, OutputTypeOK
    <3>. QED
      BY <1>1, <2>1, <3>1, <3>2 DEF TitleInv, ChosenInv
  <2>. QED
    BY <1>5, <2>2, <2>3, <2>4, <2>5 DEF ItemStep, RejectMovie, RejectShow
<1>6. CASE Flush
  <2>1. PICK flushed \in BOOLEAN : KeepIdentity(flushed)
    BY <1>6 DEF Flush
  <2>2. /\ \A i \in Items : chosen'[i] = None /\ known' \in {known, stored} /\ stored' = known'
        /\ UNCHANGED binding
    BY <2>1 DEF KeepIdentity, Forget
  <2>. QED
    BY <1>2, <2>2 DEF TitleInv, BindingInv, RecoveryInv
<1>7. CASE Kill
  <2>1. /\ \A i \in Items : chosen'[i] = None /\ known' = stored /\ UNCHANGED <<binding, stored>>
    BY <1>7 DEF Kill, LoseIdentity, Forget
  <2>. QED
    BY <1>2, <2>1 DEF TitleInv, BindingInv, RecoveryInv
<1>8. ASSUME NEW selected \in SUBSET Items, StartJob(selected)
      PROVE  TitleInv'
  BY <1>1, <1>2, <1>3, <1>8 DEF StartJob, identity, TitleInv
<1>9. ASSUME UNCHANGED <<at, libs, left, read, chosen, seen, override, binding, known, stored>>
      PROVE  TitleInv'
  BY <1>1, <1>9 DEF TitleInv, ChosenInv, Here, Right, Overridden, OfTitle
<1>10. CASE OthersStep /\ UNCHANGED identity
  <2>1. ASSUME NEW i \in Items, OperatorReads(i) PROVE TitleInv'
    BY <1>1, <1>2, <1>3, <1>10, <2>1 DEF OperatorReads, identity, TitleInv
  <2>2. \A t, new : UserChanges(t, new) => UNCHANGED job
    BY DEF UserChanges
  <2>3. (\E t \in Types : UserEdits(t)) => UNCHANGED job
    BY <2>2 DEF UserEdits
  <2>. QED
    BY <1>9, <1>10, <2>1, <2>3 DEF OthersStep, PlexChanges, TMDbChanges, PolicyChanges, identity
<1>11. CASE IdentityChanges
  <2>1. ASSUME NEW i \in Items, at = "idle", Override(i) PROVE TitleInv'
    BY <1>1, <1>2, <1>3, <2>1 DEF Override, TitleInv
  <2>. QED
    BY <1>9, <1>11, <2>1 DEF IdentityChanges, Retire, Rematch
<1>12. CASE UNCHANGED vars
  BY <1>9, <1>12 DEF vars, identity
<1>. QED
  BY <1>4, <1>5, <1>6, <1>7, <1>8, <1>10, <1>11, <1>12 DEF Next, JobStep

(* A step puts in the entry of an item what its record has.                *)
LEMMA TitleSafe ==
  ASSUME TypeOK, TitleInv, Next, NEW i \in Items, NEW p \in Paths,
         chosen[i] # None, chosen'[i] = None, doc'[i][p] # doc[i][p], doc'[i][p] \in Sources
  PROVE  \E r \in Right(i, seen[i]) : doc'[i][p] \in States[r]
<1>. USE DEF disk, world, open, job, bounds, history, ground, memory
<1>0. OutputTypeOK /\ chosen \in [Items -> Records \cup {None}] /\ doc'[i][p] # None
      /\ chosen[i] \in Right(i, seen[i]) /\ at = "items"
  BY KometaAssumption DEF TypeOK, IdentityTypeOK, TitleInv, ChosenInv
<1>1. CASE UNCHANGED chosen
  BY <1>1
<1>2. CASE Kill
  BY <1>0, <1>2 DEF Kill, Closed, Empty, Blank
<1>3. ASSUME NEW j \in Items, BuildMovie(j) \/ BuildShow(j)
      PROVE  \E r \in Right(i, seen[i]) : doc'[i][p] \in States[r]
  <2>1. j = i
    BY <1>0, <1>3 DEF BuildMovie, BuildShow, Collect, Release
  <2>2. PICK holding, inventory, missing : Collect(i, missing, Merge(doc[i], Generated(i, holding, missing), inventory))
    BY <1>3, <2>1 DEF BuildMovie, BuildShow
  <2>3. doc'[i] = Merge(doc[i], Generated(i, holding, missing), inventory)
    BY <1>0, <2>2 DEF Collect, OutputTypeOK, Documents
  <2>4. doc'[i][p] = Generated(i, holding, missing)[p]
    BY <1>0, <2>3 DEF Merge
  <2>5. doc'[i][p] = source[chosen[i]]
    BY <1>0, <2>4 DEF Generated
  <2>. QED
    BY <1>0, <2>5, GeneratedType
<1>4. ASSUME NEW j \in Items, ItemStep(j)
      PROVE  \E r \in Right(i, seen[i]) : doc'[i][p] \in States[r]
  <2>1. CASE Identify(j)
    BY <1>0, <2>1 DEF Identify
  <2>. QED
    BY <1>1, <1>3, <1>4, <2>1
       DEF ItemStep, ReadItem, ReadIdentity, RejectMovie, RejectShow, Rejected, Unsettled
<1>5. CASE OutputStep /\ UNCHANGED identity
  BY <1>1, <1>5 DEF identity
<1>6. CASE OthersStep /\ UNCHANGED identity
  BY <1>1, <1>6 DEF identity
<1>7. CASE IdentityChanges
  BY <1>1, <1>7 DEF IdentityChanges, Retire, Rematch, Override
<1>8. CASE Flush
  BY <1>0, <1>8 DEF Flush
<1>9. ASSUME NEW selected \in SUBSET Items, StartJob(selected)
      PROVE  FALSE
  BY <1>0, <1>9 DEF StartJob
<1>. QED
  BY <1>2, <1>4, <1>5, <1>6, <1>7, <1>8, <1>9 DEF Next, JobStep

(* What a job puts in the entry of an item is of a record of the title it  *)
(* read, or of the operator's, if what was recovered of one title can not  *)
(* be taken for another's.  The assumption is needed: Plex may take an     *)
(* item for another title and back, and media_state then has the other     *)
(* record beside the stale id of the first (resolve_tmdb_id,               *)
(* apply_cached_tmdb_recovery, meta_cache_async).                          *)
THEOREM TitlesAreRight ==
  ASSUME \A i \in Items : Unmistakable(i)
  PROVE  Spec => RightTitle
<1>1. Init => TypeOK /\ PlaceInv /\ CopyInv /\ PlainInv /\ TitleInv
  <2>1. Init => TitleInv
    BY DEF Init, IdentityInit, TitleInv, ChosenInv, BindingInv, RecoveryInv, NoBinding, NoEntry
  <2>. QED
    BY <2>1, StateStep
<1>2. TypeOK /\ PlaceInv /\ CopyInv /\ PlainInv /\ TitleInv /\ [Next]_vars
      => (TypeOK /\ PlaceInv /\ CopyInv /\ PlainInv /\ TitleInv)'
  BY StateStep, TitleStep
<1>3. TypeOK /\ TitleInv /\ [Next]_vars
      => [\A i \in Items, p \in Paths :
            LET v == doc'[i][p]
            IN  /\ chosen[i] # None /\ chosen'[i] = None /\ v # doc[i][p] /\ v \in Sources
                => \E r \in Right(i, seen[i]) : v \in States[r]]_vars
  BY TitleSafe
<1>. QED
  BY <1>1, <1>2, <1>3, PTL DEF Spec, RightTitle
-----------------------------------------------------------------------------
(* LedgerTrue                                                              *)

(* What the job has collected or recorded of a field the user has not      *)
(* changed in the meantime.                                                *)
Untouched(i, p) == <<i, p>> \notin touched
Told(share, i, p) == share[i] # <<>> /\ share[i][p] # None

InLibrary == libs # <<>>   \* a job has the file open, not an operator's command

(* Until it is replaced, the file is what was read of it; when it has been *)
(* it is the document.                                                     *)
FileInv ==
  InLibrary => \A i \in Items, p \in Paths : Untouched(i, p) =>
    /\ at \in {"items", "check", "backup", "replace"} => file[target].text[i][p] = base[i][p]
    /\ at \in {"replace", "reread", "restore", "restoring"} => copy.text[i][p] = base[i][p]
    /\ at = "reread" \/ (at = "prune" /\ good) => file[target].text[i][p] = doc[i][p]

(* The document has what was recorded of earlier libraries and what was    *)
(* collected of this one.                                                  *)
DocumentInv ==
  at \in Opened \ {"read"} /\ InLibrary => \A i \in Items, p \in Paths :
    /\ Told(records, i, p) /\ Untouched(i, p) /\ FileOf(i) = target
       => doc[i][p] = records[i][p] /\ base[i][p] = records[i][p]
    /\ Told(entries, i, p) => doc[i][p] = entries[i][p]

(* The files have what was recorded, but while one is being restored.      *)
RecordInv ==
  \A i \in Items, p \in Paths : Told(records, i, p) =>
    /\ Key(p) # Deprecated
    /\ Untouched(i, p) /\ ~(at = "restoring" /\ FileOf(i) = target)
       => file[FileOf(i)].text[i][p] = records[i][p]
EntryInv == \A i \in Items, p \in Paths : Told(entries, i, p) => Key(p) # Deprecated

LedgerInv == FileInv /\ DocumentInv /\ RecordInv /\ EntryInv

LEMMA NoLibraryLedger ==
  ASSUME PlaceInv', libs' = <<>>, at' # "flush"
  PROVE  LedgerInv'
BY DEF PlaceInv, LedgerInv, FileInv, DocumentInv, RecordInv, EntryInv, InLibrary, Told, Nothing

(* What a library leaves behind are the records of what its file has.      *)
LEMMA LeaveLedger ==
  ASSUME OutputTypeOK, RecordInv, EntryInv, at # "restoring", NEW succeeded \in BOOLEAN,
         Leave(IF succeeded THEN entries ELSE Nothing), UNCHANGED <<file, touched>>,
         at' \in {"snapshot", "flush"},
         succeeded => \A i \in Items, p \in Paths : Told(entries, i, p) /\ Untouched(i, p)
                        => file[FileOf(i)].text[i][p] = entries[i][p]
  PROVE  LedgerInv'
<1>1. RecordInv'
  <2>. SUFFICES ASSUME NEW i \in Items, NEW p \in Paths, Told(records, i, p)'
                PROVE  /\ Key(p) # Deprecated
                       /\ Untouched(i, p) => file[FileOf(i)].text[i][p] = records'[i][p]
    BY DEF RecordInv, Untouched
  <2>1. CASE records'[i] = records[i]
    BY <2>1 DEF RecordInv, Told
  <2>2. CASE succeeded /\ records'[i] = entries[i]
    BY <2>2 DEF EntryInv, Told
  <2>. QED
    BY <2>1, <2>2 DEF Leave, Nothing
<1>2. entries' = Nothing
  BY DEF Leave
<1>. QED
  BY <1>1, <1>2 DEF LedgerInv, FileInv, DocumentInv, EntryInv, Told, Nothing, Opened

LEMMA ReturnLedger ==
  ASSUME TypeOK, PlaceInv, LedgerInv, PlaceInv', at # "restoring", NEW succeeded \in BOOLEAN,
         Return(succeeded), UNCHANGED <<file, touched>>,
         succeeded /\ InLibrary => \A i \in Items, p \in Paths : Told(entries, i, p) /\ Untouched(i, p)
                                      => file[FileOf(i)].text[i][p] = entries[i][p]
  PROVE  LedgerInv'
<1>1. CASE libs = <<>>
  BY <1>1, NoLibraryLedger DEF Return, Idle
<1>2. CASE libs # <<>>
  <2>1. at' \in {"snapshot", "flush"}
    BY <1>2 DEF Return, Leave
  <2>. QED
    BY <1>2, <2>1, LeaveLedger DEF Return, TypeOK, LedgerInv, InLibrary
<1>. QED
  BY <1>1, <1>2

(* An entry that is collected is of the file that is open.                 *)
LEMMA EntryPlace ==
  ASSUME PlaceInv, InLibrary, at \in Opened, NEW i \in Items, entries[i] # <<>>
  PROVE  FileOf(i) = target
BY DEF PlaceInv, FileOf

LEMMA OutputStepLedger ==
  ASSUME TypeOK, PlaceInv, CopyInv, PlainInv, LedgerInv, BackupCount > 0, PlaceInv', OutputStep
  PROVE  LedgerInv'
<1>. USE DEF disk, world, open, job, bounds, history
<1>0. OutputTypeOK /\ \A i \in Items : FileOf(i) \in Types
  BY TypeOf_ DEF TypeOK
<1>1. CASE libs' = <<>> /\ at' # "flush"
  BY <1>1, NoLibraryLedger
<1>2. CASE SkipLibrary
  BY <1>0, <1>2, LeaveLedger, LeavePlace DEF SkipLibrary, LedgerInv, Leave
<1>3. CASE Snapshot
  BY <1>3 DEF Snapshot, LedgerInv, FileInv, DocumentInv, RecordInv, EntryInv, Untouched, Told, Opened
<1>4. CASE ReadOutput
  <2>1. CASE Leave(Nothing)
    <3>1. at' \in {"snapshot", "flush"}
      BY <2>1 DEF Leave
    <3>. QED
      BY <1>0, <1>4, <2>1, <3>1, LeaveLedger DEF ReadOutput, LedgerInv
  <2>2. CASE ~Leave(Nothing)
    <3>1. /\ at = "read" /\ at' = "items" /\ base' = file[target].text
          /\ doc' = WithoutDeprecated(base')
          /\ UNCHANGED <<file, target, libs, records, entries, touched, copy>>
      BY <1>4, <2>2 DEF ReadOutput
    <3>2. entries = Nothing
      BY <3>1 DEF PlaceInv
    <3>3. FileInv'
      BY <3>1 DEF FileInv, InLibrary, Untouched
    <3>4. DocumentInv'
      <4>. SUFFICES ASSUME NEW i \in Items, NEW p \in Paths, Told(records, i, p), Untouched(i, p),
                           FileOf(i) = target
                    PROVE  doc'[i][p] = records[i][p] /\ base'[i][p] = records[i][p]
        BY <3>1, <3>2 DEF DocumentInv, Told, Untouched, Nothing
      <4>1. Key(p) # Deprecated /\ base'[i][p] = records[i][p]
        BY <3>1 DEF LedgerInv, RecordInv
      <4>. QED
        BY <3>1, <4>1 DEF WithoutDeprecated
    <3>5. RecordInv' /\ EntryInv'
      BY <3>1 DEF LedgerInv, RecordInv, EntryInv, Told, Untouched
    <3>. QED
      BY <3>3, <3>4, <3>5 DEF LedgerInv
  <2>. QED
    BY <2>1, <2>2
<1>5. CASE NothingToWrite
  <2>1. at = "items" /\ libs # <<>> /\ at' \in {"snapshot", "flush"}
    BY <1>5 DEF NothingToWrite, PlaceInv, Leave
  <2>2. ASSUME NEW i \in Items, NEW p \in Paths, Told(entries, i, p), Untouched(i, p)
        PROVE  file[FileOf(i)].text[i][p] = entries[i][p]
    <3>1. FileOf(i) = target
      BY <2>1, <2>2, EntryPlace DEF Told, InLibrary, Opened
    <3>. QED
      BY <1>5, <2>1, <2>2, <3>1 DEF NothingToWrite, LedgerInv, FileInv, DocumentInv, InLibrary, Opened
  <2>. QED
    BY <1>0, <1>5, <2>1, <2>2, LeaveLedger DEF NothingToWrite, LedgerInv
<1>6. CASE BeginWrite
  BY <1>6 DEF BeginWrite, LedgerInv, FileInv, DocumentInv, RecordInv, EntryInv, Untouched, Told,
              InLibrary, Opened
<1>7. CASE Check
  <2>1. CASE Return(FALSE)
    BY <1>7, <2>1, ReturnLedger DEF Check
  <2>2. CASE ~Return(FALSE)
    <3>1. at = "check" /\ at' = "backup" /\ good' = good /\ copy' = copy
          /\ UNCHANGED <<file, target, libs, base, doc, records, entries, touched>>
      BY <1>7, <2>2 DEF Check
    <3>. QED
      BY <3>1 DEF LedgerInv, FileInv, DocumentInv, RecordInv, EntryInv, Untouched, Told,
                  InLibrary, Opened
  <2>. QED
    BY <2>1, <2>2
<1>8. CASE Backup /\ InLibrary
  <2>1. /\ at = "backup" /\ at' = "replace"
        /\ UNCHANGED <<file, target, libs, base, doc, records, entries, touched>>
    BY <1>8 DEF Backup
  <2>2. copy' = file[target] \/ (copy' = copy /\ file[target].state = "none")
    BY <1>8, KometaAssumption DEF Backup
  <2>3. copy'.text = file[target].text
    <3>1. copy = NoFile /\ Plain(file[target])
      BY <2>1 DEF CopyInv, PlainInv, PlaceInv, Opened
    <3>. QED
      BY <2>2, <3>1 DEF Plain, NoFile
  <2>4. FileInv'
    BY <1>8, <2>1, <2>3 DEF LedgerInv, FileInv, InLibrary, Untouched
  <2>. QED
    BY <2>1, <2>4 DEF LedgerInv, DocumentInv, RecordInv, EntryInv, Told, Untouched, Opened, InLibrary
<1>9. CASE Replace /\ InLibrary
  <2>1. /\ at = "replace" /\ at' = "reread" /\ target \in Types
        /\ UNCHANGED <<target, libs, base, doc, copy, records, entries, touched>>
    BY <1>9 DEF Replace, PlaceInv, Opened
  <2>2. file'[target].text = doc /\ \A t \in Types \ {target} : file'[t] = file[t]
    BY <1>0, <1>9, <2>1 DEF Replace, Whole, OutputTypeOK
  <2>3. FileInv'
    BY <1>9, <2>1, <2>2 DEF LedgerInv, FileInv, InLibrary, Untouched
  <2>4. RecordInv'
    <3>. SUFFICES ASSUME NEW i \in Items, NEW p \in Paths, Told(records, i, p)
                  PROVE  /\ Key(p) # Deprecated
                         /\ Untouched(i, p) => file'[FileOf(i)].text[i][p] = records[i][p]
      BY <2>1 DEF RecordInv, Told, Untouched
    <3>1. CASE FileOf(i) = target
      BY <1>9, <2>1, <2>2, <3>1 DEF LedgerInv, RecordInv, DocumentInv, Opened
    <3>2. CASE FileOf(i) # target
      BY <1>0, <2>1, <2>2, <3>2 DEF LedgerInv, RecordInv
    <3>. QED
      BY <3>1, <3>2
  <2>. QED
    BY <2>1, <2>3, <2>4 DEF LedgerInv, DocumentInv, EntryInv, Told, Untouched, Opened, InLibrary
<1>10. CASE (ReplaceFails \/ RereadFails \/ Reread) /\ InLibrary
  <2>1. /\ UNCHANGED <<file, target, libs, base, doc, copy, records, entries, touched>>
        /\ at \in {"replace", "reread"} /\ at' \in {"prune", "restore"}
        /\ at' = "prune" => ~good' \/ (at = "reread" /\ good' = good)
    BY <1>10 DEF ReplaceFails, RereadFails, Reread
  <2>. QED
    BY <2>1 DEF LedgerInv, FileInv, DocumentInv, RecordInv, EntryInv, Told, Untouched, Opened, InLibrary
<1>11. CASE Restore /\ InLibrary
  <2>1. /\ at = "restore" /\ at' \in {"restoring", "prune"} /\ target \in Types /\ ~good
        /\ UNCHANGED <<target, libs, base, doc, copy, good, records, entries, touched>>
    BY <1>11 DEF Restore, PlaceInv, CopyInv, Opened
  <2>2. \A t \in Types \ {target} : file'[t] = file[t]
    BY <1>0, <1>11, <2>1 DEF Restore, OutputTypeOK
  <2>3. RecordInv'
    <3>. SUFFICES ASSUME NEW i \in Items, NEW p \in Paths, Told(records, i, p)
                  PROVE  /\ Key(p) # Deprecated
                         /\ Untouched(i, p) /\ ~(at' = "restoring" /\ FileOf(i) = target)
                            => file'[FileOf(i)].text[i][p] = records[i][p]
      BY <2>1 DEF RecordInv, Told, Untouched
    <3>1. CASE FileOf(i) = target /\ at' = "prune"
      <4>1. copy = NoFile /\ file'[target] = NoFile
        BY <1>0, <1>11, <2>1, <3>1 DEF Restore, OutputTypeOK
      <4>2. Untouched(i, p) => copy.text[i][p] = base[i][p] /\ base[i][p] = records[i][p]
        BY <1>11, <2>1, <3>1 DEF LedgerInv, FileInv, DocumentInv, Opened
      <4>. QED
        BY <3>1, <4>1, <4>2 DEF LedgerInv, RecordInv
    <3>2. CASE FileOf(i) # target
      BY <1>0, <2>1, <2>2, <3>2 DEF LedgerInv, RecordInv
    <3>3. CASE FileOf(i) = target /\ at' = "restoring"
      BY <3>3 DEF LedgerInv, RecordInv
    <3>. QED
      BY <2>1, <3>1, <3>2, <3>3
  <2>4. FileInv'
    BY <1>11, <2>1 DEF LedgerInv, FileInv, InLibrary, Untouched
  <2>. QED
    BY <2>1, <2>3, <2>4 DEF LedgerInv, DocumentInv, EntryInv, Told, Untouched, Opened, InLibrary
<1>12. CASE Restored /\ InLibrary
  <2>1. /\ at = "restoring" /\ at' = "prune" /\ target \in Types /\ ~good
        /\ UNCHANGED <<target, libs, base, doc, copy, good, records, entries, touched>>
    BY <1>12 DEF Restored, PlaceInv, CopyInv, Opened
  <2>2. file'[target] = copy /\ \A t \in Types \ {target} : file'[t] = file[t]
    BY <1>0, <1>12, <2>1 DEF Restored, OutputTypeOK
  <2>3. RecordInv'
    <3>. SUFFICES ASSUME NEW i \in Items, NEW p \in Paths, Told(records, i, p)
                  PROVE  /\ Key(p) # Deprecated
                         /\ Untouched(i, p) => file'[FileOf(i)].text[i][p] = records[i][p]
      BY <2>1 DEF RecordInv, Told, Untouched
    <3>1. CASE FileOf(i) = target
      <4>2. Untouched(i, p) => copy.text[i][p] = base[i][p] /\ base[i][p] = records[i][p]
        BY <1>12, <2>1, <3>1 DEF LedgerInv, FileInv, DocumentInv, Opened
      <4>. QED
        BY <2>2, <3>1, <4>2 DEF LedgerInv, RecordInv
    <3>2. CASE FileOf(i) # target
      BY <1>0, <2>1, <2>2, <3>2 DEF LedgerInv, RecordInv
    <3>. QED
      BY <3>1, <3>2
  <2>4. FileInv'
    BY <1>12, <2>1 DEF FileInv
  <2>. QED
    BY <2>1, <2>3, <2>4 DEF LedgerInv, DocumentInv, EntryInv, Told, Untouched, Opened, InLibrary
<1>13. CASE Prune
  <2>1. good \in BOOLEAN /\ at = "prune" /\ UNCHANGED <<file, touched>> /\ Return(good)
    BY <1>0, <1>13 DEF Prune, OutputTypeOK
  <2>2. ASSUME good, InLibrary, NEW i \in Items, NEW p \in Paths, Told(entries, i, p), Untouched(i, p)
        PROVE  file[FileOf(i)].text[i][p] = entries[i][p]
    <3>1. FileOf(i) = target
      BY <2>1, <2>2, EntryPlace DEF Told, Opened
    <3>. QED
      BY <2>1, <2>2, <3>1 DEF LedgerInv, FileInv, DocumentInv, Opened
  <2>. QED
    BY <2>1, <2>2, ReturnLedger
<1>14. ~InLibrary => SkipLibrary \/ Snapshot \/ ReadOutput \/ NothingToWrite \/ BeginWrite
                     \/ Check \/ Prune \/ (libs' = <<>> /\ at' # "flush")
  BY DEF OutputStep, Backup, Replace, ReplaceFails, Reread, RereadFails, Restore, Restored,
         OperatorFingerprints, Idle, InLibrary
<1>15. OperatorFingerprints => libs' = <<>> /\ at' # "flush"
  BY DEF OperatorFingerprints, Idle, PlaceInv
<1>. QED
  BY <1>1, <1>2, <1>3, <1>4, <1>5, <1>6, <1>7, <1>8, <1>9, <1>10, <1>11, <1>12, <1>13, <1>14, <1>15
     DEF OutputStep

(* The items of the open library have no records, and its entry is what    *)
(* the document now has.                                                   *)
LEMMA CollectLedger ==
  ASSUME TypeOK, PlaceInv, LedgerInv, NEW i \in Items, Ready(i) /\ i \in Here,
         NEW inventory, NEW generated, NEW authoritative, NEW missing,
         Collect(i, missing, Merge(doc[i], generated, authoritative)),
         inventory = read[i]
  PROVE  LedgerInv'
<1>. DEFINE merged == Merge(doc[i], generated, authoritative)
<1>0. /\ at = "items" /\ at' = "items" /\ libs # <<>> /\ libs' = libs
      /\ UNCHANGED <<file, target, base, copy, good, records, touched>>
      /\ target = TypeOf[Head(libs)] /\ LibraryOf[i] = Head(libs)
  BY DEF Collect, Ready, Here, PlaceInv, Opened, disk
<1>1. records[i] = <<>>
  <2>1. Head(libs) \in Range(libs)
    BY <1>0 DEF TypeOK, OutputTypeOK, Range
  <2>. QED
    BY <1>0, <2>1 DEF PlaceInv
<1>2. /\ doc'[i] = merged /\ \A j \in Items \ {i} : doc'[j] = doc[j]
      /\ entries'[i] = Explained(i, read[i], merged) /\ \A j \in Items \ {i} : entries'[j] = entries[j]
  BY DEF Collect, TypeOK, OutputTypeOK, Documents, Shares
<1>3. \A p \in Paths : entries'[i][p] # None =>
        entries'[i][p] = doc'[i][p] /\ Key(p) # Deprecated
  BY <1>2 DEF Explained, Merge
<1>4. FileInv'
  BY <1>0 DEF LedgerInv, FileInv, InLibrary, Untouched
<1>5. DocumentInv'
  <2>. SUFFICES ASSUME NEW j \in Items, NEW p \in Paths
                PROVE  /\ Told(records, j, p) /\ Untouched(j, p) /\ FileOf(j) = target
                          => doc'[j][p] = records[j][p] /\ base[j][p] = records[j][p]
                       /\ Told(entries', j, p) => doc'[j][p] = entries'[j][p]
    BY <1>0 DEF DocumentInv, Told, Untouched
  <2>1. CASE j = i
    BY <1>1, <1>3, <2>1 DEF Told
  <2>2. CASE j # i
    BY <1>0, <1>2, <2>2 DEF LedgerInv, DocumentInv, Told, InLibrary, Opened
  <2>. QED
    BY <2>1, <2>2
<1>6. RecordInv'
  BY <1>0 DEF LedgerInv, RecordInv, Told, Untouched
<1>7. EntryInv'
  <2>. SUFFICES ASSUME NEW j \in Items, NEW p \in Paths, Told(entries', j, p)
                PROVE  Key(p) # Deprecated
    BY DEF EntryInv, Told
  <2>1. CASE j = i
    BY <1>3, <2>1 DEF Told
  <2>2. CASE j # i
    BY <1>2, <2>2 DEF LedgerInv, EntryInv, Told
  <2>. QED
    BY <2>1, <2>2
<1>. QED
  BY <1>4, <1>5, <1>6, <1>7 DEF LedgerInv

LEMMA LedgerStep ==
  ASSUME TypeOK, PlaceInv, CopyInv, PlainInv, LedgerInv, BackupCount > 0, PlaceInv', [Next]_vars
  PROVE  LedgerInv'
<1>. USE DEF disk, world, open, job, bounds, history
<1>1. ASSUME UNCHANGED <<at, libs, target, base, doc, copy, good, records, entries, file, touched>>
      PROVE  LedgerInv'
  BY <1>1 DEF LedgerInv, FileInv, DocumentInv, RecordInv, EntryInv, Told, Untouched, InLibrary
<1>2. ASSUME NEW i \in Items, ItemStep(i)
      PROVE  LedgerInv'
  <2>1. CASE BuildMovie(i)
    <3>1. PICK missing \in SUBSET MovieFields :
             Collect(i, missing, Merge(doc[i], Generated(i, {}, missing), Everything))
      BY <2>1 DEF BuildMovie
    <3>. QED
      BY <2>1, <3>1, CollectLedger DEF BuildMovie, Ready
  <2>2. CASE BuildShow(i)
    <3>1. PICK missing \in SUBSET Fields(i, read[i]) :
             Collect(i, missing, Merge(doc[i], Generated(i, read[i], missing), read[i]))
      BY <2>2 DEF BuildShow
    <3>. QED
      BY <2>2, <3>1, CollectLedger DEF BuildShow, Ready
  <2>. QED
    BY <1>1, <1>2, <2>1, <2>2 DEF ItemStep, ReadItem, Identify, RejectMovie, RejectShow, Rejected
<1>3. CASE Flush \/ Kill
  BY <1>3, NoLibraryLedger DEF Flush, Kill, Idle
<1>4. ASSUME NEW i \in Items, OperatorReads(i)
      PROVE  LedgerInv'
  BY <1>4, NoLibraryLedger DEF OperatorReads, PlaceInv
<1>5. ASSUME NEW selected \in SUBSET Items, StartJob(selected)
      PROVE  LedgerInv'
  BY <1>5 DEF StartJob, PlaceInv, LedgerInv, FileInv, DocumentInv, RecordInv, EntryInv, Told, Nothing, Opened
<1>6. ASSUME NEW t \in Types, UserEdits(t)
      PROVE  LedgerInv'
  <2>1. PICK new : UserChanges(t, new)
    BY <1>6 DEF UserEdits
  <2>2. /\ UNCHANGED <<at, libs, target, base, doc, copy, good, records, entries>>
        /\ touched \subseteq touched' /\ file' = [file EXCEPT ![t] = new]
    BY <2>1 DEF UserChanges
  <2>3. ASSUME NEW i \in Items, NEW p \in Paths, Untouched(i, p)', NEW s \in Types
        PROVE  Untouched(i, p) /\ file'[s].text[i][p] = file[s].text[i][p]
    <3>1. Untouched(i, p) /\ new.text[i][p] = file[t].text[i][p]
      BY <2>1, <2>3 DEF UserChanges, Untouched
    <3>. QED
      BY <2>2, <3>1 DEF TypeOK, OutputTypeOK
  <2>4. FileInv'
    <3>1. at \in Opened => target \in Types
      BY DEF PlaceInv
    <3>. QED
      BY <2>2, <2>3, <3>1 DEF LedgerInv, FileInv, InLibrary, Opened
  <2>5. DocumentInv' /\ EntryInv'
    BY <2>2 DEF LedgerInv, DocumentInv, EntryInv, Told, Untouched, InLibrary
  <2>6. RecordInv'
    BY <2>2, <2>3, TypeOf_ DEF LedgerInv, RecordInv, Told
  <2>. QED
    BY <2>4, <2>5, <2>6 DEF LedgerInv
<1>7. CASE OutputStep
  BY <1>7, OutputStepLedger
<1>8. CASE OthersStep
  BY <1>1, <1>4, <1>6, <1>8 DEF OthersStep, PlexChanges, TMDbChanges, PolicyChanges
<1>9. CASE IdentityChanges \/ UNCHANGED vars
  BY <1>1, <1>9 DEF IdentityChanges, vars
<1>. QED
  BY <1>2, <1>3, <1>5, <1>7, <1>8, <1>9 DEF Next, JobStep

(* What is saved of an item is what its file has.                          *)
LEMMA LedgerSafe ==
  ASSUME TypeOK, PlaceInv, RecordInv, Next, NEW i \in Items, NEW p \in Paths,
         ledger'[i] # ledger[i], ledger'[i][p] # None, Untouched(i, p)
  PROVE  ledger'[i][p] = file[FileOf(i)].text[i][p]
<1>. USE DEF disk, world, open, job, bounds, history
<1>1. CASE Flush
  <2>1. PICK saved \in BOOLEAN : Saved(saved)
    BY <1>1 DEF Flush
  <2>2. records[i] # <<>> /\ ledger'[i] = records[i] /\ at = "flush"
    BY <1>1, <2>1 DEF Saved, Flush
  <2>. QED
    BY <2>2 DEF RecordInv, Told
<1>2. CASE ~Flush
  <2>1. OutputStep => UNCHANGED ledger
    BY DEF OutputStep, SkipLibrary, Snapshot, ReadOutput, NothingToWrite, BeginWrite, Check,
           Backup, Replace, ReplaceFails, Reread, RereadFails, Restore, Restored, Prune,
           OperatorFingerprints
  <2>2. ASSUME NEW j \in Items, ItemStep(j) PROVE UNCHANGED ledger
    BY <2>2 DEF ItemStep, ReadItem, Identify, BuildMovie, BuildShow, RejectMovie, RejectShow, Rejected, Collect
  <2>3. OthersStep => UNCHANGED ledger
    <3>1. \A t, new : UserChanges(t, new) => UNCHANGED ledger
      BY DEF UserChanges
    <3>2. (\E t \in Types : UserEdits(t)) => UNCHANGED ledger
      BY <3>1 DEF UserEdits
    <3>. QED
      BY <3>2 DEF OthersStep, PlexChanges, TMDbChanges, PolicyChanges, OperatorReads
  <2>. QED
    BY <1>2, <2>1, <2>2, <2>3 DEF Next, JobStep, StartJob, Kill, IdentityChanges
<1>. QED
  BY <1>1, <1>2

(* The ledger is true of the files whatever fails, is killed or is edited  *)
(* in the meantime, as long as a backup is taken: a file that cannot be    *)
(* read back after it was replaced is deleted when there is no copy of it, *)
(* with what an earlier library of the job had recorded of it              *)
(* (write_kometa_metadata, save_metadata_provenance).                      *)
THEOREM LedgerIsTrue ==
  ASSUME BackupCount > 0
  PROVE  Spec => LedgerTrue
<1>. DEFINE LInv == TypeOK /\ PlaceInv /\ CopyInv /\ PlainInv /\ LedgerInv
<1>1. Init => LInv
  <2>1. Init => LedgerInv
    BY DEF Init, LedgerInv, FileInv, DocumentInv, RecordInv, EntryInv, Told, Nothing, InLibrary
  <2>. QED
    BY <2>1, StateStep
<1>2. LInv /\ [Next]_vars => LInv'
  BY StateStep, LedgerStep
<1>3. LInv /\ [Next]_vars
      => [\A i \in Items, p \in Paths :
            /\ ledger'[i] # ledger[i] /\ ledger'[i][p] # None /\ <<i, p>> \notin touched
            => ledger'[i][p] = file[FileOf(i)].text[i][p]]_vars
  BY LedgerSafe DEF LedgerInv, Untouched
<1>. QED
  BY <1>1, <1>2, <1>3, PTL DEF Spec, LedgerTrue
-----------------------------------------------------------------------------
(* FieldsKept                                                              *)

(* Why a document may lack a field.                                        *)
Excused(i, p) ==
  \/ <<i, p>> \in dropped \/ Key(p) = Deprecated
  \/ Alternate(p) # p /\ Alternate(p) \in Paths /\ doc[i][Alternate(p)] # None

MergeInv ==
  at \in {"fingerprint", "items", "check", "backup", "replace"} =>
    \A i \in Items, p \in Paths : base[i][p] # None /\ doc[i][p] = None => Excused(i, p)

(* What is replaced is what was fingerprinted, and the copy taken of it is *)
(* among the backups, unless there was no file.                            *)
ReplacedInv ==
  ~raced =>
    /\ at \in {"backup", "replace"} => file[target] = snap
    /\ at \in {"replace", "reread", "restore"} =>
         \/ copy = NoFile /\ snap.text = Empty
         \/ copy = snap /\ \E n \in DOMAIN backups[target] : backups[target][n] = copy
    /\ at = "restoring" => file[target].text = Empty

KeepInv == MergeInv /\ ReplacedInv

(* The other form of a field is of the same entry, season or episode, and  *)
(* its other form is the field again.                                      *)
LEMMA AlternateFacts ==
  ASSUME NEW p \in Paths
  PROVE  /\ Place(Alternate(p)) = Place(p)
         /\ Alternate(p) # p => /\ Key(p) # Deprecated /\ Key(Alternate(p)) # Deprecated
                                /\ Alternate(Alternate(p)) = p
<1>1. p \in [place : Seq(Nat), key : STRING]
  BY KometaAssumption
<1>2. CASE p.key = "genre"
  BY <1>1, <1>2 DEF Alternate, Place, Key, Deprecated
<1>3. CASE p.key = "genre.sync"
  <2>1. p = [place |-> p.place, key |-> "genre.sync"]
    BY <1>1, <1>3
  <2>2. Alternate(p) = [place |-> p.place, key |-> "genre"]
    BY <2>1 DEF Alternate
  <2>. DEFINE q == [place |-> p.place, key |-> "genre"]
  <2>3. Alternate(q) = [place |-> p.place, key |-> "genre.sync"]
    BY DEF Alternate
  <2>. QED
    BY <2>1, <2>2, <2>3 DEF Place, Key, Deprecated
<1>4. CASE p.key \notin {"genre", "genre.sync"}
  BY <1>1, <1>4 DEF Alternate, Place, Key
<1>. QED
  BY <1>2, <1>3, <1>4

(* A merge gives up a field that is Gone, Deprecated, or that has a value  *)
(* in its other form.                                                      *)
LEMMA MergeKeeps ==
  ASSUME NEW existing, NEW generated, NEW inventory, NEW p \in Paths,
         Merge(existing, generated, inventory)[p] = None,
         ~Gone(p, inventory), Key(p) # Deprecated,
         \/ existing[p] # None
         \/ Alternate(p) # p /\ Alternate(p) \in Paths /\ existing[Alternate(p)] # None
  PROVE  /\ Alternate(p) # p /\ Alternate(p) \in Paths
         /\ Merge(existing, generated, inventory)[Alternate(p)] # None
<1>1. generated[p] = None
  BY DEF Merge
<1>2. /\ Alternate(p) # p /\ Alternate(p) \in Paths
      /\ generated[Alternate(p)] # None \/ existing[Alternate(p)] # None
  BY <1>1 DEF Merge
<1>3. ~Gone(Alternate(p), inventory) /\ Key(Alternate(p)) # Deprecated /\ Alternate(Alternate(p)) = p
  BY <1>2, AlternateFacts DEF Gone
<1>. QED
  BY <1>1, <1>2, <1>3 DEF Merge

LEMMA CollectKeeps ==
  ASSUME TypeOK, MergeInv, NEW i \in Items, at = "items",
         NEW generated, NEW authoritative, NEW missing,
         Collect(i, missing, Merge(doc[i], generated, authoritative)),
         dropped \subseteq dropped',
         \A p \in Paths : Gone(p, authoritative) => <<i, p>> \in dropped'
  PROVE  MergeInv'
<1>1. /\ at' = "items" /\ base' = base
      /\ doc'[i] = Merge(doc[i], generated, authoritative)
      /\ \A j \in Items \ {i} : doc'[j] = doc[j]
  BY DEF Collect, TypeOK, OutputTypeOK, Documents
<1>. SUFFICES ASSUME NEW j \in Items, NEW p \in Paths, base[j][p] # None, doc'[j][p] = None
              PROVE  Excused(j, p)'
  BY <1>1 DEF MergeInv
<1>2. CASE j # i
  BY <1>1, <1>2 DEF MergeInv, Excused
<1>3. CASE j = i
  <2>1. CASE Gone(p, authoritative) \/ Key(p) = Deprecated
    BY <1>3, <2>1 DEF Excused
  <2>2. CASE <<i, p>> \in dropped
    BY <1>3, <2>2 DEF Excused
  <2>3. CASE ~Gone(p, authoritative) /\ Key(p) # Deprecated /\ <<i, p>> \notin dropped
    <3>1. \/ doc[i][p] # None
          \/ Alternate(p) # p /\ Alternate(p) \in Paths /\ doc[i][Alternate(p)] # None
      BY <1>3, <2>3 DEF MergeInv, Excused
    <3>2. /\ Alternate(p) # p /\ Alternate(p) \in Paths
          /\ Merge(doc[i], generated, authoritative)[Alternate(p)] # None
      BY <1>1, <1>3, <2>3, <3>1, MergeKeeps
    <3>. QED
      BY <1>1, <1>3, <3>2 DEF Excused
  <2>. QED
    BY <2>1, <2>2, <2>3
<1>. QED
  BY <1>2, <1>3

LEMMA OutputStepKeeps ==
  ASSUME TypeOK, PlaceInv, CopyInv, PlainInv, KeepInv, BackupCount > 0, OutputStep
  PROVE  KeepInv'
<1>. USE DEF disk, world, open, job, bounds, history
<1>0. OutputTypeOK
  BY DEF TypeOK
<1>1. ASSUME at' \in {"idle", "snapshot", "flush", "read", "prune"}
      PROVE  KeepInv'
  BY <1>1 DEF KeepInv, MergeInv, ReplacedInv
<1>2. CASE SkipLibrary \/ NothingToWrite \/ Snapshot
  BY <1>1, <1>2 DEF SkipLibrary, NothingToWrite, Snapshot, Leave
<1>3. CASE ReadOutput
  <2>1. CASE Leave(Nothing)
    BY <1>1, <2>1 DEF Leave
  <2>2. CASE ~Leave(Nothing)
    <3>1. at' = "items" /\ doc' = WithoutDeprecated(base')
      BY <1>3, <2>2 DEF ReadOutput
    <3>2. \A i \in Items, p \in Paths : Key(p) # Deprecated => doc'[i][p] = base'[i][p]
      BY <3>1 DEF WithoutDeprecated
    <3>. QED
      BY <3>1, <3>2 DEF KeepInv, MergeInv, ReplacedInv, Excused
  <2>. QED
    BY <2>1, <2>2
<1>4. CASE BeginWrite
  <2>1. at = "items" /\ at' = "check" /\ UNCHANGED <<base, doc, dropped>>
    BY <1>4 DEF BeginWrite
  <2>. QED
    BY <2>1 DEF KeepInv, MergeInv, ReplacedInv, Excused
<1>5. \A succeeded : Return(succeeded) => at' \in {"idle", "snapshot", "flush"}
  BY DEF Return, Idle, Leave
<1>6. CASE Check
  <2>1. CASE Return(FALSE)
    BY <1>1, <1>5, <2>1
  <2>2. CASE ~Return(FALSE)
    <3>1. at = "check" /\ at' = "backup" /\ UNCHANGED <<file, target, snap, base, doc, dropped, raced>>
          /\ file[target] = snap
      BY <1>6, <2>2 DEF Check, Unchanged
    <3>. QED
      BY <3>1 DEF KeepInv, MergeInv, ReplacedInv, Excused
  <2>. QED
    BY <2>1, <2>2
<1>7. CASE Backup
  <2>1. /\ at = "backup" /\ at' = "replace" /\ target \in Types
        /\ UNCHANGED <<file, target, snap, base, doc, dropped, raced>>
    BY <1>7 DEF Backup, PlaceInv, Opened
  <2>2. MergeInv'
    BY <2>1 DEF KeepInv, MergeInv, Excused
  <2>3. ASSUME ~raced
        PROVE  \/ copy' = NoFile /\ snap.text = Empty
               \/ copy' = snap /\ \E n \in DOMAIN backups'[target] : backups'[target][n] = copy'
    <3>1. file[target] = snap
      BY <2>1, <2>3 DEF KeepInv, ReplacedInv
    <3>2. CASE snap.state = "none"
      BY <1>7, <2>1, <3>1, <3>2 DEF Backup, CopyInv, PlainInv, Plain
    <3>3. CASE snap.state # "none"
      <4>1. copy' = snap /\ backups'[target] = Append(backups[target], copy')
        BY <1>0, <1>7, <2>1, <3>1, <3>3, KometaAssumption DEF Backup, OutputTypeOK
      <4>2. backups[target] \in Seq(Files) /\ copy' \in Files
        BY <1>0, <2>1, <4>1 DEF OutputTypeOK
      <4>3. /\ Len(backups[target]) + 1 \in DOMAIN backups'[target]
            /\ backups'[target][Len(backups[target]) + 1] = copy'
        BY <4>1, <4>2
      <4>. QED
        BY <4>1, <4>3
    <3>. QED
      BY <3>2, <3>3
  <2>4. ReplacedInv'
    BY <2>1, <2>3 DEF KeepInv, ReplacedInv
  <2>. QED
    BY <2>2, <2>4 DEF KeepInv
<1>8. CASE Replace
  <2>1. at = "replace" /\ at' = "reread" /\ UNCHANGED <<backups, target, snap, copy, raced>>
    BY <1>8 DEF Replace
  <2>. QED
    BY <2>1 DEF KeepInv, MergeInv, ReplacedInv
<1>9. CASE RereadFails
  <2>1. at = "reread" /\ at' = "restore" /\ UNCHANGED <<backups, target, snap, copy, raced>>
    BY <1>9 DEF RereadFails
  <2>. QED
    BY <2>1 DEF KeepInv, MergeInv, ReplacedInv
<1>10. CASE Restore
  <2>1. CASE at' = "prune"
    BY <1>1, <2>1
  <2>2. CASE at' # "prune"
    <3>1. at' = "restoring" /\ file'[target] = Broken /\ UNCHANGED target
      BY <1>0, <1>10, <2>2 DEF Restore, OutputTypeOK, PlaceInv, Opened
    <3>. QED
      BY <3>1 DEF KeepInv, MergeInv, ReplacedInv, Broken
  <2>. QED
    BY <2>1, <2>2
<1>11. CASE ReplaceFails \/ Reread \/ Restored
  BY <1>1, <1>11 DEF ReplaceFails, Reread, Restored
<1>12. CASE Prune
  BY <1>1, <1>5, <1>12 DEF Prune
<1>13. CASE OperatorFingerprints
  <2>1. CASE at' = "idle"
    BY <1>1, <2>1
  <2>2. CASE at' # "idle"
    <3>1. at = "fingerprint" /\ at' = "check" /\ UNCHANGED <<base, doc, dropped>>
      BY <1>13, <2>2 DEF OperatorFingerprints, Idle
    <3>. QED
      BY <3>1 DEF KeepInv, MergeInv, ReplacedInv, Excused
  <2>. QED
    BY <2>1, <2>2
<1>. QED
  BY <1>2, <1>3, <1>4, <1>6, <1>7, <1>8, <1>9, <1>10, <1>11, <1>12, <1>13 DEF OutputStep

LEMMA KeepStep ==
  ASSUME TypeOK, PlaceInv, CopyInv, PlainInv, KeepInv, BackupCount > 0, [Next]_vars
  PROVE  KeepInv'
<1>. USE DEF disk, world, open, job, bounds, history
<1>1. ASSUME UNCHANGED <<at, target, snap, base, doc, copy, file, backups, dropped, raced>>
      PROVE  KeepInv'
  BY <1>1 DEF KeepInv, MergeInv, ReplacedInv, Excused
<1>2. ASSUME NEW i \in Items, ItemStep(i)
      PROVE  KeepInv'
  <2>1. ASSUME at' = "items" PROVE ReplacedInv'
    BY <2>1 DEF ReplacedInv
  <2>2. CASE BuildMovie(i)
    <3>1. PICK missing \in SUBSET MovieFields :
             Collect(i, missing, Merge(doc[i], Generated(i, {}, missing), Everything))
      BY <2>2 DEF BuildMovie
    <3>2. \A p \in Paths : ~Gone(p, Everything)
      BY DEF Gone, Everything
    <3>3. at = "items" /\ at' = "items" /\ dropped' = dropped
      BY <2>2, <3>1 DEF BuildMovie, Ready, Collect
    <3>4. MergeInv'
      BY <3>1, <3>2, <3>3, CollectKeeps DEF KeepInv
    <3>. QED
      BY <2>1, <3>3, <3>4 DEF KeepInv
  <2>3. CASE BuildShow(i)
    <3>1. PICK missing \in SUBSET Fields(i, read[i]) :
             Collect(i, missing, Merge(doc[i], Generated(i, read[i], missing), read[i]))
      BY <2>3 DEF BuildShow
    <3>2. /\ at = "items" /\ at' = "items" /\ dropped \subseteq dropped'
          /\ \A p \in Paths : Gone(p, read[i]) => <<i, p>> \in dropped'
      BY <2>3, <3>1 DEF BuildShow, Ready, Collect
    <3>3. MergeInv'
      BY <3>1, <3>2, CollectKeeps DEF KeepInv
    <3>. QED
      BY <2>1, <3>2, <3>3 DEF KeepInv
  <2>. QED
    BY <1>1, <1>2, <2>2, <2>3 DEF ItemStep, ReadItem, Identify, RejectMovie, RejectShow, Rejected
<1>3. CASE Flush \/ Kill \/ \E selected \in SUBSET Items : StartJob(selected)
  <2>1. at' \in {"idle", "snapshot"}
    BY <1>3 DEF Flush, Kill, Idle, StartJob
  <2>. QED
    BY <2>1 DEF KeepInv, MergeInv, ReplacedInv
<1>4. ASSUME NEW i \in Items, OperatorReads(i)
      PROVE  KeepInv'
  <2>1. /\ at' = "fingerprint" /\ doc' = [base' EXCEPT ![i] = Blank]
        /\ dropped' = {i} \X Paths /\ base' = file[FileOf(i)].text
    BY <1>4 DEF OperatorReads
  <2>2. ASSUME NEW j \in Items, NEW p \in Paths, base'[j][p] # None, doc'[j][p] = None
        PROVE  Excused(j, p)'
    <3>1. j = i
      BY <2>1, <2>2, TypeOf_ DEF TypeOK, OutputTypeOK, Files, Documents
    <3>. QED
      BY <2>1, <3>1 DEF Excused
  <2>. QED
    BY <2>1, <2>2 DEF KeepInv, MergeInv, ReplacedInv
<1>5. ASSUME NEW t \in Types, UserEdits(t)
      PROVE  KeepInv'
  <2>1. PICK new : UserChanges(t, new)
    BY <1>5 DEF UserEdits
  <2>2. /\ UNCHANGED <<at, target, snap, base, doc, copy, backups, dropped>>
        /\ raced' = (raced \/ Committed)
    BY <2>1 DEF UserChanges
  <2>. QED
    BY <2>2 DEF KeepInv, MergeInv, ReplacedInv, Excused, Committed
<1>6. CASE OutputStep
  BY <1>6, OutputStepKeeps
<1>7. CASE OthersStep
  BY <1>1, <1>4, <1>5, <1>7 DEF OthersStep, PlexChanges, TMDbChanges, PolicyChanges
<1>8. CASE IdentityChanges \/ UNCHANGED vars
  BY <1>1, <1>8 DEF IdentityChanges, vars
<1>. QED
  BY <1>2, <1>3, <1>6, <1>7, <1>8 DEF Next, JobStep

(* A field leaves a file for one of the reasons given.                     *)
Reasons(i, p) ==
  \/ changes' # changes \/ raced \/ base # snap.text
  \/ <<i, p>> \in dropped \/ Key(p) = Deprecated
  \/ \E q \in Paths : q = Alternate(p) /\ q # p /\ file'[FileOf(i)].text[i][q] # None
  \/ Undone(i, p)

LEMMA FieldsSafe ==
  ASSUME TypeOK, PlaceInv, CopyInv, KeepInv, Next, NEW i \in Items, NEW p \in Paths, Lost(i, p)
  PROVE  Reasons(i, p)
<1>. USE DEF disk, world, open, job, bounds, history
<1>0. OutputTypeOK /\ FileOf(i) \in Types
  BY TypeOf_ DEF TypeOK
<1>. SUFFICES ASSUME ~raced, base = snap.text PROVE Reasons(i, p)
  BY DEF Reasons
<1>1. CASE UNCHANGED file
  BY <1>1 DEF Lost
<1>2. CASE Replace
  <2>1. /\ at = "replace" /\ target \in Types /\ file' = [file EXCEPT ![target] = Whole(doc)]
    BY <1>2 DEF Replace, PlaceInv, Opened
  <2>2. FileOf(i) = target /\ file'[target].text = doc
    BY <1>0, <2>1 DEF Lost, OutputTypeOK, Whole
  <2>3. base[i][p] # None /\ doc[i][p] = None
    BY <2>1, <2>2 DEF Lost, KeepInv, ReplacedInv
  <2>4. Excused(i, p)
    BY <2>1, <2>3 DEF KeepInv, MergeInv
  <2>. QED
    BY <2>2, <2>4 DEF Excused, Reasons
<1>3. CASE Restore
  <2>1. /\ at = "restore" /\ target \in Types /\ ~good
        /\ file' \in {[file EXCEPT ![target] = Broken], [file EXCEPT ![target] = NoFile]}
    BY <1>3 DEF Restore, PlaceInv, CopyInv, Opened
  <2>2. FileOf(i) = target
    BY <1>0, <2>1 DEF Lost, OutputTypeOK
  <2>3. \/ snap.text = Empty
        \/ \E n \in DOMAIN backups[target] : backups[target][n] = snap
    BY <2>1 DEF KeepInv, ReplacedInv
  <2>4. Undone(i, p)
    BY <2>1, <2>2, <2>3 DEF Undone, Empty, Blank
  <2>. QED
    BY <2>4 DEF Reasons
<1>4. CASE Restored
  <2>1. /\ at = "restoring" /\ target \in Types /\ file' = [file EXCEPT ![target] = copy]
        /\ file[target].text = Empty
    BY <1>4 DEF Restored, PlaceInv, Opened, KeepInv, ReplacedInv
  <2>2. file[target].text[i][p] = None
    BY <2>1 DEF Empty, Blank
  <2>. QED
    BY <1>0, <2>1, <2>2 DEF Lost, OutputTypeOK
<1>5. CASE OutputStep
  BY <1>1, <1>2, <1>3, <1>4, <1>5
     DEF OutputStep, SkipLibrary, Snapshot, ReadOutput, NothingToWrite, BeginWrite, Check,
         Backup, ReplaceFails, Reread, RereadFails, Prune, OperatorFingerprints
<1>6. ASSUME NEW j \in Items, ItemStep(j) PROVE Reasons(i, p)
  BY <1>1, <1>6 DEF ItemStep, ReadItem, Identify, BuildMovie, BuildShow, RejectMovie, RejectShow, Rejected, Collect
<1>7. ASSUME NEW t \in Types, UserEdits(t) PROVE Reasons(i, p)
  <2>1. PICK new : UserChanges(t, new)
    BY <1>7 DEF UserEdits
  <2>2. changes' # changes
    BY <1>0, <2>1, KometaAssumption DEF UserChanges, OutputTypeOK
  <2>. QED
    BY <2>2 DEF Reasons
<1>8. CASE OthersStep
  BY <1>1, <1>7, <1>8 DEF OthersStep, PlexChanges, TMDbChanges, PolicyChanges, OperatorReads
<1>. QED
  BY <1>1, <1>5, <1>6, <1>8 DEF Next, JobStep, Flush, StartJob, Kill, IdentityChanges

(* No field of the user's or of an earlier run is lost but for the reasons *)
(* FieldsKept gives, as long as backups are kept (merge_generated_metadata,*)
(* write_kometa_metadata).                                                 *)
THEOREM FieldsAreKept ==
  ASSUME BackupCount > 0
  PROVE  Spec => FieldsKept
<1>. DEFINE FInv == TypeOK /\ PlaceInv /\ CopyInv /\ PlainInv /\ KeepInv
<1>1. Init => FInv
  <2>1. Init => KeepInv
    BY DEF Init, KeepInv, MergeInv, ReplacedInv
  <2>. QED
    BY <2>1, StateStep
<1>2. FInv /\ [Next]_vars => FInv'
  BY StateStep, KeepStep
<1>3. FInv /\ [Next]_vars
      => [\A i \in Items, p \in Paths : Lost(i, p) =>
            \/ changes' # changes \/ raced \/ base # snap.text
            \/ <<i, p>> \in dropped \/ Key(p) = Deprecated
            \/ \E q \in Paths : q = Alternate(p) /\ q # p /\ file'[FileOf(i)].text[i][q] # None
            \/ Undone(i, p)]_vars
  BY FieldsSafe DEF Reasons
<1>. QED
  BY <1>1, <1>2, <1>3, PTL DEF Spec, FieldsKept
=============================================================================
