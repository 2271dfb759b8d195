--------------------------- MODULE Cleanup_proofs ---------------------------
(***************************************************************************)
(* Proofs about Cleanup for any items, thresholds and failures: nothing of *)
(* the state goes, and no artwork moves, before its absence is confirmed.  *)
(***************************************************************************)
EXTENDS Cleanup, TLAPS

StateSlots == {"state"} \X Items

(* A candidate of a row has its key, and has not seen more, or waited      *)
(* longer, than the absence it stands for.                                 *)
CandidateInv ==
  \A s \in Slots :
    /\ cand[s].n = 0 => cand[s].age = 0
    /\ s \in StateSlots =>
         /\ cand[s].n > 0 => cand[s].known
         /\ cand[s].n <= absent[s].n /\ cand[s].age <= absent[s].age

Early == {"idle", "work", "cancel"}

(* Before it observes anything a job finds nothing eligible and has lost   *)
(* no row; afterwards only confirmed ones.                                 *)
EligibleInv ==
  /\ phase \in Early => elig = {}
  /\ \A s \in elig \intersect StateSlots : Confirmed(s)

Gone(i) == Confirmed(<<"state", i>>) \/ Confirmed(<<"state", Parent[i]>>)

RowInv ==
  /\ phase \in Early => \A i \in Items : rows[i] # "none" => mem[i] # "none"
  /\ \A i \in Items : rows[i] # "none" /\ mem[i] = "none" => Gone(i)

Inv == TypeOK /\ CandidateInv /\ EligibleInv /\ RowInv

-----------------------------------------------------------------------------
LEMMA Shapes ==
  /\ NoCandidate \in Candidate
  /\ \A i \in Items : Parent[i] \in Items /\ <<"state", i>> \in StateSlots
                      /\ <<"state", Parent[i]>> \in StateSlots
  /\ StateSlots \subseteq Slots
  /\ \A s \in Slots : s[2] \in Items /\ s[1] \in {"state", "yaml"}
  /\ \A s \in Slots : s[1] = "state" => s \in StateSlots
BY CleanupAssumption DEF NoCandidate, Candidate, StateSlots, Slots, Titles

LEMMA Counting ==
  /\ \A n \in 0 .. Required : More(n) \in 0 .. Required /\ More(n) >= n /\ More(n) > 0
  /\ \A m, n \in 0 .. Required : m <= n => More(m) <= More(n)
  /\ \A a \in 0 .. Grace : Later(a) \in 0 .. Grace /\ Later(a) >= a
  /\ \A a, b \in 0 .. Grace : a <= b => Later(a) <= Later(b)
BY CleanupAssumption DEF More, Later

LEMMA InitInv == Init => Inv
<1>. SUFFICES ASSUME Init PROVE Inv
  OBVIOUS
<1>1. /\ NoCandidate \in Candidate /\ Closed(Items) /\ Closed({})
      /\ [n |-> 0, age |-> 0] \in [n : 0 .. Required, age : 0 .. Grace]
      /\ 0 \in 0 .. MaxMoves /\ 0 \in 0 .. MaxFaults
  BY CleanupAssumption, Shapes DEF Closed
<1>2. TypeOK
  BY <1>1 DEF Init, TypeOK, Rows
<1>3. CandidateInv /\ EligibleInv /\ RowInv
  BY Shapes DEF Init, CandidateInv, EligibleInv, RowInv, NoCandidate, Early
<1>. QED
  BY <1>2, <1>3 DEF Inv

-----------------------------------------------------------------------------
(* Types, action by action *)

LEMMA MoveTypes ==
  ASSUME TypeOK, \/ \E i \in Items : Leaves(i) \/ Returns(i)
                 \/ \E f \in Files : UserArtwork(f) \/ Restore(f)
                 \/ Tick
  PROVE  TypeOK'
<1>. USE CleanupAssumption, Shapes DEF TypeOK, Closed, output, outside, job, Titles
<1>1. CASE \E i \in Items : Leaves(i)
  BY <1>1 DEF Leaves
<1>2. CASE \E i \in Items : Returns(i)
  BY <1>2 DEF Returns
<1>3. CASE \E f \in Files : UserArtwork(f) \/ Restore(f)
  BY <1>3 DEF UserArtwork, Restore
<1>4. CASE Tick
  <2>1. \A s \in Slots : Age(cand[s]) \in 0 .. Grace /\ Age(absent[s]) \in 0 .. Grace
    BY Counting DEF Age, Candidate
  <2>2. cand' \in [Slots -> Candidate]
    BY <1>4, <2>1 DEF Tick, Candidate
  <2>3. absent' \in [Slots -> [n : 0 .. Required, age : 0 .. Grace]]
    BY <1>4, <2>1 DEF Tick
  <2>. QED
    BY <1>4, <2>2, <2>3 DEF Tick
<1>. QED
  BY <1>1, <1>2, <1>3, <1>4

LEMMA JobTypes ==
  ASSUME TypeOK, \/ BeginFull \/ BeginIncremental \/ WorkAll
                 \/ \E S \in SUBSET Items : WorkSome(S)
                 \/ Flush \/ Kill \/ UNCHANGED vars
  PROVE  TypeOK'
<1>. USE CleanupAssumption, Shapes DEF TypeOK, output, outside, job, Fault
<1>1. CASE BeginFull \/ BeginIncremental
  BY <1>1 DEF BeginFull, BeginIncremental, Begin
<1>2. ASSUME NEW S \in SUBSET Items, Closed(S), Build(S)
      PROVE  /\ file' \in [Files -> {"none", "art", "user"}]
             /\ mem' \in [Items -> Rows]
             /\ yaml' \in SUBSET Items /\ Closed(yaml)'
  BY <1>2 DEF Build, Rows, Closed
<1>3. CASE WorkAll
  BY <1>2, <1>3 DEF WorkAll
<1>4. CASE \E S \in SUBSET Items : WorkSome(S)
  BY <1>2, <1>4 DEF WorkSome
<1>5. CASE Flush \/ Kill \/ UNCHANGED vars
  <2>. USE DEF Closed
  <2>1. CASE Flush
    BY <2>1 DEF Flush
  <2>2. CASE Kill
    <3>1. faults' \in 0 .. MaxFaults
      BY <2>2 DEF Kill
    <3>2. mem' \in [Items -> Rows] /\ Closed(inv)' /\ inv' \subseteq Items /\ elig' \subseteq Slots
      BY <2>2 DEF Kill
    <3>. HIDE DEF Fault, Closed
    <3>. QED
      BY <2>2, <3>1, <3>2 DEF Kill, Closed
  <2>3. CASE UNCHANGED vars
    BY <2>3 DEF vars
  <2>. QED
    BY <1>5, <2>1, <2>2, <2>3
<1>. QED
  BY <1>1, <1>3, <1>4, <1>5
LEMMA CleanupTypes ==
  ASSUME TypeOK, CleanupStep
  PROVE  TypeOK'
<1>. USE CleanupAssumption, Shapes DEF TypeOK, output, outside, job, Fault, Through
<1>1. /\ \A T : Forgotten(T) \in [Slots -> Candidate]
      /\ MissedRows \subseteq Slots /\ MissedEntries \subseteq Slots
      /\ StaleFiles \subseteq Files
  BY DEF Forgotten, MissedRows, MissedEntries, Missed, StaleFiles, Slots
<1>2. ASSUME NEW T \in SUBSET Slots, NEW keyed, ObserveSlots(T, keyed)
      PROVE  /\ cand' \in [Slots -> Candidate] /\ elig' \in SUBSET Slots
             /\ absent' \in [Slots -> [n : 0 .. Required, age : 0 .. Grace]]
  <2>1. \A s \in Slots : More(cand[s].n) \in 0 .. Required /\ More(absent[s].n) \in 0 .. Required
    BY Counting DEF Candidate
  <2>2. ASSUME NEW s \in Slots
        PROVE  (IF cand[s].n = 0 THEN s[2] \in keyed ELSE cand[s].known) \in BOOLEAN
    <3>1. cand[s].known \in BOOLEAN
      BY DEF Candidate
    <3>2. (s[2] \in keyed) \in BOOLEAN
      OBVIOUS
    <3>. QED
      BY <3>1, <3>2, Zenon
  <2>3. cand' \in [Slots -> Candidate]
    BY <1>2, <2>1, <2>2 DEF ObserveSlots, Candidate
  <2>. QED
    BY <1>2, <2>1, <2>3 DEF ObserveSlots
<1>3. CASE \E T \in SUBSET Back : CancelReturned(T)
  BY <1>3 DEF CancelReturned
<1>4. CASE \E T \in SUBSET MissedRows : Observe(T)
  <2>. PICK T \in SUBSET MissedRows : Observe(T)
    BY <1>4
  <2>1. ObserveSlots(T, Items) /\ T \in SUBSET Slots
    BY <1>1 DEF Observe
  <2>2. /\ cand' \in [Slots -> Candidate] /\ elig' \in SUBSET Slots
        /\ absent' \in [Slots -> [n : 0 .. Required, age : 0 .. Grace]]
    BY <1>2, <2>1
  <2>. QED
    BY <2>2 DEF Observe
<1>5. CASE \E T \in SUBSET MissedEntries : ObserveYaml(T)
  <2>. PICK T \in SUBSET MissedEntries : ObserveYaml(T)
    BY <1>5
  <2>1. ObserveSlots(T, KeyOfRow) /\ T \in SUBSET Slots
    BY <1>1 DEF ObserveYaml
  <2>2. /\ cand' \in [Slots -> Candidate] /\ elig' \in SUBSET Slots
        /\ absent' \in [Slots -> [n : 0 .. Required, age : 0 .. Grace]]
    BY <1>2, <2>1
  <2>. QED
    BY <2>2 DEF ObserveYaml
<1>6. CASE WriteYaml
  <2>1. Remaining \subseteq Items /\ Closed(Remaining)
    BY DEF Remaining, Closed, Titles
  <2>. QED
    BY <1>6, <2>1 DEF WriteYaml, Closed
<1>7. CASE WriteYamlFails
  BY <1>7 DEF WriteYamlFails
<1>8. CASE \E T \in SUBSET Completable : CompleteYaml(T)
  BY <1>1, <1>8 DEF CompleteYaml
<1>9. CASE \E F \in SUBSET StaleFiles : QuarantineAssets(F)
  BY <1>1, <1>9 DEF QuarantineAssets
<1>10. CASE \E D \in SUBSET StaleRows : \E T \in SUBSET D : RemoveRows(D, T)
  BY <1>1, <1>10 DEF RemoveRows, Rows
<1>. QED
  BY <1>3, <1>4, <1>5, <1>6, <1>7, <1>8, <1>9, <1>10 DEF CleanupStep

-----------------------------------------------------------------------------
(* What is eligible, action by action *)

(* Steps that leave the tables of candidates and rows alone. *)
LEMMA ConfirmedKept ==
  ASSUME UNCHANGED absent
  PROVE  /\ \A s : Confirmed(s)' = Confirmed(s)
         /\ \A i : Gone(i)' = Gone(i)
BY DEF Confirmed, Gone

LEMMA QuietSteps ==
  ASSUME Inv, UNCHANGED <<cand, absent, rows, mem, elig>>,
         phase' \in Early => phase \in Early
  PROVE  CandidateInv' /\ EligibleInv' /\ RowInv'
BY DEF Inv, CandidateInv, EligibleInv, RowInv, Confirmed, Gone

(* Observing keeps a candidate within the absence it stands for, and what  *)
(* it finds eligible is confirmed.                                         *)
LEMMA Observing ==
  ASSUME Inv, NEW T \in SUBSET Slots, NEW keyed, ObserveSlots(T, keyed),
         T \subseteq StateSlots => keyed = Items,
         T \cap StateSlots = {} \/ T \subseteq StateSlots
  PROVE  /\ CandidateInv'
         /\ \A s \in Slots : Confirmed(s) => Confirmed(s)'
         /\ \A s \in elig' \intersect StateSlots : Confirmed(s)'
<1>. USE Shapes, Counting, CleanupAssumption DEF Inv, TypeOK, ObserveSlots
<1>1. CandidateInv'
  <2>. SUFFICES ASSUME NEW s \in Slots
                PROVE  /\ cand'[s].n = 0 => cand'[s].age = 0
                       /\ s \in StateSlots =>
                            /\ cand'[s].n > 0 => cand'[s].known
                            /\ cand'[s].n <= absent'[s].n /\ cand'[s].age <= absent'[s].age
    BY DEF CandidateInv
  <2>1. cand[s] \in Candidate /\ absent[s] \in [n : 0 .. Required, age : 0 .. Grace]
    OBVIOUS
  <2>2. CASE s \notin T
    BY <2>1, <2>2 DEF CandidateInv, Candidate
  <2>3. CASE s \in T
    <3>1. /\ cand'[s].n = More(cand[s].n) /\ cand'[s].age = cand[s].age
          /\ cand'[s].known = IF cand[s].n = 0 THEN s[2] \in keyed ELSE cand[s].known
          /\ absent'[s].n = More(absent[s].n) /\ absent'[s].age = absent[s].age
      BY <2>3
    <3>2. s \in StateSlots => keyed = Items /\ s[2] \in Items
      BY <2>3
    <3>3. cand'[s].n > 0
      BY <2>1, <3>1 DEF Candidate
    <3>4. s \in StateSlots => cand[s].n <= absent[s].n /\ cand[s].age <= absent[s].age
      BY DEF CandidateInv
    <3>5. s \in StateSlots => cand'[s].known
      <4>. HAVE s \in StateSlots
      <4>1. CASE cand[s].n = 0
        BY <3>1, <3>2, <4>1
      <4>2. CASE cand[s].n # 0
        <5>1. cand[s].n > 0
          BY <2>1, <4>2 DEF Candidate
        <5>. QED
          BY <3>1, <4>2, <5>1 DEF CandidateInv
      <4>. QED
        BY <4>1, <4>2
    <3>. QED
      BY <2>1, <3>1, <3>3, <3>4, <3>5 DEF Candidate
  <2>. QED
    BY <2>2, <2>3
<1>2. \A s \in Slots : Confirmed(s) => Confirmed(s)'
  <2>. SUFFICES ASSUME NEW s \in Slots, Confirmed(s) PROVE Confirmed(s)'
    OBVIOUS
  <2>1. absent[s].n \in 0 .. Required /\ absent[s].age \in 0 .. Grace
    OBVIOUS
  <2>. QED
    BY <2>1 DEF Confirmed
<1>3. \A s \in elig' \intersect StateSlots : Confirmed(s)'
  <2>. SUFFICES ASSUME NEW s \in elig', s \in StateSlots PROVE Confirmed(s)'
    OBVIOUS
  <2>1. CASE s \in elig
    BY <1>2, <2>1 DEF EligibleInv
  <2>2. CASE s \in T /\ Eligible(cand'[s])
    <3>1. cand[s] \in Candidate /\ absent[s] \in [n : 0 .. Required, age : 0 .. Grace]
      BY <2>2
    <3>2. cand'[s].n <= absent'[s].n /\ cand'[s].age <= absent'[s].age
      BY <1>1, <2>2 DEF CandidateInv
    <3>. QED
      BY SMTT(30), <2>2, <3>1, <3>2 DEF Eligible, Confirmed, Candidate
  <2>. QED
    BY <2>1, <2>2
<1>. QED
  BY <1>1, <1>2, <1>3

(* The steps that reset candidates or take rows out. *)
LEMMA Resetting ==
  ASSUME Inv, NEW T \in SUBSET Slots, cand' = Forgotten(T), UNCHANGED absent
  PROVE  CandidateInv'
<1>1. NoCandidate.n = 0 /\ NoCandidate.age = 0
  BY DEF NoCandidate
<1>2. \A s \in Slots : absent[s].n \in 0 .. Required /\ absent[s].age \in 0 .. Grace
  BY DEF Inv, TypeOK
<1>. QED
  BY <1>1, <1>2 DEF Inv, CandidateInv, Forgotten

LEMMA AgeingStep == Inv /\ Tick => Inv'
<1>. SUFFICES ASSUME Inv, Tick PROVE Inv'
  OBVIOUS
<1>. USE Counting DEF Inv, TypeOK
<1>1. ASSUME NEW s \in Slots
      PROVE  /\ cand[s] \in Candidate /\ absent[s] \in [n : 0 .. Required, age : 0 .. Grace]
             /\ cand'[s].n = cand[s].n /\ cand'[s].known = cand[s].known
             /\ cand'[s].age = Age(cand[s])
             /\ absent'[s].n = absent[s].n /\ absent'[s].age = Age(absent[s])
  BY DEF Tick
<1>2. \A s \in Slots : Confirmed(s) => Confirmed(s)'
  BY <1>1, CleanupAssumption DEF Confirmed, Age
<1>3. CandidateInv'
  <2>. SUFFICES ASSUME NEW s \in Slots
                PROVE  /\ cand'[s].n = 0 => cand'[s].age = 0
                       /\ s \in StateSlots =>
                            /\ cand'[s].n > 0 => cand'[s].known
                            /\ cand'[s].n <= absent'[s].n /\ cand'[s].age <= absent'[s].age
    BY DEF CandidateInv
  <2>1. /\ cand[s].n = 0 => cand[s].age = 0
        /\ s \in StateSlots => /\ cand[s].n > 0 => cand[s].known
                               /\ cand[s].n <= absent[s].n /\ cand[s].age <= absent[s].age
    BY DEF CandidateInv
  <2>. QED
    BY <1>1, <2>1 DEF Age, Candidate
<1>4. EligibleInv'
  BY <1>2, Shapes DEF Tick, EligibleInv
<1>5. RowInv'
  BY <1>2, Shapes DEF Tick, RowInv, Gone
<1>6. TypeOK'
  BY MoveTypes
<1>. QED
  BY <1>3, <1>4, <1>5, <1>6

LEMMA OutsideSteps ==
  ASSUME Inv, \/ \E i \in Items : Leaves(i) \/ Returns(i)
              \/ \E f \in Files : UserArtwork(f) \/ Restore(f)
              \/ UNCHANGED vars
  PROVE  Inv'
<1>1. UNCHANGED <<cand, absent, rows, mem, elig, phase>>
  BY DEF Leaves, Returns, UserArtwork, Restore, vars, output, job, outside
<1>2. TypeOK'
  BY MoveTypes, JobTypes DEF Inv
<1>. QED
  BY <1>1, <1>2, QuietSteps DEF Inv

LEMMA JobSteps ==
  ASSUME Inv, \/ BeginFull \/ BeginIncremental \/ WorkAll
              \/ \E S \in SUBSET Items : WorkSome(S)
              \/ Flush \/ Kill
  PROVE  Inv'
<1>1. TypeOK'
  BY JobTypes DEF Inv
<1>2. UNCHANGED <<cand, absent>>
  BY DEF BeginFull, BeginIncremental, Begin, WorkAll, WorkSome, Flush, Kill
<1>3. CandidateInv' /\ (\A s : Confirmed(s)' = Confirmed(s)) /\ (\A i : Gone(i)' = Gone(i))
  BY <1>2, ConfirmedKept DEF Inv, CandidateInv
<1>4. CASE BeginFull \/ BeginIncremental \/ Flush \/ Kill
  <2>1. elig' = {} /\ rows' = mem'
    BY <1>4 DEF BeginFull, BeginIncremental, Begin, Flush, Kill
  <2>. QED
    BY <1>1, <1>3, <2>1 DEF Inv, EligibleInv, RowInv
<1>5. CASE WorkAll \/ \E S \in SUBSET Items : WorkSome(S)
  <2>1. /\ rows' = rows /\ elig' = elig /\ elig = {}
        /\ \A i \in Items : rows[i] # "none" => mem[i] # "none"
    BY <1>5 DEF WorkAll, WorkSome, Inv, EligibleInv, RowInv, Early
  <2>2. \A i \in Items : mem[i] # "none" => mem'[i] # "none"
    BY <1>5 DEF WorkAll, WorkSome, Build
  <2>. QED
    BY <1>1, <1>3, <2>1, <2>2 DEF Inv, EligibleInv, RowInv
<1>. QED
  BY <1>4, <1>5

LEMMA CancelStep ==
  ASSUME Inv, NEW T \in SUBSET Back, CancelReturned(T)
  PROVE  CandidateInv' /\ EligibleInv' /\ RowInv'
<1>. USE DEF CancelReturned
<1>1. /\ elig = {} /\ elig' = {} /\ rows' = rows /\ mem' = mem
      /\ \A i \in Items : rows[i] # "none" => mem[i] # "none"
  BY DEF Inv, EligibleInv, RowInv, Early
<1>2. CandidateInv'
  <2>. SUFFICES ASSUME NEW s \in Slots
                PROVE  /\ cand'[s].n = 0 => cand'[s].age = 0
                       /\ s \in StateSlots =>
                            /\ cand'[s].n > 0 => cand'[s].known
                            /\ cand'[s].n <= absent'[s].n /\ cand'[s].age <= absent'[s].age
    BY DEF CandidateInv
  <2>1. cand[s] \in Candidate /\ absent[s] \in [n : 0 .. Required, age : 0 .. Grace]
    BY DEF Inv, TypeOK
  <2>2. /\ cand[s].n = 0 => cand[s].age = 0
        /\ s \in StateSlots => /\ cand[s].n > 0 => cand[s].known
                               /\ cand[s].n <= absent[s].n /\ cand[s].age <= absent[s].age
    BY DEF Inv, CandidateInv
  <2>3. CASE s \in T
    <3>1. cand'[s] = NoCandidate /\ absent'[s].n >= 0 /\ absent'[s].age >= 0
      BY <2>1, <2>3
    <3>. QED
      BY <3>1 DEF NoCandidate
  <2>4. CASE s \notin T /\ absent'[s] = absent[s]
    BY <2>2, <2>4
  <2>5. CASE s \notin T /\ absent'[s] # absent[s]
    <3>1. s \notin Back /\ s[2] \in inv /\ cand'[s] = cand[s] /\ absent'[s] = [n |-> 0, age |-> 0]
      BY <2>5 DEF Through
    <3>2. s \in StateSlots => cand[s].n = 0
      BY <2>1, <2>2, <3>1 DEF Back, Candidate
    <3>. QED
      BY <2>2, <3>1, <3>2
  <2>. QED
    BY <2>3, <2>4, <2>5
<1>. QED
  BY <1>1, <1>2 DEF EligibleInv, RowInv

LEMMA ObserveSteps ==
  ASSUME Inv, \/ \E T \in SUBSET MissedRows : Observe(T)
              \/ \E T \in SUBSET MissedEntries : ObserveYaml(T)
  PROVE  CandidateInv' /\ EligibleInv' /\ RowInv'
<1>1. /\ MissedRows \subseteq StateSlots /\ MissedEntries \subseteq Slots
      /\ MissedEntries \cap StateSlots = {}
  BY DEF MissedRows, MissedEntries, Missed, StateSlots, Slots, Inv, TypeOK
<1>2. \E T \in SUBSET Slots : \E keyed :
        /\ ObserveSlots(T, keyed)
        /\ T \subseteq StateSlots => keyed = Items
        /\ T \cap StateSlots = {} \/ T \subseteq StateSlots
  <2>1. CASE \E T \in SUBSET MissedRows : Observe(T)
    BY <1>1, <2>1, Shapes DEF Observe
  <2>2. CASE \E T \in SUBSET MissedEntries : ObserveYaml(T)
    <3>. PICK T \in SUBSET MissedEntries : ObserveYaml(T)
      BY <2>2
    <3>1. CASE T = {}
      <4>1. ObserveSlots({}, Items)
        BY <3>1 DEF ObserveYaml, ObserveSlots
      <4>. QED
        BY <4>1
    <3>2. CASE T # {}
      BY <1>1, <3>2 DEF ObserveYaml
    <3>. QED
      BY <3>1, <3>2
  <2>. QED
    BY <2>1, <2>2
<1>3. /\ CandidateInv'
      /\ \A s \in Slots : Confirmed(s) => Confirmed(s)'
      /\ \A s \in elig' \intersect StateSlots : Confirmed(s)'
  BY <1>2, Observing
<1>4. UNCHANGED <<rows, mem>> /\ phase' \notin Early
  BY DEF Observe, ObserveYaml, Through, Early
<1>5. RowInv'
  BY <1>3, <1>4, Shapes DEF Inv, RowInv, Gone
<1>. QED
  BY <1>3, <1>4, <1>5 DEF EligibleInv

LEMMA RowSteps ==
  ASSUME Inv, \/ \E T \in SUBSET Completable : CompleteYaml(T)
              \/ \E D \in SUBSET StaleRows : \E T \in SUBSET D : RemoveRows(D, T)
  PROVE  CandidateInv' /\ EligibleInv' /\ RowInv'
<1>1. Completable \subseteq Slots /\ StaleRows \subseteq elig \intersect StateSlots
  BY Shapes DEF Completable, Entries, StaleRows, Slots, StateSlots, Inv, TypeOK
<1>2. (\A s : Confirmed(s)' = Confirmed(s)) /\ (\A i : Gone(i)' = Gone(i))
  BY ConfirmedKept DEF CompleteYaml, RemoveRows
<1>3. CASE \E T \in SUBSET Completable : CompleteYaml(T)
  <2>1. /\ UNCHANGED <<rows, mem, elig, absent>> /\ phase' \notin Early
        /\ \E T \in SUBSET Slots : cand' = Forgotten(T)
    BY <1>1, <1>3 DEF CompleteYaml, Through, Early
  <2>. QED
    BY <1>2, <2>1, Resetting DEF Inv, EligibleInv, RowInv
<1>4. CASE \E D \in SUBSET StaleRows : \E T \in SUBSET D : RemoveRows(D, T)
  <2>. PICK D \in SUBSET StaleRows : \E T \in SUBSET D : RemoveRows(D, T)
    BY <1>4
  <2>. PICK T \in SUBSET D : RemoveRows(D, T)
    OBVIOUS
  <2>1. /\ UNCHANGED <<rows, elig, absent>> /\ phase' \notin Early
        /\ T \in SUBSET Slots /\ cand' = Forgotten(T)
    BY <1>1, Shapes DEF RemoveRows, Through, Early
  <2>2. \A s \in D : Confirmed(s)
    BY <1>1 DEF Inv, EligibleInv
  <2>3. \A i \in Items : mem'[i] = "none" => mem[i] = "none" \/ Gone(i)
    BY <2>2 DEF RemoveRows, Gone
  <2>. QED
    BY <1>2, <2>1, <2>3, Resetting DEF Inv, EligibleInv, RowInv
<1>. QED
  BY <1>3, <1>4

LEMMA CleanupSteps == Inv /\ CleanupStep => Inv'
<1>. SUFFICES ASSUME Inv, CleanupStep PROVE Inv'
  OBVIOUS
<1>1. TypeOK'
  BY CleanupTypes DEF Inv
<1>2. CASE WriteYaml \/ WriteYamlFails \/ \E F \in SUBSET StaleFiles : QuarantineAssets(F)
  <2>1. UNCHANGED <<cand, absent, rows, mem, elig>> /\ phase' \notin Early
    BY <1>2 DEF WriteYaml, WriteYamlFails, QuarantineAssets, Through, Early, output
  <2>. QED
    BY <1>1, <2>1, QuietSteps DEF Inv
<1>3. CASE \E T \in SUBSET Back : CancelReturned(T)
  BY <1>1, <1>3, CancelStep DEF Inv
<1>4. CASE \/ \E T \in SUBSET MissedRows : Observe(T)
           \/ \E T \in SUBSET MissedEntries : ObserveYaml(T)
  BY <1>1, <1>4, ObserveSteps DEF Inv
<1>5. CASE \/ \E T \in SUBSET Completable : CompleteYaml(T)
           \/ \E D \in SUBSET StaleRows : \E T \in SUBSET D : RemoveRows(D, T)
  BY <1>1, <1>5, RowSteps DEF Inv
<1>. QED
  BY <1>2, <1>3, <1>4, <1>5 DEF CleanupStep

LEMMA Invariance == Spec => []Inv
<1>1. Inv /\ [Next]_vars => Inv'
  BY OutsideSteps, AgeingStep, JobSteps, CleanupSteps DEF Next, JobStep
<1>. QED
  BY <1>1, InitInv, PTL DEF Spec

-----------------------------------------------------------------------------
(* The steps of jobs, cleanup and users keep every variable in its type. *)
THEOREM TypeCorrect == Spec => []TypeOK
BY Invariance, PTL DEF Inv

(* No row of the state is lost before its absence is confirmed. *)
THEOREM RowsAreConfirmed == Spec => RowsConfirmed
<1>1. ASSUME Inv, [Next]_vars, NEW i \in Items, rows[i] # "none", rows'[i] = "none"
      PROVE  Gone(i)
  <2>1. CASE Flush
    BY <1>1, <2>1 DEF Flush, Inv, RowInv
  <2>2. CASE rows' = rows
    BY <1>1, <2>2
  <2>3. Flush \/ rows' = rows
    BY <1>1 DEF Next, Leaves, Returns, UserArtwork, Restore, Tick, BeginFull,
       BeginIncremental, Begin, JobStep, WorkAll, WorkSome, CleanupStep, CancelReturned,
       Observe, ObserveYaml, WriteYaml, WriteYamlFails, CompleteYaml, QuarantineAssets,
       RemoveRows, Kill, vars
  <2>. QED
    BY <2>1, <2>2, <2>3
<1>2. Inv /\ [Next]_vars =>
        \A i \in Items : rows[i] # "none" /\ rows'[i] = "none" =>
          Confirmed(<<"state", i>>) \/ Confirmed(<<"state", Parent[i]>>)
  BY <1>1 DEF Gone
<1>. QED
  BY <1>2, Invariance, PTL DEF Spec, RowsConfirmed

(* Where the seasons have files of their own in the folder of their show,  *)
(* cleanup moves only artwork MetaFusion wrote for what is confirmed gone  *)
(* and no item of the inventory owns, and moves it into quarantine.        *)
THEOREM QuarantineJust ==
  ASSUME \A i \in Items : Folder[i] = Folder[Parent[i]],
         \A i \in Items \ Titles, j \in Items : Dest[i] = Dest[j] => i = j
  PROVE  Spec => QuarantineIsJust
<1>1. ASSUME Inv, NEW F \in SUBSET StaleFiles, QuarantineAssets(F), NEW f \in Files,
             file[f] # "none", file'[f] = "none"
      PROVE  /\ file[f] = "art" /\ f \in vault'
             /\ \E i \in Items : /\ Dest[i] = f /\ mem[i] = "owner"
                                 /\ Gone(i)
             /\ \A i \in inv : Dest[i] = f => mem[i] # "owner"
  <2>1. f \in F /\ f \in vault' /\ file[f] = "art"
    BY <1>1 DEF QuarantineAssets, StaleFiles
  <2>2. PICK i \in Items : Dest[i] = f /\ StaleOwner(i)
    BY <2>1 DEF StaleFiles
  <2>3. mem[i] = "owner" /\ Gone(i)
    BY <1>1, <2>2, Shapes DEF StaleOwner, Inv, EligibleInv, Gone
  <2>4. ASSUME NEW j \in inv, Dest[j] = f
        PROVE  FALSE
    <3>1. j \in Items /\ Parent[j] \in inv \intersect Titles
      BY <1>1, CleanupAssumption DEF Inv, TypeOK, Closed
    <3>2. Folder[Parent[j]] = Folder[j]
      BY <3>1
    <3>3. PICK k \in Items \ Titles : Dest[k] = f /\ <<"state", k>> \in MissedRows
      BY <2>1, <2>4, <3>1, <3>2 DEF StaleFiles
    <3>4. k = j /\ k \notin inv
      BY <2>4, <3>1, <3>3 DEF MissedRows, Missed
    <3>. QED
      BY <3>4
  <2>. QED
    BY <2>1, <2>2, <2>3, <2>4
<1>2. ASSUME Inv, [Next]_vars, NEW f \in Files, file[f] # "none", file'[f] = "none"
      PROVE  \E F \in SUBSET StaleFiles : QuarantineAssets(F)
  <2>1. ASSUME NEW S, Build(S)
        PROVE  file'[f] # "none"
    BY <1>2, <2>1 DEF Build
  <2>. QED
    BY <1>2, <2>1 DEF Next, Leaves, Returns, UserArtwork, Restore, Tick, BeginFull,
       BeginIncremental, Begin, JobStep, WorkAll, WorkSome, Flush, CleanupStep,
       CancelReturned, Observe, ObserveYaml, WriteYaml, WriteYamlFails, CompleteYaml,
       RemoveRows, Kill, vars, output, Inv, TypeOK
<1>3. Inv /\ [Next]_vars =>
       \A f \in Files :
         file[f] # "none" /\ file'[f] = "none" =>
           /\ file[f] = "art" /\ f \in vault'
           /\ \E i \in Items : /\ Dest[i] = f /\ mem[i] = "owner"
                               /\ Confirmed(<<"state", i>>) \/ Confirmed(<<"state", Parent[i]>>)
           /\ \A i \in inv : Dest[i] = f => mem[i] # "owner"
  BY <1>1, <1>2 DEF Gone
<1>. QED
  BY <1>3, Invariance, PTL DEF Spec, QuarantineIsJust
=============================================================================
