--------------------------- MODULE Storage_proofs ---------------------------
(***************************************************************************)
(* Proofs about the two stores that outlive a job: MediaStore for any      *)
(* keys, libraries and destinations (the index has the claims of the rows, *)
(* reads are current, and, as long as no operator rebinds a show, the      *)
(* store implements the abstract mapping), and Quarantine for any number   *)
(* of files and failures.                                                  *)
(***************************************************************************)
EXTENDS MediaStore, Quarantine, TLAPS

-----------------------------------------------------------------------------
(* MediaStore                                                              *)

(* What each kind of session leaves empty. *)
SessionInv ==
  /\ session = "closed" => pending = Nothing /\ memory = Nothing /\ deleted = {}
  /\ session = "writable" => memory = Nothing
  /\ session = "preview" => pending = Nothing /\ deleted = {}
  /\ tx.open => session = "writable"
  /\ \A k \in Keys : k \in deleted => pending[k] = Absent

(* Rows of shows keep no average, and only shows have a season. *)
ShapeInv ==
  \A k \in Keys :
    /\ k \in Shows => media[k] = Absent \/ ~media[k].average
    /\ k \notin Shows => seasons[k] = NoPlace /\ pending[k] \in Inputs[k] \union {Absent}

(* The transaction holds the tables less the deleted keys, and for a key it *)
(* has come to, the value pending for it.                                   *)
TxInv ==
  tx.open => \A k \in Keys :
    /\ k \in tx.left => pending[k] # Absent
    /\ pending[k] = Absent \/ k \in tx.left =>
         /\ tx.media[k] = IF k \in deleted THEN Absent ELSE media[k]
         /\ tx.seasons[k] = IF k \in deleted THEN NoPlace ELSE seasons[k]
         /\ tx.index[k] = IF k \in deleted THEN NoClaims ELSE index[k]
    /\ pending[k] # Absent /\ k \notin tx.left =>
         /\ tx.media[k] = RowOf(k, pending[k])
         /\ tx.seasons[k] = pending[k].season
         /\ tx.index[k] = AssetRows(pending[k])

Inv == TypeOK /\ SessionInv /\ ShapeInv /\ TxInv /\ IndexAgrees

-----------------------------------------------------------------------------
LEMMA InputsAreValues ==
  ASSUME NEW k \in Keys, NEW v \in Inputs[k]
  PROVE  v \in Value /\ v # Absent /\ (k \notin Shows => v.season = NoPlace)
BY StoreAssumption

LEMMA RowsOfValues ==
  ASSUME NEW k \in Keys, NEW v \in Value
  PROVE  /\ RowOf(k, v) \in Row /\ RowOf(k, v) # Absent
         /\ AssetRows(v) \in [root : Claim, season : Claim]
         /\ v.season \in Claim /\ RowOf(k, v).root = v.root
<1>1. RowOf(k, v) \in Row /\ RowOf(k, v).root = v.root
  BY DEF RowOf, Row, Value
<1>. QED
  BY <1>1, StoreAssumption DEF AssetRows, Value

LEMMA InitInv == Init => Inv
<1>. SUFFICES ASSUME Init PROVE Inv
  OBVIOUS
<1>1. /\ Nothing \in [Keys -> Row \union {Absent}]
      /\ Nothing \in [Keys -> Value \union {Absent}]
      /\ \A k \in Keys : Nothing[k] = Absent
  BY DEF Nothing
<1>2. NoPlace \in Claim /\ NoClaims \in [root : Claim, season : Claim]
  BY DEF Claim, NoClaims
<1>3. TypeOK
  BY <1>1, <1>2 DEF Init, TypeOK, NoTx
<1>4. SessionInv /\ TxInv
  BY <1>1 DEF Init, SessionInv, TxInv, NoTx
<1>5. ShapeInv /\ IndexAgrees
  BY <1>1 DEF Init, ShapeInv, IndexAgrees, NoClaims
<1>. QED
  BY <1>3, <1>4, <1>5 DEF Inv

(* A step that ends the transaction or leaves it closed need not mention it. *)
LEMMA NoTxType ==
  NoTx \in [open : BOOLEAN, left : SUBSET Keys,
            media : [Keys -> Row \union {Absent}],
            seasons : [Keys -> Claim],
            index : [Keys -> [root : Claim, season : Claim]]]
  /\ ~NoTx.open
<1>1. /\ Nothing \in [Keys -> Row \union {Absent}]
      /\ NoPlace \in Claim /\ NoClaims \in [root : Claim, season : Claim]
  BY DEF Nothing, Claim, NoClaims
<1>. QED
  BY <1>1 DEF NoTx

LEMMA NothingType ==
  /\ Nothing \in [Keys -> Value \union {Absent}]
  /\ \A k \in Keys : Nothing[k] = Absent
BY DEF Nothing

-----------------------------------------------------------------------------
(* The actions, one by one *)

LEMMA SessionActions ==
  ASSUME Inv, \/ \E how \in {"writable", "preview"} : BeginSession(how)
              \/ Close \/ FlushFails
  PROVE  Inv'
<1>1. CASE \E how \in {"writable", "preview"} : BeginSession(how)
  <2>. PICK how \in {"writable", "preview"} : BeginSession(how)
    BY <1>1
  <2>. USE DEF BeginSession, db, overlay
  <2>1. TypeOK' /\ SessionInv'
    BY DEF Inv, TypeOK, SessionInv
  <2>2. ShapeInv' /\ TxInv' /\ IndexAgrees'
    BY DEF Inv, ShapeInv, TxInv, IndexAgrees
  <2>. QED
    BY <2>1, <2>2 DEF Inv
<1>2. CASE Close
  <2>. USE <1>2 DEF Close, db, overlay
  <2>1. TypeOK'
    BY NoTxType, NothingType DEF Inv, TypeOK
  <2>2. SessionInv' /\ TxInv'
    BY NoTxType, NothingType DEF SessionInv, TxInv
  <2>3. ShapeInv' /\ IndexAgrees'
    BY NothingType DEF Inv, ShapeInv, IndexAgrees
  <2>. QED
    BY <2>1, <2>2, <2>3 DEF Inv
<1>3. CASE FlushFails
  <2>. USE <1>3 DEF FlushFails, KeepOverlay, db, overlay
  <2>1. TypeOK'
    BY NoTxType DEF Inv, TypeOK
  <2>2. SessionInv' /\ TxInv'
    BY NoTxType DEF Inv, SessionInv, TxInv
  <2>3. ShapeInv' /\ IndexAgrees'
    BY DEF Inv, ShapeInv, IndexAgrees
  <2>. QED
    BY <2>1, <2>2, <2>3 DEF Inv
<1>. QED
  BY <1>1, <1>2, <1>3

LEMMA SetItemInv ==
  ASSUME Inv, NEW k \in Keys, NEW v \in Inputs[k], SetItem(k, v)
  PROVE  Inv'
<1>. USE DEF SetItem, db, overlay
<1>1. v \in Value /\ v # Absent /\ (k \notin Shows => v.season = NoPlace)
  BY InputsAreValues
<1>2. TypeOK'
  <2>1. CASE session = "preview"
    BY <1>1, <2>1 DEF Inv, TypeOK
  <2>2. CASE session = "writable"
    BY <1>1, <2>2 DEF Inv, TypeOK
  <2>. QED
    BY <2>1, <2>2
<1>3. SessionInv'
  BY <1>1 DEF Inv, TypeOK, SessionInv
<1>4. ShapeInv'
  BY <1>1 DEF Inv, TypeOK, ShapeInv
<1>5. TxInv' /\ IndexAgrees'
  BY DEF Inv, TxInv, IndexAgrees
<1>. QED
  BY <1>2, <1>3, <1>4, <1>5 DEF Inv

LEMMA DelItemInv ==
  ASSUME Inv, NEW k \in Keys, DelItem(k)
  PROVE  Inv'
<1>. USE DEF DelItem, db, overlay
<1>2. TypeOK'
  BY DEF Inv, TypeOK
<1>3. SessionInv'
  <2>1. memory' = Nothing
    <3>1. memory = Nothing
      BY DEF Inv, SessionInv
    <3>. QED
      BY <3>1, NothingType DEF Nothing
  <2>2. \A x \in Keys : x \in deleted' => pending'[x] = Absent
    BY DEF Inv, TypeOK, SessionInv
  <2>. QED
    BY <2>1, <2>2 DEF Inv, SessionInv
<1>4. ShapeInv'
  BY DEF Inv, TypeOK, ShapeInv
<1>5. TxInv' /\ IndexAgrees'
  BY DEF Inv, TxInv, IndexAgrees
<1>. QED
  BY <1>2, <1>3, <1>4, <1>5 DEF Inv

LEMMA BeginFlushInv ==
  ASSUME Inv, BeginFlush
  PROVE  Inv'
<1>. USE DEF BeginFlush, IndexAfterDelete, db, overlay
<1>1. NoPlace \in Claim /\ NoClaims \in [root : Claim, season : Claim]
  BY DEF Claim, NoClaims
<1>2. TypeOK'
  BY <1>1 DEF Inv, TypeOK
<1>3. SessionInv' /\ ShapeInv' /\ IndexAgrees'
  BY DEF Inv, SessionInv, ShapeInv, IndexAgrees
<1>4. TxInv'
  BY DEF TxInv
<1>. QED
  BY <1>2, <1>3, <1>4 DEF Inv

LEMMA FlushRowInv ==
  ASSUME Inv, NEW k \in Keys, FlushRow(k)
  PROVE  Inv'
<1>. USE DEF FlushRow, db, overlay
<1>1. pending[k] \in Value
  BY DEF Inv, TypeOK, TxInv
<1>2. /\ RowOf(k, pending[k]) \in Row
      /\ AssetRows(pending[k]) \in [root : Claim, season : Claim]
      /\ pending[k].season \in Claim
  BY <1>1, RowsOfValues
<1>3. TypeOK'
  BY <1>2 DEF Inv, TypeOK
<1>4. SessionInv' /\ ShapeInv' /\ IndexAgrees'
  BY DEF Inv, TypeOK, SessionInv, ShapeInv, IndexAgrees
<1>5. TxInv'
  <2>. SUFFICES ASSUME NEW x \in Keys
                PROVE  /\ x \in tx'.left => pending[x] # Absent
                       /\ pending[x] = Absent \/ x \in tx'.left =>
                            /\ tx'.media[x] = IF x \in deleted THEN Absent ELSE media[x]
                            /\ tx'.seasons[x] = IF x \in deleted THEN NoPlace ELSE seasons[x]
                            /\ tx'.index[x] = IF x \in deleted THEN NoClaims ELSE index[x]
                       /\ pending[x] # Absent /\ x \notin tx'.left =>
                            /\ tx'.media[x] = RowOf(x, pending[x])
                            /\ tx'.seasons[x] = pending[x].season
                            /\ tx'.index[x] = AssetRows(pending[x])
    BY DEF TxInv
  <2>1. CASE x = k
    BY <2>1 DEF Inv, TypeOK, TxInv
  <2>2. CASE x # k
    BY <2>2 DEF Inv, TypeOK, TxInv
  <2>. QED
    BY <2>1, <2>2
<1>. QED
  BY <1>3, <1>4, <1>5 DEF Inv

(* The commit is where the transaction becomes the tables. *)
LEMMA Committed ==
  ASSUME Inv, CommitFlush, NEW k \in Keys
  PROVE  /\ pending[k] # Absent =>
               /\ media'[k] = RowOf(k, pending[k])
               /\ seasons'[k] = pending[k].season
               /\ index'[k] = AssetRows(pending[k])
         /\ pending[k] = Absent /\ k \in deleted =>
               media'[k] = Absent /\ seasons'[k] = NoPlace /\ index'[k] = NoClaims
         /\ pending[k] = Absent /\ k \notin deleted =>
               media'[k] = media[k] /\ seasons'[k] = seasons[k] /\ index'[k] = index[k]
         /\ k \in deleted => pending[k] = Absent
BY DEF Inv, TxInv, CommitFlush, SessionInv

LEMMA CommitInv ==
  ASSUME Inv, CommitFlush
  PROVE  Inv'
<1>1. TypeOK'
  BY NoTxType, NothingType DEF Inv, TypeOK, CommitFlush
<1>2. SessionInv' /\ TxInv'
  BY NoTxType, NothingType DEF Inv, SessionInv, TxInv, CommitFlush
<1>3. ASSUME NEW k \in Keys
      PROVE  /\ k \in Shows => media'[k] = Absent \/ ~media'[k].average
             /\ k \notin Shows => seasons'[k] = NoPlace
  <2>1. CASE pending[k] # Absent
    <3>1. k \in Shows => ~RowOf(k, pending[k]).average
      BY DEF RowOf
    <3>2. k \notin Shows => pending[k].season = NoPlace
      BY <2>1, InputsAreValues DEF Inv, ShapeInv
    <3>. QED
      BY <2>1, <3>1, <3>2, Committed
  <2>2. CASE pending[k] = Absent
    BY <2>2, Committed DEF Inv, ShapeInv
  <2>. QED
    BY <2>1, <2>2
<1>4. ShapeInv'
  BY <1>3, NothingType DEF ShapeInv, CommitFlush
<1>5. ASSUME NEW k \in Keys
      PROVE  /\ media'[k] = Absent => index'[k] = NoClaims /\ seasons'[k] = NoPlace
             /\ media'[k] # Absent => index'[k].root = media'[k].root
             /\ seasons'[k] \in {NoPlace, index'[k].season}
             /\ seasons'[k] = index'[k].season \/ k \in Shows \intersect Rebindable
  <2>1. CASE pending[k] # Absent
    <3>1. RowOf(k, pending[k]) # Absent /\ RowOf(k, pending[k]).root = pending[k].root
      BY <2>1, RowsOfValues DEF Inv, TypeOK
    <3>2. /\ AssetRows(pending[k]).root = pending[k].root
          /\ AssetRows(pending[k]).season = pending[k].season
      BY DEF AssetRows
    <3>. QED
      BY <2>1, <3>1, <3>2, Committed
  <2>2. CASE pending[k] = Absent
    BY <2>2, Committed DEF Inv, IndexAgrees, NoClaims
  <2>. QED
    BY <2>1, <2>2
<1>6. IndexAgrees'
  BY <1>5 DEF IndexAgrees
<1>. QED
  BY <1>1, <1>2, <1>4, <1>6 DEF Inv

LEMMA ForgetInv ==
  ASSUME Inv, NEW k \in Keys, ForgetRoot(k) \/ ForgetSeason(k)
  PROVE  Inv'
<1>1. NoPlace \in Claim /\ media[k] # Absent /\ ~tx.open
  BY DEF Claim, ForgetRoot, ForgetSeason, Inv, SessionInv
<1>2. media[k] \in Row /\ [media[k] EXCEPT !.root = NoPlace] \in Row
      /\ [media[k] EXCEPT !.root = NoPlace] # Absent
      /\ [media[k] EXCEPT !.root = NoPlace].average = media[k].average
  <2>1. media[k] \in Row
    BY <1>1 DEF Inv, TypeOK
  <2>2. [media[k] EXCEPT !.root = NoPlace] \in Row
    BY <1>1, <2>1 DEF Row
  <2>. QED
    BY <1>1, <2>1, <2>2, StoreAssumption DEF Row
<1>3. CASE ForgetRoot(k)
  <2>. USE <1>3 DEF ForgetRoot, overlay
  <2>1. TypeOK'
    BY <1>1, <1>2 DEF Inv, TypeOK
  <2>2. SessionInv' /\ TxInv'
    BY <1>1 DEF Inv, SessionInv, TxInv
  <2>3. ShapeInv'
    BY <1>1, <1>2 DEF Inv, TypeOK, ShapeInv
  <2>4. IndexAgrees'
    BY <1>1, <1>2 DEF Inv, TypeOK, IndexAgrees, Row
  <2>. QED
    BY <2>1, <2>2, <2>3, <2>4 DEF Inv
<1>4. CASE ForgetSeason(k)
  <2>. USE <1>4 DEF ForgetSeason, overlay
  <2>1. TypeOK'
    BY <1>1 DEF Inv, TypeOK
  <2>2. SessionInv' /\ TxInv'
    BY <1>1 DEF Inv, SessionInv, TxInv
  <2>3. ShapeInv' /\ IndexAgrees'
    BY <1>1 DEF Inv, TypeOK, ShapeInv, IndexAgrees
  <2>. QED
    BY <2>1, <2>2, <2>3 DEF Inv
<1>. QED
  BY <1>3, <1>4

LEMMA TakesType ==
  ASSUME NEW a \in Claim, NEW b \in Claim PROVE Takes(a, b) \in Claim
BY DEF Takes

(* Rebinding a movie keeps the tables in agreement.  For a show the season's *)
(* claim goes to the new identity without its row.                          *)
LEMMA RebindInv ==
  ASSUME Inv, NEW k \in Keys, NEW l \in Keys, Rebind(k, l)
  PROVE  Inv'
<1>. USE DEF Rebind, overlay
<1>. DEFINE row == [media[l] EXCEPT !.root = Takes(@, media[k].root)]
<1>. DEFINE season == Takes(index[l].season, index[k].season)
<1>1. /\ ~tx.open /\ media[k] \in Row /\ media[l] \in Row
      /\ (k \notin Shows <=> l \notin Shows) /\ {k, l} \subseteq Rebindable
      /\ NoPlace \in Claim /\ NoClaims \in [root : Claim, season : Claim]
      /\ index \in [Keys -> [root : Claim, season : Claim]]
      /\ seasons \in [Keys -> Claim]
  BY DEF Inv, TypeOK, SessionInv, Claim, NoClaims
<1>2. Takes(media[l].root, media[k].root) \in Claim
  BY <1>1, TakesType DEF Row
<1>3. row \in Row /\ row # Absent /\ row.root = Takes(media[l].root, media[k].root)
      /\ row.average = media[l].average
  <2>1. row \in Row /\ row.root = Takes(media[l].root, media[k].root)
        /\ row.average = media[l].average
    BY <1>1, <1>2 DEF Row
  <2>. QED
    BY <2>1, StoreAssumption
<1>4. /\ media' = [x \in Keys |-> IF x = k THEN Absent ELSE IF x = l THEN row ELSE media[x]]
      /\ seasons' = [seasons EXCEPT ![k] = NoPlace]
  BY DEF Inv, TypeOK
<1>5. /\ index[k].root = media[k].root /\ index[l].root = media[l].root
      /\ seasons[l] \in {NoPlace, season} /\ season \in Claim
      /\ k \notin Shows => seasons[l] = season
  <2>1. /\ index[k].root = media[k].root /\ index[l].root = media[l].root
        /\ seasons[l] \in {NoPlace, index[l].season}
        /\ k \notin Shows => index[k].season = NoPlace /\ index[l].season = NoPlace
                             /\ seasons[l] = NoPlace
    BY <1>1 DEF Inv, IndexAgrees, ShapeInv
  <2>2. index[k].season \in Claim /\ index[l].season \in Claim
    BY <1>1
  <2>. QED
    BY <2>1, <2>2 DEF Takes
<1>6. index' = [x \in Keys |-> IF x = k THEN NoClaims
                  ELSE IF x = l THEN [root |-> row.root, season |-> season]
                  ELSE index[x]]
  <2>1. Takes(index[l].root, index[k].root) = row.root
    BY <1>3, <1>5 DEF Takes
  <2>2. index' = [index EXCEPT
          ![l] = [root |-> Takes(index[l].root, index[k].root), season |-> season],
          ![k] = NoClaims]
    OBVIOUS
  <2>. HIDE DEF row, season, Rebind
  <2>. QED
    BY <1>1, <2>1, <2>2
<1>. /\ UNCHANGED <<session, pending, memory, deleted, tx>>
     /\ k \in Keys /\ l \in Keys
  OBVIOUS
<1>. HIDE DEF Rebind
<1>7. TypeOK'
  <2>1. [root |-> row.root, season |-> season] \in [root : Claim, season : Claim]
    BY <1>1, <1>3, <1>5 DEF Row
  <2>. HIDE DEF row, season
  <2>2. media' \in [Keys -> Row \union {Absent}] /\ seasons' \in [Keys -> Claim]
    BY <1>1, <1>3, <1>4 DEF Inv, TypeOK
  <2>3. index' \in [Keys -> [root : Claim, season : Claim]]
    BY <1>1, <1>6, <2>1 DEF Inv, TypeOK
  <2>. QED
    BY <2>2, <2>3 DEF Inv, TypeOK
<1>8. SessionInv' /\ TxInv'
  BY <1>1 DEF Inv, SessionInv, TxInv
<1>9. ShapeInv'
  <2>. HIDE DEF row, season
  <2>1. ASSUME NEW x \in Keys, x \notin Shows PROVE seasons'[x] = NoPlace
    BY <1>1, <1>4, <2>1 DEF Inv, ShapeInv
  <2>2. ASSUME NEW x \in Shows \intersect Keys
        PROVE  media'[x] = Absent \/ ~media'[x].average
    <3>1. media[x] = Absent \/ ~media[x].average
      BY DEF Inv, ShapeInv
    <3>2. x = l => ~row.average
      BY <1>1, <1>3, <3>1, StoreAssumption DEF Rebind
    <3>. QED
      BY <1>4, <3>1, <3>2
  <2>. QED
    BY <2>1, <2>2 DEF Inv, ShapeInv
<1>10. IndexAgrees'
  <2>. HIDE DEF row, season
  <2>. SUFFICES ASSUME NEW x \in Keys
                PROVE  /\ media'[x] = Absent => index'[x] = NoClaims /\ seasons'[x] = NoPlace
                       /\ media'[x] # Absent => index'[x].root = media'[x].root
                       /\ seasons'[x] \in {NoPlace, index'[x].season}
                       /\ \/ seasons'[x] = index'[x].season
                          \/ x \in Shows \intersect Rebindable
    BY DEF IndexAgrees
  <2>1. CASE x = k
    BY <1>1, <1>4, <1>6, <2>1 DEF NoClaims
  <2>2. CASE x = l /\ x # k
    BY <1>1, <1>3, <1>4, <1>5, <1>6, <2>2
  <2>3. CASE x # k /\ x # l
    BY <1>1, <1>4, <1>6, <2>3 DEF Inv, IndexAgrees
  <2>. QED
    BY <2>1, <2>2, <2>3
<1>. QED
  BY <1>7, <1>8, <1>9, <1>10 DEF Inv

LEMMA StepInv ==
  ASSUME Inv, [Next]_vars
  PROVE  Inv'
<1>1. CASE UNCHANGED vars
  BY <1>1 DEF vars, db, overlay, Inv, TypeOK, SessionInv, ShapeInv, TxInv, IndexAgrees
<1>2. CASE Next
  BY <1>2, SessionActions, SetItemInv, DelItemInv, BeginFlushInv, FlushRowInv,
     CommitInv, ForgetInv, RebindInv DEF Next
<1>. QED
  BY <1>1, <1>2

LEMMA Invariance == Spec => []Inv
<1>1. Inv /\ [Next]_vars => Inv'
  BY StepInv
<1>. QED
  BY <1>1, InitInv, PTL DEF Spec

(* The tables and the overlays keep their types, whatever an operator      *)
(* rebinds between jobs.                                                   *)
THEOREM TypeCorrect == Spec => []TypeOK
<1>1. Inv => TypeOK
  BY DEF Inv
<1>. QED
  BY <1>1, Invariance, PTL

(* The ownership index loses no claim of the rows it is an index of, after *)
(* any sequence of flushes, failures, deletions, forgotten claims and      *)
(* rebindings, of shows too; and it claims more than the rows only for the *)
(* season of a show that may be rebound.                                   *)
THEOREM IndexCorrect == Spec => []IndexAgrees
<1>1. Inv => IndexAgrees
  BY DEF Inv
<1>. QED
  BY <1>1, Invariance, PTL

(* Planning a library reads what was written last. *)
THEOREM ScopeCurrent == Spec => []ScopeReads
<1>1. ASSUME Inv, NEW k \in Keys, NEW lib \in Libraries
      PROVE  /\ InScope(Get(k), lib) => EntriesForScope(lib)[k] = Get(k)
             /\ Get(k) = Absent => EntriesForScope(lib)[k] = Absent
  <2>1. media[k] # Absent => DatabaseEntry(k) \in Value /\ DatabaseEntry(k) # Absent
    BY <1>1, StoreAssumption DEF Inv, TypeOK, DatabaseEntry, Value, Row
  <2>2. media[k] # Absent => DatabaseEntry(k).lib = media[k].lib
    BY DEF DatabaseEntry
  <2>3. pending[k] # Absent => memory[k] = Absent
    BY <1>1, NothingType DEF Inv, TypeOK, SessionInv
  <2>. QED
    BY <1>1, <2>1, <2>2, <2>3 DEF Get, EntriesForScope, InScope, DatabaseEntry
<1>2. Inv => ScopeReads
  BY <1>1 DEF ScopeReads
<1>. QED
  BY <1>2, Invariance, PTL

-----------------------------------------------------------------------------
(* The refinement *)

Seen == [k \in Keys |-> Get(k)]
Kept == [k \in Keys |-> DatabaseEntry(k)]

LEMMA EntryType ==
  ASSUME Inv, NEW k \in Keys, media[k] # Absent
  PROVE  DatabaseEntry(k) \in Value /\ DatabaseEntry(k) # Absent
BY StoreAssumption DEF Inv, TypeOK, DatabaseEntry, Value, Row

(* Between jobs, what is read is what is kept. *)
LEMMA ClosedReads ==
  ASSUME pending = Nothing, memory = Nothing, deleted = {}, NEW k \in Keys
  PROVE  Get(k) = DatabaseEntry(k)
BY NothingType DEF Get

LEMMA PutMaps ==
  ASSUME Inv, NEW k \in Keys, NEW v \in Inputs[k], SetItem(k, v)
  PROVE  Map!Next
<1>. USE DEF SetItem, db, overlay
<1>1. v \in Value /\ v # Absent
  BY InputsAreValues
<1>2. Kept' = Kept
  BY DEF Kept, DatabaseEntry
<1>3. ASSUME NEW x \in Keys
      PROVE  Get(x)' = IF x = k THEN v ELSE Get(x)
  <2>1. CASE session = "preview"
    BY <1>1, <2>1, NothingType DEF Get, DatabaseEntry, Inv, TypeOK, SessionInv
  <2>2. CASE session = "writable"
    BY <1>1, <2>2, NothingType DEF Get, DatabaseEntry, Inv, TypeOK, SessionInv
  <2>. QED
    BY <2>1, <2>2
<1>4. Seen' = [Seen EXCEPT ![k] = v]
  BY <1>3 DEF Seen
<1>5. Map!Put(k, v)
  BY <1>2, <1>4 DEF Map!Put, Seen, Kept
<1>. QED
  BY <1>1, <1>5 DEF Map!Next

LEMMA DropMaps ==
  ASSUME Inv, NEW k \in Keys, DelItem(k)
  PROVE  Map!Next
<1>. USE DEF DelItem, db, overlay
<1>1. Kept' = Kept
  BY DEF Kept, DatabaseEntry
<1>2. ASSUME NEW x \in Keys
      PROVE  Get(x)' = IF x = k THEN Absent ELSE Get(x)
  BY DEF Get, DatabaseEntry, Inv, TypeOK
<1>3. Seen' = [Seen EXCEPT ![k] = Absent]
  BY <1>2 DEF Seen
<1>4. Map!Drop(k)
  BY <1>1, <1>3 DEF Map!Drop, Seen, Kept
<1>. QED
  BY <1>4 DEF Map!Next

LEMMA SaveMaps ==
  ASSUME Inv, CommitFlush
  PROVE  Map!Next
<1>1. session = "writable" /\ memory = Nothing
  BY DEF CommitFlush, Inv, SessionInv
<1>2. ASSUME NEW k \in Keys
      PROVE  DatabaseEntry(k)' = Saved(k, Get(k)) /\ Get(k)' = DatabaseEntry(k)'
  <2>1. Get(k)' = DatabaseEntry(k)'
    BY <1>1, NothingType DEF Get, CommitFlush
  <2>2. CASE pending[k] # Absent
    <3>1. /\ media'[k] = RowOf(k, pending[k]) /\ RowOf(k, pending[k]) # Absent
          /\ seasons'[k] = pending[k].season /\ k \notin deleted
          /\ pending[k] \in Value
      BY <2>2, Committed, RowsOfValues DEF Inv, TypeOK
    <3>2. DatabaseEntry(k)' = [lib |-> pending[k].lib, root |-> pending[k].root,
             season |-> pending[k].season, average |-> pending[k].average /\ k \notin Shows]
      BY <3>1 DEF DatabaseEntry, RowOf
    <3>3. Saved(k, pending[k]) = [lib |-> pending[k].lib, root |-> pending[k].root,
             season |-> pending[k].season, average |-> pending[k].average /\ k \notin Shows]
      BY <2>2, <3>1 DEF Saved, Value
    <3>. QED
      BY <2>1, <2>2, <3>1, <3>2, <3>3 DEF Get
  <2>3. CASE pending[k] = Absent /\ k \in deleted
    BY <2>1, <2>3, Committed DEF Get, DatabaseEntry, Saved
  <2>4. CASE pending[k] = Absent /\ k \notin deleted
    <3>1. DatabaseEntry(k)' = DatabaseEntry(k) /\ Get(k) = DatabaseEntry(k)
      BY <1>1, <2>4, Committed, NothingType DEF Get, DatabaseEntry
    <3>2. Saved(k, DatabaseEntry(k)) = DatabaseEntry(k)
      <4>1. CASE media[k] = Absent
        BY <4>1 DEF DatabaseEntry, Saved
      <4>2. CASE media[k] # Absent
        <5>1. k \in Shows => ~media[k].average
          BY <4>2 DEF Inv, ShapeInv
        <5>2. media[k].average \in BOOLEAN
          BY <4>2 DEF Inv, TypeOK, Row
        <5>3. (media[k].average /\ k \notin Shows) = media[k].average
          BY <5>1, <5>2
        <5>4. DatabaseEntry(k) # Absent
          BY <4>2, EntryType
        <5>. QED
          BY <4>2, <5>3, <5>4 DEF DatabaseEntry, Saved
      <4>. QED
        BY <4>1, <4>2
    <3>. QED
      BY <2>1, <3>1, <3>2
  <2>. QED
    BY <2>2, <2>3, <2>4
<1>3. Kept' = [k \in Keys |-> Saved(k, Seen[k])] /\ Seen' = Kept'
  BY <1>2 DEF Seen, Kept
<1>4. Map!Save
  BY <1>1, <1>3 DEF Map!Save, Seen, Kept, CommitFlush
<1>. QED
  BY <1>4 DEF Map!Next

LEMMA ReleaseMaps ==
  ASSUME Inv, Inv', NEW k \in Keys, ForgetRoot(k) \/ ForgetSeason(k)
  PROVE  Map!Next
<1>1. /\ session = "closed" /\ session' = "closed" /\ media[k] # Absent
      /\ pending = Nothing /\ memory = Nothing /\ deleted = {}
      /\ pending' = Nothing /\ memory' = Nothing /\ deleted' = {}
  BY DEF ForgetRoot, ForgetSeason, overlay, Inv, SessionInv
<1>2. media'[k] # Absent
      /\ \A x \in Keys \ {k} : media'[x] = media[x] /\ seasons'[x] = seasons[x]
  <2>1. CASE ForgetRoot(k)
    <3>1. media[k] \in Row
      BY <1>1 DEF Inv, TypeOK
    <3>2. [media[k] EXCEPT !.root = NoPlace] \in Row
      BY <3>1 DEF Row, Claim
    <3>. QED
      BY <2>1, <3>2, StoreAssumption DEF ForgetRoot, Inv, TypeOK
  <2>2. CASE ForgetSeason(k)
    BY <1>1, <2>2 DEF ForgetSeason, Inv, TypeOK
  <2>. QED
    BY <2>1, <2>2
<1>3. DatabaseEntry(k)' \in Value /\ DatabaseEntry(k) # Absent
  BY <1>1, <1>2, EntryType, StoreAssumption DEF Inv, TypeOK, DatabaseEntry, Value, Row
<1>4. Kept' = [Kept EXCEPT ![k] = DatabaseEntry(k)']
  BY <1>2 DEF Kept, DatabaseEntry
<1>5. Seen = Kept /\ Seen' = Kept'
  BY <1>1, NothingType DEF Seen, Kept, Get
<1>6. Map!Release(k, DatabaseEntry(k)')
  BY <1>1, <1>3, <1>4, <1>5 DEF Map!Release, Seen, Kept
<1>. QED
  BY <1>3, <1>6 DEF Map!Next

LEMMA TransferMaps ==
  ASSUME Inv, Inv', Rebindable \cap Shows = {},
         NEW k \in Keys, NEW l \in Keys, Rebind(k, l)
  PROVE  Map!Next
<1>1. /\ session = "closed" /\ session' = "closed" /\ k # l
      /\ media[k] # Absent /\ media[l] # Absent
      /\ pending = Nothing /\ memory = Nothing /\ deleted = {}
      /\ pending' = Nothing /\ memory' = Nothing /\ deleted' = {}
      /\ seasons[k] = NoPlace /\ seasons[l] = NoPlace
  BY DEF Rebind, overlay, Inv, SessionInv, ShapeInv
<1>2. media[l] \in Row /\ media[k] \in Row
  BY <1>1 DEF Inv, TypeOK
<1>3. /\ media'[k] = Absent
      /\ media'[l] = [media[l] EXCEPT !.root = Takes(@, media[k].root)]
      /\ \A x \in Keys \ {k, l} : media'[x] = media[x] /\ seasons'[x] = seasons[x]
      /\ seasons'[l] = NoPlace
  BY <1>1 DEF Rebind, Inv, TypeOK
<1>4. media'[l] # Absent
  BY <1>2, <1>3, TakesType, StoreAssumption DEF Row
<1>5. DatabaseEntry(l)' = Merge(DatabaseEntry(k), DatabaseEntry(l))
  <2>1. /\ DatabaseEntry(k) = [lib |-> media[k].lib, root |-> media[k].root,
                                 season |-> NoPlace, average |-> media[k].average]
        /\ DatabaseEntry(l) = [lib |-> media[l].lib, root |-> media[l].root,
                                 season |-> NoPlace, average |-> media[l].average]
    BY <1>1 DEF DatabaseEntry
  <2>2. DatabaseEntry(l)' = [lib |-> media'[l].lib, root |-> media'[l].root,
                              season |-> NoPlace, average |-> media'[l].average]
    BY <1>3, <1>4 DEF DatabaseEntry
  <2>3. /\ media'[l].root = Takes(media[l].root, media[k].root)
        /\ media'[l].lib = media[l].lib /\ media'[l].average = media[l].average
    BY <1>2, <1>3 DEF Row
  <2>4. Merge(DatabaseEntry(k), DatabaseEntry(l)) =
          [lib |-> media[l].lib, root |-> Takes(media[l].root, media[k].root),
           season |-> Takes(NoPlace, NoPlace), average |-> media[l].average]
    BY <2>1 DEF Merge
  <2>. QED
    BY <2>2, <2>3, <2>4 DEF Takes
<1>6. DatabaseEntry(k)' = Absent
  BY <1>3 DEF DatabaseEntry
<1>7. \A x \in Keys \ {k, l} : DatabaseEntry(x)' = DatabaseEntry(x)
  BY <1>3 DEF DatabaseEntry
<1>8. Kept' = [Kept EXCEPT ![l] = Merge(Kept[k], @), ![k] = Absent]
  BY <1>1, <1>5, <1>6, <1>7 DEF Kept
<1>9. Seen = Kept /\ Seen' = Kept'
  BY <1>1, NothingType DEF Seen, Kept, Get
<1>10. Kept[k] # Absent /\ Kept[l] # Absent
  BY <1>1, EntryType DEF Kept
<1>11. Map!Transfer(k, l)
  BY <1>1, <1>8, <1>9, <1>10 DEF Map!Transfer, Seen, Kept
<1>. QED
  BY <1>11 DEF Map!Next

LEMMA SessionMaps ==
  ASSUME Inv, \/ \E how \in {"writable", "preview"} : BeginSession(how)
              \/ Close
  PROVE  Map!Next
<1>1. CASE \E how \in {"writable", "preview"} : BeginSession(how)
  <2>. PICK how \in {"writable", "preview"} : BeginSession(how)
    BY <1>1
  <2>1. Seen' = Seen /\ Kept' = Kept
    BY DEF BeginSession, db, overlay, Seen, Kept, Get, DatabaseEntry
  <2>2. Map!Open(how)
    BY <2>1 DEF Map!Open, BeginSession, Seen, Kept
  <2>. QED
    BY <2>2 DEF Map!Next
<1>2. CASE Close
  <2>1. Kept' = Kept /\ Seen' = Kept
    BY <1>2, NothingType DEF Close, db, Seen, Kept, Get, DatabaseEntry
  <2>2. Map!Close
    BY <1>2, <2>1 DEF Map!Close, Close, Seen, Kept
  <2>. QED
    BY <2>2 DEF Map!Next
<1>. QED
  BY <1>1, <1>2

LEMMA Stutters ==
  ASSUME \/ UNCHANGED vars \/ BeginFlush \/ FlushFails
         \/ \E k \in Keys : FlushRow(k)
  PROVE  UNCHANGED Map!vars
<1>1. UNCHANGED <<media, seasons, session, pending, memory, deleted>>
  BY DEF vars, db, overlay, BeginFlush, FlushFails, KeepOverlay, FlushRow
<1>2. Seen' = Seen /\ Kept' = Kept
  BY <1>1 DEF Seen, Kept, Get, DatabaseEntry
<1>. QED
  BY <1>1, <1>2 DEF Map!vars, Seen, Kept

(* The store implements the mapping MediaStateStore promises to be: every  *)
(* step of it is a step of the mapping or invisible to it, failed          *)
(* transactions, kills and previews included.                              *)
THEOREM StoreImplementsMap ==
  ASSUME Rebindable \cap Shows = {}
  PROVE  Spec => Implements
<1>1. Init => Map!Init
  BY NothingType DEF Init, Map!Init, Get, DatabaseEntry
<1>2. Inv /\ Inv' /\ [Next]_vars => [Map!Next]_(Map!vars)
  <2>. SUFFICES ASSUME Inv, Inv', [Next]_vars PROVE Map!Next \/ UNCHANGED Map!vars
    OBVIOUS
  <2>1. CASE UNCHANGED vars
    BY <2>1, Stutters
  <2>2. CASE Next
    BY <2>2, Stutters, SessionMaps, PutMaps, DropMaps, SaveMaps, ReleaseMaps,
       TransferMaps DEF Next
  <2>. QED
    BY <2>1, <2>2
<1>. QED
  BY <1>1, <1>2, Invariance, PTL DEF Spec, Implements, Map!Spec

-----------------------------------------------------------------------------
(* Quarantine                                                              *)

(* What an operation knows of its copy. *)
OperationInv ==
  /\ at \in {"copied", "unlinked", "undo", "undone"} => rec[unit] = "free"
  /\ at \in {"putBack", "emptied", "unrestore", "unrestored", "purging"} =>
       rec[unit] = "active"
  /\ at \in {"copied", "unlinked", "undo", "putBack", "unrestored"} => unit \in stored
  /\ at \in {"copied", "undone", "putBack", "emptied", "unrestore", "unrestored",
             "purging"} => unit \notin taken
  /\ at \in {"putBack", "emptied", "unrestore"} => unit \notin foreign
  /\ at \notin {"purge", "purging"} => due = {}
  /\ at = "purging" => unit \notin due
  /\ \A u \in due : rec[u] = "active" /\ left[u] = 0

(* No file is taken away without a copy, which only somebody else can have *)
(* removed, and every copy but that of the operation agrees with its       *)
(* record.                                                                 *)
RecordInv ==
  /\ taken \subseteq stored \union cut
  /\ \A u \in Units \ cut : at \in {"idle", "purge"} \/ u # unit =>
       /\ u \in taken => rec[u] = "active"
       /\ rec[u] = "active" => u \in stored

QInv == QTypeOK /\ OperationInv /\ RecordInv

-----------------------------------------------------------------------------
LEMMA QInitInv == QInit => QInv
BY QuarantineAssumption DEF QInit, QInv, QTypeOK, Steps, Statuses, OperationInv, RecordInv

(* Moving the file out of its place, and undoing it. *)
LEMMA MovingOut ==
  ASSUME QInv, \/ \E u \in Units : CopyOut(u)
              \/ Unlink \/ UnlinkFails \/ NothingToUnlink \/ Record \/ RecordFails
              \/ CopyBack \/ CopyBackFails \/ DropCopy
  PROVE  QInv'
<1>. USE DEF QInv, QTypeOK, Steps, Statuses, Step, Fault
<1>1. QTypeOK'
  BY QuarantineAssumption DEF CopyOut, Unlink, UnlinkFails, NothingToUnlink, Record,
     RecordFails, AfterRecordFails, CopyBack, CopyBackFails, DropCopy
<1>2. OperationInv' /\ RecordInv'
  <2>. USE DEF OperationInv, RecordInv
  <2>1. CASE \E u \in Units : CopyOut(u)
    BY <2>1 DEF CopyOut
  <2>2. CASE Unlink \/ UnlinkFails \/ NothingToUnlink
    BY <2>2 DEF Unlink, UnlinkFails, NothingToUnlink
  <2>3. CASE Record
    BY <2>3 DEF Record
  <2>4. CASE RecordFails \/ CopyBackFails
    BY <2>4 DEF RecordFails, CopyBackFails, AfterRecordFails
  <2>5. CASE CopyBack
    BY <2>5 DEF CopyBack
  <2>6. CASE DropCopy
    BY <2>6 DEF DropCopy
  <2>. QED
    BY <2>1, <2>2, <2>3, <2>4, <2>5, <2>6
<1>. QED
  BY <1>1, <1>2

(* Putting it back, and undoing that. *)
LEMMA PuttingBack ==
  ASSUME QInv, \/ \E u \in Units : Restore(u)
              \/ Empty \/ Restored \/ RestoreFails
              \/ Unrestore \/ UnrestoreFails \/ TakeAway \/ TakeAwayFails
  PROVE  QInv'
<1>. USE DEF QInv, QTypeOK, Steps, Statuses, Step, Fault
<1>1. QTypeOK'
  <2>1. CASE (\E u \in Units : Restore(u)) \/ Empty \/ Restored \/ RestoreFails
    BY <2>1, QuarantineAssumption DEF Restore, Empty, Restored, RestoreFails
  <2>2. CASE Unrestore
    <3>1. unit \notin foreign
      BY <2>2 DEF Unrestore, OperationInv
    <3>. QED
      BY <2>2, <3>1 DEF Unrestore
  <2>3. CASE UnrestoreFails \/ TakeAway \/ TakeAwayFails
    BY <2>3, QuarantineAssumption DEF UnrestoreFails, TakeAway, TakeAwayFails
  <2>. QED
    BY <2>1, <2>2, <2>3
<1>2. OperationInv' /\ RecordInv'
  <2>. USE DEF OperationInv, RecordInv
  <2>1. CASE \E u \in Units : Restore(u)
    BY <2>1 DEF Restore
  <2>2. CASE Empty
    BY <2>2 DEF Empty
  <2>3. CASE Restored \/ RestoreFails
    BY <2>3 DEF Restored, RestoreFails
  <2>4. CASE Unrestore \/ UnrestoreFails
    BY <2>4 DEF Unrestore, UnrestoreFails
  <2>5. CASE TakeAway \/ TakeAwayFails
    BY <2>5 DEF TakeAway, TakeAwayFails
  <2>. QED
    BY <2>1, <2>2, <2>3, <2>4, <2>5
<1>. QED
  BY <1>1, <1>2

(* Purging, record by record. *)
LEMMA Purging ==
  ASSUME QInv, \/ BeginPurge \/ \E u \in Units : Missing(u) \/ Protect(u) \/ Purge(u)
              \/ Purged \/ PurgeFails \/ PurgeEnds
  PROVE  QInv'
<1>. USE DEF QInv, QTypeOK, Steps, Statuses, Step, Fault
<1>1. QTypeOK'
  BY QuarantineAssumption DEF BeginPurge, Missing, Protect, Purge, Purged, PurgeFails,
     PurgeEnds
<1>2. OperationInv' /\ RecordInv'
  <2>. USE DEF OperationInv, RecordInv
  <2>1. CASE BeginPurge \/ PurgeEnds
    BY <2>1 DEF BeginPurge, PurgeEnds, Expired
  <2>2. ASSUME NEW u \in Units, Missing(u) PROVE OperationInv' /\ RecordInv'
    BY <2>2 DEF Missing, IsMissing
  <2>3. ASSUME NEW u \in Units, Protect(u) \/ Purge(u)
        PROVE  OperationInv' /\ RecordInv'
    BY <2>3 DEF Protect, Purge
  <2>4. CASE Purged
    BY <2>4 DEF Purged
  <2>5. CASE PurgeFails
    BY <2>5 DEF PurgeFails
  <2>. QED
    BY <2>1, <2>2, <2>3, <2>4, <2>5
<1>. QED
  BY <1>1, <1>2

(* What happens outside of operations. *)
LEMMA Rest ==
  ASSUME QInv, \/ \E u \in Units : Disturb(u) \/ Mend(u)
              \/ Kill \/ Build \/ UserChanges \/ Tick \/ UNCHANGED qvars
  PROVE  QInv'
<1>. USE DEF QInv, QTypeOK, Steps, Statuses, Step, Fault, Sooner
<1>1. QTypeOK'
  BY QuarantineAssumption DEF Disturb, Mend, Kill, Build, UserChanges, Tick, qvars
<1>2. OperationInv' /\ RecordInv'
  <2>. USE DEF OperationInv, RecordInv
  <2>1. CASE \E u \in Units : Disturb(u) \/ Mend(u)
    BY <2>1 DEF Disturb, Mend
  <2>2. CASE Kill
    BY <2>2 DEF Kill
  <2>3. CASE Build \/ UserChanges \/ Tick \/ UNCHANGED qvars
    BY <2>3 DEF Build, UserChanges, Tick, qvars
  <2>. QED
    BY <2>1, <2>2, <2>3
<1>. QED
  BY <1>1, <1>2

LEMMA QInvariance == QSpec => []QInv
<1>1. QInv /\ [QNext]_qvars => QInv'
  BY MovingOut, PuttingBack, Purging, Rest DEF QNext, InOperation
<1>. QED
  BY <1>1, QInitInv, PTL DEF QSpec

-----------------------------------------------------------------------------
(* The operations of quarantine.py keep every variable in its type. *)
THEOREM QTypeCorrect == QSpec => []QTypeOK
BY QInvariance, PTL DEF QInv

(* Between operations, a file that was taken away can be restored, or its  *)
(* operation was cut off.                                                  *)
THEOREM TakenIsRestorable == QSpec => []Restorable
<1>1. QInv => Restorable
  BY DEF QInv, RecordInv, Restorable
<1>. QED
  BY <1>1, QInvariance, PTL

(* No step of any operation destroys managed artwork or the copy of it. *)
THEOREM OperationsDestroyNothing == QSpec => NothingDestroyed
<1>1. ASSUME QInv, [QNext]_qvars, at' # at
      PROVE  /\ file = "art" /\ file' = "none" =>
                  unit' = unit /\ unit \in stored \intersect stored'
             /\ \A u \in (stored \ stored') \intersect taken :
                  rec[u] = "active" /\ left[u] = 0
  <2>. USE DEF Step
  <2>1. CASE Unlink \/ TakeAway \/ Empty \/ DropCopy
    BY <1>1, <2>1 DEF QInv, OperationInv, Unlink, TakeAway, Empty, DropCopy
  <2>2. CASE \E u \in Units : Purge(u)
    BY <1>1, <2>2 DEF QInv, OperationInv, Purge
  <2>3. CASE \E u \in Units : \/ CopyOut(u) \/ Restore(u) \/ Missing(u) \/ Protect(u)
                             \/ Disturb(u) \/ Mend(u)
    BY <1>1, <2>3 DEF CopyOut, Restore, Missing, Protect, Disturb, Mend
  <2>4. CASE CopyBack \/ Unrestore
    BY <2>4 DEF CopyBack, Unrestore
  <2>5. CASE UnlinkFails \/ NothingToUnlink \/ Record \/ RecordFails \/ CopyBackFails
    BY <2>5 DEF UnlinkFails, NothingToUnlink, Record, RecordFails, CopyBackFails
  <2>6. CASE Restored \/ RestoreFails \/ UnrestoreFails \/ TakeAwayFails
    BY <2>6 DEF Restored, RestoreFails, UnrestoreFails, TakeAwayFails
  <2>7. CASE BeginPurge \/ Purged \/ PurgeFails \/ PurgeEnds \/ Kill
    BY <2>7 DEF BeginPurge, Purged, PurgeFails, PurgeEnds, Kill
  <2>8. CASE Build \/ UserChanges \/ Tick \/ UNCHANGED qvars
    BY <1>1, <2>8 DEF Build, UserChanges, Tick, qvars
  <2>. QED
    BY <1>1, <2>1, <2>2, <2>3, <2>4, <2>5, <2>6, <2>7, <2>8 DEF QNext, InOperation
<1>. QED
  BY <1>1, QInvariance, PTL DEF QSpec, NothingDestroyed
=============================================================================
