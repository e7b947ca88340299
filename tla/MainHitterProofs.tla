-------------------------- MODULE MainHitterProofs --------------------------
(***************************************************************************)
(* Theorems about MainHitter for every table size, hash family, set of     *)
(* packets, threshold and number of trace files.                           *)
(***************************************************************************)
EXTENDS MainHitter, FiniteSums

(* The sketch of the driver, with the lemmas about it. *)
Table == INSTANCE ChainSketchProofs WITH Vals <- {1}, MaxArrivals <- 0

LEMMA SameFinite ==
  /\ \A S : Table!IsFiniteSet(S) <=> IsFiniteSet(S)
  /\ \A S : Chain!IsFiniteSet(S) <=> IsFiniteSet(S)
  /\ \A S : Table!Cardinality(S) = Cardinality(S)
  BY DEF Table!IsFiniteSet, Chain!IsFiniteSet, IsFiniteSet, Table!Cardinality, Cardinality

LEMMA TableAssumption == Table!TableAssumption
  BY HitterAssumption, SameFinite
     DEF Chain!TableAssumption, Table!TableAssumption, Table!Rows, Table!Cols, Chain!Rows, Chain!Cols

LEMMA SameTable ==
  /\ Table!Buckets = Chain!Buckets
  /\ Table!TypeOK <=> Chain!TypeOK
  /\ Table!Init <=> Chain!Init
  /\ Table!Reset <=> Chain!Reset
  BY DEF Table!Buckets, Chain!Buckets, Table!Rows, Chain!Rows, Table!Cols, Chain!Cols,
         Table!TypeOK, Chain!TypeOK, Table!NoLoc, Chain!NoLoc, Table!Empty, Chain!Empty,
         Table!Init, Chain!Init, Table!Reset, Chain!Reset

LEMMA SameUpdate ==
  ASSUME NEW x \in Keys
  PROVE  Table!Update(x, 1) <=> Chain!Update(x, 1)
  BY DEF Table!Update, Table!Hit, Table!Win, Table!Lose, Table!NoVictim, Table!Replace,
         Table!ReplaceAlone, Table!ReplaceMerge, Table!ReplaceSwap, Table!ReplaceRelocate,
         Table!ReplaceExhaust, Table!Walks, Table!Taken, Table!Reached, Table!Passes, Table!Tries,
         Table!Left, Table!Carried, Table!Absorbs, Table!Alone, Table!Cell, Table!Scanned,
         Table!Lightest, Table!Stops, Table!Probe, Table!Rows, Table!NoLoc,
         Chain!Update, Chain!Hit, Chain!Win, Chain!Lose, Chain!NoVictim, Chain!Replace,
         Chain!ReplaceAlone, Chain!ReplaceMerge, Chain!ReplaceSwap, Chain!ReplaceRelocate,
         Chain!ReplaceExhaust, Chain!Walks, Chain!Taken, Chain!Reached, Chain!Passes, Chain!Tries,
         Chain!Left, Chain!Carried, Chain!Absorbs, Chain!Alone, Chain!Cell, Chain!Scanned,
         Chain!Lightest, Chain!Stops, Chain!Probe, Chain!Rows, Chain!NoLoc

----------------------------------------------------------------------------
(* Types *)

IInv == TypeOK /\ Table!IInv

LEMMA EstIsHeld ==
  ASSUME NEW t, NEW x
  PROVE  /\ Chain!EstIn(t, x) = Held(t, Chain!Buckets, x)
         /\ Table!EstIn(t, x) = Chain!EstIn(t, x)
<1>1. Chain!EstIn(t, x) = Held(t, Chain!Buckets, x)
  BY DEF Chain!EstIn, Held, Chain!MapThenSumSet, Chain!MapThenFoldSet, MapThenSumSet, MapThenFoldSet
<1>2. Table!EstIn(t, x) = Held(t, Table!Buckets, x)
  BY DEF Table!EstIn, Held, Table!MapThenSumSet, Table!MapThenFoldSet, MapThenSumSet, MapThenFoldSet
<1> QED
  BY <1>1, <1>2, SameTable

LEMMA BucketsFinite == IsFiniteSet(Chain!Buckets)
<1>1. IsFiniteSet(Chain!Rows) /\ IsFiniteSet(Chain!Cols)
  BY HitterAssumption, FS_Interval DEF Chain!TableAssumption, Chain!Rows, Chain!Cols
<1> QED
  BY <1>1, FS_Product DEF Chain!Buckets

LEMMA EstNat ==
  ASSUME TypeOK, NEW x
  PROVE  Chain!EstIn(counts, x) \in Nat
<1>1. IsTable(counts, Chain!Buckets)
  BY DEF TypeOK, Chain!TypeOK, IsTable
<1> QED
  BY <1>1, BucketsFinite, EstIsHeld, HeldNat

LEMMA TableKeeps ==
  ASSUME IInv, Chain!Reset \/ \E x \in Keys : Chain!Update(x, 1)
  PROVE  Chain!TypeOK' /\ Table!IInv'
<1>1. Table!IInv'
  <2>1. CASE Chain!Reset
    BY <2>1, SameTable, TableAssumption, Table!ResetIInv DEF IInv
  <2>2. ASSUME NEW x \in Keys, Chain!Update(x, 1)
        PROVE  Table!IInv'
    <3>1. Table!Update(x, 1) /\ 1 \in {1} /\ Table!IInv
      BY <2>2, SameUpdate DEF IInv
    <3> QED
      BY <3>1, TableAssumption, Table!UpdateIInv
  <2> QED
    BY <2>1, <2>2
<1>2. Chain!TypeOK'
  <2>1. Table!TypeOK'
    BY <1>1 DEF Table!IInv
  <2> QED
    BY <2>1 DEF Table!TypeOK, Chain!TypeOK, Table!Buckets, Chain!Buckets, Table!Rows, Chain!Rows,
                Table!Cols, Chain!Cols, Table!NoLoc, Chain!NoLoc
<1> QED
  BY <1>1, <1>2

LEMMA TableStays ==
  ASSUME IInv, UNCHANGED table
  PROVE  Chain!TypeOK' /\ Table!IInv'
<1>1. Table!IInv /\ UNCHANGED Table!vars
  BY DEF IInv, table, Table!vars
<1>2. Table!IInv'
  BY <1>1, TableAssumption, Table!StepIInv
<1>3. Chain!TypeOK'
  BY DEF IInv, TypeOK, Chain!TypeOK, Chain!Buckets, Chain!Rows, Chain!Cols, Chain!NoLoc, table
<1> QED
  BY <1>2, <1>3

(* The conjuncts of TypeOK about the driver itself. *)
DriverTypeOK ==
  /\ tuples \in Seq(Keys) /\ cur \in 0 .. Len(tuples) + 1
  /\ pc \in {"open", "read", "count", "feed", "exit"}
  /\ packets \in 0 .. MaxPackets
  /\ ground \in [Keys -> Nat]
  /\ numfile \in 0 .. MaxFiles
  /\ pc \in {"read", "count", "feed"} => numfile < MaxFiles
  /\ results \subseteq Keys \X Nat

LEMMA QueryIn ==
  ASSUME TypeOK, NEW x \in Chain!Query(counts, Threshold)
  PROVE  x \in Keys
  BY DEF Chain!Query, Chain!Query2, TypeOK, Chain!TypeOK

LEMMA DriverStep ==
  ASSUME TypeOK, DriverTypeOK, [Next]_vars
  PROVE  DriverTypeOK'
<1> USE DEF DriverTypeOK
<1>0. MaxFiles \in Nat /\ MaxPackets \in Nat /\ ZeroKey \in Keys /\ Len(tuples) \in Nat
  BY HitterAssumption DEF Chain!TableAssumption
<1>1. CASE Open
  BY <1>0, <1>1 DEF Open, Trace!New
<1>2. CASE OpenFails
  BY <1>2 DEF OpenFails, trace
<1>3. ASSUME NEW p \in Packets, Read(p)
      PROVE  DriverTypeOK'
  <2>1. tuples' \in Seq(Keys) /\ Len(tuples') >= Len(tuples) /\ Len(tuples') \in Nat /\ cur' = cur
    BY <1>0, <1>3, HitterAssumption DEF Read, Trace!Store
  <2>2. packets' \in 0 .. MaxPackets /\ UNCHANGED <<pc, ground, numfile, results>>
    BY <1>0, <1>3 DEF Read
  <2> QED
    BY <1>0, <2>1, <2>2
<1>4. CASE ReadDone
  BY <1>0, <1>4 DEF ReadDone, Trace!Reset
<1>5. CASE Count
  BY <1>0, <1>5 DEF Count, Trace!GetNext, Trace!HasNext
<1>6. CASE CountDone
  BY <1>0, <1>6 DEF CountDone, Trace!Reset
<1>7. CASE Feed
  BY <1>0, <1>7 DEF Feed, Trace!GetNext, Trace!HasNext
<1>8. CASE FeedDone
  <2>1. /\ results' = {<<x, Chain!EstIn(counts, x)>> : x \in Chain!Query(counts, Threshold)}
        /\ numfile' = numfile + 1 /\ pc' = "open" /\ pc = "feed"
        /\ UNCHANGED <<tuples, cur, packets, ground>>
    BY <1>8 DEF FeedDone, trace
  <2>2. results' \subseteq Keys \X Nat
    BY <2>1, QueryIn, EstNat
  <2> QED
    BY <1>0, <2>1, <2>2
<1>9. CASE UNCHANGED vars
  BY <1>9 DEF vars, trace
<1> QED
  BY <1>1, <1>2, <1>3, <1>4, <1>5, <1>6, <1>7, <1>8, <1>9 DEF Next

LEMMA StepIInv == IInv /\ DriverTypeOK /\ [Next]_vars => (IInv /\ DriverTypeOK)'
<1> SUFFICES ASSUME IInv, DriverTypeOK, [Next]_vars PROVE (IInv /\ DriverTypeOK)'
  OBVIOUS
<1>1. DriverTypeOK'
  BY DriverStep DEF IInv
<1>2. UNCHANGED table \/ Chain!Reset \/ \E x \in Keys : Chain!Update(x, 1)
  BY DEF Next, Open, OpenFails, Read, ReadDone, Count, CountDone, Feed, FeedDone, vars
<1>3. Chain!TypeOK' /\ Table!IInv'
  BY <1>2, TableKeeps, TableStays
<1> QED
  BY <1>1, <1>3 DEF IInv, TypeOK, DriverTypeOK

LEMMA InitIInv == Init => IInv /\ DriverTypeOK
<1> SUFFICES ASSUME Init PROVE IInv /\ DriverTypeOK
  OBVIOUS
<1>1. Table!IInv
  BY SameTable, TableAssumption, Table!InitIInv DEF Init
<1>2. Chain!TypeOK
  BY <1>1, SameTable DEF Table!IInv
<1>3. DriverTypeOK
  BY HitterAssumption DEF Init, Trace!Init, DriverTypeOK
<1> QED
  BY <1>1, <1>2, <1>3 DEF IInv, TypeOK, DriverTypeOK

(* Whatever the packets and however many files, the reader's position is   *)
(* at most one behind the last tuple, and what is reported are counts of   *)
(* flows.                                                                  *)
THEOREM TypeCorrect == Spec => []TypeOK
<1>1. IInv => TypeOK
  BY DEF IInv
<1> QED
  BY <1>1, InitIInv, StepIInv, PTL DEF Spec

----------------------------------------------------------------------------
(* What the two readings of a file hand out *)

(* The tuple at place k; behind the last one is the all-zero one.          *)
Tuple(k) == IF k < Len(tuples) THEN tuples[k + 1] ELSE ZeroKey

(* How often flow x is among the first n tuples.                           *)
Places(x, n) == {k \in 0 .. n - 1 : Tuple(k) = x}
Handed(x, n) == Cardinality(Places(x, n))

LEMMA PlacesFinite ==
  ASSUME NEW n \in Nat, NEW x
  PROVE  IsFiniteSet(Places(x, n)) /\ Handed(x, n) \in Nat
<1>1. 0 \in Int /\ n - 1 \in Int
  OBVIOUS
<1>2. IsFiniteSet(0 .. n - 1)
  BY <1>1, FS_Interval, Zenon
<1>3. IsFiniteSet(Places(x, n))
  BY <1>2, FS_Subset DEF Places
<1> QED
  BY <1>3, FS_CardinalityType DEF Handed

LEMMA HandedNone ==
  ASSUME NEW x
  PROVE  Handed(x, 0) = 0
<1>1. Places(x, 0) = {}
  BY DEF Places
<1> QED
  BY <1>1, FS_EmptySet DEF Handed

LEMMA HandedNext ==
  ASSUME NEW n \in Nat, NEW x
  PROVE  Handed(x, n + 1) = Handed(x, n) + IF Tuple(n) = x THEN 1 ELSE 0
<1>1. IsFiniteSet(Places(x, n)) /\ n \notin Places(x, n) /\ Handed(x, n) \in Nat
  BY PlacesFinite DEF Places
<1>2. CASE Tuple(n) = x
  <2>1. Places(x, n + 1) = Places(x, n) \cup {n}
    BY <1>2 DEF Places
  <2>2. Cardinality(Places(x, n) \cup {n}) = Cardinality(Places(x, n)) + 1
    BY <1>1, FS_AddElement
  <2> QED
    BY <1>2, <2>1, <2>2 DEF Handed
<1>3. CASE Tuple(n) # x
  <2>1. Places(x, n + 1) = Places(x, n)
    BY <1>3 DEF Places
  <2> QED
    BY <1>1, <1>3, <2>1 DEF Handed
<1> QED
  BY <1>2, <1>3

LEMMA HandedGrows ==
  ASSUME NEW n \in Nat, NEW m \in 0 .. n, NEW x
  PROVE  Handed(x, m) <= Handed(x, n)
<1>1. Places(x, m) \in SUBSET Places(x, n)
  BY DEF Places
<1> QED
  BY <1>1, PlacesFinite, FS_Subset DEF Handed

(* GetNext hands out the tuple at cur.                                     *)
LEMMA GetNextIs ==
  ASSUME DriverTypeOK, NEW x, Trace!GetNext(x)
  PROVE  /\ x = Tuple(cur) /\ cur' = cur + 1 /\ tuples' = tuples
         /\ cur \in Nat /\ cur <= Len(tuples)
  BY DEF DriverTypeOK, Trace!GetNext, Trace!HasNext, Tuple

(* The first reading counts all tuples, the second feeds at most as many   *)
(* of each flow.                                                           *)
ReadingInv ==
  /\ pc = "read" => \A x \in Keys : ground[x] = 0
  /\ pc = "count" => \A x \in Keys : ground[x] = Handed(x, cur)
  /\ pc = "feed" => \A x \in Keys : /\ ground[x] = Handed(x, Len(tuples) + 1)
                                   /\ recorded[x] <= Handed(x, cur)
  /\ Evaluated => ground[ZeroKey] > 0

FilesInv == IInv /\ DriverTypeOK /\ ReadingInv

LEMMA ZeroCounted ==
  ASSUME DriverTypeOK
  PROVE  Handed(ZeroKey, Len(tuples) + 1) > 0
<1>1. Len(tuples) \in Nat /\ Tuple(Len(tuples)) = ZeroKey
  BY DEF DriverTypeOK, Tuple
<1>2. Handed(ZeroKey, Len(tuples)) \in Nat
  BY <1>1, PlacesFinite
<1> QED
  BY <1>1, <1>2, HandedNext

LEMMA SamePlaces ==
  ASSUME tuples' = tuples
  PROVE  /\ \A k : Tuple(k)' = Tuple(k)
         /\ \A x, n : Handed(x, n)' = Handed(x, n)
<1>1. \A k : Tuple(k)' = Tuple(k)
  BY DEF Tuple
<1>2. \A x, n : Places(x, n)' = Places(x, n)
  BY <1>1 DEF Places
<1> QED
  BY <1>1, <1>2 DEF Handed

(* An update records one packet of its flow, or none.                      *)
LEMMA UpdateAdds ==
  ASSUME TypeOK, NEW x \in Keys, Chain!Update(x, 1), NEW y \in Keys
  PROVE  /\ recorded'[y] \in {recorded[y], recorded[y] + IF y = x THEN 1 ELSE 0}
         /\ recorded[y] \in Nat
  BY DEF TypeOK, Chain!TypeOK, Chain!Update, Chain!Hit, Chain!Win, Chain!Lose, Chain!NoVictim

LEMMA FeedReads ==
  ASSUME FilesInv, Feed
  PROVE  ReadingInv'
<1>1. PICK x \in Keys : Trace!GetNext(x) /\ Chain!Update(x, 1)
  BY DEF Feed
<1>2. /\ x = Tuple(cur) /\ cur' = cur + 1 /\ tuples' = tuples
      /\ cur \in Nat /\ cur <= Len(tuples)
  BY <1>1, GetNextIs DEF FilesInv
<1>3. pc = "feed" /\ pc' = "feed" /\ ground' = ground
  BY DEF Feed
<1>4. ASSUME NEW y \in Keys
      PROVE  recorded'[y] <= Handed(y, cur + 1)
  <2>1. /\ recorded'[y] \in {recorded[y], recorded[y] + IF y = x THEN 1 ELSE 0}
        /\ recorded[y] \in Nat
    BY <1>1, UpdateAdds DEF FilesInv, IInv
  <2>2. recorded[y] <= Handed(y, cur)
    BY <1>3 DEF FilesInv, ReadingInv
  <2>3. Handed(y, cur + 1) = Handed(y, cur) + IF x = y THEN 1 ELSE 0
    BY <1>2, HandedNext
  <2>4. Handed(y, cur) \in Nat
    BY <1>2, PlacesFinite
  <2> QED
    BY <2>1, <2>2, <2>3, <2>4
<1> QED
  BY <1>2, <1>3, <1>4, SamePlaces DEF FilesInv, ReadingInv, Evaluated

LEMMA StepReading == FilesInv /\ [Next]_vars => ReadingInv'
<1> SUFFICES ASSUME FilesInv, [Next]_vars PROVE ReadingInv'
  OBVIOUS
<1>1. CASE Open
  BY <1>1 DEF Open, ReadingInv, Evaluated
<1>2. CASE OpenFails
  BY <1>2 DEF OpenFails, ReadingInv, Evaluated
<1>3. ASSUME NEW p \in Packets, Read(p)
      PROVE  ReadingInv'
  BY <1>3 DEF Read, FilesInv, ReadingInv, Evaluated
<1>4. CASE ReadDone
  <2>1. pc = "read" /\ pc' = "count" /\ cur' = 0 /\ tuples' = tuples /\ ground' = ground
    BY <1>4 DEF ReadDone, Trace!Reset
  <2>2. \A x \in Keys : ground[x] = Handed(x, 0)
    BY <2>1, HandedNone DEF FilesInv, ReadingInv
  <2> QED
    BY <2>1, <2>2, SamePlaces DEF ReadingInv, Evaluated
<1>5. CASE Count
  <2>1. PICK x \in Keys : Trace!GetNext(x) /\ ground' = [ground EXCEPT ![x] = @ + 1]
    BY <1>5 DEF Count
  <2>2. pc = "count" /\ pc' = "count"
    BY <1>5 DEF Count
  <2>3. x = Tuple(cur) /\ cur' = cur + 1 /\ tuples' = tuples /\ cur \in Nat
    BY <2>1, GetNextIs DEF FilesInv
  <2>4. ASSUME NEW y \in Keys
        PROVE  ground'[y] = Handed(y, cur + 1)
    <3>1. ground \in [Keys -> Nat] /\ ground[y] = Handed(y, cur)
      BY <2>2 DEF FilesInv, DriverTypeOK, ReadingInv
    <3>2. Handed(y, cur + 1) = Handed(y, cur) + IF x = y THEN 1 ELSE 0
      BY <2>3, HandedNext
    <3> QED
      BY <2>1, <3>1, <3>2
  <2> QED
    BY <2>2, <2>3, <2>4, SamePlaces DEF ReadingInv, Evaluated
<1>6. CASE CountDone
  <2>1. /\ pc = "count" /\ pc' = "feed" /\ cur' = 0 /\ tuples' = tuples /\ ground' = ground
        /\ cur = Len(tuples) + 1
    <3>1. pc = "count" /\ pc' = "feed" /\ cur' = 0 /\ tuples' = tuples /\ ground' = ground
      BY <1>6 DEF CountDone, Trace!Reset
    <3>2. cur = Len(tuples) + 1
      BY <1>6 DEF CountDone, Trace!HasNext, FilesInv, DriverTypeOK
    <3> QED
      BY <3>1, <3>2
  <2>2. \A x \in Keys : recorded'[x] = 0
    BY <1>6 DEF CountDone, Chain!Reset
  <2>3. \A x \in Keys : ground[x] = Handed(x, Len(tuples) + 1)
    BY <2>1 DEF FilesInv, ReadingInv
  <2>4. \A x \in Keys : recorded'[x] <= Handed(x, 0)
    BY <2>2, HandedNone
  <2> QED
    BY <2>1, <2>3, <2>4, SamePlaces DEF ReadingInv, Evaluated
<1>7. CASE Feed
  BY <1>7, FeedReads
<1>8. CASE FeedDone
  <2>1. pc = "feed" /\ pc' = "open" /\ ground' = ground
    BY <1>8 DEF FeedDone
  <2>2. ground[ZeroKey] > 0
    BY <2>1, ZeroCounted, HitterAssumption DEF Chain!TableAssumption, FilesInv, ReadingInv
  <2> QED
    BY <2>1, <2>2 DEF ReadingInv
<1>9. CASE UNCHANGED vars
  BY <1>9, SamePlaces DEF vars, table, trace, FilesInv, ReadingInv, Evaluated
<1> QED
  BY <1>1, <1>2, <1>3, <1>4, <1>5, <1>6, <1>7, <1>8, <1>9 DEF Next

LEMMA StepFiles == FilesInv /\ [Next]_vars => FilesInv'
  BY StepIInv, StepReading DEF FilesInv

LEMMA InitFiles == Init => FilesInv
  BY InitIInv DEF Init, FilesInv, ReadingInv, Evaluated

----------------------------------------------------------------------------
(* Files of few flows *)

Sparse == Cardinality(FlowsOf) <= Depth

(* The keys of the table were recorded since it was cleared, or are those  *)
(* of unused buckets.                                                      *)
KeysKnown == \A b \in Chain!Buckets : counts[b].key = ZeroKey \/ recorded[counts[b].key] > 0

(* Nothing of a sparse file is turned away while it is fed.                *)
AllRecorded == pc = "feed" /\ Sparse => \A x \in Keys : recorded[x] = Handed(x, cur)

SparseInv == Table!Placed /\ KeysKnown /\ AllRecorded /\ SparseReport

LEMMA TablePlaced ==
  ASSUME IInv, Table!Placed,
         UNCHANGED table \/ Chain!Reset \/ \E x \in Keys : Chain!Update(x, 1)
  PROVE  Table!Placed'
<1>1. CASE UNCHANGED table
  <2>1. UNCHANGED Table!vars
    BY <1>1 DEF table, Table!vars
  <2> QED
    BY <2>1, TableAssumption, Table!StepPlaced DEF IInv
<1>2. CASE Chain!Reset
  <2>1. Table!Next
    BY <1>2, SameTable DEF Table!Next
  <2> QED
    BY <2>1, TableAssumption, Table!StepPlaced DEF IInv
<1>3. ASSUME NEW x \in Keys, Chain!Update(x, 1)
      PROVE  Table!Placed'
  <2>1. Table!Update(x, 1) /\ 1 \in {1} /\ Table!IInv
    BY <1>3, SameUpdate DEF IInv
  <2> QED
    BY <2>1, TableAssumption, Table!UpdatePlaced
<1> QED
  BY <1>1, <1>2, <1>3

LEMMA TableKnown ==
  ASSUME IInv, KeysKnown,
         UNCHANGED table \/ Chain!Reset \/ \E x \in Keys : Chain!Update(x, 1)
  PROVE  KeysKnown'
<1>1. CASE UNCHANGED table
  BY <1>1 DEF table, KeysKnown, Chain!Buckets, Chain!Rows, Chain!Cols
<1>2. CASE Chain!Reset
  BY <1>2 DEF Chain!Reset, Chain!Empty, KeysKnown, Chain!Buckets, Chain!Rows, Chain!Cols
<1>3. ASSUME NEW x \in Keys, Chain!Update(x, 1), NEW b \in Chain!Buckets
      PROVE  counts'[b].key = ZeroKey \/ recorded'[counts'[b].key] > 0
  <2>1. /\ \A y \in Keys : recorded[y] \in Nat /\ (recorded[y] > 0 => recorded'[y] > 0)
        /\ \A e \in Chain!Buckets : counts[e].key \in Keys
    <3>1. ASSUME NEW y \in Keys
          PROVE  recorded[y] \in Nat /\ (recorded[y] > 0 => recorded'[y] > 0)
      <4>1. /\ recorded'[y] \in {recorded[y], recorded[y] + IF y = x THEN 1 ELSE 0}
            /\ recorded[y] \in Nat
        BY <1>3, UpdateAdds DEF IInv
      <4> QED
        BY <4>1
    <3>2. \A e \in Chain!Buckets : counts[e].key \in Keys
      BY DEF IInv, TypeOK, Chain!TypeOK
    <3> QED
      BY <3>1, <3>2
  <2>2. Table!Update(x, 1) /\ 1 \in {1} /\ Table!TypeOK /\ b \in Table!Buckets
    BY <1>3, SameUpdate, SameTable DEF IInv, Table!IInv
  <2>3. CASE Table!Hit(x, 1) \/ Table!Win(x, 1)
    <3>1. counts'[b].key = x \/ \E e \in Table!Buckets : counts'[b].key = counts[e].key
      BY <2>2, <2>3, TableAssumption, Table!UpdateKeys
    <3>2. recorded'[x] > 0
      BY <2>1, <2>3 DEF Table!Hit, Table!Win, IInv, TypeOK, Chain!TypeOK
    <3> QED
      BY <2>1, <3>1, <3>2, SameTable DEF KeysKnown
  <2>4. CASE Table!Lose(x, 1) \/ Table!NoVictim(x, 1)
    BY <1>3, <2>4 DEF Table!Lose, Table!NoVictim, KeysKnown
  <2> QED
    BY <2>2, <2>3, <2>4 DEF Table!Update
<1> QED
  BY <1>1, <1>2, <1>3 DEF KeysKnown, Chain!Buckets, Chain!Rows, Chain!Cols

(* A tuple of a sparse file is recorded.                                   *)
LEMMA FeedRecords ==
  ASSUME FilesInv, SparseInv, Feed
  PROVE  AllRecorded'
<1>1. PICK x \in Keys : Trace!GetNext(x) /\ Chain!Update(x, 1)
  BY DEF Feed
<1>2. /\ x = Tuple(cur) /\ cur' = cur + 1 /\ tuples' = tuples
      /\ cur \in Nat /\ cur <= Len(tuples)
  BY <1>1, GetNextIs DEF FilesInv
<1>3. pc = "feed" /\ pc' = "feed" /\ ground' = ground
  BY DEF Feed
<1>4. Sparse' <=> Sparse
  BY <1>3 DEF Sparse, FlowsOf
<1>5. ASSUME Sparse, NEW y \in Keys
      PROVE  recorded'[y] = Handed(y, cur + 1)
  <2>1. \A u \in Keys : recorded[u] = Handed(u, cur) /\ ground[u] = Handed(u, Len(tuples) + 1)
    BY <1>3, <1>5 DEF SparseInv, AllRecorded, FilesInv, ReadingInv
  <2>2. \A u \in Keys : /\ Handed(u, cur + 1) = Handed(u, cur) + IF x = u THEN 1 ELSE 0
                        /\ Handed(u, cur + 1) <= Handed(u, Len(tuples) + 1)
                        /\ Handed(u, cur) \in Nat /\ Handed(u, Len(tuples) + 1) \in Nat
    <3> SUFFICES ASSUME NEW u \in Keys
                 PROVE  /\ Handed(u, cur + 1) = Handed(u, cur) + IF x = u THEN 1 ELSE 0
                        /\ Handed(u, cur + 1) <= Handed(u, Len(tuples) + 1)
                        /\ Handed(u, cur) \in Nat /\ Handed(u, Len(tuples) + 1) \in Nat
      OBVIOUS
    <3>1. Len(tuples) + 1 \in Nat /\ cur + 1 \in 0 .. Len(tuples) + 1
      BY <1>2 DEF FilesInv, DriverTypeOK
    <3> QED
      BY <1>2, <3>1, HandedNext, HandedGrows, PlacesFinite
  <2> DEFINE R == Table!FlowsOf(recorded) \cup {x}
  <2>3. R \in SUBSET FlowsOf
    BY <2>1, <2>2 DEF Table!FlowsOf, FlowsOf
  <2>4. IsFiniteSet(FlowsOf)
    BY HitterAssumption, SameFinite, FS_Subset DEF Chain!TableAssumption, FlowsOf
  <2>5. Table!Cardinality(R) <= Depth
    <3> HIDE DEF R
    <3>1. Cardinality(R) <= Cardinality(FlowsOf) /\ IsFiniteSet(R)
      BY <2>3, <2>4, FS_Subset
    <3>2. Cardinality(R) \in Nat /\ Cardinality(FlowsOf) \in Nat
      BY <2>4, <3>1, FS_CardinalityType
    <3>3. Cardinality(R) <= Depth
      BY <1>5, <3>1, <3>2, HitterAssumption DEF Sparse, Chain!TableAssumption
    <3> QED
      BY <3>3, SameFinite
  <2>6. Table!Hit(x, 1)
    <3>1. Table!Update(x, 1) /\ 1 \in {1} /\ Table!IInv /\ Table!Placed
      BY <1>1, SameUpdate DEF FilesInv, IInv, SparseInv
    <3> QED
      BY <2>5, <3>1, TableAssumption, Table!FewHit
  <2>7. recorded' = [recorded EXCEPT ![x] = @ + 1] /\ recorded \in [Keys -> Nat]
    BY <2>6 DEF Table!Hit, FilesInv, IInv, TypeOK, Chain!TypeOK
  <2> QED
    BY <2>1, <2>2, <2>7
<1> QED
  BY <1>2, <1>3, <1>4, <1>5, SamePlaces DEF AllRecorded

(* What a sparse file reports.                                             *)
LEMMA ReportSparse ==
  ASSUME FilesInv, SparseInv, FeedDone
  PROVE  SparseReport'
<1>1. /\ pc = "feed" /\ ground' = ground
      /\ results' = {<<x, Chain!EstIn(counts, x)>> : x \in Chain!Query(counts, Threshold)}
  BY DEF FeedDone
<1>2. cur = Len(tuples) + 1
  BY DEF FeedDone, Trace!HasNext, FilesInv, DriverTypeOK
<1>3. ASSUME Sparse
      PROVE  results' = {<<x, ground[x]>> : x \in {y \in FlowsOf : ground[y] >= Threshold}}
  <2>1. \A x \in Keys : recorded[x] = ground[x]
    BY <1>1, <1>2, <1>3 DEF SparseInv, AllRecorded, FilesInv, ReadingInv
  <2>2. Table!FlowsOf(recorded) = FlowsOf
    BY <2>1 DEF Table!FlowsOf, FlowsOf
  <2>3. Table!AtHome /\ Table!InTable
    BY <1>3, <2>2, SameFinite DEF SparseInv, Table!Placed, Table!Few, Sparse
  <2>4. \A x \in Keys : Chain!EstIn(counts, x) = ground[x]
    <3> SUFFICES ASSUME NEW x \in Keys PROVE Chain!EstIn(counts, x) = ground[x]
      OBVIOUS
    <3>1. Table!EstIn(counts, x) = recorded[x]
      BY <2>3, TableAssumption, Table!PlacedExact DEF FilesInv, IInv, Table!IInv
    <3> QED
      BY <2>1, <3>1, EstIsHeld
  <2> DEFINE D == {counts[b].key : b \in Chain!Buckets}
             G == {y \in FlowsOf : ground[y] >= Threshold}
  <2>5. D \subseteq Keys /\ ZeroKey \in Keys /\ ground[ZeroKey] > 0
    <3>1. ground[ZeroKey] > 0
      BY <1>1, ZeroCounted, HitterAssumption DEF Chain!TableAssumption, FilesInv, ReadingInv
    <3> QED
      BY <3>1, HitterAssumption DEF Chain!TableAssumption, FilesInv, IInv, TypeOK, Chain!TypeOK
  <2>6. D = FlowsOf
    <3>1. D \subseteq FlowsOf
      BY <2>1, <2>5 DEF SparseInv, KeysKnown, FlowsOf
    <3>2. \A x \in FlowsOf : x \in D
      BY <2>1, <2>3, SameTable DEF Table!InTable, FlowsOf
    <3> QED
      BY <3>1, <3>2
  <2>7. Chain!Query(counts, Threshold) = {x \in D : Chain!EstIn(counts, x) >= Threshold}
    BY DEF Chain!Query, Chain!Query2
  <2> HIDE DEF D
  <2>8. Chain!Query(counts, Threshold) = G
    BY <2>4, <2>5, <2>6, <2>7
  <2>9. \A x \in G : Chain!EstIn(counts, x) = ground[x]
    BY <2>4, <2>5, <2>6
  <2> HIDE DEF G
  <2>10. results' = {<<x, ground[x]>> : x \in G}
    BY <1>1, <2>8, <2>9
  <2> QED
    BY <2>10 DEF G
<1>4. FlowsOf' = FlowsOf /\ Threshold' = Threshold
  BY <1>1 DEF FlowsOf, Threshold
<1> QED
  BY <1>1, <1>3, <1>4 DEF SparseReport, Sparse

LEMMA StepSparse == FilesInv /\ SparseInv /\ [Next]_vars => SparseInv'
<1> SUFFICES ASSUME FilesInv, SparseInv, [Next]_vars PROVE SparseInv'
  OBVIOUS
<1>1. UNCHANGED table \/ Chain!Reset \/ \E x \in Keys : Chain!Update(x, 1)
  BY DEF Next, Open, OpenFails, Read, ReadDone, Count, CountDone, Feed, FeedDone, vars
<1>2. Table!Placed' /\ KeysKnown'
  BY <1>1, TablePlaced, TableKnown DEF FilesInv, SparseInv
<1>3. AllRecorded'
  <2>1. CASE CountDone
    <3>1. pc' = "feed" /\ cur' = 0 /\ tuples' = tuples /\ \A x \in Keys : recorded'[x] = 0
      BY <2>1 DEF CountDone, Trace!Reset, Chain!Reset
    <3> QED
      BY <3>1, HandedNone, SamePlaces DEF AllRecorded
  <2>2. CASE Feed
    BY <2>2, FeedRecords
  <2>3. CASE Open \/ OpenFails \/ (\E p \in Packets : Read(p)) \/ ReadDone \/ Count \/ FeedDone
    BY <2>3 DEF Open, OpenFails, Read, ReadDone, Count, FeedDone, AllRecorded
  <2>4. CASE UNCHANGED vars
    BY <2>4, SamePlaces DEF vars, table, trace, SparseInv, AllRecorded, Sparse, FlowsOf
  <2> QED
    BY <2>1, <2>2, <2>3, <2>4 DEF Next
<1>4. SparseReport'
  <2>1. CASE FeedDone
    BY <2>1, ReportSparse
  <2>2. CASE Open \/ OpenFails \/ (\E p \in Packets : Read(p)) \/ ReadDone \/ Count \/ CountDone \/ Feed
    BY <2>2
       DEF Open, OpenFails, Read, ReadDone, Count, CountDone, Feed, SparseReport, Evaluated
  <2>3. CASE UNCHANGED vars
    <3>1. UNCHANGED <<pc, numfile, ground, results>>
      BY <2>3 DEF vars
    <3>2. FlowsOf' = FlowsOf /\ Threshold' = Threshold
      BY <3>1 DEF FlowsOf, Threshold
    <3> QED
      BY <3>1, <3>2 DEF SparseInv, SparseReport, Evaluated
  <2> QED
    BY <2>1, <2>2, <2>3 DEF Next
<1> QED
  BY <1>2, <1>3, <1>4 DEF SparseInv

(* A file of at most Depth flows is reported exactly, whatever the hash    *)
(* family, the threshold and the files before.                             *)
THEOREM SparseFiles == Spec => []SparseReport
<1>1. Init => SparseInv
  <2> SUFFICES ASSUME Init PROVE SparseInv
    OBVIOUS
  <2>1. /\ \A b \in Chain!Buckets : counts[b] = Chain!Empty
        /\ \A x \in Keys : recorded[x] = 0
        /\ pc = "open" /\ numfile = 0
    BY DEF Init, Chain!Init
  <2>2. Table!Placed
    BY <2>1, SameTable, TableAssumption, Table!ClearedPlaced DEF Chain!Empty
  <2> QED
    BY <2>1, <2>2 DEF SparseInv, KeysKnown, AllRecorded, SparseReport, Evaluated, Chain!Empty
<1>2. SparseInv => SparseReport
  BY DEF SparseInv
<1> QED
  BY <1>1, <1>2, InitFiles, StepFiles, StepSparse, PTL DEF Spec

----------------------------------------------------------------------------
(* Heavy hitters *)

LEMMA GroundCounts ==
  ASSUME FilesInv
  PROVE  /\ Total(ground) = SumOver(ground, Keys) /\ Total(ground) \in Nat
         /\ \A x \in Keys : ground[x] \in Nat
         /\ IsFiniteSet(Keys)
<1>1. \A x \in Keys : ground[x] \in Nat
  BY DEF FilesInv, DriverTypeOK
<1>2. IsFiniteSet(Keys)
  BY HitterAssumption, SameFinite DEF Chain!TableAssumption
<1>3. Total(ground) = SumOver(ground, Keys)
  BY DEF Total, SumOver
<1> QED
  BY <1>1, <1>2, <1>3, SumNat

LEMMA HeavyHitterExists ==
  ASSUME FilesInv
  PROVE  RecallDefined
<1> SUFFICES ASSUME Evaluated, Cardinality(FlowsOf) * ThreshNum < ThreshDen, HeavyHitters = {}
             PROVE  FALSE
  BY DEF RecallDefined
<1>1. /\ \A x \in Keys : ground[x] \in Nat /\ ground[x] <= Threshold
      /\ ZeroKey \in Keys /\ ground[ZeroKey] > 0
      /\ Threshold \in Nat
  <2>1. ThreshNum \in Nat /\ ThreshDen \in Nat \ {0} /\ ZeroKey \in Keys
    BY HitterAssumption DEF Chain!TableAssumption
  <2>2. Threshold \in Nat
    <3>1. ThreshNum * Total(ground) \in Nat
      BY <2>1, GroundCounts
    <3> QED
      BY <2>1, <3>1 DEF Threshold
  <2>3. ground[ZeroKey] > 0
    BY DEF FilesInv, ReadingInv
  <2> QED
    BY <2>1, <2>2, <2>3, GroundCounts DEF HeavyHitters
<1>2. Total(ground) = SumOver(ground, FlowsOf)
  <2>1. FlowsOf \in SUBSET Keys /\ \A x \in Keys \ FlowsOf : ground[x] = 0
    BY <1>1 DEF FlowsOf
  <2> QED
    BY <1>1, <2>1, GroundCounts, SumRestrict
<1>3. IsFiniteSet(FlowsOf) /\ Cardinality(FlowsOf) \in Nat
  BY GroundCounts, FS_Subset, FS_CardinalityType DEF FlowsOf
<1>4. Total(ground) <= Cardinality(FlowsOf) * Threshold
  BY <1>1, <1>2, <1>3, SumBounded DEF FlowsOf
<1>5. Threshold > 0
  BY <1>1
<1>6. Threshold = (ThreshNum * Total(ground)) \div ThreshDen
  BY DEF Threshold
<1> QED
  BY <1>1, <1>3, <1>4, <1>5, <1>6, GroundCounts, HitterAssumption, ShareTooSmall

(* A file of fewer than 1 / thresh flows has a heavy hitter, so recall is  *)
(* a number: the all-zero tuple behind the last one keeps even an empty    *)
(* file from having none.                                                  *)
THEOREM RecallIsDefined == Spec => []RecallDefined
  BY InitFiles, StepFiles, HeavyHitterExists, PTL DEF Spec

----------------------------------------------------------------------------
(* Tables of one column *)

LEMMA TableMass ==
  ASSUME IInv, Table!Mass,
         UNCHANGED table \/ Chain!Reset \/ \E x \in Keys : Chain!Update(x, 1)
  PROVE  Table!Mass'
<1>1. CASE UNCHANGED table
  BY <1>1 DEF table, Table!Mass, Table!CountsOf, Table!Buckets, Table!Rows, Table!Cols
<1>2. CASE Chain!Reset
  <2>1. /\ \A b \in Table!Buckets : counts'[b].count = 0
        /\ \A x \in Keys : recorded'[x] = 0
    BY <1>2, SameTable DEF Chain!Reset, Chain!Empty
  <2>2. Table!SumOver(Table!CountsOf(counts', Table!Buckets), Table!Buckets) = 0
    <3> DEFINE c == Table!CountsOf(counts', Table!Buckets)
    <3>1. \A b \in Table!Buckets : c[b] = 0
      BY <2>1 DEF Table!CountsOf
    <3>2. Table!IsFiniteSet(Table!Buckets)
      BY SameTable, BucketsFinite, SameFinite
    <3> HIDE DEF c
    <3>3. Table!SumOver(c, Table!Buckets) = 0
      BY <3>1, <3>2, TableAssumption, Table!SumZero
    <3> QED
      BY <3>3 DEF c
  <2>3. Table!SumOver(recorded', Keys) = 0
    BY <2>1, TableAssumption, Table!SumZero DEF Table!TableAssumption
  <2> QED
    BY <2>2, <2>3 DEF Table!Mass, Table!CountsOf, Table!Buckets, Table!Rows, Table!Cols
<1>3. ASSUME NEW x \in Keys, Chain!Update(x, 1)
      PROVE  Table!Mass'
  <2>1. Table!Update(x, 1) /\ 1 \in {1} /\ Table!TypeOK
    BY <1>3, SameUpdate DEF IInv, Table!IInv
  <2> QED
    BY <2>1, TableAssumption, Table!UpdateMass
<1> QED
  BY <1>1, <1>2, <1>3

LEMMA SameSums ==
  /\ \A a, S : Table!SumOver(a, S) = SumOver(a, S)
  /\ \A t, B : Table!CountsOf(t, B) = CountsOf(t, B)
  BY DEF Table!SumOver, SumOver, Table!CountsOf, CountsOf, Table!MapThenSumSet,
         Table!MapThenFoldSet, MapThenSumSet, MapThenFoldSet

(* A file reports no more than it holds. *)
ReportMass ==
  Width = 1 /\ Evaluated =>
    IsFiniteSet(results) /\ SumOver(Seconds(results), results) <= SumOver(ground, Keys)

MassInv == Table!Mass /\ ReportMass

LEMMA MassExact ==
  ASSUME MassInv
  PROVE  ColumnMassExact
<1>1. MapThenSumSet(LAMBDA b : counts[b].count, Chain!Buckets)
        = SumOver(CountsOf(counts, Chain!Buckets), Chain!Buckets)
  BY BucketsFinite, CountsIs
<1>2. Chain!Arrived = SumOver(recorded, Keys)
  BY DEF Chain!Arrived, SumOver, Chain!MapThenSumSet, Chain!MapThenFoldSet, MapThenSumSet,
         MapThenFoldSet
<1>3. Width = 1 => SumOver(CountsOf(counts, Chain!Buckets), Chain!Buckets) = SumOver(recorded, Keys)
  BY SameSums, SameTable DEF MassInv, Table!Mass
<1>4. Total(ground) = SumOver(ground, Keys)
  BY DEF Total, SumOver
<1>5. IsFiniteSet(results) =>
        MapThenSumSet(LAMBDA r : r[2], results) = SumOver(Seconds(results), results)
  BY SecondsIs
<1>6. Width = 1 /\ Evaluated => MapThenSumSet(LAMBDA r : r[2], results) <= Total(ground)
  BY <1>4, <1>5 DEF MassInv, ReportMass
<1> QED
  BY <1>1, <1>2, <1>3, <1>6 DEF ColumnMassExact

LEMMA ReportShares ==
  ASSUME FilesInv, MassInv, FeedDone
  PROVE  ReportMass'
<1> SUFFICES ASSUME Width = 1
             PROVE  /\ IsFiniteSet(results')
                    /\ SumOver(Seconds(results'), results') <= SumOver(ground', Keys)
  BY DEF ReportMass
<1>1. /\ pc = "feed" /\ ground' = ground
      /\ results' = {<<x, Chain!EstIn(counts, x)>> : x \in Chain!Query(counts, Threshold)}
  BY DEF FeedDone
<1>2. cur = Len(tuples) + 1
  BY DEF FeedDone, Trace!HasNext, FilesInv, DriverTypeOK
<1> DEFINE Q == Chain!Query(counts, Threshold)
           f == [x \in Q |-> <<x, Chain!EstIn(counts, x)>>]
           a == [y \in Keys |-> Table!EstIn(counts, y)]
           g == Seconds(results')
           o == [y \in Keys |-> 0]
<1>3. Q \in SUBSET Keys /\ IsFiniteSet(Q)
  <2>1. Q \in SUBSET Keys
    BY QueryIn DEF FilesInv, IInv
  <2> QED
    BY <2>1, GroundCounts, FS_Subset
<1>4. results' = {f[x] : x \in Q}
  BY <1>1
<1>5. /\ \A x \in Q : a[x] \in Int /\ f[x] \in results' /\ f[x][2] = a[x]
      /\ \A x, y \in Q : f[x] = f[y] => x = y
  <2>1. ASSUME NEW x \in Q
        PROVE  a[x] = Chain!EstIn(counts, x) /\ Chain!EstIn(counts, x) \in Nat
    BY <1>3, EstIsHeld, EstNat DEF FilesInv, IInv
  <2> HIDE DEF Q, a
  <2> QED
    BY <1>4, <2>1
<1>6. \A x \in Q : g[f[x]] = a[x]
  <2> HIDE DEF Q, a, f
  <2> QED
    BY <1>5 DEF Seconds
<1>7. IsFiniteSet(results') /\ SumOver(g, results') = SumOver(a, Q)
  <2> HIDE DEF Q, a, f, g
  <2>1. /\ IsFiniteSet({f[x] : x \in Q})
        /\ SumOver(g, {f[x] : x \in Q}) = SumOver(a, Q)
    BY <1>3, <1>5, <1>6, SumImage
  <2> QED
    BY <1>4, <2>1
<1>8. SumOver(a, Q) <= SumOver(recorded, Keys)
  <2>1. Table!SumOver(a, Q) <= Table!SumOver(Table!CountsOf(counts, Table!Buckets), Table!Buckets)
    <3> HIDE DEF Q
    <3> QED
      BY <1>3, TableAssumption, Table!EstimatesWithin DEF FilesInv, IInv, Table!IInv
  <2>2. Table!SumOver(Table!CountsOf(counts, Table!Buckets), Table!Buckets)
          = Table!SumOver(recorded, Keys)
    BY DEF MassInv, Table!Mass
  <2> HIDE DEF Q, a
  <2> QED
    BY <2>1, <2>2, SameSums
<1>9. SumOver(recorded, Keys) <= SumOver(ground, Keys)
  <2>1. \A y \in Keys : /\ recorded[y] \in Nat /\ ground[y] \in Nat /\ o[y] \in Nat
                        /\ recorded[y] <= ground[y] + o[y] /\ o[y] = 0
    <3>1. \A y \in Keys : recorded[y] \in Nat /\ ground[y] \in Nat
      BY GroundCounts DEF FilesInv, IInv, TypeOK, Chain!TypeOK
    <3>2. \A y \in Keys : recorded[y] <= ground[y]
      BY <1>1, <1>2 DEF FilesInv, ReadingInv
    <3> QED
      BY <3>1, <3>2
  <2> HIDE DEF o
  <2>2. SumOver(recorded, Keys) <= SumOver(ground, Keys) + SumOver(o, Keys)
    BY <2>1, GroundCounts, SumAtMost
  <2>3. SumOver(o, Keys) = 0 /\ SumOver(ground, Keys) \in Nat
    BY <2>1, GroundCounts, SumZero, SumNat
  <2> QED
    BY <2>2, <2>3
<1>10. /\ SumOver(a, Q) \in Int /\ SumOver(recorded, Keys) \in Int
       /\ SumOver(ground, Keys) \in Int
  <2>1. \A y \in Keys : recorded[y] \in Int /\ ground[y] \in Int
    BY GroundCounts DEF FilesInv, IInv, TypeOK, Chain!TypeOK
  <2>2. \A y \in Q : a[y] \in Int
    BY <1>5
  <2> HIDE DEF Q, a
  <2> QED
    BY <1>3, <2>1, <2>2, GroundCounts, SumInt
<1> HIDE DEF Q, a, f, g, o
<1> QED
  BY <1>1, <1>7, <1>8, <1>9, <1>10 DEF g

LEMMA StepMass == FilesInv /\ MassInv /\ [Next]_vars => MassInv'
<1> SUFFICES ASSUME FilesInv, MassInv, [Next]_vars PROVE MassInv'
  OBVIOUS
<1>1. UNCHANGED table \/ Chain!Reset \/ \E x \in Keys : Chain!Update(x, 1)
  BY DEF Next, Open, OpenFails, Read, ReadDone, Count, CountDone, Feed, FeedDone, vars
<1>2. Table!Mass'
  BY <1>1, TableMass DEF FilesInv, MassInv
<1>3. ReportMass'
  <2>1. CASE FeedDone
    BY <2>1, ReportShares
  <2>2. CASE Open \/ OpenFails \/ (\E p \in Packets : Read(p)) \/ ReadDone \/ Count \/ CountDone \/ Feed
    BY <2>2 DEF Open, OpenFails, Read, ReadDone, Count, CountDone, Feed, ReportMass, Evaluated
  <2>3. CASE UNCHANGED vars
    BY <2>3 DEF vars, MassInv, ReportMass, Evaluated
  <2> QED
    BY <2>1, <2>2, <2>3 DEF Next
<1> QED
  BY <1>2, <1>3 DEF MassInv

(* A table of one column counts what was recorded, and a file reports no   *)
(* more than it holds, for every number of rows.                           *)
THEOREM OneColumnExact == Spec => []ColumnMassExact
<1>1. Init => MassInv
  <2> SUFFICES ASSUME Init PROVE MassInv
    OBVIOUS
  <2>1. /\ \A b \in Chain!Buckets : counts[b].count = 0
        /\ \A x \in Keys : recorded[x] = 0
        /\ numfile = 0
    BY DEF Init, Chain!Init, Chain!Empty
  <2>2. Table!Mass
    BY <2>1, SameTable, TableAssumption, Table!ClearedMass
  <2> QED
    BY <2>1, <2>2 DEF MassInv, ReportMass, Evaluated
<1> QED
  BY <1>1, InitFiles, StepFiles, StepMass, MassExact, PTL DEF Spec
=============================================================================
