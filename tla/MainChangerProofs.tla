------------------------- MODULE MainChangerProofs -------------------------
(***************************************************************************)
(* Theorems about MainChanger for every table size, hash family, set of    *)
(* flows and number of trace files.                                        *)
(***************************************************************************)
EXTENDS MainChanger, FiniteSums

(* The current sketch, with the lemmas about it. *)
Chain == INSTANCE ChainSketchProofs WITH counts <- cur, Vals <- {1}, MaxArrivals <- 0

LEMMA SameFinite ==
  /\ \A S : Chain!IsFiniteSet(S) <=> IsFiniteSet(S)
  /\ \A S : Chain!Cardinality(S) = Cardinality(S)
  BY DEF Chain!IsFiniteSet, IsFiniteSet, Chain!Cardinality, Cardinality

LEMMA ChainAssumption == Chain!TableAssumption
<1>1. Chain!IsFiniteSet(Keys)
  BY ChangerAssumption, SameFinite
<1> QED
  BY <1>1, ChangerAssumption
     DEF Chain!TableAssumption, Chain!Rows, Chain!Cols, Cur!Rows, Cur!Cols

LEMMA SameTable ==
  /\ Chain!Buckets = Cur!Buckets
  /\ \A t, x : Chain!EstIn(t, x) = Cur!EstIn(t, x)
  /\ Chain!TypeOK <=> Cur!TypeOK
  /\ Chain!Init <=> Cur!Init
  /\ Chain!Reset <=> Cur!Reset
<1>1. Chain!Buckets = Cur!Buckets
  BY DEF Chain!Buckets, Cur!Buckets, Chain!Rows, Cur!Rows, Chain!Cols, Cur!Cols
<1>2. \A t, x : Chain!EstIn(t, x) = Cur!EstIn(t, x)
  <2> TAKE t, x
  <2>1. Chain!EstIn(t, x) = Held(t, Chain!Buckets, x)
    BY DEF Chain!EstIn, Held, Chain!MapThenSumSet, Chain!MapThenFoldSet, MapThenSumSet, MapThenFoldSet
  <2>2. Cur!EstIn(t, x) = Held(t, Cur!Buckets, x)
    BY DEF Cur!EstIn, Held, Cur!MapThenSumSet, Cur!MapThenFoldSet, MapThenSumSet, MapThenFoldSet
  <2> QED
    BY <1>1, <2>1, <2>2
<1>3. Chain!TypeOK <=> Cur!TypeOK
  BY <1>1 DEF Chain!TypeOK, Cur!TypeOK, Chain!NoLoc, Cur!NoLoc
<1>4. Chain!Init <=> Cur!Init
  BY <1>1 DEF Chain!Init, Cur!Init, Chain!NoLoc, Cur!NoLoc, Chain!Empty, Cur!Empty
<1>5. Chain!Reset <=> Cur!Reset
  BY <1>1 DEF Chain!Reset, Cur!Reset, Chain!Empty, Cur!Empty
<1> QED
  BY <1>1, <1>2, <1>3, <1>4, <1>5

LEMMA SameUpdate ==
  ASSUME NEW x \in Keys
  PROVE  Chain!Update(x, 1) <=> Cur!Update(x, 1)
  BY DEF Chain!Update, Chain!Hit, Chain!Win, Chain!Lose, Chain!NoVictim, Chain!Replace,
         Chain!ReplaceAlone, Chain!ReplaceMerge, Chain!ReplaceSwap, Chain!ReplaceRelocate,
         Chain!ReplaceExhaust, Chain!Walks, Chain!Taken, Chain!Reached, Chain!Passes, Chain!Tries,
         Chain!Left, Chain!Carried, Chain!Absorbs, Chain!Alone, Chain!Cell, Chain!Scanned,
         Chain!Lightest, Chain!Stops, Chain!Probe, Chain!Rows, Chain!NoLoc,
         Cur!Update, Cur!Hit, Cur!Win, Cur!Lose, Cur!NoVictim, Cur!Replace,
         Cur!ReplaceAlone, Cur!ReplaceMerge, Cur!ReplaceSwap, Cur!ReplaceRelocate,
         Cur!ReplaceExhaust, Cur!Walks, Cur!Taken, Cur!Reached, Cur!Passes, Cur!Tries,
         Cur!Left, Cur!Carried, Cur!Absorbs, Cur!Alone, Cur!Cell, Cur!Scanned,
         Cur!Lightest, Cur!Stops, Cur!Probe, Cur!Rows, Cur!NoLoc

----------------------------------------------------------------------------
(* The flows of a file, the keys of the tables and what is reported *)

(* Flows that the file being counted, or the one before, has packets of;   *)
(* the all-zero flow is one of them from the first file on.                *)
Known(n) == {ZeroKey} \cup FlowsOf(n)

KeysKnown ==
  /\ \A b \in Cur!Buckets : cur[b].key \in Known(truth.now)
  /\ \A b \in Cur!Buckets : old[b].key \in Known(truth.before)
  /\ \A x \in Keys : left[x] > 0 => truth.now[x] > 0
  /\ pc # "open" => truth.now[ZeroKey] > 0 /\ results = {} /\ numfile < MaxFiles
  /\ NoGhostChange

IInv == TypeOK /\ Chain!IInv /\ KeysKnown

LEMMA InitIInv == Init => IInv
<1> SUFFICES ASSUME Init PROVE IInv
  OBVIOUS
<1>1. Chain!Init /\ old = cur
  BY SameTable DEF Init, InitTables
<1>2. Chain!IInv /\ Cur!TypeOK
  BY <1>1, ChainAssumption, Chain!InitIInv, SameTable DEF Chain!IInv
<1>3. \A b \in Cur!Buckets : cur[b].key = ZeroKey
  BY <1>1, SameTable DEF Chain!Init, Chain!Empty
<1>4. TypeOK
  BY <1>1, <1>2, DriverAssumption DEF Init, TypeOK, Cur!TypeOK
<1>5. KeysKnown
  BY <1>1, <1>3 DEF Init, KeysKnown, Known, NoGhostChange
<1> QED
  BY <1>2, <1>4, <1>5 DEF IInv

(* A packet of a flow of the file.                                         *)
LEMMA CountKeeps ==
  ASSUME IInv, NEW x \in Keys, truth.now[x] > 0, Update(x)
  PROVE  /\ Cur!TypeOK' /\ Chain!IInv' /\ old' = old
         /\ \A b \in Cur!Buckets : cur'[b].key \in Known(truth.now)
<1>1. Chain!Update(x, 1) /\ old' = old
  BY SameUpdate DEF Update
<1>2. Chain!IInv /\ Chain!TypeOK /\ 1 \in {1}
  BY DEF IInv, Chain!IInv
<1>3. Chain!IInv'
  BY <1>1, <1>2, ChainAssumption, Chain!UpdateIInv
<1>4. Cur!TypeOK'
  <2>1. Chain!TypeOK'
    BY <1>3 DEF Chain!IInv
  <2> QED
    BY <2>1 DEF Chain!TypeOK, Cur!TypeOK, Chain!Buckets, Cur!Buckets, Chain!Rows, Cur!Rows,
                Chain!Cols, Cur!Cols, Chain!NoLoc, Cur!NoLoc
<1>5. ASSUME NEW b \in Cur!Buckets
      PROVE  cur'[b].key \in Known(truth.now)
  <2>1. b \in Chain!Buckets
    BY SameTable
  <2>2. CASE Chain!Hit(x, 1) \/ Chain!Win(x, 1)
    <3>1. cur'[b].key = x \/ \E e \in Chain!Buckets : cur'[b].key = cur[e].key
      BY <1>2, <2>1, <2>2, ChainAssumption, Chain!UpdateKeys
    <3> QED
      BY <3>1, SameTable DEF IInv, KeysKnown, Known, FlowsOf
  <2>3. CASE Chain!Lose(x, 1) \/ Chain!NoVictim(x, 1)
    BY <2>3 DEF Chain!Lose, Chain!NoVictim, IInv, KeysKnown
  <2> QED
    BY <1>1, <2>2, <2>3 DEF Chain!Update
<1> QED
  BY <1>1, <1>3, <1>4, <1>5

LEMMA OpenKeeps == ASSUME IInv, Open PROVE IInv'
<1>1. PICK file \in Files :
        truth' = [now |-> HandedOut(file), before |-> truth.now] /\ left' = file
  BY DEF Open
<1>2. /\ Reset /\ pc' = "feed" /\ results' = {}
      /\ numfile' = numfile /\ numfile < MaxFiles
      /\ Chain!Reset /\ old' = cur
  BY SameTable DEF Open, Reset
<1>3. /\ file \in [Keys -> Nat]
      /\ HandedOut(file) \in [Keys -> Nat]
      /\ HandedOut(file)[ZeroKey] > 0
      /\ \A x \in Keys : file[x] > 0 => HandedOut(file)[x] > 0
  <2>1. file \in [Keys -> Nat]
    BY DriverAssumption DEF Files
  <2> QED
    BY <2>1, ChangerAssumption DEF HandedOut
<1>4. Chain!IInv'
  BY <1>2, ChainAssumption, Chain!ResetIInv DEF IInv
<1>5. Cur!TypeOK'
  <2>1. Chain!TypeOK'
    BY <1>4 DEF Chain!IInv
  <2> QED
    BY <2>1 DEF Chain!TypeOK, Cur!TypeOK, Chain!Buckets, Cur!Buckets, Chain!Rows, Cur!Rows,
                Chain!Cols, Cur!Cols, Chain!NoLoc, Cur!NoLoc
<1>6. /\ truth'.now = HandedOut(file) /\ truth'.before = truth.now
      /\ truth.now \in [Keys -> Nat]
      /\ cur \in [Cur!Buckets -> [key : Keys, count : Nat]]
  BY <1>1 DEF IInv, TypeOK, Cur!TypeOK
<1>7. TypeOK'
  BY <1>1, <1>2, <1>3, <1>5, <1>6 DEF IInv, TypeOK, Cur!Buckets, Cur!Rows, Cur!Cols
<1>8. \A b \in Cur!Buckets : cur'[b].key = ZeroKey
  BY <1>2, SameTable DEF Chain!Reset, Chain!Empty
<1>9. KeysKnown'
  BY <1>1, <1>2, <1>3, <1>6, <1>8
     DEF IInv, KeysKnown, Known, FlowsOf, NoGhostChange, Cur!Buckets, Cur!Rows, Cur!Cols
<1> QED
  BY <1>4, <1>7, <1>9 DEF IInv

LEMMA FeedKeeps == ASSUME IInv, NEW x \in Keys, Feed(x) PROVE IInv'
<1>1. /\ pc = "feed" /\ left[x] > 0 /\ Update(x)
      /\ left' = [left EXCEPT ![x] = @ - 1]
      /\ UNCHANGED <<pc, truth, numfile, results>>
  BY DEF Feed
<1>2. truth.now[x] > 0
  BY <1>1 DEF IInv, KeysKnown
<1>3. /\ Cur!TypeOK' /\ Chain!IInv' /\ old' = old
      /\ \A b \in Cur!Buckets : cur'[b].key \in Known(truth.now)
  BY <1>1, <1>2, CountKeeps
<1>4. /\ left' \in [Keys -> Nat]
      /\ \A y \in Keys : left'[y] > 0 => truth.now[y] > 0
  BY <1>1, <1>2 DEF IInv, TypeOK, KeysKnown
<1>5. TypeOK'
  BY <1>1, <1>3, <1>4 DEF IInv, TypeOK, Cur!Buckets, Cur!Rows, Cur!Cols
<1>6. KeysKnown'
  BY <1>1, <1>3, <1>4
     DEF IInv, KeysKnown, Known, FlowsOf, NoGhostChange, Cur!Buckets, Cur!Rows, Cur!Cols
<1> QED
  BY <1>3, <1>5, <1>6 DEF IInv

LEMMA FeedLastKeeps == ASSUME IInv, FeedLast PROVE IInv'
<1>1. /\ pc = "feed" /\ Update(ZeroKey) /\ pc' = "report"
      /\ UNCHANGED <<truth, left, numfile, results>>
  BY DEF FeedLast
<1>2. ZeroKey \in Keys /\ truth.now[ZeroKey] > 0
  BY <1>1, ChangerAssumption DEF IInv, KeysKnown
<1>3. /\ Cur!TypeOK' /\ Chain!IInv' /\ old' = old
      /\ \A b \in Cur!Buckets : cur'[b].key \in Known(truth.now)
  BY <1>1, <1>2, CountKeeps
<1>4. TypeOK'
  BY <1>1, <1>3 DEF IInv, TypeOK, Cur!Buckets, Cur!Rows, Cur!Cols
<1>5. KeysKnown'
  BY <1>1, <1>2, <1>3
     DEF IInv, KeysKnown, Known, FlowsOf, NoGhostChange, Cur!Buckets, Cur!Rows, Cur!Cols
<1> QED
  BY <1>3, <1>4, <1>5 DEF IInv

(* The estimates in either table, and the changes, are counts.             *)
LEMMA CurBucketsFinite == IsFiniteSet(Cur!Buckets)
<1>1. IsFiniteSet(Cur!Rows) /\ IsFiniteSet(Cur!Cols)
  BY ChangerAssumption, FS_Interval DEF Cur!Rows, Cur!Cols
<1> QED
  BY <1>1, FS_Product DEF Cur!Buckets

LEMMA EstIsHeld ==
  ASSUME NEW t, NEW x
  PROVE  Cur!EstIn(t, x) = Held(t, Cur!Buckets, x)
  BY DEF Cur!EstIn, Held, Cur!MapThenSumSet, Cur!MapThenFoldSet, MapThenSumSet, MapThenFoldSet

LEMMA TablesCount ==
  ASSUME TypeOK
  PROVE  /\ IsTable(cur, Cur!Buckets) /\ IsTable(old, Cur!Buckets)
         /\ \A x : Cur!EstIn(cur, x) \in Nat /\ Cur!EstIn(old, x) \in Nat
<1>1. IsTable(cur, Cur!Buckets) /\ IsTable(old, Cur!Buckets)
  BY DEF TypeOK, Cur!TypeOK, IsTable
<1> QED
  BY <1>1, CurBucketsFinite, EstIsHeld, HeldNat

KeysOf(t) == {t[b].key : b \in Cur!Buckets}

LEMMA AbsentIsZero ==
  ASSUME TypeOK, NEW t \in {cur, old}, NEW x, x \notin KeysOf(t)
  PROVE  Cur!EstIn(t, x) = 0
<1> DEFINE p == [b \in Cur!Buckets |-> Part(t[b], x)]
<1>1. \A b \in Cur!Buckets : p[b] = 0
  BY DEF Part, KeysOf
<1>2. Held(t, Cur!Buckets, x) = SumOver(p, Cur!Buckets)
  BY TablesCount, CurBucketsFinite, HeldIs
<1> HIDE DEF p
<1> QED
  BY <1>1, <1>2, CurBucketsFinite, EstIsHeld, SumZero

LEMMA ChangeIs ==
  ASSUME TypeOK, NEW x \in KeysOf(cur) \cup KeysOf(old)
  PROVE  /\ Change(x) \in Nat
         /\ Change(x) = IF Cur!EstIn(old, x) > Cur!EstIn(cur, x)
                        THEN Cur!EstIn(old, x) - Cur!EstIn(cur, x)
                        ELSE Cur!EstIn(cur, x) - Cur!EstIn(old, x)
<1>1. /\ Cur!EstIn(cur, x) \in Nat /\ Cur!EstIn(old, x) \in Nat
      /\ IsTable(cur, Cur!Buckets)
  BY TablesCount
<1>2. DOMAIN Cur!Query2(cur) = KeysOf(cur)
  BY DEF Cur!Query2, KeysOf
<1>3. CASE x \in KeysOf(cur)
  <2>1. Cur!Query2(cur)[x] = Cur!EstIn(cur, x)
    BY <1>3 DEF Cur!Query2, KeysOf
  <2> QED
    BY <1>1, <1>2, <1>3, <2>1 DEF Change
<1>4. CASE x \notin KeysOf(cur)
  <2>1. Cur!EstIn(cur, x) = 0
    BY <1>4, AbsentIsZero
  <2>2. Change(x) = Cur!EstIn(old, x)
    BY <1>2, <1>4 DEF Change
  <2> QED
    BY <1>1, <2>1, <2>2
<1> QED
  BY <1>3, <1>4

LEMMA QueryIs ==
  ASSUME NEW thresh
  PROVE  Query(thresh) = {<<x, Change(x)>> :
                            x \in {y \in KeysOf(cur) \cup KeysOf(old) : Change(y) > thresh}}
<1>1. DOMAIN Cur!Query2(cur) = KeysOf(cur) /\ DOMAIN Cur!Query2(old) = KeysOf(old)
  BY DEF Cur!Query2, KeysOf
<1> QED
  BY <1>1 DEF Query

LEMMA ReportKeeps == ASSUME IInv, Report PROVE IInv'
<1>1. /\ pc = "report" /\ pc' = "open" /\ numfile' = numfile + 1
      /\ results' = IF numfile = 0 THEN {} ELSE Query(Threshold)
      /\ UNCHANGED <<tables, truth, left>>
  BY DEF Report
<1>2. truth.now[ZeroKey] > 0 /\ TypeOK /\ KeysKnown
  BY <1>1 DEF IInv, KeysKnown
<1>3. \A x \in KeysOf(cur) \cup KeysOf(old) :
        /\ x \in Keys /\ Change(x) \in Nat
        /\ x \in Known(truth.now) \cup Known(truth.before)
  <2>1. \A x \in KeysOf(cur) \cup KeysOf(old) : x \in Keys
    BY <1>2 DEF TypeOK, Cur!TypeOK, KeysOf
  <2>2. \A x \in KeysOf(cur) \cup KeysOf(old) : x \in Known(truth.now) \cup Known(truth.before)
    BY <1>2 DEF KeysKnown, KeysOf
  <2>3. \A x \in KeysOf(cur) \cup KeysOf(old) : Change(x) \in Nat
    BY <1>2, ChangeIs
  <2> QED
    BY <2>1, <2>2, <2>3
<1>4. \A q \in results' : /\ q[1] \in Keys /\ q[2] \in Nat /\ q = <<q[1], q[2]>>
                          /\ q[1] \in Known(truth.now) \cup Known(truth.before)
  <2>1. ASSUME NEW q \in Query(Threshold)
        PROVE  \E x \in KeysOf(cur) \cup KeysOf(old) : q = <<x, Change(x)>>
    BY <2>1, QueryIs
  <2> QED
    BY <1>1, <1>3, <2>1
<1>5. /\ Cur!TypeOK' /\ Chain!IInv'
      /\ UNCHANGED <<home, loc, running, cur, old, recorded>>
  <2>1. UNCHANGED <<home, loc, running, cur, old, recorded>>
    BY <1>1 DEF tables
  <2>2. Chain!IInv'
    BY <2>1, ChainAssumption
       DEF IInv, Chain!IInv, Chain!TypeOK, Chain!NoPhantomFlow, Chain!CrashOnlySaturated,
           Chain!Stops, Chain!Saturated, Chain!Probe, Chain!Buckets, Chain!Rows, Chain!Cols, Chain!NoLoc
  <2> QED
    BY <2>1, <2>2 DEF IInv, TypeOK, Cur!TypeOK, Cur!Buckets, Cur!Rows, Cur!Cols, Cur!NoLoc
<1>6. numfile' \in 0 .. MaxFiles
  BY <1>1, <1>2, DriverAssumption DEF KeysKnown, TypeOK
<1>7. TypeOK'
  BY <1>1, <1>2, <1>4, <1>5, <1>6 DEF TypeOK, Cur!Buckets, Cur!Rows, Cur!Cols
<1>8. NoGhostChange'
  <2> SUFFICES ASSUME NEW q \in results'
               PROVE  truth.now[q[1]] + truth.before[q[1]] > 0
    BY <1>1 DEF NoGhostChange
  <2>1. /\ q[1] \in Keys /\ truth.now[q[1]] \in Nat /\ truth.before[q[1]] \in Nat
        /\ q[1] = ZeroKey \/ truth.now[q[1]] > 0 \/ truth.before[q[1]] > 0
    BY <1>2, <1>4 DEF Known, FlowsOf, TypeOK
  <2> QED
    BY <1>2, <2>1
<1>9. KeysKnown'
  BY <1>1, <1>2, <1>5, <1>8 DEF KeysKnown, Known, FlowsOf, Cur!Buckets, Cur!Rows, Cur!Cols
<1> QED
  BY <1>5, <1>7, <1>9 DEF IInv

LEMMA StepIInv == ASSUME IInv, [Next]_vars PROVE IInv'
<1>1. CASE Open
  BY <1>1, OpenKeeps
<1>2. ASSUME NEW x \in Keys, Feed(x) PROVE IInv'
  BY <1>2, FeedKeeps
<1>3. CASE FeedLast
  BY <1>3, FeedLastKeeps
<1>4. CASE Report
  BY <1>4, ReportKeeps
<1>5. CASE UNCHANGED vars
  <2>1. UNCHANGED <<home, loc, running, cur, old, recorded, pc, truth, left, numfile, results>>
    BY <1>5 DEF vars, tables, driver
  <2>2. Chain!IInv'
    BY <2>1, ChainAssumption
       DEF IInv, Chain!IInv, Chain!TypeOK, Chain!NoPhantomFlow, Chain!CrashOnlySaturated,
           Chain!Stops, Chain!Saturated, Chain!Probe, Chain!Buckets, Chain!Rows, Chain!Cols, Chain!NoLoc
  <2>3. TypeOK'
    BY <2>1 DEF IInv, TypeOK, Cur!TypeOK, Cur!Buckets, Cur!Rows, Cur!Cols, Cur!NoLoc
  <2>4. KeysKnown'
    BY <2>1 DEF IInv, KeysKnown, Known, FlowsOf, NoGhostChange, Cur!Buckets, Cur!Rows, Cur!Cols
  <2> QED
    BY <2>2, <2>3, <2>4 DEF IInv
<1> QED
  BY <1>1, <1>2, <1>3, <1>4, <1>5 DEF Next

(* The estimates, the true counts and the reports of the driver are counts *)
(* of flows of the trace, through any number of files and rotations of the *)
(* two sketches.                                                           *)
THEOREM TypeCorrect == Spec => []TypeOK
<1>1. Init => IInv
  BY InitIInv
<1>2. IInv /\ [Next]_vars => IInv'
  BY StepIInv
<1>3. IInv => TypeOK
  BY DEF IInv
<1> QED
  BY <1>1, <1>2, <1>3, PTL DEF Spec

(* Only a flow with packets in this file or the one before is reported to  *)
(* have changed: what an older file left in a table is gone by the second  *)
(* rotation, whatever the hash family chains or displaces.                 *)
THEOREM NoGhost == Spec => []NoGhostChange
<1>1. Init => IInv
  BY InitIInv
<1>2. IInv /\ [Next]_vars => IInv'
  BY StepIInv
<1>3. IInv => NoGhostChange
  BY DEF IInv, KeysKnown
<1> QED
  BY <1>1, <1>2, <1>3, PTL DEF Spec

----------------------------------------------------------------------------
(* The driver is a change monitor *)

(* A fraction of at most one of a count is at most that count.             *)
LEMMA FractionOf ==
  ASSUME NEW n \in Nat, NEW d \in Nat \ {0}, n <= d, NEW s \in Nat
  PROVE  (n * s) \div d \in 0 .. s
<1> DEFINE p == n * s
           q == p \div d
<1>1. p \in Nat /\ d * s \in Nat /\ p <= d * s
  <2>1. \A m \in Nat : (n + m) * s = n * s + m * s /\ m * s \in Nat /\ n * s \in Nat
    OBVIOUS
  <2>2. d - n \in Nat /\ d = n + (d - n)
    OBVIOUS
  <2> HIDE DEF p
  <2>3. d * s = n * s + (d - n) * s
    BY <2>1, <2>2
  <2> QED
    BY <2>1, <2>2, <2>3 DEF p
<1> HIDE DEF p
<1>2. q \in Nat /\ d * q <= p
  BY <1>1, SMT
<1> HIDE DEF q
<1>3. q <= s
  <2> SUFFICES ASSUME q > s PROVE FALSE
    BY <1>2
  <2>1. PICK m \in Nat : q = s + 1 + m
    <3>1. q - s - 1 \in Nat /\ q = s + 1 + (q - s - 1)
      BY <1>2
    <3> QED
      BY <3>1
  <2>2. d * q = d * s + d + d * m /\ d * m \in Nat
    BY <2>1
  <2> QED
    BY <1>1, <1>2, <2>2
<1> QED
  BY <1>2, <1>3 DEF p, q

(* The flows of a file, and of the one before, are bounded by its packets. *)
FilesBounded ==
  /\ Total(truth.now) \in 0 .. MaxPackets + 1
  /\ Total(truth.before) \in 0 .. MaxPackets + 1

LEMMA HandedOutTotal ==
  ASSUME NEW file \in Files
  PROVE  Total(HandedOut(file)) \in 0 .. MaxPackets + 1
<1> DEFINE h == HandedOut(file)
<1>1. /\ file \in [Keys -> Nat] /\ Total(file) <= MaxPackets
      /\ h \in [Keys -> Nat] /\ h[ZeroKey] = file[ZeroKey] + 1
      /\ \A x \in Keys \ {ZeroKey} : h[x] = file[x]
      /\ ZeroKey \in Keys /\ IsFiniteSet(Keys) /\ MaxPackets \in Nat
  BY DriverAssumption, ChangerAssumption DEF Files, HandedOut
<1> HIDE DEF h
<1>2. SumOver(h, Keys) = SumOver(file, Keys) + h[ZeroKey] - file[ZeroKey]
  <2>1. \A x \in Keys : file[x] \in Int /\ h[x] \in Int
    BY <1>1
  <2> QED
    BY <1>1, <2>1, SumChange
<1>3. SumOver(file, Keys) \in Nat
  BY <1>1, SumNat
<1>4. Total(h) = SumOver(h, Keys) /\ Total(file) = SumOver(file, Keys)
  BY DEF Total, SumOver
<1> QED
  BY <1>1, <1>2, <1>3, <1>4 DEF h

LEMMA FilesInit == Init => FilesBounded
<1> SUFFICES ASSUME Init PROVE FilesBounded
  OBVIOUS
<1> DEFINE n == [x \in Keys |-> 0]
<1>1. truth.now = n /\ truth.before = n /\ \A x \in Keys : n[x] = 0
  BY DEF Init
<1> HIDE DEF n
<1>2. SumOver(n, Keys) = 0
  BY <1>1, ChangerAssumption, SumZero
<1>3. Total(n) = 0
  BY <1>2 DEF Total, SumOver
<1> QED
  BY <1>1, <1>3, DriverAssumption DEF FilesBounded

LEMMA FilesStep == TypeOK /\ FilesBounded /\ [Next]_vars => FilesBounded'
<1> SUFFICES ASSUME TypeOK, FilesBounded, [Next]_vars PROVE FilesBounded'
  OBVIOUS
<1>1. CASE Open
  <2>1. PICK file \in Files : truth' = [now |-> HandedOut(file), before |-> truth.now]
    BY <1>1 DEF Open
  <2>2. truth'.now = HandedOut(file) /\ truth'.before = truth.now
    BY <2>1
  <2> QED
    BY <2>2, HandedOutTotal DEF FilesBounded
<1>2. CASE truth' = truth
  BY <1>2 DEF FilesBounded
<1> QED
  BY <1>1, <1>2 DEF Next, Feed, FeedLast, Report, vars, driver

LEMMA ThresholdIn ==
  ASSUME TypeOK, FilesBounded
  PROVE  Threshold \in 0 .. 2 * (MaxPackets + 1)
<1> DEFINE a == truth.now
           b == truth.before
           c == [x \in Keys |-> Diff(x)]
<1>1. \A x \in Keys : /\ a[x] \in Nat /\ b[x] \in Nat /\ c[x] \in Nat
                      /\ c[x] <= a[x] + b[x]
  BY DEF TypeOK, Diff
<1>2. /\ Total(a) = SumOver(a, Keys) /\ Total(b) = SumOver(b, Keys)
      /\ Total(c) = SumOver(c, Keys)
  BY DEF Total, SumOver
<1>3. Threshold = (ThreshNum * Total(c)) \div ThreshDen
  BY DEF Threshold
<1>4. Total(a) \in 0 .. MaxPackets + 1 /\ Total(b) \in 0 .. MaxPackets + 1
  BY DEF FilesBounded
<1> HIDE DEF a, b, c
<1>5. SumOver(c, Keys) <= SumOver(a, Keys) + SumOver(b, Keys)
  BY <1>1, ChangerAssumption, SumAtMost
<1>6. SumOver(c, Keys) \in Nat
  BY <1>1, ChangerAssumption, SumNat
<1>7. Threshold \in 0 .. Total(c)
  BY <1>2, <1>3, <1>6, DriverAssumption, FractionOf
<1> QED
  BY <1>2, <1>4, <1>5, <1>6, <1>7, DriverAssumption

(* What a packet does to the estimates of the current table.               *)
LEMMA CountIsMonitor ==
  ASSUME TypeOK, Chain!TypeOK, NEW x \in Keys, Update(x), results' = results
  PROVE  Monitor!Count \/ Monitor!Crash \/ UNCHANGED Monitor!monitorVars
<1>1. Chain!Update(x, 1) /\ old' = old /\ 1 \in {1}
  BY SameUpdate DEF Update
<1>2. CASE Chain!Hit(x, 1) \/ Chain!Win(x, 1)
  <2>1. running /\ running' = running
    BY <1>1, <1>2 DEF Chain!Update, Chain!Hit, Chain!Win
  <2>2. Chain!Recorded(cur, cur', Chain!Buckets, Keys, x, 1)
    BY <1>1, <1>2, ChainAssumption, Chain!UpdateRecords
  <2>3. \A t, y : Chain!Held(t, Chain!Buckets, y) = Cur!EstIn(t, y)
    <3>1. \A t, y : Chain!EstIn(t, y) = Chain!Held(t, Chain!Buckets, y)
      BY ChainAssumption, Chain!EstIsHeld
    <3> QED
      BY <3>1, SameTable
  <2>4. Monitor!Record(x, 1)
    BY <2>1, <2>2, <2>3 DEF Chain!Recorded, Monitor!Record
  <2> QED
    BY <1>1, <2>4 DEF Monitor!Count
<1>3. CASE Chain!Lose(x, 1)
  BY <1>1, <1>3 DEF Chain!Lose, Monitor!monitorVars
<1>4. CASE Chain!NoVictim(x, 1)
  <2>1. running /\ running' = FALSE /\ cur' = cur
    BY <1>1, <1>4 DEF Chain!Update, Chain!NoVictim
  <2> QED
    BY <1>1, <2>1 DEF Monitor!Crash, Monitor!Die
<1> QED
  BY <1>1, <1>2, <1>3, <1>4 DEF Chain!Update

(* Opening a file clears one table; what the other holds is kept.          *)
LEMMA OpenIsMonitor ==
  ASSUME TypeOK, Open
  PROVE  Monitor!NextEpoch
<1>1. running /\ running' = running /\ old' = cur /\ results' = {}
      /\ \A b \in Cur!Buckets : cur'[b].count = 0
  BY DEF Open, Reset, Cur!Reset, Cur!Empty
<1>2. \A y \in Keys : Cur!EstIn(cur', y) = 0
  BY <1>1, CurBucketsFinite, EstIsHeld, HeldNone
<1> QED
  BY <1>1, <1>2 DEF Monitor!NextEpoch, Monitor!Reset

(* Every flow whose estimates are further apart is reported: one that is   *)
(* in neither table has two estimates of 0.                                *)
LEMMA ReportIsMonitor ==
  ASSUME TypeOK, FilesBounded, Report, results = {}
  PROVE  Monitor!Report \/ UNCHANGED Monitor!monitorVars
<1>1. UNCHANGED <<cur, old, running>>
      /\ results' = IF numfile = 0 THEN {} ELSE Query(Threshold)
  BY DEF Report, tables
<1>2. CASE numfile = 0
  BY <1>1, <1>2 DEF Monitor!monitorVars
<1>3. CASE numfile # 0
  <2> DEFINE e(y) == Cur!EstIn(cur, y)
             p(y) == Cur!EstIn(old, y)
             Far(y) == Monitor!Apart(e(y), p(y))
  <2>1. \A y : e(y) \in Nat /\ p(y) \in Nat
    BY TablesCount
  <2>2. \A y \in KeysOf(cur) \cup KeysOf(old) : y \in Keys /\ Change(y) = Far(y)
    <3>1. \A y \in KeysOf(cur) \cup KeysOf(old) : y \in Keys
      BY DEF TypeOK, Cur!TypeOK, KeysOf
    <3>2. ASSUME NEW y \in KeysOf(cur) \cup KeysOf(old)
          PROVE  Change(y) = Far(y)
      BY <2>1, ChangeIs DEF Monitor!Apart
    <3> QED
      BY <3>1, <3>2
  <2>3. \A y \in Keys : y \notin KeysOf(cur) \cup KeysOf(old) => Far(y) = 0
    <3> SUFFICES ASSUME NEW y \in Keys, y \notin KeysOf(cur), y \notin KeysOf(old)
                 PROVE  Far(y) = 0
      OBVIOUS
    <3>1. e(y) = 0 /\ p(y) = 0
      BY AbsentIsZero
    <3> QED
      BY <3>1 DEF Monitor!Apart
  <2>4. Threshold \in 0 .. 2 * (MaxPackets + 1)
    BY ThresholdIn
  <2> DEFINE V == KeysOf(cur) \cup KeysOf(old)
  <2>5. results' = {<<y, Change(y)>> : y \in {w \in V : Change(w) > Threshold}}
    BY <1>1, <1>3, QueryIs
  <2>6. Threshold \in Nat
    BY <2>4, DriverAssumption
  <2> HIDE DEF V, Far
  <2>7. {w \in V : Change(w) > Threshold} = {w \in Keys : Far(w) > Threshold}
    BY <2>2, <2>3, <2>6 DEF V
  <2>8. results' = {<<y, Far(y)>> : y \in {w \in Keys : Far(w) > Threshold}}
    <3>1. \A y \in {w \in V : Change(w) > Threshold} : Change(y) = Far(y)
      BY <2>2 DEF V
    <3> QED
      BY <2>5, <2>7, <3>1
  <2>9. \A y \in Keys : Monitor!Apart([x \in Keys |-> e(x)][y], [x \in Keys |-> p(x)][y]) = Far(y)
    BY DEF Far
  <2> DEFINE E == [x \in Keys |-> Cur!EstIn(cur, x)]
             P == [x \in Keys |-> Cur!EstIn(old, x)]
  <2>10. results' = {<<y, Monitor!Apart(E[y], P[y])>> :
                       y \in {w \in Keys : Monitor!Apart(E[w], P[w]) > Threshold}}
    <3>1. \A y \in Keys : Monitor!Apart(E[y], P[y]) = Far(y)
      BY <2>9
    <3> HIDE DEF E, P
    <3>2. {w \in Keys : Monitor!Apart(E[w], P[w]) > Threshold} = {w \in Keys : Far(w) > Threshold}
      BY <3>1
    <3> QED
      BY <2>8, <3>1, <3>2
  <2>11. Monitor!Report
    BY <1>1, <2>4, <2>10 DEF Monitor!Report
  <2> QED
    BY <2>11
<1> QED
  BY <1>2, <1>3

MonitorNext == Monitor!Count \/ Monitor!NextEpoch \/ Monitor!Report \/ Monitor!Crash

LEMMA MonitorInit ==
  Init => /\ Monitor!Init
          /\ [x \in Keys |-> Cur!EstIn(old, x)] = [x \in Keys |-> Cur!EstIn(cur, x)]
          /\ results = {}
<1> SUFFICES ASSUME Init PROVE Monitor!Init /\ old = cur /\ results = {}
  OBVIOUS
<1>1. running /\ old = cur /\ results = {} /\ \A b \in Cur!Buckets : cur[b].count = 0
  BY DEF Init, InitTables, Cur!Init, Cur!Empty
<1>2. \A y \in Keys : Cur!EstIn(cur, y) = 0
  BY <1>1, CurBucketsFinite, EstIsHeld, HeldNone
<1> QED
  BY <1>1, <1>2 DEF Init, InitTables, Cur!Init, Monitor!Init

LEMMA MonitorStep ==
  ASSUME IInv, FilesBounded, [Next]_vars
  PROVE  MonitorNext \/ UNCHANGED Monitor!monitorVars
<1>1. TypeOK /\ Chain!TypeOK
  BY DEF IInv, Chain!IInv
<1>2. CASE Open
  BY <1>1, <1>2, OpenIsMonitor DEF MonitorNext
<1>3. ASSUME NEW x \in Keys, Feed(x)
      PROVE  MonitorNext \/ UNCHANGED Monitor!monitorVars
  <2>1. Update(x) /\ results' = results
    BY <1>3 DEF Feed
  <2> QED
    BY <1>1, <2>1, CountIsMonitor DEF MonitorNext
<1>4. CASE FeedLast
  <2>1. Update(ZeroKey) /\ results' = results /\ ZeroKey \in Keys
    BY <1>4, ChangerAssumption DEF FeedLast
  <2> QED
    BY <1>1, <2>1, CountIsMonitor DEF MonitorNext
<1>5. CASE Report
  <2>1. results = {}
    BY <1>5 DEF Report, IInv, KeysKnown
  <2> QED
    BY <1>1, <1>5, <2>1, ReportIsMonitor DEF MonitorNext
<1>6. CASE UNCHANGED vars
  BY <1>6 DEF vars, tables, driver, Monitor!monitorVars
<1> QED
  BY <1>2, <1>3, <1>4, <1>5, <1>6 DEF Next

(* The driver reports as ChangeMonitor promises: through the rotation of   *)
(* the tables the estimates of the epoch before stay as they were when it  *)
(* ended, and every flow whose two estimates are further apart than the    *)
(* threshold is reported with the difference, also one that left the       *)
(* current table or was never in it.                                       *)
THEOREM ImplementsMonitor == Spec => RefinesMonitor
<1>1. Init => IInv /\ FilesBounded
  BY InitIInv, FilesInit
<1>2. IInv /\ FilesBounded /\ [Next]_vars => (IInv /\ FilesBounded)'
  <2>1. IInv => TypeOK
    BY DEF IInv
  <2> QED
    BY <2>1, StepIInv, FilesStep
<1>3. IInv /\ FilesBounded /\ [Next]_vars => [MonitorNext]_(Monitor!monitorVars)
  BY MonitorStep
<1> QED
  BY <1>1, <1>2, <1>3, MonitorInit, PTL DEF Spec, RefinesMonitor, Monitor!MonitorSpec, MonitorNext

----------------------------------------------------------------------------
(* Files of few flows *)

Sparse(n) == Cardinality(FlowsOf(n)) <= Depth

(* Packets of a flow that are still to be fed, the tuple after the last    *)
(* one included.                                                           *)
Coming(x) == left[x] + IF x = ZeroKey THEN 1 ELSE 0

(* Nothing of a sparse file is turned away while it is fed.                *)
CountsCurrent ==
  Sparse(truth.now) =>
    \A x \in Keys : truth.now[x] = recorded[x] + IF pc = "feed" THEN Coming(x) ELSE 0

CountsOld ==
  Sparse(truth.before) => \A x \in Keys : Cur!EstIn(old, x) = truth.before[x]

SparseInv == Chain!Placed /\ CountsCurrent /\ CountsOld /\ SparseExact

LEMMA SparseInit == Init => SparseInv
<1> SUFFICES ASSUME Init PROVE SparseInv
  OBVIOUS
<1>1. /\ \A b \in Cur!Buckets : cur[b].count = 0 /\ old = cur
      /\ \A x \in Keys : recorded[x] = 0 /\ truth.now[x] = 0 /\ truth.before[x] = 0
      /\ pc = "open" /\ numfile = 0
  BY DEF Init, InitTables, Cur!Init, Cur!Empty
<1>2. Chain!Placed
  BY <1>1, SameTable, ChainAssumption, Chain!ClearedPlaced
<1>3. CountsCurrent
  BY <1>1 DEF CountsCurrent
<1>4. CountsOld
  BY <1>1, CurBucketsFinite, EstIsHeld, HeldNone DEF CountsOld
<1>5. SparseExact
  BY <1>1 DEF SparseExact
<1> QED
  BY <1>2, <1>3, <1>4, <1>5 DEF SparseInv

(* The estimates of the current table, once a sparse file is fed.          *)
LEMMA CurrentExact ==
  ASSUME IInv, SparseInv, Sparse(truth.now), pc # "feed", NEW x \in Keys
  PROVE  Cur!EstIn(cur, x) = truth.now[x]
<1>1. /\ recorded \in [Keys -> Nat]
      /\ \A y \in Keys : truth.now[y] = recorded[y]
  <2>1. recorded \in [Keys -> Nat]
    BY DEF IInv, TypeOK, Cur!TypeOK
  <2> QED
    BY <2>1 DEF SparseInv, CountsCurrent
<1>2. Chain!FlowsOf(recorded) = FlowsOf(truth.now)
  BY <1>1 DEF Chain!FlowsOf, FlowsOf
<1>3. Chain!AtHome /\ Chain!InTable
  BY <1>2, SameFinite DEF SparseInv, Sparse, Chain!Placed, Chain!Few
<1>4. Chain!EstIn(cur, x) = recorded[x]
  BY <1>3, ChainAssumption, Chain!PlacedExact DEF IInv, Chain!IInv
<1> QED
  BY <1>1, <1>4, SameTable

(* A packet of a sparse file is counted, and the table stays in order.     *)
LEMMA SparseCount ==
  ASSUME IInv, SparseInv, NEW x \in Keys, Update(x)
  PROVE  /\ Chain!Placed'
         /\ Sparse(truth.now) /\ Coming(x) > 0 /\ pc = "feed" =>
              recorded' = [recorded EXCEPT ![x] = @ + 1]
<1>1. Chain!Update(x, 1) /\ 1 \in {1} /\ Chain!IInv /\ Chain!Placed
  BY SameUpdate DEF Update, IInv, SparseInv
<1>2. Chain!Placed'
  BY <1>1, ChainAssumption, Chain!UpdatePlaced
<1>3. ASSUME Sparse(truth.now), Coming(x) > 0, pc = "feed"
      PROVE  recorded' = [recorded EXCEPT ![x] = @ + 1]
  <2> DEFINE F == FlowsOf(truth.now)
             R == Chain!FlowsOf(recorded) \cup {x}
  <2>1. \A y \in Keys : /\ recorded[y] \in Nat /\ Coming(y) \in Nat
                        /\ truth.now[y] = recorded[y] + Coming(y)
    BY <1>3 DEF IInv, TypeOK, Cur!TypeOK, SparseInv, CountsCurrent, Coming
  <2>2. R \in SUBSET F
    BY <1>3, <2>1 DEF FlowsOf, Chain!FlowsOf
  <2>3. IsFiniteSet(F)
    BY ChangerAssumption, FS_Subset DEF FlowsOf
  <2>4. Cardinality(F) <= Depth
    BY <1>3 DEF Sparse
  <2> HIDE DEF F
  <2>5. Cardinality(R) <= Depth
    <3> HIDE DEF R
    <3>1. Cardinality(R) <= Cardinality(F) /\ IsFiniteSet(R)
      BY <2>2, <2>3, FS_Subset
    <3>2. Cardinality(R) \in Nat /\ Cardinality(F) \in Nat
      BY <2>3, <3>1, FS_CardinalityType
    <3> QED
      BY <2>4, <3>1, <3>2, ChangerAssumption
  <2>6. Chain!Cardinality(R) <= Depth
    BY <2>5, SameFinite
  <2>7. Chain!Hit(x, 1)
    BY <1>1, <2>6, ChainAssumption, Chain!FewHit
  <2> QED
    BY <2>7 DEF Chain!Hit
<1> QED
  BY <1>2, <1>3

LEMMA OpenSparse == ASSUME IInv, SparseInv, Open PROVE SparseInv'
<1>1. PICK file \in Files :
        truth' = [now |-> HandedOut(file), before |-> truth.now] /\ left' = file
  BY DEF Open
<1>2. pc = "open" /\ pc' = "feed" /\ Reset
  BY DEF Open
<1>3. /\ \A b \in Cur!Buckets : cur'[b].count = 0
      /\ \A x \in Keys : recorded'[x] = 0
      /\ old' = cur
  BY <1>2 DEF Reset, Cur!Reset, Cur!Empty
<1>4. Chain!Placed'
  BY <1>3, SameTable
     DEF Chain!Placed, Chain!AtHome, Chain!InTable, Chain!Buckets, Chain!Rows, Chain!Cols
<1>5. CountsCurrent'
  <2>1. file \in [Keys -> Nat]
    BY DriverAssumption DEF Files
  <2>2. ASSUME NEW x \in Keys
        PROVE  truth'.now[x] = recorded'[x] + Coming(x)'
    BY <1>1, <1>3, <2>1, <2>2 DEF HandedOut, Coming
  <2> QED
    BY <1>2, <2>2 DEF CountsCurrent
<1>6. CountsOld'
  <2>1. truth'.before = truth.now /\ old' = cur
    BY <1>1, <1>3
  <2>2. Sparse(truth.now) => \A x \in Keys : Cur!EstIn(cur, x) = truth.now[x]
    BY <1>2, CurrentExact
  <2> QED
    BY <2>1, <2>2 DEF CountsOld, Sparse, FlowsOf
<1>7. SparseExact'
  BY <1>2 DEF SparseExact
<1> QED
  BY <1>4, <1>5, <1>6, <1>7 DEF SparseInv

LEMMA FeedSparse ==
  ASSUME IInv, SparseInv, NEW x \in Keys, Feed(x)
  PROVE  SparseInv'
<1>1. /\ pc = "feed" /\ pc' = "feed" /\ left[x] > 0 /\ Update(x)
      /\ left' = [left EXCEPT ![x] = @ - 1]
      /\ truth' = truth /\ old' = old
  BY DEF Feed, Update
<1>2. left \in [Keys -> Nat] /\ recorded \in [Keys -> Nat]
  BY DEF IInv, TypeOK, Cur!TypeOK
<1>3. Chain!Placed'
  BY <1>1, SparseCount
<1>4. CountsCurrent'
  <2> SUFFICES ASSUME Sparse(truth.now), NEW y \in Keys
               PROVE  truth.now[y] = recorded'[y] + Coming(y)'
    BY <1>1 DEF CountsCurrent, Sparse, FlowsOf
  <2>1. recorded' = [recorded EXCEPT ![x] = @ + 1]
    BY <1>1, <1>2, SparseCount DEF Coming
  <2>2. truth.now[y] = recorded[y] + Coming(y)
    BY <1>1 DEF SparseInv, CountsCurrent
  <2> QED
    BY <1>1, <1>2, <2>1, <2>2 DEF Coming
<1>5. CountsOld' /\ SparseExact'
  BY <1>1 DEF SparseInv, CountsOld, Sparse, FlowsOf, SparseExact
<1> QED
  BY <1>3, <1>4, <1>5 DEF SparseInv

LEMMA FeedLastSparse == ASSUME IInv, SparseInv, FeedLast PROVE SparseInv'
<1>1. /\ pc = "feed" /\ pc' = "report" /\ Total(left) = 0 /\ Update(ZeroKey)
      /\ left' = left /\ truth' = truth /\ old' = old /\ ZeroKey \in Keys
  BY ChangerAssumption DEF FeedLast, Update
<1>2. left \in [Keys -> Nat] /\ recorded \in [Keys -> Nat]
  BY DEF IInv, TypeOK, Cur!TypeOK
<1>3. \A y \in Keys : left[y] = 0
  <2>1. SumOver(left, Keys) = 0
    BY <1>1 DEF Total, SumOver
  <2>2. \A y \in Keys : left[y] \in Nat /\ left[y] <= SumOver(left, Keys)
    BY <1>2, ChangerAssumption, SumNat
  <2> QED
    BY <2>1, <2>2
<1>4. Chain!Placed'
  BY <1>1, SparseCount
<1>5. CountsCurrent'
  <2> SUFFICES ASSUME Sparse(truth.now), NEW y \in Keys
               PROVE  truth.now[y] = recorded'[y] + 0
    BY <1>1 DEF CountsCurrent, Sparse, FlowsOf
  <2>1. recorded' = [recorded EXCEPT ![ZeroKey] = @ + 1]
    BY <1>1, <1>2, SparseCount DEF Coming
  <2>2. truth.now[y] = recorded[y] + Coming(y)
    BY <1>1 DEF SparseInv, CountsCurrent
  <2> QED
    BY <1>1, <1>2, <1>3, <2>1, <2>2 DEF Coming
<1>6. CountsOld' /\ SparseExact'
  BY <1>1 DEF SparseInv, CountsOld, Sparse, FlowsOf, SparseExact
<1> QED
  BY <1>4, <1>5, <1>6 DEF SparseInv

LEMMA SameTruth ==
  ASSUME truth' = truth
  PROVE  /\ Threshold' = Threshold /\ \A x : Diff(x)' = Diff(x)
         /\ Sparse(truth.now)' <=> Sparse(truth.now)
         /\ Sparse(truth.before)' <=> Sparse(truth.before)
<1>1. \A x : Diff(x)' = Diff(x)
  BY DEF Diff
<1>2. [x \in Keys |-> Diff(x)]' = [x \in Keys |-> Diff(x)]
  BY <1>1
<1>3. Threshold' = Threshold
  BY <1>2 DEF Threshold
<1> QED
  BY <1>1, <1>3 DEF Sparse, FlowsOf

(* What is reported after two sparse files.                                *)
LEMMA ReportSparse ==
  ASSUME IInv, SparseInv, FilesBounded, Report
  PROVE  SparseInv'
<1>1. /\ pc = "report" /\ pc' = "open" /\ numfile' = numfile + 1
      /\ results' = IF numfile = 0 THEN {} ELSE Query(Threshold)
      /\ UNCHANGED <<home, loc, running, cur, old, recorded>>
      /\ UNCHANGED <<truth, left>>
  BY DEF Report, tables
<1>2. Chain!Placed' /\ CountsCurrent' /\ CountsOld'
  BY <1>1
     DEF SparseInv, CountsCurrent, CountsOld, Sparse, FlowsOf,
         Chain!Placed, Chain!Few, Chain!FlowsOf, Chain!AtHome, Chain!InTable, Chain!Probe,
         Chain!Buckets, Chain!Rows, Chain!Cols
<1>3. ASSUME numfile' > 1, Sparse(truth.now), Sparse(truth.before)
      PROVE  results' = {<<x, Diff(x)>> : x \in {y \in Keys : Diff(y) > Threshold}}
  <2> DEFINE V == KeysOf(cur) \cup KeysOf(old)
  <2>0. TypeOK /\ Threshold \in Nat
    BY ThresholdIn, DriverAssumption DEF IInv
  <2>1. \A x \in Keys : /\ Cur!EstIn(cur, x) = truth.now[x]
                        /\ Cur!EstIn(old, x) = truth.before[x]
    BY <1>1, <1>3, CurrentExact DEF SparseInv, CountsOld
  <2>2. \A x \in V : x \in Keys
    BY <2>0 DEF TypeOK, Cur!TypeOK, KeysOf
  <2>3. \A x \in V : Change(x) = Diff(x)
    BY <2>0, <2>1, <2>2, ChangeIs DEF Diff
  <2>4. ASSUME NEW x \in Keys, x \notin V
        PROVE  Diff(x) = 0
    <3>1. Cur!EstIn(cur, x) = 0 /\ Cur!EstIn(old, x) = 0
      BY <2>0, <2>4, AbsentIsZero
    <3> QED
      BY <2>1, <3>1 DEF Diff
  <2>5. results' = {<<x, Change(x)>> : x \in {y \in V : Change(y) > Threshold}}
    BY <1>1, <1>3, QueryIs DEF IInv, TypeOK
  <2> HIDE DEF V
  <2>6. {y \in V : Change(y) > Threshold} = {y \in Keys : Diff(y) > Threshold}
    <3>1. \A y \in Keys : y \notin V => ~(Diff(y) > Threshold)
      BY <2>0, <2>4
    <3> QED
      BY <2>2, <2>3, <3>1
  <2> DEFINE W == {y \in V : Change(y) > Threshold}
  <2>7. \A y \in W : Change(y) = Diff(y)
    BY <2>3
  <2>8. results' = {<<x, Change(x)>> : x \in W} /\ W = {y \in Keys : Diff(y) > Threshold}
    BY <2>5, <2>6
  <2> HIDE DEF W
  <2> QED
    BY <2>7, <2>8
<1>4. /\ Threshold' = Threshold /\ \A x : Diff(x)' = Diff(x)
      /\ Sparse(truth.now)' <=> Sparse(truth.now)
      /\ Sparse(truth.before)' <=> Sparse(truth.before)
  BY <1>1, SameTruth
<1>5. SparseExact'
  BY <1>1, <1>3, <1>4 DEF SparseExact, Sparse, FlowsOf
<1> QED
  BY <1>2, <1>5 DEF SparseInv

LEMMA StepSparse ==
  ASSUME IInv, FilesBounded, SparseInv, [Next]_vars
  PROVE  SparseInv'
<1>1. CASE Open
  BY <1>1, OpenSparse
<1>2. ASSUME NEW x \in Keys, Feed(x) PROVE SparseInv'
  BY <1>2, FeedSparse
<1>3. CASE FeedLast
  BY <1>3, FeedLastSparse
<1>4. CASE Report
  BY <1>4, ReportSparse
<1>5. CASE UNCHANGED vars
  <2>1. UNCHANGED <<home, loc, running, cur, old, recorded, pc, truth, left, numfile, results>>
    BY <1>5 DEF vars, tables, driver
  <2>2. Chain!Placed' /\ CountsCurrent' /\ CountsOld'
    BY <2>1
       DEF SparseInv, CountsCurrent, CountsOld, Sparse, FlowsOf, Coming,
           Chain!Placed, Chain!Few, Chain!FlowsOf, Chain!AtHome, Chain!InTable, Chain!Probe,
           Chain!Buckets, Chain!Rows, Chain!Cols
  <2>3. SparseExact'
    BY <2>1, SameTruth DEF SparseInv, SparseExact, FlowsOf
  <2> QED
    BY <2>2, <2>3 DEF SparseInv
<1> QED
  BY <1>1, <1>2, <1>3, <1>4, <1>5 DEF Next

(* After two files of at most Depth flows each the driver reports exactly  *)
(* the flows whose true counts are further apart than the threshold, with  *)
(* their true difference, whatever the hash family and the threshold.      *)
THEOREM SparseReports == Spec => []SparseExact
<1>1. Init => IInv /\ FilesBounded /\ SparseInv
  BY InitIInv, FilesInit, SparseInit
<1>2. IInv /\ FilesBounded /\ SparseInv /\ [Next]_vars
        => (IInv /\ FilesBounded /\ SparseInv)'
  <2>1. IInv => TypeOK
    BY DEF IInv
  <2> QED
    BY <2>1, StepIInv, FilesStep, StepSparse
<1>3. SparseInv => SparseExact
  BY DEF SparseInv
<1> QED
  BY <1>1, <1>2, <1>3, PTL DEF Spec

----------------------------------------------------------------------------
(* Heavy changes *)

(* The differences between two files that differ.                          *)
LEMMA DiffsCount ==
  ASSUME TypeOK
  PROVE  /\ IsFiniteSet(Keys)
         /\ \A x \in Keys : Diff(x) \in Nat
         /\ truth.now # truth.before => \E x \in Keys : Diff(x) > 0
<1>1. /\ truth.now \in [Keys -> Nat] /\ truth.before \in [Keys -> Nat]
      /\ IsFiniteSet(Keys)
  BY ChangerAssumption DEF TypeOK
<1>2. \A x \in Keys : Diff(x) \in Nat
  BY <1>1 DEF Diff
<1>3. ASSUME truth.now # truth.before
      PROVE  \E x \in Keys : Diff(x) > 0
  <2>1. PICK x \in Keys : truth.now[x] # truth.before[x]
    BY <1>1, <1>3
  <2>2. Diff(x) > 0
    BY <1>1, <2>1 DEF Diff
  <2> QED
    BY <2>2
<1> QED
  BY <1>1, <1>2, <1>3

LEMMA SomeChange ==
  ASSUME TypeOK
  PROVE  ChangeExists
<1> DEFINE d == [x \in Keys |-> Diff(x)]
           C == {x \in Keys : Diff(x) > 0}
<1> SUFFICES ASSUME truth.now # truth.before, Cardinality(C) * ThreshNum < ThreshDen,
                    \A x \in Keys : ~(Diff(x) > Threshold)
             PROVE  FALSE
  BY DEF ChangeExists
<1>1. /\ \A x \in Keys : d[x] = Diff(x) /\ d[x] \in Nat
      /\ C \in SUBSET Keys /\ \A x \in Keys \ C : d[x] = 0
      /\ IsFiniteSet(Keys)
  BY DiffsCount
<1>2. Total(d) = SumOver(d, Keys)
  BY DEF Total, SumOver
<1>3. Threshold = (ThreshNum * Total(d)) \div ThreshDen
  BY DEF Threshold
<1>4. IsFiniteSet(C) /\ Cardinality(C) \in Nat
  BY <1>1, FS_Subset, FS_CardinalityType
<1>5. PICK x \in Keys : Diff(x) > 0
  BY DiffsCount
<1> HIDE DEF d, C
<1>6. Total(d) \in Nat
  BY <1>1, <1>2, SumNat
<1>7. Threshold \in Nat
  <2>1. ThreshNum * Total(d) \in Nat
    BY <1>6, DriverAssumption
  <2> QED
    BY <1>3, <2>1, DriverAssumption
<1>8. \A y \in C : d[y] \in Nat /\ d[y] <= Threshold
  BY <1>1, <1>7
<1>9. Threshold > 0
  BY <1>1, <1>5, <1>7
<1>10. SumOver(d, Keys) = SumOver(d, C)
  BY <1>1, SumRestrict
<1>11. Total(d) <= Cardinality(C) * Threshold
  BY <1>2, <1>4, <1>7, <1>8, <1>10, SumBounded
<1> QED
  BY <1>3, <1>4, <1>6, <1>7, <1>9, <1>11, DriverAssumption, ShareTooSmall

(* Two files that differ, in fewer than 1 / thresh flows, have a heavy     *)
(* changer, so recall is a number.                                         *)
THEOREM ChangeFound == Spec => []ChangeExists
<1>1. TypeOK => ChangeExists
  BY SomeChange
<1> QED
  BY <1>1, TypeCorrect, PTL
=============================================================================
