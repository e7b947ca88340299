------------------------ MODULE OvsChainSketchProofs ------------------------
(***************************************************************************)
(* The table of OvsChainSketch holds every flow once, in a home of its own,*)
(* for every table size, hash family and set of flows.                     *)
(***************************************************************************)
EXTENDS OvsChainSketch, FiniteSums

Bucket == [key : Keys, count : Nat]

(* The all-zero key of an unused bucket; and without a packet of that key, *)
(* a held bucket is a home of its flow, whose homes in the rows above are  *)
(* held as well.                                                           *)
EmptyIsZero == \A b \in Buckets : counts[b].count = 0 => counts[b].key = ZeroKey

RowsAboveHeld ==
  ZeroKey \notin seen =>
    \A b \in Buckets : counts[b].count > 0 =>
      \A j \in Rows : j < b[1] => counts[Probe(counts[b].key, j)].count > 0

(* Without a packet of the all-zero key no merge and no swap happens, and  *)
(* no walk ever does (107): a flow is only ever in one of its homes.       *)
HomesOnly ==
  ZeroKey \notin seen =>
    \A b \in Buckets : counts[b].count > 0 =>
      /\ counts[b].key \in seen
      /\ b = Probe(counts[b].key, b[1])

IInv == TypeOK /\ EmptyIsZero /\ RowsAboveHeld /\ HomesOnly /\ OneBucketPerFlow

LEMMA ProbeInTable ==
  ASSUME TypeOK, NEW x \in Keys, NEW i \in Rows
  PROVE  Probe(x, i) \in Buckets /\ Probe(x, i)[1] = i
  BY OvsAssumption DEF Probe, Buckets, TypeOK

LEMMA CellInTable ==
  ASSUME NEW b \in Buckets
  PROVE  Cell(b, 1) \in Buckets
<1>1. b[1] \in Rows /\ b[2] \in Cols
  BY DEF Buckets
<1>2. (b[2] + 1) % Width \in Cols
  BY <1>1, OvsAssumption DEF Cols
<1> QED
  BY <1>1, <1>2 DEF Cell, Buckets

LEMMA VictimIsHome ==
  ASSUME TypeOK, NEW x \in Keys, NEW b \in Victims(x)
  PROVE  b \in Buckets /\ \E i \in Rows : b = Probe(x, i)
<1>1. PICK i \in Rows : b = Probe(x, i)
  BY DEF Victims
<1> QED
  BY <1>1, ProbeInTable

LEMMA InitIInv == Init => IInv
<1> SUFFICES ASSUME Init PROVE IInv
  OBVIOUS
<1>1. \A b \in Buckets : counts[b] = Empty /\ counts[b].count = 0 /\ counts[b].key = ZeroKey
  BY DEF Init, Empty
<1>2. TypeOK
  BY OvsAssumption DEF Init, TypeOK, Empty
<1> QED
  BY <1>1, <1>2 DEF IInv, EmptyIsZero, RowsAboveHeld, HomesOnly, OneBucketPerFlow

----------------------------------------------------------------------------
(* The steps of Update *)

LEMMA UpdateTypes ==
  ASSUME TypeOK, EmptyIsZero, NEW x \in Keys, Update(x)
  PROVE  TypeOK' /\ EmptyIsZero'
<1>1. /\ home' = home /\ sum' = sum + 1 /\ seen' = seen \cup {x}
      /\ counts \in [Buckets -> Bucket] /\ sum \in Nat /\ seen \subseteq Keys
  BY DEF Update, TypeOK, Bucket
<1> SUFFICES counts' \in [Buckets -> Bucket]
             /\ \A b \in Buckets : counts'[b].count = 0 => counts'[b].key = ZeroKey
  BY <1>1 DEF TypeOK, EmptyIsZero, Bucket, Buckets, Rows, Cols
<1>2. \A b \in Buckets : counts[b].key \in Keys /\ counts[b].count \in Nat
  BY <1>1 DEF Bucket
<1>3. CASE Hit(x)
  <2>1. PICK i \in Rows : counts' = [counts EXCEPT ![Probe(x, i)] =
                                      [key |-> x, count |-> counts[Probe(x, i)].count + 1]]
    BY <1>3 DEF Hit, Stops
  <2>2. Probe(x, i) \in Buckets
    BY ProbeInTable
  <2> QED
    BY <1>1, <1>2, <2>1, <2>2 DEF EmptyIsZero, Bucket
<1>4. CASE Win(x)
  <2>1. PICK b \in Victims(x) : \/ ReplaceMerge(b, Cell(b, 1), x)
                                \/ ReplaceSwap(b, Cell(b, 1), x)
                                \/ ReplaceForget(b, Cell(b, 1), x)
    BY <1>4 DEF Win
  <2> DEFINE n == Cell(b, 1)
  <2>2. b \in Buckets /\ n \in Buckets
    BY CellInTable, VictimIsHome
  <2>3. counts[b].count # 0
    <3>1. PICK i \in Rows : b = Probe(x, i)
      BY VictimIsHome
    <3>2. ~Unused(b)
      BY <1>4, <3>1 DEF Win, Stops
    <3> QED
      BY <2>2, <3>2, OvsAssumption DEF Unused, EmptyIsZero
  <2> HIDE DEF n
  <2>4. CASE ReplaceMerge(b, n, x)
    <3>1. /\ counts'[n] = [counts[n] EXCEPT !.count = @ + counts[b].count]
          /\ counts'[b] = [key |-> x, count |-> counts[b].count + 1]
          /\ \A c \in Buckets : c # n /\ c # b => counts'[c] = counts[c]
          /\ DOMAIN counts' = Buckets /\ counts' = [c \in Buckets |-> counts'[c]]
      BY <1>1, <2>2, <2>4 DEF ReplaceMerge
    <3>2. counts[n].count + counts[b].count # 0 /\ counts[n].count + counts[b].count \in Nat
          /\ counts[b].count + 1 # 0 /\ counts[b].count + 1 \in Nat
      BY <1>2, <2>2, <2>3
    <3>3. /\ counts'[n] \in Bucket /\ counts'[n].count # 0
          /\ counts'[b] \in Bucket /\ counts'[b].count # 0
      BY <1>1, <2>2, <3>1, <3>2 DEF Bucket
    <3>4. \A c \in Buckets : /\ counts'[c] \in Bucket
                             /\ counts'[c].count = 0 => counts'[c].key = ZeroKey
      BY <1>1, <3>1, <3>3 DEF EmptyIsZero
    <3> QED
      BY <3>1, <3>4
  <2>5. CASE ReplaceSwap(b, n, x)
    <3>1. counts' = [counts EXCEPT ![n] = counts[b],
                                   ![b] = [key |-> x,
                                           count |-> counts[b].count + counts[n].count + 1]]
      BY <1>1, <2>2, <2>5 DEF ReplaceSwap, Bucket
    <3>2. counts[b].count + counts[n].count + 1 # 0
          /\ counts[b].count + counts[n].count + 1 \in Nat
      BY <1>2, <2>2
    <3> QED
      BY <1>1, <1>2, <2>2, <2>3, <3>1, <3>2 DEF EmptyIsZero, Bucket
  <2>6. CASE ReplaceForget(b, n, x)
    <3>1. counts' = [counts EXCEPT ![b] = [key |-> x, count |-> counts[b].count + 1]]
      BY <1>1, <2>2, <2>6 DEF ReplaceForget, Bucket
    <3> QED
      BY <1>1, <1>2, <2>2, <3>1 DEF EmptyIsZero, Bucket
  <2> QED
    BY <2>1, <2>4, <2>5, <2>6 DEF n
<1>5. CASE Lose(x) \/ Drop(x)
  BY <1>1, <1>5 DEF Lose, Drop, EmptyIsZero
<1> QED
  BY <1>3, <1>4, <1>5 DEF Update

(* One flow of another key than the zero key is written into one of its    *)
(* homes, when the homes above are held and no other bucket holds it.      *)
LEMMA WriteKeeps ==
  ASSUME IInv, NEW x \in Keys, ZeroKey \notin seen, x # ZeroKey, NEW i \in Rows, NEW v \in Nat \ {0},
         counts' = [counts EXCEPT ![Probe(x, i)] = [key |-> x, count |-> v]],
         home' = home, seen' = seen \cup {x},
         \A j \in Rows : j < i => counts[Probe(x, j)].count > 0,
         \A c \in Buckets : counts[c].count > 0 /\ counts[c].key = x => c = Probe(x, i)
  PROVE  RowsAboveHeld' /\ HomesOnly' /\ OneBucketPerFlow'
<1> DEFINE b == Probe(x, i)
<1>1. b \in Buckets /\ b[1] = i /\ \A j \in Rows : Probe(x, j) \in Buckets
  BY ProbeInTable DEF IInv
<1>2. /\ counts \in [Buckets -> Bucket] /\ counts'[b] = [key |-> x, count |-> v]
      /\ \A c \in Buckets : c # b => counts'[c] = counts[c]
  BY <1>1 DEF IInv, TypeOK, Bucket
<1>3. counts'[b].key = x /\ counts'[b].count = v /\ v > 0
  BY <1>2
<1>4. \A y, j : Probe(y, j)' = Probe(y, j)
  BY DEF Probe
<1>5. \A c \in Buckets : counts[c].count > 0 => counts'[c].count > 0
  BY <1>2, <1>3
<1>6. \A y \in Keys, j \in Rows : Probe(y, j) \in Buckets
  BY ProbeInTable DEF IInv
<1>7. \A c \in Buckets : counts[c].key \in Keys /\ counts[c].count \in Nat
  BY <1>2 DEF Bucket
<1> HIDE DEF b
<1>8. HomesOnly'
  <2> SUFFICES ASSUME NEW c \in Buckets, counts'[c].count > 0
               PROVE  counts'[c].key \in seen' /\ c = Probe(counts'[c].key, c[1])
    BY <1>4 DEF HomesOnly, Buckets, Rows, Cols
  <2>1. CASE c = b
    BY <1>1, <1>3, <2>1 DEF b
  <2>2. CASE c # b
    BY <1>2, <2>2 DEF IInv, HomesOnly
  <2> QED
    BY <2>1, <2>2
<1>9. RowsAboveHeld'
  <2> SUFFICES ASSUME NEW c \in Buckets, counts'[c].count > 0, NEW j \in Rows, j < c[1]
               PROVE  counts'[Probe(counts'[c].key, j)].count > 0
    BY <1>4 DEF RowsAboveHeld, Buckets, Rows, Cols
  <2>1. CASE c = b
    BY <1>1, <1>3, <1>5, <2>1
  <2>2. CASE c # b
    <3>1. counts[Probe(counts[c].key, j)].count > 0
      BY <1>2, <2>2 DEF IInv, RowsAboveHeld
    <3> QED
      BY <1>2, <1>5, <1>6, <1>7, <2>2, <3>1
  <2> QED
    BY <2>1, <2>2
<1>10. OneBucketPerFlow'
  <2> SUFFICES ASSUME NEW c \in Buckets, NEW d \in Buckets, counts'[c].count > 0,
                      counts'[d].count > 0, counts'[c].key = counts'[d].key, c # d
               PROVE  FALSE
    BY DEF OneBucketPerFlow, Buckets, Rows, Cols
  <2>1. CASE c # b /\ d # b
    BY <1>2, <2>1 DEF IInv, OneBucketPerFlow
  <2>2. CASE c = b /\ d # b
    BY <1>2, <1>3, <2>2 DEF b
  <2>3. CASE c # b /\ d = b
    BY <1>2, <1>3, <2>3 DEF b
  <2> QED
    BY <2>1, <2>2, <2>3
<1> QED
  BY <1>8, <1>9, <1>10

(* Without a packet of the all-zero key, a won lottery gives the victim's  *)
(* bucket to the flow; the flow of the bucket is not kept anywhere.        *)
LEMMA WinForgets ==
  ASSUME IInv, NEW x \in Keys, ZeroKey \notin seen, x # ZeroKey, Win(x)
  PROVE  \E i \in Rows : counts' = [counts EXCEPT ![Probe(x, i)] =
                           [key |-> x, count |-> counts[Probe(x, i)].count + 1]]
<1>1. \A b \in Buckets : counts[b].key \in Keys /\ counts[b].count \in Nat
  BY DEF IInv, TypeOK
<1>2. Stops(x) = {}
  BY DEF Win
<1>3. \A c \in Buckets : counts[c].count > 0 => counts[c].key # x
  <2> SUFFICES ASSUME NEW c \in Buckets, counts[c].count > 0, counts[c].key = x PROVE FALSE
    OBVIOUS
  <2>1. c = Probe(x, c[1])
    BY DEF IInv, HomesOnly
  <2> QED
    BY <1>2, <2>1 DEF Stops, Buckets
<1>4. PICK b \in Victims(x) : \/ ReplaceMerge(b, Cell(b, 1), x)
                              \/ ReplaceSwap(b, Cell(b, 1), x)
                              \/ ReplaceForget(b, Cell(b, 1), x)
  BY DEF Win
<1> DEFINE n == Cell(b, 1)
<1>5. PICK i \in Rows : b = Probe(x, i)
  BY VictimIsHome DEF IInv
<1>6. b \in Buckets /\ n \in Buckets /\ counts[b].count > 0
  <2>1. b \in Buckets /\ n \in Buckets /\ ~Unused(b)
    BY <1>2, <1>5, VictimIsHome, CellInTable DEF Stops, IInv
  <2> QED
    BY <1>1, <2>1, OvsAssumption DEF Unused, IInv, EmptyIsZero
<1> HIDE DEF n
<1>7. ~ReplaceMerge(b, n, x)
  <2> SUFFICES ASSUME n # b, counts[n].key = counts[b].key PROVE FALSE
    BY DEF ReplaceMerge
  <2>1. CASE counts[n].count > 0
    BY <1>6, <2>1 DEF IInv, OneBucketPerFlow
  <2>2. CASE counts[n].count = 0
    BY <1>6, <2>2 DEF IInv, EmptyIsZero, HomesOnly
  <2> QED
    BY <1>1, <1>6, <2>1, <2>2
<1>8. ~ReplaceSwap(b, n, x)
  BY <1>1, <1>3, <1>6 DEF ReplaceSwap, IInv, EmptyIsZero
<1>9. counts' = [counts EXCEPT ![Probe(x, i)] =
                   [key |-> x, count |-> counts[Probe(x, i)].count + 1]]
  BY <1>4, <1>5, <1>6, <1>7, <1>8 DEF ReplaceForget, n, IInv, TypeOK
<1> QED
  BY <1>9

LEMMA UpdateIInv ==
  ASSUME IInv, NEW x \in Keys, Update(x)
  PROVE  IInv'
<1>1. TypeOK' /\ EmptyIsZero'
  BY UpdateTypes DEF IInv
<1>2. home' = home /\ seen' = seen \cup {x} /\ \A y, j : Probe(y, j)' = Probe(y, j)
  BY DEF Update, Probe
<1>3. CASE ZeroKey \in seen'
  BY <1>1, <1>3 DEF IInv, RowsAboveHeld, HomesOnly, OneBucketPerFlow
<1>4. CASE ZeroKey \notin seen'
  <2>1. ZeroKey \notin seen /\ x # ZeroKey
    BY <1>2, <1>4
  <2>2. \A b \in Buckets : counts[b].key \in Keys /\ counts[b].count \in Nat
    BY DEF IInv, TypeOK
  <2>3. \A j \in Rows : /\ Probe(x, j) \in Buckets /\ Probe(x, j)[1] = j
                        /\ j \notin Stops(x) => counts[Probe(x, j)].count > 0
    <3>1. ASSUME NEW j \in Rows, j \notin Stops(x)
          PROVE  counts[Probe(x, j)].count > 0
      <4>1. Probe(x, j) \in Buckets /\ ~Unused(Probe(x, j))
        BY <3>1, ProbeInTable DEF IInv, Stops
      <4> QED
        BY <2>2, <4>1, OvsAssumption DEF Unused, IInv, EmptyIsZero
    <3> QED
      BY <3>1, ProbeInTable DEF IInv
  <2>4. ASSUME NEW c \in Buckets, counts[c].count > 0, counts[c].key = x
        PROVE  c[1] \in Stops(x) /\ c = Probe(x, c[1])
    <3>1. c = Probe(x, c[1])
      BY <2>1, <2>4 DEF IInv, HomesOnly
    <3> QED
      BY <2>4, <3>1 DEF Stops, Buckets
  <2>5. CASE Hit(x)
    <3>1. PICK i \in Stops(x) :
            /\ \A j \in Stops(x) : i <= j
            /\ counts' = [counts EXCEPT ![Probe(x, i)] =
                            [key |-> x, count |-> counts[Probe(x, i)].count + 1]]
      BY <2>5 DEF Hit
    <3>2. i \in Rows /\ counts[Probe(x, i)].count + 1 \in Nat \ {0}
      BY <2>2, <2>3 DEF Stops
    <3>3. \A j \in Rows : j < i => counts[Probe(x, j)].count > 0
      BY <2>3, <3>1, <3>2 DEF Rows
    <3>4. ASSUME NEW c \in Buckets, counts[c].count > 0, counts[c].key = x
          PROVE  c = Probe(x, i)
      <4>1. c[1] \in Rows /\ i <= c[1] /\ c = Probe(x, c[1])
        BY <2>4, <3>1, <3>4 DEF Buckets
      <4>2. CASE i = c[1]
        BY <4>1, <4>2
      <4>3. CASE i < c[1]
        <5>1. counts[Probe(x, i)].count > 0
          BY <2>1, <3>2, <3>4, <4>3 DEF IInv, RowsAboveHeld
        <5>2. counts[Probe(x, i)].key = x
          BY <2>3, <3>1, <5>1 DEF Stops, Unused
        <5> QED
          BY <2>1, <2>3, <3>2, <3>4, <5>1, <5>2 DEF IInv, OneBucketPerFlow
      <4> QED
        BY <3>2, <4>1, <4>2, <4>3 DEF Rows
    <3> QED
      BY <1>1, <1>2, <2>1, <3>1, <3>2, <3>3, <3>4, WriteKeeps DEF IInv
  <2>6. CASE Win(x)
    <3>1. Stops(x) = {}
      BY <2>6 DEF Win
    <3>2. \A c \in Buckets : counts[c].count > 0 => counts[c].key # x
      BY <2>4, <3>1
    <3>3. PICK i \in Rows : counts' = [counts EXCEPT ![Probe(x, i)] =
                              [key |-> x, count |-> counts[Probe(x, i)].count + 1]]
      BY <2>1, <2>6, WinForgets
    <3> DEFINE b == Probe(x, i)
    <3>4. counts[b].count + 1 \in Nat \ {0}
      BY <2>2, <2>3
    <3>5. \A j \in Rows : j < i => counts[Probe(x, j)].count > 0
      BY <2>3, <3>1
    <3> QED
      BY <1>1, <1>2, <2>1, <3>2, <3>3, <3>4, <3>5, WriteKeeps DEF IInv
  <2>7. CASE Lose(x) \/ Drop(x)
    <3>1. counts' = counts
      BY <2>7 DEF Lose, Drop
    <3> QED
      BY <1>1, <1>2, <2>1, <3>1 DEF IInv, RowsAboveHeld, HomesOnly, OneBucketPerFlow
  <2> QED
    BY <2>5, <2>6, <2>7 DEF Update
<1> QED
  BY <1>3, <1>4

LEMMA StepIInv == IInv /\ [Next]_vars => IInv'
<1> SUFFICES ASSUME IInv, [Next]_vars PROVE IInv'
  OBVIOUS
<1>1. ASSUME NEW x \in Keys, Update(x)
      PROVE  IInv'
  BY <1>1, UpdateIInv
<1>2. CASE Reset
  <2>1. \A b \in Buckets : counts'[b].count = 0 /\ counts'[b].key = ZeroKey
    BY <1>2 DEF Reset, Empty
  <2>2. TypeOK'
    BY <1>2, OvsAssumption DEF Reset, IInv, TypeOK, Empty
  <2> QED
    BY <2>1, <2>2 DEF IInv, EmptyIsZero, RowsAboveHeld, HomesOnly, OneBucketPerFlow,
                      Buckets, Rows, Cols
<1>3. CASE UNCHANGED vars
  BY <1>3 DEF vars, IInv, TypeOK, EmptyIsZero, RowsAboveHeld, HomesOnly, OneBucketPerFlow,
              Probe
<1> QED
  BY <1>1, <1>2, <1>3 DEF Next

----------------------------------------------------------------------------
(* Types are preserved. *)
THEOREM TypeCorrect == Spec => []TypeOK
<1>1. IInv => TypeOK
  BY DEF IInv
<1> QED
  BY <1>1, InitIInv, StepIInv, PTL DEF Spec

(* Without a packet of the all-zero key, every flow is in one bucket.      *)
THEOREM OneBucket == Spec => []OneBucketPerFlow
<1>1. IInv => OneBucketPerFlow
  BY DEF IInv
<1> QED
  BY <1>1, InitIInv, StepIInv, PTL DEF Spec

----------------------------------------------------------------------------
(* The estimates *)

LEMMA BucketsFinite == IsFiniteSet(Buckets)
<1>1. IsFiniteSet(Rows) /\ IsFiniteSet(Cols)
  BY OvsAssumption, FS_Interval DEF Rows, Cols
<1> QED
  BY <1>1, FS_Product DEF Buckets

LEMMA EstIsHeld ==
  ASSUME NEW t, NEW y
  PROVE  EstIn(t, y) = Held(t, Buckets, y)
  BY DEF EstIn, Held

(* Each way through Update that changes the table records the packet, the  *)
(* merge and the swap that only the all-zero key causes included.          *)
LEMMA UpdateRecords ==
  ASSUME TypeOK, NEW x \in Keys, Hit(x) \/ Win(x)
  PROVE  Recorded(counts, counts', Buckets, Keys, x, 1)
<1>1. counts \in [Buckets -> Bucket] /\ \A d \in Buckets : counts[d].count \in Nat
  BY DEF TypeOK, Bucket
<1>2. ASSUME NEW b \in Buckets, NEW c \in Buckets, NEW n \in Nat, NEW s \in Bucket,
             counts' = [counts EXCEPT ![c] = s, ![b] = [key |-> x, count |-> n]],
             Moves(counts, b, c, x, 1, n, s)
      PROVE  Recorded(counts, counts', Buckets, Keys, x, 1)
  <2>1. /\ counts' \in [Buckets -> Bucket]
        /\ counts'[b] = [key |-> x, count |-> n]
        /\ c # b => counts'[c] = s
        /\ \A d \in Buckets \ {b, c} : counts'[d] = counts[d]
    BY <1>1, <1>2 DEF Bucket
  <2>2. counts'[b].key = x /\ counts'[b].count = n /\ s.count \in Nat
    BY <2>1 DEF Bucket
  <2>3. IsTable(counts, Buckets) /\ IsTable(counts', Buckets)
    BY <1>1, <2>1 DEF IsTable, Bucket
  <2>4. Writes(counts, counts', Buckets, b, c, x, n, s)
    BY <2>1, <2>2 DEF Writes
  <2> QED
    BY <1>2, <2>2, <2>3, <2>4, BucketsFinite, MovesRecorded
<1>3. ASSUME NEW b \in Buckets,
             counts' = [counts EXCEPT ![b] = [key |-> x, count |-> counts[b].count + 1]]
      PROVE  Recorded(counts, counts', Buckets, Keys, x, 1)
  <2> DEFINE n == counts[b].count + 1
  <2>1. n \in Nat /\ counts[b] \in Bucket
    BY <1>1
  <2>2. counts' = [counts EXCEPT ![b] = counts[b], ![b] = [key |-> x, count |-> n]]
    BY <1>1, <1>3
  <2>3. Moves(counts, b, b, x, 1, n, counts[b])
    BY DEF Moves
  <2> HIDE DEF n
  <2> QED
    BY <1>2, <2>1, <2>2, <2>3
<1>4. CASE Hit(x)
  <2>1. PICK i \in Rows : counts' = [counts EXCEPT ![Probe(x, i)] =
                                      [key |-> x, count |-> counts[Probe(x, i)].count + 1]]
    BY <1>4 DEF Hit, Stops
  <2>2. Probe(x, i) \in Buckets
    BY ProbeInTable
  <2> QED
    BY <1>3, <2>1, <2>2
<1>5. CASE Win(x)
  <2>1. PICK b \in Victims(x) : \/ ReplaceMerge(b, Cell(b, 1), x)
                                \/ ReplaceSwap(b, Cell(b, 1), x)
                                \/ ReplaceForget(b, Cell(b, 1), x)
    BY <1>5 DEF Win
  <2> DEFINE m == Cell(b, 1)
  <2>2. b \in Buckets /\ m \in Buckets
    BY CellInTable, VictimIsHome
  <2> HIDE DEF m
  <2>3. CASE ReplaceMerge(b, m, x)
    <3> DEFINE n == counts[b].count + 1
               s == [counts[m] EXCEPT !.count = @ + counts[b].count]
    <3>1. m # b /\ counts[m].key = counts[b].key
      BY <2>3 DEF ReplaceMerge
    <3>2. n \in Nat /\ s \in Bucket
      BY <1>1, <2>2 DEF Bucket
    <3>3. counts' = [counts EXCEPT ![m] = s, ![b] = [key |-> x, count |-> n]]
      BY <1>1, <2>2, <2>3, <3>1 DEF ReplaceMerge, Bucket
    <3>4. s.key = counts[b].key /\ s.count = counts[m].count + counts[b].count
      BY <1>1, <2>2, <3>1 DEF Bucket
    <3> HIDE DEF s
    <3>5. Moves(counts, b, m, x, 1, n, s)
      BY <3>1, <3>4 DEF Moves
    <3> HIDE DEF n
    <3> QED
      BY <1>2, <2>2, <3>2, <3>3, <3>5
  <2>4. CASE ReplaceSwap(b, m, x)
    <3> DEFINE n == counts[b].count + counts[m].count + 1
    <3>1. m # b /\ counts[m].key = x
      BY <2>4 DEF ReplaceSwap
    <3>2. n \in Nat /\ counts[b] \in Bucket
      BY <1>1, <2>2
    <3>3. counts' = [counts EXCEPT ![m] = counts[b], ![b] = [key |-> x, count |-> n]]
      BY <1>1, <2>2, <2>4, <3>1 DEF ReplaceSwap, Bucket
    <3>4. Moves(counts, b, m, x, 1, n, counts[b])
      BY <3>1 DEF Moves
    <3> HIDE DEF n
    <3> QED
      BY <1>2, <2>2, <3>2, <3>3, <3>4
  <2>5. CASE ReplaceForget(b, m, x)
    <3>1. counts' = [counts EXCEPT ![b] = [key |-> x, count |-> counts[b].count + 1]]
      BY <1>1, <2>2, <2>5 DEF ReplaceForget, Bucket
    <3> QED
      BY <1>3, <2>2, <3>1
  <2> QED
    BY <2>1, <2>3, <2>4, <2>5 DEF m
<1> QED
  BY <1>4, <1>5

LEMMA FlowsInit == Init => Flows!Init
<1> SUFFICES ASSUME Init PROVE Flows!Init
  OBVIOUS
<1>1. \A b \in Buckets : counts[b].count = 0
  BY DEF Init, Empty
<1>2. \A y \in Keys : EstIn(counts, y) = 0
  BY <1>1, BucketsFinite, EstIsHeld, HeldNone
<1> QED
  BY <1>2 DEF Flows!Init

LEMMA FlowsStep == TypeOK /\ [Next]_vars => [Flows!Next]_(Flows!flowVars)
<1> SUFFICES ASSUME TypeOK, [Next]_vars PROVE [Flows!Next]_(Flows!flowVars)
  OBVIOUS
<1>1. ASSUME counts' = counts
      PROVE  UNCHANGED Flows!flowVars
  BY <1>1 DEF Flows!flowVars
<1>2. ASSUME NEW x \in Keys, Update(x)
      PROVE  [Flows!Next]_(Flows!flowVars)
  <2>1. CASE Hit(x) \/ Win(x)
    <3>1. Recorded(counts, counts', Buckets, Keys, x, 1)
      BY <2>1, UpdateRecords
    <3>2. Flows!Record(x, 1)
      BY <3>1, EstIsHeld DEF Recorded, Flows!Record
    <3> QED
      BY <3>2 DEF Flows!Next
  <2>2. CASE Lose(x) \/ Drop(x)
    BY <1>1, <2>2 DEF Lose, Drop
  <2> QED
    BY <1>2, <2>1, <2>2 DEF Update
<1>3. CASE Reset
  <2>1. \A b \in Buckets : counts'[b].count = 0
    BY <1>3 DEF Reset, Empty
  <2>2. \A y \in Keys : EstIn(counts', y) = 0
    BY <2>1, BucketsFinite, EstIsHeld, HeldNone
  <2>3. Flows!Reset
    BY <2>2 DEF Flows!Reset
  <2> QED
    BY <2>3 DEF Flows!Next
<1>4. CASE UNCHANGED vars
  BY <1>1, <1>4 DEF vars
<1> QED
  BY <1>2, <1>3, <1>4 DEF Next

(* This table, too, implements the estimates of FlowTable, whatever its    *)
(* size and with packets of the all-zero key.                              *)
THEOREM ImplementsFlowTable == Spec => RefinesFlowTable
  BY TypeCorrect, FlowsInit, FlowsStep, PTL DEF Spec, RefinesFlowTable, Flows!Spec

----------------------------------------------------------------------------
(* What is reported *)

(* What the table counts is a share of the packets. *)

Within == ZeroKey \notin seen => SumOver(CountsOf(counts, Buckets), Buckets) <= sum

(* A packet adds one to the counts of the table, or nothing.               *)
LEMMA StepWithin == IInv /\ Within /\ [Next]_vars => Within'
<1> SUFFICES ASSUME IInv, Within, [Next]_vars, ZeroKey \notin seen'
             PROVE  SumOver(CountsOf(counts', Buckets), Buckets) <= sum'
  BY DEF Within, CountsOf, Buckets, Rows, Cols
<1>0. counts \in [Buckets -> Bucket] /\ sum \in Nat
  BY DEF IInv, TypeOK, Bucket
<1>1. ASSUME NEW x \in Keys, Update(x)
      PROVE  SumOver(CountsOf(counts', Buckets), Buckets) <= sum'
  <2>1. ZeroKey \notin seen /\ x # ZeroKey /\ sum' = sum + 1
    BY <1>1 DEF Update
  <2>2. CASE Hit(x) \/ Win(x)
    <3>1. PICK i \in Rows : counts' = [counts EXCEPT ![Probe(x, i)] =
                              [key |-> x, count |-> counts[Probe(x, i)].count + 1]]
      BY <2>1, <2>2, WinForgets DEF Hit, Stops
    <3> DEFINE d == Probe(x, i)
               p == CountsOf(counts, Buckets)
               q == CountsOf(counts', Buckets)
    <3>2. d \in Buckets
      BY ProbeInTable DEF IInv
    <3>3. /\ \A b \in Buckets \ {d} : counts'[b] = counts[b]
          /\ counts'[d].count = counts[d].count + 1
      BY <1>0, <3>1, <3>2
    <3>4. /\ \A b \in Buckets \ {d} : p[b] = q[b]
          /\ q[d] = p[d] + 1
          /\ \A b \in Buckets : p[b] \in Int /\ q[b] \in Int
      BY <1>0, <3>2, <3>3 DEF CountsOf, Bucket
    <3> HIDE DEF p, q, d
    <3>5. SumOver(q, Buckets) = SumOver(p, Buckets) + q[d] - p[d]
      BY <3>2, <3>4, BucketsFinite, SumChange
    <3>6. SumOver(p, Buckets) \in Int /\ p[d] \in Int
      BY <3>2, <3>4, BucketsFinite, SumInt
    <3>7. SumOver(p, Buckets) <= sum
      BY <2>1 DEF Within, p
    <3> QED
      BY <1>0, <2>1, <3>4, <3>5, <3>6, <3>7 DEF q
  <2>3. CASE Lose(x) \/ Drop(x)
    <3>1. \A b \in Buckets : CountsOf(counts, Buckets)[b] \in Int
      BY <1>0 DEF CountsOf, Bucket
    <3>2. SumOver(CountsOf(counts, Buckets), Buckets) \in Int
      BY <3>1, BucketsFinite, SumInt
    <3>3. counts' = counts
      BY <2>3 DEF Lose, Drop
    <3> QED
      BY <1>0, <2>1, <3>2, <3>3 DEF Within
  <2> QED
    BY <1>1, <2>2, <2>3 DEF Update
<1>2. CASE Reset
  <2>1. \A b \in Buckets : CountsOf(counts', Buckets)[b] = 0
    BY <1>2 DEF Reset, Empty, CountsOf
  <2>2. SumOver(CountsOf(counts', Buckets), Buckets) = 0
    BY <2>1, BucketsFinite, SumZero
  <2> QED
    BY <1>2, <2>2 DEF Reset
<1>3. CASE UNCHANGED vars
  BY <1>3 DEF vars, Within
<1> QED
  BY <1>1, <1>2, <1>3 DEF Next

(* A flow is in one of its homes, and nowhere else, or in no bucket.       *)
LEMMA Single ==
  ASSUME IInv, ZeroKey \notin seen, NEW x
  PROVE  \/ /\ EstIn(counts, x) = 0
            /\ \A b \in Buckets : Part(counts[b], x) = 0
         \/ \E i \in Rows :
              /\ Probe(x, i) \in Buckets
              /\ EstIn(counts, x) = Part(counts[Probe(x, i)], x)
              /\ \A b \in Buckets \ {Probe(x, i)} : Part(counts[b], x) = 0
<1>1. IsTable(counts, Buckets) /\ EstIn(counts, x) = Held(counts, Buckets, x)
  BY EstIsHeld DEF IInv, TypeOK, IsTable
<1>2. CASE \A b \in Buckets : Part(counts[b], x) = 0
  BY <1>1, <1>2, BucketsFinite, HeldNowhere
<1>3. CASE \E b \in Buckets : Part(counts[b], x) # 0
  <2>1. PICK d \in Buckets : counts[d].key = x /\ counts[d].count # 0
    BY <1>3 DEF Part
  <2>2. \A b \in Buckets : counts[b].count \in Nat
    BY DEF IInv, TypeOK
  <2>3. d = Probe(x, d[1]) /\ d[1] \in Rows
    BY <2>1, <2>2 DEF IInv, HomesOnly, Buckets
  <2>4. \A b \in Buckets \ {d} : Part(counts[b], x) = 0
    BY <2>1, <2>2 DEF IInv, OneBucketPerFlow, Part
  <2>5. Held(counts, Buckets, x) = Part(counts[d], x)
    BY <1>1, <2>4, BucketsFinite, HeldOnly
  <2> QED
    BY <1>1, <2>3, <2>4, <2>5
<1> QED
  BY <1>2, <1>3

(* The buckets Query visits, and what it finds there.                      *)
Places == Rows \X (0 .. 3)
At(x, p) == Cell(Probe(x, p[1]), p[2])
Found(x) == [p \in Places |-> Part(counts[At(x, p)], x)]

LEMMA PlacesFinite == IsFiniteSet(Rows) /\ IsFiniteSet(Places)
<1>1. IsFiniteSet(Rows)
  BY OvsAssumption, FS_Interval DEF Rows
<1>2. 0 \in Int /\ 3 \in Int
  OBVIOUS
<1>3. IsFiniteSet(0 .. 3)
  BY <1>2, FS_Interval, Zenon
<1> QED
  BY <1>1, <1>3, FS_Product DEF Places

LEMMA EstimateIs ==
  ASSUME NEW x
  PROVE  Estimate(x) = SumOver(Found(x), Places)
<1> DEFINE a == Found(x)
           E(h) == [s \in SUBSET Places |->
                      IF s = {} THEN 0
                      ELSE (IF counts[At(x, CHOOSE p \in s : TRUE)].key = x
                            THEN counts[At(x, CHOOSE p \in s : TRUE)].count ELSE 0)
                           + h[s \ {CHOOSE p \in s : TRUE}]]
           i == CHOOSE h : h = E(h)
<1>1. PICK g : SumsOf(g, a, SUBSET Places)
  BY PlacesFinite, SumsExist
<1>2. ASSUME NEW s \in SUBSET Places, s # {}
      PROVE  a[Pick(s)] = IF counts[At(x, Pick(s))].key = x
                          THEN counts[At(x, Pick(s))].count ELSE 0
  <2>1. Pick(s) \in Places
    BY <1>2, PickIn
  <2> QED
    BY <2>1 DEF Found, Part
<1>3. \A h : SumsOf(h, a, SUBSET Places) <=> h = E(h)
  <2> HIDE DEF a
  <2> QED
    BY <1>2 DEF SumsOf, Pick
<1>4. i = E(i)
  <2> HIDE DEF E
  <2> QED
    BY <1>1, <1>3
<1>5. Estimate(x) = i[Places]
  BY DEF Estimate, MapThenSumSet, MapThenFoldSet, At, Places
<1> HIDE DEF i, E
<1>6. SumsOf(i, a, SUBSET Places)
  BY <1>3, <1>4
<1>7. PICK h : SumsOf(h, a, SUBSET Places) /\ SumOver(a, Places) = h[Places]
  BY <1>6, SumOverIs
<1>8. i[Places] = h[Places]
  <2> HIDE DEF a
  <2> QED
    BY <1>6, <1>7, PlacesFinite, SumsUnique
<1> QED
  BY <1>5, <1>7, <1>8

(* The buckets after a home are not the home, in a row of four or more.    *)
LEMMA AfterHome ==
  ASSUME TypeOK, Width > 3, NEW x \in Keys, NEW p \in Places
  PROVE  /\ At(x, p) \in Buckets /\ At(x, p)[1] = p[1]
         /\ p[2] = 0 => At(x, p) = Probe(x, p[1])
         /\ p[2] # 0 => At(x, p) # Probe(x, p[1])
<1> DEFINE b == Probe(x, p[1])
<1>1. b \in Buckets /\ b[1] = p[1] /\ p[2] \in 0 .. 3 /\ Width \in Nat
  BY ProbeInTable, OvsAssumption DEF Places
<1>2. b[1] \in Rows /\ b[2] \in 0 .. Width - 1
  BY <1>1 DEF Buckets, Cols
<1>3. b = <<b[1], b[2]>>
  BY <1>1 DEF Buckets
<1> DEFINE c == b[2]
           k == p[2]
<1>4. /\ (c + k) % Width \in 0 .. Width - 1
      /\ k = 0 => (c + k) % Width = c
      /\ k # 0 => (c + k) % Width # c
  <2>1. c \in 0 .. Width - 1 /\ k \in 0 .. 3
    BY <1>1, <1>2
  <2> HIDE DEF c, k, b
  <2>2. CASE c + k < Width
    BY <1>1, <2>1, <2>2
  <2>3. CASE c + k >= Width
    <3>1. c + k - Width \in 0 .. Width - 1
      BY <1>1, <2>1, <2>3
    <3>2. (c + k) % Width = c + k - Width
      BY <1>1, <2>1, <2>3, <3>1
    <3> QED
      BY <1>1, <2>1, <2>3, <3>1, <3>2
  <2> QED
    BY <1>1, <2>1, <2>2, <2>3
<1> QED
  BY <1>1, <1>2, <1>3, <1>4 DEF At, Cell, Buckets, Cols

(* Query finds all that the table counts for the flow.                     *)
LEMMA EstimateFinds ==
  ASSUME IInv, Width > 3, ZeroKey \notin seen, NEW x \in Keys
  PROVE  Estimate(x) = EstIn(counts, x)
<1> DEFINE a == Found(x)
<1>1. \A p \in Places : a[p] = Part(counts[At(x, p)], x) /\ At(x, p) \in Buckets
  BY AfterHome DEF Found, IInv
<1>2. \A b \in Buckets : Part(counts[b], x) \in Nat
  BY DEF IInv, TypeOK, Part
<1>3. Estimate(x) = SumOver(a, Places)
  BY EstimateIs
<1> HIDE DEF a
<1>4. CASE /\ EstIn(counts, x) = 0
           /\ \A b \in Buckets : Part(counts[b], x) = 0
  BY <1>1, <1>3, <1>4, PlacesFinite, SumZero
<1>5. ASSUME NEW i \in Rows, Probe(x, i) \in Buckets,
             EstIn(counts, x) = Part(counts[Probe(x, i)], x),
             \A b \in Buckets \ {Probe(x, i)} : Part(counts[b], x) = 0
      PROVE  Estimate(x) = EstIn(counts, x)
  <2> DEFINE y == <<i, 0>>
  <2>1. y \in Places /\ y[1] = i /\ y[2] = 0
    BY DEF Places
  <2>2. At(x, y) = Probe(x, i)
    <3> HIDE DEF y
    <3> QED
      BY <2>1, AfterHome DEF IInv
  <2>3. \A p \in Places \ {y} : At(x, p) # Probe(x, i)
    <3> SUFFICES ASSUME NEW p \in Places, p # y, At(x, p) = Probe(x, i) PROVE FALSE
      OBVIOUS
    <3>1. p[1] = i
      BY <1>5, AfterHome, ProbeInTable DEF IInv
    <3>2. p[2] = 0
      BY <3>1, AfterHome DEF IInv
    <3> QED
      BY <3>1, <3>2 DEF Places
  <2> HIDE DEF y
  <2>4. a[y] = EstIn(counts, x) /\ a[y] \in Int
    BY <1>1, <1>2, <1>5, <2>1, <2>2
  <2>5. \A p \in Places \ {y} : a[p] = 0
    BY <1>1, <1>5, <2>3
  <2> QED
    BY <1>3, <2>1, <2>4, <2>5, PlacesFinite, SumOnly
<1> QED
  BY <1>4, <1>5, Single

(* Query reports the count of every held bucket, once.                     *)
LEMMA ReportsBuckets ==
  ASSUME IInv, Width > 3, ZeroKey \notin seen
  PROVE  MapThenSumSet(LAMBDA r : r[2], Query(0)) = SumOver(CountsOf(counts, Buckets), Buckets)
<1> DEFINE H == {b \in Buckets : counts[b].count > 0}
           f == [b \in H |-> <<counts[b].key, counts[b].count>>]
           a == CountsOf(counts, Buckets)
           Q == {f[b] : b \in H}
<1>1. \A b \in Buckets : counts[b].count \in Nat /\ counts[b].key \in Keys
  BY DEF IInv, TypeOK
<1>2. ASSUME NEW b \in H
      PROVE  Estimate(counts[b].key) = counts[b].count /\ counts[b].count # 0
  <2>1. Estimate(counts[b].key) = EstIn(counts, counts[b].key)
    BY <1>1, EstimateFinds
  <2>2. Part(counts[b], counts[b].key) = counts[b].count
    BY DEF Part
  <2>3. EstIn(counts, counts[b].key) = counts[b].count
    BY <1>2, <2>2, Single
  <2> QED
    BY <2>1, <2>3
<1>3. Query(0) = Q
  <2> DEFINE P(x) == <<x, IF Estimate(x) # 0 THEN Estimate(x) ELSE MinCap>>
  <2>1. Query(0) = {P(x) : x \in {counts[b].key : b \in H}}
    BY DEF Query
  <2>2. \A b \in H : P(counts[b].key) = f[b]
    BY <1>2
  <2> HIDE DEF P, f, H
  <2> QED
    BY <2>1, <2>2
<1>4. IsFiniteSet(H) /\ H \in SUBSET Buckets
  BY BucketsFinite, FS_Subset
<1>5. \A b \in H : a[b] \in Int /\ f[b][2] = a[b]
  BY <1>1 DEF CountsOf
<1>6. \A b, c \in H : f[b] = f[c] => b = c
  BY DEF IInv, OneBucketPerFlow
<1>7. \A b \in H : Seconds(Q)[f[b]] = a[b]
  BY <1>5 DEF Seconds
<1>8. \A b \in Buckets : a[b] \in Int /\ (b \notin H => a[b] = 0)
  BY <1>1 DEF CountsOf
<1> HIDE DEF f, H, a
<1>9. IsFiniteSet(Q) /\ SumOver(Seconds(Q), Q) = SumOver(a, H)
  <2> DEFINE g == Seconds(Q)
  <2>1. \A b \in H : a[b] \in Int /\ g[f[b]] = a[b]
    BY <1>5, <1>7
  <2> HIDE DEF g
  <2>2. IsFiniteSet({f[b] : b \in H}) /\ SumOver(g, {f[b] : b \in H}) = SumOver(a, H)
    BY <1>4, <1>6, <2>1, SumImage
  <2> QED
    BY <2>2 DEF g
<1>10. SumOver(a, Buckets) = SumOver(a, H)
  BY <1>4, <1>8, BucketsFinite, SumRestrict
<1> HIDE DEF Q
<1> QED
  BY <1>3, <1>9, <1>10, SecondsIs DEF a

(* The flows that Query reports, in a table whose rows are longer than the *)
(* chain it searches, share out the packets that came: each bucket is      *)
(* reported once, for its flow, and all together no more than the stream,  *)
(* whoever inherited whose count.                                          *)
THEOREM ReportsShareStream == Spec => []ReportsWithinStream
<1>1. Init => Within
  <2> SUFFICES ASSUME Init PROVE SumOver(CountsOf(counts, Buckets), Buckets) <= sum
    BY DEF Within
  <2>1. \A b \in Buckets : CountsOf(counts, Buckets)[b] = 0
    BY DEF Init, Empty, CountsOf
  <2>2. SumOver(CountsOf(counts, Buckets), Buckets) = 0
    BY <2>1, BucketsFinite, SumZero
  <2> QED
    BY <2>2 DEF Init
<1>2. IInv /\ Within => ReportsWithinStream
  BY ReportsBuckets, CountsIs, BucketsFinite DEF Within, ReportsWithinStream
<1> QED
  BY <1>1, <1>2, InitIInv, StepIInv, StepWithin, PTL DEF Spec

(* What a point query adds up in each row: the home, and the bucket after  *)
(* it when another bucket of the table holds x.                            *)
InHome(x) == [i \in Rows |-> Part(counts[Probe(x, i)], x)]

Extra(x, i) == IF counts[Flat(i)].key = x THEN counts[Cell(Probe(x, i), 1)].count ELSE 0

InRow(x) == [i \in Rows |-> Part(counts[Probe(x, i)], x) + Extra(x, i)]

LEMMA LowIs ==
  ASSUME NEW x
  PROVE  Low_estimate(x) = SumOver(InRow(x), Rows)
<1> DEFINE a == InRow(x)
           L(j) == (IF counts[Probe(x, j)].key = x THEN counts[Probe(x, j)].count ELSE 0)
                   + (IF counts[Flat(j)].key = x THEN counts[Cell(Probe(x, j), 1)].count ELSE 0)
           E(h) == [s \in SUBSET Rows |->
                      IF s = {} THEN 0
                      ELSE L(CHOOSE j \in s : TRUE) + h[s \ {CHOOSE j \in s : TRUE}]]
           i == CHOOSE h : h = E(h)
<1>1. PICK g : SumsOf(g, a, SUBSET Rows)
  BY PlacesFinite, SumsExist
<1>2. ASSUME NEW s \in SUBSET Rows, s # {}
      PROVE  a[Pick(s)] = L(Pick(s))
  <2>1. Pick(s) \in Rows
    BY <1>2, PickIn
  <2> QED
    BY <2>1 DEF InRow, Extra, Part
<1>3. \A h : SumsOf(h, a, SUBSET Rows) <=> h = E(h)
  <2> HIDE DEF a, L
  <2> QED
    BY <1>2 DEF SumsOf, Pick
<1>4. i = E(i)
  <2> HIDE DEF E
  <2> QED
    BY <1>1, <1>3
<1>5. Low_estimate(x) = i[Rows]
  BY DEF Low_estimate, MapThenSumSet, MapThenFoldSet
<1> HIDE DEF i, E
<1>6. SumsOf(i, a, SUBSET Rows)
  BY <1>3, <1>4
<1>7. PICK h : SumsOf(h, a, SUBSET Rows) /\ SumOver(a, Rows) = h[Rows]
  BY <1>6, SumOverIs
<1>8. i[Rows] = h[Rows]
  <2> HIDE DEF a
  <2> QED
    BY <1>6, <1>7, PlacesFinite, SumsUnique
<1> QED
  BY <1>5, <1>7, <1>8

(* The homes together hold all that the table counts for the flow.         *)
LEMMA HomesHold ==
  ASSUME IInv, ZeroKey \notin seen, NEW x \in Keys
  PROVE  SumOver(InHome(x), Rows) = EstIn(counts, x)
<1> DEFINE a == InHome(x)
<1>1. \A i \in Rows : /\ Probe(x, i) \in Buckets /\ Probe(x, i)[1] = i
                      /\ a[i] = Part(counts[Probe(x, i)], x) /\ a[i] \in Int
  BY ProbeInTable DEF IInv, TypeOK, InHome, Part
<1> HIDE DEF a
<1>2. CASE /\ EstIn(counts, x) = 0
           /\ \A b \in Buckets : Part(counts[b], x) = 0
  <2>1. \A i \in Rows : a[i] = 0
    BY <1>1, <1>2
  <2> QED
    BY <1>2, <2>1, PlacesFinite, SumZero DEF a
<1>3. ASSUME NEW i \in Rows,
             EstIn(counts, x) = Part(counts[Probe(x, i)], x),
             \A b \in Buckets \ {Probe(x, i)} : Part(counts[b], x) = 0
      PROVE  SumOver(a, Rows) = EstIn(counts, x)
  <2>1. \A j \in Rows \ {i} : a[j] = 0
    BY <1>1, <1>3
  <2>2. SumOver(a, Rows) = a[i]
    BY <1>1, <2>1, PlacesFinite, SumOnly
  <2> QED
    BY <1>1, <1>3, <2>2
<1> QED
  BY <1>2, <1>3, Single DEF a

(* What a point query answers agrees with what Query reports, except that  *)
(* a flow held in one of the first Depth buckets of the table also gets    *)
(* the count of the bucket behind a home of its own.                       *)
THEOREM PointQueriesAgree == Spec => []PointQueryAgrees
<1>1. ASSUME IInv, Width > 3, ZeroKey \notin seen, NEW x \in Keys
      PROVE  /\ Low_estimate(x) >= Estimate(x)
             /\ (\A i \in Rows : counts[Flat(i)].key # x) => Low_estimate(x) = Estimate(x)
  <2> DEFINE a == InHome(x)
             c == InRow(x)
             z == [i \in Rows |-> 0]
  <2>1. \A i \in Rows : /\ a[i] \in Nat /\ Extra(x, i) \in Nat
                        /\ c[i] = a[i] + Extra(x, i)
                        /\ z[i] = 0
    <3>1. \A i \in Rows : Probe(x, i) \in Buckets /\ Cell(Probe(x, i), 1) \in Buckets
      BY <1>1, ProbeInTable, CellInTable DEF IInv
    <3>2. \A b \in Buckets : counts[b].count \in Nat
      BY <1>1 DEF IInv, TypeOK
    <3> QED
      BY <3>1, <3>2 DEF InHome, InRow, Extra, Part
  <2>2. Estimate(x) = SumOver(a, Rows) /\ Low_estimate(x) = SumOver(c, Rows)
    BY <1>1, EstimateFinds, HomesHold, LowIs
  <2>3. (\A i \in Rows : counts[Flat(i)].key # x) => \A i \in Rows : Extra(x, i) = 0
    BY DEF Extra
  <2> HIDE DEF a, c, z
  <2>4. \A i \in Rows : /\ a[i] \in Nat /\ c[i] \in Nat /\ z[i] \in Nat
                        /\ a[i] <= c[i] + z[i]
    BY <2>1
  <2>5. SumOver(a, Rows) <= SumOver(c, Rows) + SumOver(z, Rows)
    BY <2>4, PlacesFinite, SumAtMost
  <2>6. SumOver(z, Rows) = 0
    BY <2>1, PlacesFinite, SumZero
  <2>7. SumOver(a, Rows) \in Nat /\ SumOver(c, Rows) \in Nat
    BY <2>4, PlacesFinite, SumNat
  <2>8. (\A i \in Rows : Extra(x, i) = 0) => SumOver(a, Rows) = SumOver(c, Rows)
    <3>1. (\A i \in Rows : Extra(x, i) = 0) => \A i \in Rows : a[i] = c[i]
      BY <2>1
    <3> QED
      BY <3>1, PlacesFinite, SumSame
  <2> QED
    BY <2>2, <2>3, <2>5, <2>6, <2>7, <2>8
<1>2. IInv => PointQueryAgrees
  BY <1>1 DEF PointQueryAgrees
<1> QED
  BY <1>2, InitIInv, StepIInv, PTL DEF Spec
=============================================================================
